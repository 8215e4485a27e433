----------------------------- MODULE UucProgram -----------------------------
(***************************************************************************)
(* A program from its text to its end, as run_vm_test_case takes it: the   *)
(* text is compiled, the machine gets main, runs it, and the globals and   *)
(* the stack are looked at.  The compiler and the machine are the modules  *)
(* of their own; the function main and those it reaches are what one hands *)
(* over to the other.                                                      *)
(***************************************************************************)
EXTENDS Sequences, SequencesExt, FiniteSets, UucLiterals

CONSTANTS Texts, Identifiers, MaxEntries, SliceCapacity,        \* of the compiler
          Keys, Hash, MinCapacity, ShrinkFloor, InitCapacity,   \* of the table
          MaxCallFrames, StackCapacity,                         \* of the machine
          Labels          \* names for the functions of a text, main's first

\* The tokens of a text: none is the name of the type of others.
ASSUME TokensAssumption ==
  /\ \A t \in Texts : t \in Seq(Range(t)) /\ {"identifier", "integer"} \cap Range(t) = {}
  /\ Identifiers \subseteq Keys
  /\ SliceCapacity \in Nat \ {0}

ASSUME LabelsAssumption ==
  /\ Labels \in Seq(Range(Labels)) /\ Labels # <<>>
  /\ IsInjective(Labels)
  /\ Labels[1] = "main"

ASSUME MachineAssumption ==
  /\ IsFiniteSet(Keys) /\ Hash \in [Keys -> Nat]
  /\ MinCapacity \in Nat \ {0} /\ ShrinkFloor \in Nat /\ InitCapacity \in Nat \ {0}
  /\ MaxCallFrames \in Nat \ {0} /\ StackCapacity \in Nat \ {0}

VARIABLES text, context, work, status,      \* the compiler
          prog, stack, frames, globals, run \* the machine; run is its status, or "idle"

compiler == <<text, context, work, status>>
machine  == <<prog, stack, frames, globals, run>>
vars     == <<compiler, machine>>

-----------------------------------------------------------------------------
(***************************************************************************)
(* What the compiler hands over: the functions of a text, in the order     *)
(* they were begun, main first.  A function is a label to the machine and  *)
(* a pointer in the code.  A text has no more functions than there are     *)
(* labels: the bound of this module.                                       *)
(***************************************************************************)
LabelsOf(n) == {Labels[i] : i \in 1 .. n}

Byte == 0 .. 255

\* A function of a program of n functions.
FunctionOf(n) ==
  [arity: Byte, code: Seq(Byte), constants: Seq(ValuesOver(LabelsOf(n) \ {"main"})), names: Seq(Keys)]

Linkable ==
  {p \in Seq(FunctionOf(Len(Labels))) :
     /\ Len(p) \in DOMAIN Labels
     /\ p[1].arity = 0
     /\ \A i \in DOMAIN p : p[i] \in FunctionOf(Len(p))}

\* The value of a constant; an integer's is what strtol makes of the token.
Constant(c) ==
  IF c.type = "integer" THEN IntVal(IntegerValue[c.token])
  ELSE IF c.type = "function" THEN FunVal(Labels[c.fn])
  ELSE [type |-> c.type]

\* Of the slice of a function, what the machine reads.
Link(fun) ==
  [arity |-> fun.arity, code |-> fun.code, names |-> fun.names,
   constants |-> [k \in DOMAIN fun.constants |-> Constant(fun.constants[k])]]

Linked(functions) == [i \in DOMAIN functions |-> Link(functions[i])]

NoProgram == Linked(<<[arity |-> 0, code |-> <<>>, constants |-> <<>>, names |-> <<>>]>>)

At(label) == CHOOSE i \in DOMAIN Labels : Labels[i] = label

\* What the machine takes for a program.
Labelled(p) == [label \in LabelsOf(Len(p)) |-> p[At(label)]]

\* The modules with their proofs, so that what is proved of each can be used here.
Compiler == INSTANCE UucCompilerProofs WITH Names <- Identifiers, Sources <- {}, MaxHeight <- 0
Machine  == INSTANCE UucVMProofs WITH Programs <- [p \in Linkable |-> Labelled(p)], status <- run

-----------------------------------------------------------------------------
Init ==
  /\ Compiler!Init
  /\ prog = NoProgram
  /\ stack = Machine!EmptyStack
  /\ frames = <<[fn |-> "main", ii |-> 0, offset |-> 0]>>
  /\ globals = Machine!EmptyTable(InitCapacity)
  /\ run = "idle"

Compile == Compiler!Step /\ UNCHANGED machine

Accepted == status = "done" /\ ~ context.error /\ Len(context.functions) <= Len(Labels)

\* uuc_vm_init with the main of a text that was accepted
Load ==
  /\ Accepted
  /\ run = "idle"
  /\ prog' = Linked(context.functions)
  /\ run' = "ok"
  /\ UNCHANGED <<compiler, stack, frames, globals>>

Run == Machine!Tick /\ UNCHANGED compiler

\* The text was not accepted, or uuc_vm_run returned.
Over    == status # "ok" /\ run # "ok" /\ (run = "idle" => ~ Accepted)
Stopped == Over /\ UNCHANGED vars

Next == Compile \/ Load \/ Run \/ Stopped

\* One thread does all this, and nothing else.
Spec == Init /\ [][Next]_vars /\ WF_vars(Compile \/ Load \/ Run)

-----------------------------------------------------------------------------
(***************************************************************************)
(* Types.  What runs is the program compiled, and it is what the machine   *)
(* takes for granted: functions of bytes, whose constants are values and,  *)
(* where they are functions, other functions of the program than main.     *)
(***************************************************************************)
TypeOK == run # "idle" => Accepted /\ prog = Linked(context.functions) /\ Machine!TypeOK
=============================================================================
