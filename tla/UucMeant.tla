------------------------------ MODULE UucMeant ------------------------------
(***************************************************************************)
(* Programs given as trees, compiled from their texts and run, against     *)
(* what the trees mean.                                                    *)
(***************************************************************************)
EXTENDS UucProgram, UucMeaning

CONSTANT Trees    \* the programs

ASSUME TreesAssumption == Texts = {TextOf(t) : t \in Trees}

VARIABLE tree     \* the program

MeantInit == tree \in Trees /\ text = TextOf(tree) /\ Init
MeantNext == Next /\ UNCHANGED tree
MeantSpec == MeantInit /\ [][MeantNext]_<<tree, vars>> /\ WF_vars(Compile \/ Load \/ Run)

-----------------------------------------------------------------------------
\* A function is a tree to one and code to the other.
Shown(v) == IF v.type = "function" THEN [type |-> "function"] ELSE v

Globals == [k \in {k \in Keys : Machine!Stored(globals, k)} |->
              Shown(Machine!StoredAt(globals, k))]

(***************************************************************************)
(* A program ends or fails as its tree does, and leaves the globals the    *)
(* tree leaves and, at its end, nothing on the stack: the locals, jumps,   *)
(* calls and operands of the compiler's code do in the machine what the    *)
(* blocks, loops, functions and expressions say.  This is what each test   *)
(* of test_vm.c asks for one global of one text.                           *)
(***************************************************************************)
AsMeant ==
  run \notin {"idle", "ok"} =>
    LET meant == Meaning(tree)
    IN  /\ run = IF meant.go = "error" THEN "error" ELSE "end"
        /\ Globals = [n \in DOMAIN meant.globals |-> Shown(meant.globals[n])]
        /\ run = "end" => stack.size = 0

(***************************************************************************)
(* Every program that its tree ends is accepted, loaded and run to an end. *)
(***************************************************************************)
Finishes == <>(run \in {"end", "error"})
=============================================================================
