---------------------------- MODULE UucVMClaims -----------------------------
(***************************************************************************)
(* What comments, messages and tests of the repository say of the virtual  *)
(* machine and what the machine does not do.  Each claim is refuted by a   *)
(* run of its own on programs that the compiler accepts.                   *)
(***************************************************************************)
EXTENDS UucVM

(***************************************************************************)
(* "if ok and in main and last instruction return END" (uuc_vm.c:241): the *)
(* program ends exactly when main is left with no instruction to execute.  *)
(***************************************************************************)
EndsAtLastInstruction ==
  [][status' \in {"ok", "end"} =>
       (status' = "end" <=> Len(frames') = 1 /\ PastEnd(Top.ii)')]_vars

(***************************************************************************)
(* "next index", "next next index byte" (uuc_vm.c:89-90): OP_CONSTANT_16   *)
(* takes its index from the two bytes that follow it.                      *)
(***************************************************************************)
IndexFromBytes ==
  [][Constant16 /\ status' = "ok" => StackPeek(stack') = Fn.constants[Operand16 + 1]]_vars
=============================================================================
