---------------------------- MODULE UucStackMap -----------------------------
(***************************************************************************)
(* The machine on programs whose operand stack can be accounted for: every *)
(* function has a stack map.                                               *)
(***************************************************************************)
EXTENDS UucVM, UucHeights

CONSTANT Heights    \* program -> function -> ii -> slots of the function

ASSUME StackMapAssumption ==
  /\ MaxHeight \in Nat
  /\ MaxHeight * MaxCallFrames < WordMod
  /\ \A p \in DOMAIN Programs : \A f \in DOMAIN Programs[p] :
       FunctionFits(f, Programs[p][f], Heights[p][f])

-----------------------------------------------------------------------------
(***************************************************************************)
(* OP_CALL ignores the number of arguments passed, so what a map can say   *)
(* is said of runs in which every call passes as many as are declared.     *)
(***************************************************************************)
CallsMatch ==
  LET callee == StackPeek(stack)
  IN  Executes({OP_CALL}) /\ callee.type = "function"
        => Operand = Programs[prog][callee.fn].arity

MatchedTick == CallsMatch /\ Tick
MatchedNext == MatchedTick \/ Stopped
MatchedSpec == Init /\ [][MatchedNext]_vars /\ WF_vars(MatchedTick)

\* The slots frame i has on the stack, by the map, when it is about to run.
Height(i) == Heights[prog][frames[i].fn][frames[i].ii]

(***************************************************************************)
(* Stack discipline.  While the machine runs, and where it ends, each      *)
(* frame's window starts where its caller's window stops (a caller that    *)
(* waits is short of the slot its call will leave), the last window stops  *)
(* at the top of the stack, and each is as high as the map says.  This is  *)
(* what makes stack_offset + index the local variable the compiler meant,  *)
(* whatever the interleaving of calls, returns, jumps and blocks.          *)
(***************************************************************************)
Discipline ==
  status \in {"ok", "end"} =>
    /\ frames # <<>>
    /\ frames[1].fn = "main" /\ frames[1].offset = 0
    /\ \A i \in 2 .. Len(frames) : frames[i].fn # "main"
    /\ \A i \in 1 .. Len(frames) : frames[i].ii \in DOMAIN Heights[prog][frames[i].fn]
    /\ \A i \in 1 .. Len(frames) - 1 :
         frames[i + 1].offset + 1 = frames[i].offset + Height(i)
    /\ stack.size = Top.offset + Height(Len(frames))

(***************************************************************************)
(* A run ends when main has reached the end of its code, and not before;   *)
(* no list or stack index is ever out of range, and the one way to leave   *)
(* the machine's arrays is a call with no room for another frame.          *)
(***************************************************************************)
Outcome ==
  /\ status # "exit"
  /\ status = "wild" => Len(frames) = MaxCallFrames
  /\ status = "end" => Len(frames) = 1 /\ Top.ii = Len(Code)
  /\ status = "ok" => Top.ii < Len(Code)

(***************************************************************************)
(* The machine implements UucActivations: frame i's activation has the     *)
(* slots from its offset to the next frame's, or to the top.  A callee     *)
(* thus sees its arguments and its own values, and can neither read nor    *)
(* change a slot its caller kept.                                          *)
(***************************************************************************)
WindowEnd(i) == IF i = Len(frames) THEN stack.size ELSE frames[i + 1].offset

Activation(i) ==
  [fn |-> frames[i].fn, slots |-> SubSeq(stack.mem, frames[i].offset + 1, WindowEnd(i))]

Arities == [p \in DOMAIN Programs |-> [f \in DOMAIN Programs[p] |-> Programs[p][f].arity]]

Activations ==
  INSTANCE UucActivations WITH
    acts <- [i \in 1 .. Len(frames) |-> Activation(i)],
    running <- status = "ok",
    Arity <- Arities

PrivateSlots == Activations!Spec

\* Every run stops (of programs that do not loop by themselves).
Termination == <>(status # "ok")
=============================================================================
