--------------------------- MODULE UucActivations ---------------------------
(***************************************************************************)
(* What calling a function promises: every activation of a function has    *)
(* slots of its own.  A running activation works on its own slots only; a  *)
(* call hands its last slots to the callee, as the callee's first; and a   *)
(* return leaves the caller exactly the slots it kept, and the result.     *)
(***************************************************************************)
EXTENDS Sequences, SequencesExt, Naturals

CONSTANT Arity     \* program -> function -> how many parameters it has

VARIABLES prog,      \* the program that runs
          acts,      \* the activations, main's first: [fn, slots]
          running

vars == <<prog, acts, running>>

Running == Last(acts).slots

Init ==
  /\ prog \in DOMAIN Arity
  /\ acts = <<[fn |-> "main", slots |-> <<>>]>>
  /\ running = TRUE

\* Any instruction that neither calls nor returns, the last one included.
Work ==
  /\ running
  /\ Len(acts') = Len(acts)
  /\ Front(acts') = Front(acts)
  /\ Last(acts').fn = Last(acts).fn

Call ==
  /\ running /\ running'
  /\ Running # <<>>
  /\ LET callee == Last(Running)
         rest   == Front(Running)
         kept   == Len(rest) - Arity[prog][callee.fn]
     IN  /\ callee.type = "function" /\ kept >= 0
         /\ acts' = Append(Front(acts) \o
                             <<[fn |-> Last(acts).fn, slots |-> SubSeq(rest, 1, kept)]>>,
                           [fn |-> callee.fn, slots |-> SubSeq(rest, kept + 1, Len(rest))])

Return ==
  /\ running /\ running'
  /\ Len(acts) > 1 /\ Running # <<>>
  /\ LET caller == acts[Len(acts) - 1]
     IN  acts' = Append(SubSeq(acts, 1, Len(acts) - 2),
                        [caller EXCEPT !.slots = Append(@, Last(Running))])

Next == (Work \/ Call \/ Return) /\ UNCHANGED prog

Spec == Init /\ [][Next]_vars
=============================================================================
