------------------------------ MODULE UucSlice ------------------------------
(***************************************************************************)
(* A Slice, the growing array of bytes the compiler emits a function's     *)
(* code into.  What the bytes are does not matter here, only how many of   *)
(* them there is room for: slice_size and slice_capacity are the fields    *)
(* size and capacity, allocated is what codes was last (re)allocated to.   *)
(* Of the list of constants only the length counts, and the list of names, *)
(* which no byte depends on, is left out: the lists are Values, of which   *)
(* head always fits capacity.  slice_status is "ok", "exit" (exit(1) was   *)
(* called) or "wild" (a byte was written past the end of codes).           *)
(***************************************************************************)
EXTENDS Integers

CONSTANTS SliceCapacity,  \* 8: uuc_create_function
          ByteMax,        \* UINT8_MAX (smaller in a run)
          ShortMax,       \* UINT16_MAX (smaller in a run)
          MaxCode         \* a run emits no code beyond this

ASSUME SliceAssumption ==
  /\ SliceCapacity \in Nat /\ SliceCapacity > 3
  /\ ByteMax \in Nat /\ ShortMax \in Nat /\ ByteMax <= ShortMax
  /\ MaxCode \in Nat

VARIABLES slice_size, slice_capacity, allocated, constants,
          since,     \* history: bytes pushed one by one since the last constant that fitted
          slice_status

slice == <<slice_size, slice_capacity, allocated, constants, since, slice_status>>

SliceInit ==
  /\ slice_size = 0
  /\ slice_capacity = SliceCapacity /\ allocated = SliceCapacity
  /\ constants = 0
  /\ since = 0
  /\ slice_status = "ok"

\* n bytes are written at slice_size, one after the other.
Emit(n) ==
  /\ slice_size' = slice_size + n
  /\ slice_status' = IF slice_size + n <= allocated' THEN "ok" ELSE "wild"

\* Mutant of PushCode: room is made one byte too late.
PushCodeLate ==
  /\ slice_status = "ok" /\ slice_size < MaxCode
  /\ allocated' = IF slice_size > slice_capacity THEN 2 * slice_capacity ELSE allocated
  /\ Emit(1)
  /\ since' = since + 1
  /\ UNCHANGED <<slice_capacity, constants>>

\* slice_push_code: codes grows, capacity does not.
PushCode ==
  /\ slice_status = "ok" /\ slice_size < MaxCode
  /\ allocated' = IF slice_size = slice_capacity THEN 2 * slice_capacity ELSE allocated
  /\ Emit(1)
  /\ since' = since + 1
  /\ UNCHANGED <<slice_capacity, constants>>

\* Mutant of GrowForConstant: capacity grows, codes does not.
GrowCapacityOnly ==
  IF slice_size + 3 >= slice_capacity
    THEN slice_capacity' = 2 * slice_capacity /\ UNCHANGED allocated
    ELSE UNCHANGED <<allocated, slice_capacity>>

GrowForConstant ==
  IF slice_size + 3 >= slice_capacity
    THEN slice_capacity' = 2 * slice_capacity /\ allocated' = 2 * slice_capacity
    ELSE UNCHANGED <<allocated, slice_capacity>>

(***************************************************************************)
(* slice_push_constant: room is made for the three bytes of the longer     *)
(* instruction before the index tells which of the two it is.              *)
(***************************************************************************)
PushConstant ==
  /\ slice_status = "ok" /\ slice_size < MaxCode
  /\ constants' = constants + 1
  /\ GrowForConstant
  /\ IF constants > ShortMax
       THEN slice_status' = "exit" /\ UNCHANGED slice_size
       ELSE Emit(IF constants <= ByteMax THEN 2 ELSE 3)
  /\ since' = IF slice_status' = "wild" THEN since ELSE 0

SliceStopped == (slice_status # "ok" \/ slice_size >= MaxCode) /\ UNCHANGED slice

SliceNext == PushCode \/ PushConstant \/ SliceStopped

SliceSpec == SliceInit /\ [][SliceNext]_slice

-----------------------------------------------------------------------------
\* Type invariant; codes is as large as capacity says, or twice as large.
SliceTypeOK ==
  /\ slice_size \in Nat /\ constants \in Nat /\ since \in Nat
  /\ slice_capacity \in Nat \ {0} /\ allocated \in {slice_capacity, 2 * slice_capacity}
  /\ slice_status \in {"ok", "exit", "wild"}

(***************************************************************************)
(* Where slice_push_code does and does not write past codes.  It grows     *)
(* codes once and leaves capacity as it was, so a second overflow goes     *)
(* unnoticed, and only the next constant makes up for it.  Hence codes is  *)
(* overrun by nothing but a long run of bytes without a constant: when it  *)
(* happens, by a byte or by a constant, at least half as many such bytes   *)
(* as codes has room for, less two, were pushed since the last constant.   *)
(***************************************************************************)
OverrunByLongRun == slice_status = "wild" => 2 * (since + 2) >= allocated
=============================================================================
