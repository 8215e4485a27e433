------------------------------- MODULE UucMap -------------------------------
(***************************************************************************)
(* What uuc_val_table.h promises: a finite map from keys to values.  ret   *)
(* is the result of the last call, and the value a get found.              *)
(***************************************************************************)
CONSTANTS Keys, TableValues

VARIABLES map, ret

vars == <<map, ret>>

Init == map = [k \in {} |-> 0] /\ ret = [call |-> "init"]

Get(k) ==
  /\ ret' = IF k \in DOMAIN map THEN [call |-> "get", key |-> k, is |-> 1, value |-> map[k]]
                                ELSE [call |-> "get", key |-> k, is |-> 0]
  /\ UNCHANGED map

Put(k, v) ==
  /\ map' = [j \in DOMAIN map \cup {k} |-> IF j = k THEN v ELSE map[j]]
  /\ ret' = [call |-> "put", key |-> k, is |-> IF k \in DOMAIN map THEN 1 ELSE 0]

Remove(k) ==
  /\ map' = [j \in DOMAIN map \ {k} |-> map[j]]
  /\ ret' = [call |-> "remove", key |-> k, is |-> IF k \in DOMAIN map THEN 1 ELSE 0]

Next == \E k \in Keys : Get(k) \/ Remove(k) \/ \E v \in TableValues : Put(k, v)

Spec == Init /\ [][Next]_vars
=============================================================================
