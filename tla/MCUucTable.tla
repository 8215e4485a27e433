----------------------------- MODULE MCUucTable -----------------------------
(***************************************************************************)
(* Four keys that share nodes at some capacities and not at others: k1, k2 *)
(* and k3 at capacities 2 and 4, k1 and k2 at 6, k1 and k3 at 8, none at   *)
(* 24, and k4 with none of them.                                           *)
(***************************************************************************)
EXTENDS UucTable, TLC

CONSTANTS k1, k2, k3, k4

MCHash == (k1 :> 0) @@ (k2 :> 12) @@ (k3 :> 8) @@ (k4 :> 25)
=============================================================================
