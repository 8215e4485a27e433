---------------------------- MODULE UucLiterals -----------------------------
(***************************************************************************)
(* The integers of a text: strtol gives a token the integer it denotes.    *)
(***************************************************************************)
EXTENDS UucValueOps

CONSTANTS Integers,        \* the tokens that are integers
          IntegerValue     \* an integer token -> the integer it denotes

ASSUME IntegersAssumption == IntegerValue \in [Integers -> Int]
=============================================================================
