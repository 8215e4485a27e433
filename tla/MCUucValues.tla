---------------------------- MODULE MCUucValues -----------------------------
EXTENDS UucValues

MCSlotValues == {IntVal(1), BoolVal(TRUE)}
=============================================================================
