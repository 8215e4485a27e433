------------------------------ MODULE MCUucVM -------------------------------
EXTENDS UucVM, MCUucPrograms

MCKeys == DOMAIN NameHash

AllPrograms == [p \in DOMAIN WellStacked \cup DOMAIN IllStacked |->
                  IF p \in DOMAIN WellStacked THEN WellStacked[p] ELSE IllStacked[p]]
=============================================================================
