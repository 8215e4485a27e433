--------------------------- MODULE MCUucStackMap ----------------------------
EXTENDS UucStackMap, MCUucPrograms

MCKeys == DOMAIN NameHash

\* The stack maps of WellStacked, inferred.
MCHeights == [p \in DOMAIN WellStacked |->
               [f \in DOMAIN WellStacked[p] |-> StackMap(WellStacked[p][f])]]
=============================================================================
