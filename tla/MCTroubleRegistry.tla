-------------------------- MODULE MCTroubleRegistry --------------------------
\* Two statuses in different words of the bitset, one of them at two levels.
EXTENDS TroubleRegistry, TLC

MCWords == {{"overheat"}, {"undervoltage"}}
MCRange == [s \in {"overheat", "undervoltage"} |->
              IF s = "overheat" THEN 0 .. 1 ELSE 1 .. 1]

WriterSymmetry == Permutations(Writers)
=============================================================================
