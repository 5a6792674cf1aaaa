------------------------ MODULE MCInvestigationIntent ------------------------
(* Instances of InvestigationIntent for TLC.                               *)
EXTENDS InvestigationIntent, TLC

CONSTANTS i1, i2, d1, d2, w1, w2

Symm == Permutations(Workers) \cup Permutations(Dispatchers)

=============================================================================
