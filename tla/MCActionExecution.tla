------------------------- MODULE MCActionExecution -------------------------
(* Instances of ActionExecution for TLC.                                   *)
EXTENDS ActionExecution, TLC

CONSTANTS a1, a2, k1, w1, w2

OneKey == a1 :> k1 @@ a2 :> k1

Symm == Permutations(Actions) \cup Permutations(Workers)

=============================================================================
