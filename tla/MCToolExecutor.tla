--------------------------- MODULE MCToolExecutor ---------------------------
(* Instances of ToolExecutor for TLC.                                      *)
EXTENDS ToolExecutor

CONSTANTS c1, c2, c3, c4, s1, s2

\* The side effect c1 and the query c2 have a signature each; the other queries
\* repeat c2.
Repeats == [c \in Calls |-> IF c = c1 THEN s1 ELSE s2]

=============================================================================
