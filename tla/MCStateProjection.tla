------------------------- MODULE MCStateProjection -------------------------
(* Service instances of the tasks for TLC.                                 *)
EXTENDS StateProjection

CONSTANTS a, b

OneInstance == [t \in Tasks |-> a]
JobApart == [t \in Tasks |-> IF t \in Callers THEN a ELSE b]

=============================================================================
