-------------------------- MODULE ConvergenceGuard --------------------------
(***************************************************************************)
(* The counters of orchestration/convergence_guard.py for one event, as     *)
(* operators on a ConvergenceState record, for the tool_call steps that the *)
(* tool executor records.                                                   *)
(***************************************************************************)
EXTENDS Naturals, Sequences

CONSTANTS
    GlobalMaxSteps,        \* GLOBAL_MAX_STEPS
    MaxDuplicateToolCalls, \* MAX_DUPLICATE_TOOL_CALLS
    MaxOscillation         \* MAX_OSCILLATION

ASSUME GuardConstants ==
    /\ GlobalMaxSteps \in Nat
    /\ MaxDuplicateToolCalls \in Nat
    /\ MaxOscillation \in Nat \ {0}

NewState(Sigs) ==
    [total |-> 0, dup |-> [s \in Sigs |-> 0], recent |-> <<>>]

\* _RECENT_ACTIONS_MAXLEN
MaxRecent == 2 * MaxOscillation + 2

LastOf(seq, n) == SubSeq(seq, IF Len(seq) > n THEN Len(seq) - n + 1 ELSE 1, Len(seq))

RecordStep(g, s) ==
    [total  |-> g.total + 1,
     dup    |-> [g.dup EXCEPT ![s] = @ + 1],
     recent |-> LastOf(Append(g.recent, s), MaxRecent)]

\* _detect_oscillation: the tail alternates between two labels.
Oscillates(seq) ==
    LET w == 2 * MaxOscillation
        tail == LastOf(seq, w)
    IN  /\ Len(seq) >= w
        /\ tail[1] # tail[2]
        /\ \A i \in 1..w : tail[i] = tail[IF i % 2 = 1 THEN 1 ELSE 2]

ShouldStop(g) ==
    \/ g.total >= GlobalMaxSteps
    \/ \E s \in DOMAIN g.dup : g.dup[s] > MaxDuplicateToolCalls
    \/ Oscillates(g.recent)

=============================================================================
