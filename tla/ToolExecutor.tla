---------------------------- MODULE ToolExecutor ----------------------------
(***************************************************************************)
(* The tool executor's call loop (tools/executor.py) for the concurrent     *)
(* calls of one tool and one event in one process, with the tool's circuit  *)
(* breaker (tools/circuit_breaker.py) and the event's convergence guard     *)
(* (orchestration/convergence_guard.py).                                    *)
(*                                                                         *)
(* The calls are coroutines of one event loop: a call runs undisturbed from *)
(* one suspension to the next, and it is suspended in the provider and in   *)
(* the back-off before a retry.                                             *)
(***************************************************************************)
EXTENDS ConvergenceGuard, FiniteSets

CONSTANTS
    Calls,         \* executor calls
    SideEffects,   \* those whose call nature is SIDE_EFFECT
    Sigs, SigOf,   \* fingerprints of tool and parameters, and that of each call
    Threshold,     \* failure_threshold of the breaker
    MaxRetries     \* RetryPolicy.max_retries

ASSUME ExecutorConstants ==
    /\ SideEffects \subseteq Calls /\ IsFiniteSet(Calls)
    /\ SigOf \in [Calls -> Sigs]
    /\ Threshold \in Nat \ {0} /\ MaxRetries \in Nat

VARIABLES
    state, failures,  \* CircuitBreaker._state, _failure_count
    cooled,           \* recovery_timeout_s has passed since _opened_at
    probe,            \* _half_open_probe_in_flight
    guard,            \* ConvergenceState of the event
    pc,               \* "new", "sleep", "flight", "save", "done"
    attempt,          \* retries made by a call
    result,           \* what a call that is done returned
    dispatched,       \* history: times a call was handed to the provider
    probes            \* history: calls admitted since the breaker went HALF_OPEN

breaker == <<state, failures, cooled, probe, probes>>
vars == <<breaker, guard, pc, attempt, result, dispatched>>

Init ==
    /\ state = "closed" /\ failures = 0 /\ cooled = FALSE /\ probe = FALSE
    /\ guard = NewState(Sigs)
    /\ pc = [c \in Calls |-> "new"]
    /\ attempt = [c \in Calls |-> 0]
    /\ result = [c \in Calls |-> "none"]
    /\ dispatched = [c \in Calls |-> 0]
    /\ probes = {}

-----------------------------------------------------------------------------
(* CircuitBreaker                                                          *)

\* Mutant: a probe under way does not hold back the next one.
ProbeFreeAlways == TRUE

ProbeFree == ~probe

\* allow_request
Allowed ==
    \/ state = "closed"
    \/ state = "open" /\ cooled
    \/ state = "half_open" /\ ProbeFree

AllowRequest(c) ==
    /\ state' = IF state = "open" THEN "half_open" ELSE state
    /\ probe' = (IF state = "closed" THEN probe ELSE state = "half_open")
    /\ probes' = IF state = "closed" THEN probes ELSE probes \cup {c}
    /\ UNCHANGED <<failures, cooled>>

\* record_success
RecordSuccess ==
    /\ state' = "closed" /\ failures' = 0
    /\ cooled' = FALSE /\ probe' = FALSE /\ probes' = {}

\* record_failure: a failure in HALF_OPEN opens again; otherwise it is counted,
\* and opened_at is renewed at and above the threshold.
RecordFailure ==
    LET opens == state = "half_open" \/ failures + 1 >= Threshold IN
    /\ failures' = IF state = "half_open" THEN failures ELSE failures + 1
    /\ state' = IF opens THEN "open" ELSE state
    /\ cooled' = (cooled /\ ~opens)
    /\ probe' = FALSE
    /\ probes' = {}

-----------------------------------------------------------------------------
(* ToolExecutor.call                                                       *)

Finish(c, r) ==
    /\ pc' = [pc EXCEPT ![c] = "done"]
    /\ result' = [result EXCEPT ![c] = r]

\* record_step, allow_request, dispatch
Attempt(c) ==
    /\ guard' = RecordStep(guard, SigOf[c])
    /\ IF Allowed
       THEN /\ AllowRequest(c)
            /\ pc' = [pc EXCEPT ![c] = "flight"]
            /\ dispatched' = [dispatched EXCEPT ![c] = @ + 1]
            /\ UNCHANGED result
       ELSE Finish(c, "circuit_open") /\ UNCHANGED <<breaker, dispatched>>
    /\ UNCHANGED attempt

\* Mutant: the guard is not asked.
NeverStops == FALSE

Stops == ShouldStop(guard)

\* The first round of the loop runs from should_stop to the dispatch.
Begin(c) ==
    /\ pc[c] = "new"
    /\ IF Stops
       THEN Finish(c, "stopped") /\ UNCHANGED <<breaker, guard, attempt, dispatched>>
       ELSE Attempt(c)

\* Mutant: a retry waits for the breaker instead of giving up.
WakeWhenAllowed(c) == pc[c] = "sleep" /\ Allowed /\ Attempt(c)

\* A retry has asked should_stop before it slept.
Wake(c) == pc[c] = "sleep" /\ Attempt(c)

\* The provider answers.  A status that is neither a success nor one of the
\* listed failures (UNKNOWN, TIMEOUT, UNSUPPORTED, ...) is not recorded.  A side
\* effect whose result names a job goes on to write the job.
Answer(c, kind, job) ==
    /\ pc[c] = "flight"
    /\ \/ kind = "success" /\ RecordSuccess
       \/ kind = "failure" /\ RecordFailure
       \/ kind = "other" /\ UNCHANGED breaker
    /\ IF job /\ c \in SideEffects
       THEN pc' = [pc EXCEPT ![c] = "save"] /\ UNCHANGED result
       ELSE Finish(c, "answered")
    /\ UNCHANGED <<guard, attempt, dispatched>>

\* _cas_writeback_job returned
Saved(c) ==
    /\ pc[c] = "save"
    /\ Finish(c, "answered")
    /\ UNCHANGED <<breaker, guard, attempt, dispatched>>

\* Mutants: a dispatched side effect is retried like a query; retries are not
\* counted against the limit.
RetriesAnything(c) == attempt[c] < MaxRetries
\* _should_retry, once dispatch_started
ShouldRetry(c) == attempt[c] < MaxRetries /\ c \notin SideEffects

\* A time-out, or an exception of the provider or of the job write: the failure
\* is recorded, and the loop goes back to should_stop for another try or returns.
Throw(c, retryable) ==
    /\ pc[c] \in {"flight", "save"}
    /\ RecordFailure
    /\ IF retryable /\ ShouldRetry(c)
       THEN /\ IF Stops
               THEN Finish(c, "stopped")
               ELSE pc' = [pc EXCEPT ![c] = "sleep"] /\ UNCHANGED result
            /\ attempt' = [attempt EXCEPT ![c] = @ + 1]
       ELSE /\ Finish(c, IF c \in SideEffects THEN "unknown" ELSE "failed")
            /\ UNCHANGED attempt
    /\ UNCHANGED <<guard, dispatched>>

\* A soft time limit or a cancellation leaves the loop without a word to the
\* breaker.
Abandon(c) ==
    /\ pc[c] \in {"flight", "sleep", "save"}
    /\ Finish(c, "raised")
    /\ UNCHANGED <<breaker, guard, attempt, dispatched>>

\* recovery_timeout_s elapses
Cool ==
    /\ state = "open" /\ ~cooled
    /\ cooled' = TRUE
    /\ UNCHANGED <<state, failures, probe, probes, guard, pc, attempt, result, dispatched>>

Next ==
    \/ \E c \in Calls :
          \/ Begin(c) \/ Wake(c) \/ Saved(c) \/ Abandon(c)
          \/ \E kind \in {"success", "failure", "other"}, job \in BOOLEAN : Answer(c, kind, job)
          \/ \E retryable \in BOOLEAN : Throw(c, retryable)
    \/ Cool

Spec == Init /\ [][Next]_vars

\* wait_for bounds every dispatch, the back-off is finite and the job write
\* returns or throws.
FairSpec ==
    /\ Spec
    /\ \A c \in Calls : WF_vars(Wake(c) \/ Throw(c, TRUE))

-----------------------------------------------------------------------------
(* Properties                                                              *)

\* Every column of the breaker, the guard and the calls has its type.
TypeOK ==
    /\ state \in {"closed", "open", "half_open"} /\ failures \in Nat
    /\ cooled \in BOOLEAN /\ probe \in BOOLEAN
    /\ guard.total \in Nat /\ guard.dup \in [Sigs -> Nat]
    /\ guard.recent \in Seq(Sigs) /\ Len(guard.recent) <= MaxRecent
    /\ pc \in [Calls -> {"new", "sleep", "flight", "save", "done"}]
    /\ attempt \in [Calls -> 0..MaxRetries]
    /\ result \in [Calls -> {"none", "stopped", "circuit_open", "answered",
                             "unknown", "failed", "raised"}]
    /\ dispatched \in [Calls -> Nat]
    /\ probes \subseteq Calls

\* While the breaker is HALF_OPEN it has admitted at most two calls: the one
\* that found the recovery time over and one more (allow_request).
ProbesBounded == state = "half_open" => Cardinality(probes) <= 2

\* While the breaker is HALF_OPEN it has admitted a single probe, as the comment
\* in allow_request says.
\* The code does not keep this (README, disagreements).
SingleProbe == state = "half_open" => Cardinality(probes) <= 1

\* The breaker holds calls back for a probe only while an admitted call is under
\* way (_half_open_probe_in_flight): a probe that ends without being recorded
\* must not leave the flag set.
\* The code does not keep this (README, disagreements).
ProbeIsInFlight ==
    state = "half_open" /\ probe => \E c \in probes : pc[c] \in {"flight", "save"}

\* A side effect that the executor reports as refused (guard stop, circuit open)
\* never reached the provider, and one that did reach it is never reported
\* FAILED by the executor itself: the caller may treat FAILED as not done
\* (the except branches and _should_retry of ToolExecutor.call).
RefusedMeansNotDispatched ==
    \A c \in SideEffects :
        /\ result[c] \in {"stopped", "circuit_open"} => dispatched[c] = 0
        /\ result[c] # "failed"

\* The caps on steps and on repetitions of one signature are overrun by no more
\* than one attempt of each query: should_stop comes before the back-off and
\* record_step after it, so only retries asleep when a cap was reached get past.
CapsHold ==
    /\ guard.total <= GlobalMaxSteps + Cardinality(Calls \ SideEffects)
    /\ \A s \in Sigs :
          guard.dup[s] <= MaxDuplicateToolCalls + 1
                            + Cardinality({c \in Calls \ SideEffects : SigOf[c] = s})

\* Every call that has begun returns: time-outs end a dispatch, and retries are
\* bounded (ToolExecutor.call).
CallReturns == \A c \in Calls : pc[c] # "new" ~> pc[c] = "done"

=============================================================================
