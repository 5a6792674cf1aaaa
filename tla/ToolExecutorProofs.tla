------------------------- MODULE ToolExecutorProofs -------------------------
(***************************************************************************)
(* Theorems about ToolExecutor, for any finite number of concurrent calls, *)
(* any caps, threshold and number of retries.                              *)
(***************************************************************************)
EXTENDS ToolExecutor, FiniteSetTheorems, TLAPS

Queries == Calls \ SideEffects
Asleep == {c \in Calls : pc[c] = "sleep"}
Places == {"new", "sleep", "flight", "save", "done"}
Results == {"none", "stopped", "circuit_open", "answered", "unknown", "failed", "raised"}

-----------------------------------------------------------------------------
(* The calls                                                               *)

\* The variables of the calls have their types.  A side effect never sleeps,
\* because only a query is retried after its dispatch; before its first round a
\* call has not been dispatched, and before its end it has no result.
CallInv ==
    /\ pc \in [Calls -> Places] /\ result \in [Calls -> Results]
    /\ dispatched \in [Calls -> Nat]
    /\ Asleep \subseteq Queries
    /\ \A c \in Calls : pc[c] = "new" => dispatched[c] = 0
    /\ \A c \in Calls : pc[c] # "done" => result[c] = "none"
    /\ RefusedMeansNotDispatched

\* One call moves to a place with a result, as CallInv allows.
LEMMA CallMoves ==
  ASSUME CallInv, NEW c \in Calls, NEW l \in Places \ {"new"}, NEW r \in Results,
         pc' = [pc EXCEPT ![c] = l], result' = [result EXCEPT ![c] = r],
         dispatched' = dispatched \/ dispatched' = [dispatched EXCEPT ![c] = @ + 1],
         l = "sleep" => c \in Queries,
         l # "done" => r = "none",
         c \in SideEffects => r # "failed",
         (c \in SideEffects /\ r \in {"stopped", "circuit_open"}) => dispatched'[c] = 0
  PROVE  CallInv'
  <1> USE ExecutorConstants DEF ExecutorConstants, CallInv
  <1>1. /\ dispatched' \in [Calls -> Nat]
        /\ \A d \in Calls : d # c => dispatched'[d] = dispatched[d]
    OBVIOUS
  <1>2. pc' \in [Calls -> Places] /\ result' \in [Calls -> Results]
    OBVIOUS
  <1>3. (Asleep \subseteq Queries)'
    BY Zenon DEF Asleep, Queries
  <1>4. \A d \in Calls : /\ pc'[d] = "new" => dispatched'[d] = 0
                         /\ pc'[d] # "done" => result'[d] = "none"
    BY <1>1, Zenon
  <1>5. RefusedMeansNotDispatched'
    BY <1>1, Zenon DEF RefusedMeansNotDispatched
  <1> QED
    BY <1>1, <1>2, <1>3, <1>4, <1>5, Zenon

\* One round of the call loop keeps the invariant of the calls.
LEMMA CallAttempt ==
  ASSUME CallInv, NEW c \in Calls, pc[c] \in {"new", "sleep"}, Attempt(c)
  PROVE  CallInv'
  <1>1. CASE Allowed
    <2>1. /\ pc' = [pc EXCEPT ![c] = "flight"] /\ result' = [result EXCEPT ![c] = "none"]
          /\ dispatched' = [dispatched EXCEPT ![c] = @ + 1]
      BY <1>1, Zenon DEF Attempt, CallInv
    <2> QED
      BY <2>1, CallMoves, Zenon DEF Places, Results
  <1>2. CASE ~Allowed
    <2>1. /\ pc' = [pc EXCEPT ![c] = "done"] /\ result' = [result EXCEPT ![c] = "circuit_open"]
          /\ dispatched' = dispatched
      BY <1>2, Zenon DEF Attempt, Finish
    <2>2. c \in SideEffects => dispatched[c] = 0
      BY Zenon DEF CallInv, Asleep, Queries
    <2> QED
      BY <2>1, <2>2, CallMoves, Zenon DEF Places, Results
  <1> QED
    BY <1>1, <1>2, Zenon

\* Every step keeps the invariant of the calls.
LEMMA CallNext == CallInv /\ [Next]_vars => CallInv'
  <1> SUFFICES ASSUME CallInv, [Next]_vars PROVE CallInv'
    OBVIOUS
  <1> USE DEF Places, Results
  <1>1. ASSUME NEW c \in Calls, Begin(c) PROVE CallInv'
    <2>1. CASE Stops
      <3>1. /\ pc[c] = "new" /\ pc' = [pc EXCEPT ![c] = "done"] /\ dispatched' = dispatched
            /\ result' = [result EXCEPT ![c] = "stopped"]
        BY <1>1, <2>1, Zenon DEF Begin, Finish
      <3>2. dispatched[c] = 0
        BY <3>1, Zenon DEF CallInv
      <3> QED
        BY <3>1, <3>2, CallMoves, Zenon
    <2>2. CASE ~Stops
      BY <1>1, <2>2, CallAttempt, Zenon DEF Begin
    <2> QED
      BY <2>1, <2>2, Zenon
  <1>2. ASSUME NEW c \in Calls, Wake(c) PROVE CallInv'
    BY <1>2, CallAttempt, Zenon DEF Wake
  <1>3. ASSUME NEW c \in Calls, Saved(c) \/ Abandon(c) PROVE CallInv'
    <2>1. /\ pc' = [pc EXCEPT ![c] = "done"] /\ dispatched' = dispatched
          /\ \E r \in {"answered", "raised"} : result' = [result EXCEPT ![c] = r]
      BY <1>3, Zenon DEF Saved, Abandon, Finish
    <2> QED
      BY <2>1, CallMoves, Zenon
  <1>4. ASSUME NEW c \in Calls, NEW kind, NEW isJob, Answer(c, kind, isJob) PROVE CallInv'
    <2>1. /\ dispatched' = dispatched /\ pc[c] = "flight"
          /\ \/ /\ pc' = [pc EXCEPT ![c] = "save"]
                /\ result' = [result EXCEPT ![c] = "none"]
             \/ /\ pc' = [pc EXCEPT ![c] = "done"]
                /\ result' = [result EXCEPT ![c] = "answered"]
      <3>1. pc[c] = "flight" /\ result[c] = "none" /\ result \in [Calls -> Results]
        BY <1>4, Zenon DEF Answer, CallInv
      <3> QED
        BY <1>4, <3>1, Zenon DEF Answer, Finish
    <2> QED
      BY <2>1, CallMoves, Zenon
  <1>5. ASSUME NEW c \in Calls, NEW retryable, Throw(c, retryable) PROVE CallInv'
    <2>1. /\ dispatched' = dispatched /\ result[c] = "none"
          /\ result \in [Calls -> Results]
      BY <1>5, Zenon DEF Throw, CallInv
    <2>2. CASE retryable /\ ShouldRetry(c)
      <3>1. c \in Queries
        BY <2>2, Zenon DEF ShouldRetry, Queries
      <3>2. \/ /\ pc' = [pc EXCEPT ![c] = "sleep"]
               /\ result' = [result EXCEPT ![c] = "none"]
            \/ /\ pc' = [pc EXCEPT ![c] = "done"]
               /\ result' = [result EXCEPT ![c] = "stopped"]
        BY <1>5, <2>1, <2>2, Zenon DEF Throw, Finish
      <3> QED
        BY <2>1, <3>1, <3>2, CallMoves, Zenon DEF Queries
    <2>3. CASE ~(retryable /\ ShouldRetry(c))
      <3>1. /\ pc' = [pc EXCEPT ![c] = "done"]
            /\ \E r \in {"unknown", "failed"} : /\ result' = [result EXCEPT ![c] = r]
                                                /\ c \in SideEffects => r = "unknown"
        BY <1>5, <2>3, Zenon DEF Throw, Finish
      <3> QED
        BY <2>1, <3>1, CallMoves, Zenon
    <2> QED
      BY <2>2, <2>3, Zenon
  <1>6. CASE Cool \/ UNCHANGED vars
    BY <1>6, Zenon DEF Cool, vars, CallInv, Asleep, RefusedMeansNotDispatched
  <1> QED
    BY <1>1, <1>2, <1>3, <1>4, <1>5, <1>6, Zenon DEF Next

\* At first no call has begun.
LEMMA CallInit == Init => CallInv
  BY ExecutorConstants DEF ExecutorConstants, Init, CallInv, Asleep, Places, Results,
     RefusedMeansNotDispatched

\* A side effect the executor reports as refused never reached the provider, and
\* it never reports FAILED for one that did: for any number of calls and any
\* interleaving of their suspensions, whatever breaker and guard answer (the
\* except branches and _should_retry of ToolExecutor.call).
THEOREM RefusalsAreHonest == Spec => []RefusedMeansNotDispatched
  <1>1. CallInv => RefusedMeansNotDispatched
    BY Zenon DEF CallInv
  <1> QED
    BY <1>1, CallInit, CallNext, PTL DEF Spec

-----------------------------------------------------------------------------
(* Probes                                                                  *)

\* Only a HALF_OPEN breaker has admitted probes: one before the flag is up,
\* two after.
ProbeInv ==
    /\ probes \subseteq Calls /\ probe \in BOOLEAN
    /\ state # "half_open" => probes = {}
    /\ state = "half_open" => Cardinality(probes) <= 2
    /\ (state = "half_open" /\ ~probe) => Cardinality(probes) <= 1

\* A call the breaker admits is counted: the first by the change to HALF_OPEN, the
\* second by the flag.
LEMMA ProbeAllow ==
  ASSUME ProbeInv, NEW c \in Calls, Allowed, AllowRequest(c)
  PROVE  ProbeInv'
  <1>f. IsFiniteSet(probes) /\ Cardinality(probes) \in Nat
    BY FS_Subset, FS_CardinalityType, ExecutorConstants, Zenon DEF ExecutorConstants, ProbeInv
  <1>1. CASE state = "closed"
    BY <1>1, Zenon DEF AllowRequest, ProbeInv
  <1>2. CASE state = "open"
    <2>1. state' = "half_open" /\ probe' = FALSE /\ probes' = probes \cup {c} /\ probes = {}
      BY <1>2, Zenon DEF AllowRequest, ProbeInv
    <2>2. Cardinality({c}) = 1
      BY FS_Singleton, Zenon
    <2>3. probes' = {c}
      BY <2>1, Zenon
    <2>4. Cardinality(probes') = 1 /\ probes' \subseteq Calls
      BY <2>2, <2>3, Zenon
    <2>5. probe' \in BOOLEAN
      BY <2>1, Zenon
    <2>6. Cardinality(probes') <= 1 /\ Cardinality(probes') <= 2
      BY <2>4
    <2> QED
      BY <2>1, <2>4, <2>5, <2>6, Zenon DEF ProbeInv
  <1>3. CASE state # "closed" /\ state # "open"
    <2>1. /\ state = "half_open" /\ ~probe
      BY <1>3, Zenon DEF Allowed, ProbeFree
    <2>2. state' = "half_open" /\ probe' = TRUE /\ probes' = probes \cup {c}
      <3>1. probe' = (state = "half_open")
        BY <2>1, Zenon DEF AllowRequest
      <3> QED
        BY <2>1, <3>1, Zenon DEF AllowRequest
    <2>3. Cardinality(probes \cup {c})
            = IF c \in probes THEN Cardinality(probes) ELSE Cardinality(probes) + 1
      BY <1>f, FS_AddElement, Zenon
    <2>4. Cardinality(probes) <= 1 /\ probes \subseteq Calls
      BY <2>1, Zenon DEF ProbeInv
    <2>5. Cardinality(probes') <= 2 /\ probes' \subseteq Calls
      BY <1>f, <2>2, <2>3, <2>4
    <2>6. probe' \in BOOLEAN
      BY <2>2, Zenon
    <2> QED
      BY <2>2, <2>5, <2>6, Zenon DEF ProbeInv
  <1> QED
    BY <1>1, <1>2, <1>3, Zenon

\* A recorded outcome takes the breaker out of HALF_OPEN and forgets the probes, or
\* leaves them.
LEMMA ProbeRecord == ASSUME ProbeInv, RecordSuccess \/ RecordFailure PROVE ProbeInv'
  <1>1. probes' = {} /\ probe' = FALSE /\ state' # "half_open"
    BY Zenon DEF RecordSuccess, RecordFailure
  <1> QED
    BY <1>1, Zenon DEF ProbeInv

\* The HALF_OPEN breaker admits at most two calls before one of them is
\* recorded, however many there are and however they end: the transition out of
\* OPEN admits one without raising the flag, the next raises it (allow_request,
\* record_success, record_failure).
THEOREM ProbesAreBounded == Spec => []ProbesBounded
  <1>1. Init => ProbeInv
    BY Zenon DEF Init, ProbeInv
  <1>2. ProbeInv /\ [Next]_vars => ProbeInv'
    <2> SUFFICES ASSUME ProbeInv, [Next]_vars PROVE ProbeInv'
      OBVIOUS
    <2>1. CASE UNCHANGED <<state, probe, probes>>
      BY <2>1, Zenon DEF ProbeInv
    <2>2. ASSUME NEW c \in Calls, Attempt(c) PROVE ProbeInv'
      <3>1. (Allowed /\ AllowRequest(c)) \/ UNCHANGED breaker
        BY <2>2, Zenon DEF Attempt
      <3> QED
        BY <2>1, <3>1, ProbeAllow, Zenon DEF breaker
    <2>3. ASSUME NEW c \in Calls, Begin(c) \/ Wake(c) \/ Saved(c) \/ Abandon(c) PROVE ProbeInv'
      <3>1. Attempt(c) \/ UNCHANGED breaker
        BY <2>3, Zenon DEF Begin, Wake, Saved, Abandon
      <3> QED
        BY <2>1, <2>2, <3>1, Zenon DEF breaker
    <2>4. ASSUME NEW c \in Calls, NEW kind \in {"success", "failure", "other"},
                 NEW isJob \in BOOLEAN, Answer(c, kind, isJob)
          PROVE  ProbeInv'
      <3>1. RecordSuccess \/ RecordFailure \/ UNCHANGED breaker
        BY <2>4, Zenon DEF Answer
      <3> QED
        BY <2>1, <3>1, ProbeRecord, Zenon DEF breaker
    <2>5. ASSUME NEW c \in Calls, NEW retryable \in BOOLEAN, Throw(c, retryable) PROVE ProbeInv'
      BY <2>5, ProbeRecord, Zenon DEF Throw
    <2>6. CASE Cool \/ UNCHANGED vars
      BY <2>1, <2>6, Zenon DEF Cool, vars, breaker
    <2> QED
      BY <2>3, <2>4, <2>5, <2>6, Zenon DEF Next
  <1>3. ProbeInv => ProbesBounded
    <2> SUFFICES ASSUME ProbeInv, state = "half_open" PROVE Cardinality(probes) <= 2
      BY Zenon DEF ProbesBounded
    <2>1. Cardinality(probes) \in Nat
      BY FS_Subset, FS_CardinalityType, ExecutorConstants, Zenon DEF ExecutorConstants, ProbeInv
    <2> QED
      BY <2>1, Zenon DEF ProbeInv
  <1> QED
    BY <1>1, <1>2, <1>3, PTL DEF Spec

-----------------------------------------------------------------------------
(* Caps                                                                    *)

QueriesOn(s) == {c \in Calls \ SideEffects : SigOf[c] = s}
AsleepOn(s) == {c \in Asleep : SigOf[c] = s}

\* A query asleep has a step in hand that the guard will not be asked about, so
\* the steps taken and the queries asleep are bounded together.
GuardInv ==
    /\ guard.total \in Nat /\ guard.dup \in [Sigs -> Nat]
    /\ guard.total + Cardinality(Asleep) <= GlobalMaxSteps + Cardinality(Queries)
    /\ \A s \in Sigs : guard.dup[s] + Cardinality(AsleepOn(s))
                         <= MaxDuplicateToolCalls + 1 + Cardinality(QueriesOn(s))

On(A, s) == {c \in A : SigOf[c] = s}

\* Sizes of a set of queries, in all and by signature
LEMMA Sizes ==
  ASSUME NEW A \in SUBSET Queries
  PROVE  /\ IsFiniteSet(A) /\ Cardinality(A) \in Nat /\ Cardinality(Queries) \in Nat
         /\ Cardinality(A) <= Cardinality(Queries)
         /\ \A s \in Sigs : /\ IsFiniteSet(On(A, s)) /\ Cardinality(On(A, s)) \in Nat
                            /\ Cardinality(QueriesOn(s)) \in Nat
                            /\ Cardinality(On(A, s)) <= Cardinality(QueriesOn(s))
  <1>1. IsFiniteSet(Queries) /\ Cardinality(Queries) \in Nat
    BY FS_Subset, FS_CardinalityType, ExecutorConstants, Zenon DEF ExecutorConstants, Queries
  <1>2. /\ IsFiniteSet(A) /\ Cardinality(A) \in Nat
        /\ Cardinality(A) <= Cardinality(Queries)
    BY <1>1, FS_Subset, FS_CardinalityType, Zenon
  <1>3. ASSUME NEW s \in Sigs
        PROVE  /\ IsFiniteSet(On(A, s)) /\ Cardinality(On(A, s)) \in Nat
               /\ Cardinality(QueriesOn(s)) \in Nat
               /\ Cardinality(On(A, s)) <= Cardinality(QueriesOn(s))
    <2>1. QueriesOn(s) \in SUBSET Queries /\ On(A, s) \in SUBSET QueriesOn(s)
      BY Zenon DEF QueriesOn, On, Queries
    <2>2. IsFiniteSet(QueriesOn(s)) /\ Cardinality(QueriesOn(s)) \in Nat
      BY <1>1, <2>1, FS_Subset, FS_CardinalityType, Zenon
    <2> QED
      BY <2>1, <2>2, FS_Subset, FS_CardinalityType, Zenon
  <1> QED
    BY <1>1, <1>2, <1>3, Zenon

\* GuardInv, with the sets of the next state
LEMMA GuardPrimed ==
  ASSUME guard'.total \in Nat, guard'.dup \in [Sigs -> Nat],
         guard'.total + Cardinality(Asleep') <= GlobalMaxSteps + Cardinality(Queries),
         \A s \in Sigs : guard'.dup[s] + Cardinality(On(Asleep', s))
                           <= MaxDuplicateToolCalls + 1 + Cardinality(QueriesOn(s))
  PROVE  GuardInv'
  <1>1. Queries' = Queries /\ \A s \in Sigs : QueriesOn(s)' = QueriesOn(s)
    BY Zenon DEF Queries, QueriesOn
  <1>2. \A s \in Sigs : AsleepOn(s)' = On(Asleep', s)
    BY Zenon DEF AsleepOn, On
  <1> QED
    BY <1>1, <1>2, Zenon DEF GuardInv

\* A step after the guard was asked and did not stop: at most one is recorded,
\* and at most the queries are asleep.
LEMMA GuardAsked ==
  ASSUME CallInv', GuardInv, ~Stops, NEW c \in Calls,
         guard' = guard \/ guard' = RecordStep(guard, SigOf[c])
  PROVE  GuardInv'
  <1>1. /\ guard.total \in Nat /\ guard.total < GlobalMaxSteps
        /\ \A s \in Sigs : guard.dup[s] \in Nat /\ guard.dup[s] <= MaxDuplicateToolCalls
    BY GuardConstants DEF GuardConstants, GuardInv, Stops, ShouldStop
  <1>2. /\ guard'.total \in Nat /\ guard'.total <= GlobalMaxSteps
        /\ guard'.dup \in [Sigs -> Nat]
        /\ \A s \in Sigs : guard'.dup[s] <= MaxDuplicateToolCalls + 1
    BY <1>1, GuardConstants, ExecutorConstants
       DEF GuardConstants, ExecutorConstants, GuardInv, RecordStep
  <1>3. Asleep' \in SUBSET Queries
    BY Zenon DEF CallInv, Queries
  <1>4. /\ Cardinality(Asleep') \in Nat /\ Cardinality(Queries) \in Nat
        /\ Cardinality(Asleep') <= Cardinality(Queries)
        /\ \A s \in Sigs : /\ Cardinality(On(Asleep', s)) \in Nat
                           /\ Cardinality(QueriesOn(s)) \in Nat
                           /\ Cardinality(On(Asleep', s)) <= Cardinality(QueriesOn(s))
    BY <1>3, Sizes, Zenon
  <1> QED
    BY <1>1, <1>2, <1>4, GuardPrimed, GuardConstants DEF GuardConstants

\* A step that records nothing and puts nobody to sleep
LEMMA GuardIdle ==
  ASSUME CallInv, GuardInv, guard' = guard, Asleep' \subseteq Asleep
  PROVE  GuardInv'
  <1>1. /\ Asleep \in SUBSET Queries /\ Asleep' \in SUBSET Queries
        /\ \A s \in Sigs : On(Asleep', s) \in SUBSET On(Asleep, s)
    BY Zenon DEF CallInv, On
  <1>2. /\ Cardinality(Asleep') \in Nat /\ Cardinality(Asleep) \in Nat
        /\ Cardinality(Asleep') <= Cardinality(Asleep)
        /\ Cardinality(Queries) \in Nat
    <2>1. IsFiniteSet(Asleep)
      BY <1>1, Sizes, Zenon
    <2>2. Cardinality(Asleep') <= Cardinality(Asleep)
      BY <2>1, FS_Subset, Zenon
    <2> QED
      BY <1>1, <2>2, Sizes, Zenon
  <1>3. ASSUME NEW s \in Sigs
        PROVE  /\ Cardinality(On(Asleep', s)) \in Nat /\ Cardinality(On(Asleep, s)) \in Nat
               /\ Cardinality(On(Asleep', s)) <= Cardinality(On(Asleep, s))
               /\ Cardinality(QueriesOn(s)) \in Nat
    <2>1. IsFiniteSet(On(Asleep, s))
      BY <1>1, Sizes, Zenon
    <2>2. Cardinality(On(Asleep', s)) <= Cardinality(On(Asleep, s))
      BY <1>1, <2>1, FS_Subset, Zenon
    <2> QED
      BY <1>1, <2>2, Sizes, Zenon
  <1>4. \A s \in Sigs : AsleepOn(s) = On(Asleep, s)
    BY Zenon DEF AsleepOn, On
  <1>5. /\ guard'.total \in Nat /\ guard'.dup \in [Sigs -> Nat]
        /\ guard'.total + Cardinality(Asleep') <= GlobalMaxSteps + Cardinality(Queries)
    BY <1>2, GuardConstants DEF GuardConstants, GuardInv
  <1>6. ASSUME NEW s \in Sigs
        PROVE  guard'.dup[s] + Cardinality(On(Asleep', s))
                 <= MaxDuplicateToolCalls + 1 + Cardinality(QueriesOn(s))
    BY <1>3, <1>4, GuardConstants DEF GuardConstants, GuardInv
  <1> QED
    BY <1>5, <1>6, GuardPrimed, Zenon

\* A retry wakes: it records the step it had in hand.
LEMMA GuardWakes ==
  ASSUME CallInv, GuardInv, NEW c \in Calls, Wake(c)
  PROVE  GuardInv'
  <1>1. /\ c \in Asleep /\ Asleep \in SUBSET Queries
        /\ guard' = RecordStep(guard, SigOf[c])
        /\ SigOf[c] \in Sigs
    BY ExecutorConstants, Zenon DEF ExecutorConstants, Wake, Attempt, CallInv, Asleep
  <1>2. Asleep' = Asleep \ {c}
    <2>1. \E l \in {"flight", "done"} : pc' = [pc EXCEPT ![c] = l]
      BY Zenon DEF Wake, Attempt, Finish
    <2> QED
      BY <2>1, Zenon DEF Asleep, CallInv
  <1>3. /\ Cardinality(Asleep') = Cardinality(Asleep) - 1
        /\ Cardinality(Asleep) \in Nat /\ Cardinality(Queries) \in Nat
    <2>1. IsFiniteSet(Asleep) /\ Cardinality(Asleep) \in Nat /\ Cardinality(Queries) \in Nat
      BY <1>1, Sizes, Zenon
    <2>2. Cardinality(Asleep \ {c}) = IF c \in Asleep THEN Cardinality(Asleep) - 1
                                                      ELSE Cardinality(Asleep)
      BY <2>1, FS_RemoveElement, Zenon
    <2> QED
      BY <1>1, <1>2, <2>1, <2>2, Zenon
  <1>4. /\ guard'.total = guard.total + 1
        /\ guard'.dup = [guard.dup EXCEPT ![SigOf[c]] = @ + 1]
    BY <1>1, Zenon DEF RecordStep
  <1>5. /\ guard'.total \in Nat /\ guard'.dup \in [Sigs -> Nat]
        /\ guard'.total + Cardinality(Asleep') <= GlobalMaxSteps + Cardinality(Queries)
    BY <1>1, <1>3, <1>4, GuardConstants DEF GuardConstants, GuardInv
  <1>6. ASSUME NEW s \in Sigs
        PROVE  guard'.dup[s] + Cardinality(On(Asleep', s))
                 <= MaxDuplicateToolCalls + 1 + Cardinality(QueriesOn(s))
    <2>1. /\ IsFiniteSet(On(Asleep, s)) /\ Cardinality(On(Asleep, s)) \in Nat
          /\ Cardinality(QueriesOn(s)) \in Nat /\ AsleepOn(s) = On(Asleep, s)
      BY <1>1, Sizes, Zenon DEF AsleepOn, On
    <2>2. guard.dup[s] \in Nat /\ guard.dup[s] + Cardinality(On(Asleep, s))
                                    <= MaxDuplicateToolCalls + 1 + Cardinality(QueriesOn(s))
      BY <2>1, Zenon DEF GuardInv
    <2>3. CASE s = SigOf[c]
      <3>1. On(Asleep', s) = On(Asleep, s) \ {c} /\ c \in On(Asleep, s)
        BY <1>1, <1>2, <2>3, Zenon DEF On
      <3>2. Cardinality(On(Asleep, s) \ {c})
              = IF c \in On(Asleep, s) THEN Cardinality(On(Asleep, s)) - 1
                                       ELSE Cardinality(On(Asleep, s))
        BY <2>1, FS_RemoveElement, Zenon
      <3>3. guard'.dup[s] = guard.dup[s] + 1
        BY <1>4, <2>3, Zenon DEF GuardInv
      <3> QED
        BY <2>1, <2>2, <3>1, <3>2, <3>3, GuardConstants DEF GuardConstants
    <2>4. CASE s # SigOf[c]
      <3>1. On(Asleep', s) = On(Asleep, s)
        BY <1>2, <2>4, Zenon DEF On
      <3>2. guard'.dup[s] = guard.dup[s]
        BY <1>4, <2>4, Zenon DEF GuardInv
      <3> QED
        BY <2>2, <3>1, <3>2, Zenon
    <2> QED
      BY <2>3, <2>4, Zenon
  <1> QED
    BY <1>5, <1>6, GuardPrimed, Zenon

\* Every step keeps the steps taken and the queries asleep bounded together.
LEMMA GuardNext == CallInv /\ CallInv' /\ GuardInv /\ [Next]_vars => GuardInv'
  <1> SUFFICES ASSUME CallInv, CallInv', GuardInv, [Next]_vars PROVE GuardInv'
    OBVIOUS
  <1>t. pc \in [Calls -> Places]
    BY Zenon DEF CallInv
  <1>1. ASSUME NEW c \in Calls, Begin(c) PROVE GuardInv'
    <2>1. CASE Stops
      <3>1. guard' = guard /\ pc' = [pc EXCEPT ![c] = "done"]
        BY <1>1, <2>1, Zenon DEF Begin, Finish
      <3> QED
        BY <1>t, <3>1, GuardIdle, Zenon DEF Asleep
    <2>2. CASE ~Stops
      BY <1>1, <2>2, GuardAsked, Zenon DEF Begin, Attempt
    <2> QED
      BY <2>1, <2>2, Zenon
  <1>2. ASSUME NEW c \in Calls, Saved(c) \/ Abandon(c) PROVE GuardInv'
    <2>1. guard' = guard /\ pc' = [pc EXCEPT ![c] = "done"]
      BY <1>2, Zenon DEF Saved, Abandon, Finish
    <2> QED
      BY <1>t, <2>1, GuardIdle, Zenon DEF Asleep
  <1>3. ASSUME NEW c \in Calls, NEW kind, NEW isJob, Answer(c, kind, isJob) PROVE GuardInv'
    <2>1. guard' = guard /\ \E l \in {"save", "done"} : pc' = [pc EXCEPT ![c] = l]
      BY <1>3, Zenon DEF Answer, Finish
    <2> QED
      BY <1>t, <2>1, GuardIdle, Zenon DEF Asleep
  <1>4. ASSUME NEW c \in Calls, NEW retryable, Throw(c, retryable) PROVE GuardInv'
    <2>1. guard' = guard /\ (~Stops \/ pc' = [pc EXCEPT ![c] = "done"])
      BY <1>4, Zenon DEF Throw, Finish
    <2>2. CASE ~Stops
      BY <2>1, <2>2, GuardAsked, Zenon
    <2>3. CASE pc' = [pc EXCEPT ![c] = "done"]
      BY <1>t, <2>1, <2>3, GuardIdle, Zenon DEF Asleep
    <2> QED
      BY <2>1, <2>2, <2>3, Zenon
  <1>5. CASE Cool \/ UNCHANGED vars
    BY <1>5, GuardIdle, Zenon DEF Cool, vars, Asleep
  <1> QED
    BY <1>1, <1>2, <1>3, <1>4, <1>5, GuardWakes, Zenon DEF Next

\* The caps of the convergence guard are overrun by at most one step for each
\* query, whatever the number of calls, retries and signatures and whoever wakes
\* when: a retry is let through should_stop once, sleeps, and records one step
\* (ToolExecutor.call, ConvergenceGuard.should_stop, record_step).
THEOREM CapsAreKept == Spec => []CapsHold
  <1>1. Init => GuardInv
    <2> SUFFICES ASSUME Init PROVE GuardInv
      OBVIOUS
    <2>1. guard.total = 0 /\ guard.dup = [s \in Sigs |-> 0]
      BY Zenon DEF Init, NewState
    <2>2. Asleep = {} /\ \A s \in Sigs : AsleepOn(s) = {}
      BY Zenon DEF Init, Asleep, AsleepOn
    <2>3. /\ Cardinality({}) = 0 /\ Cardinality(Queries) \in Nat
          /\ \A s \in Sigs : Cardinality(QueriesOn(s)) \in Nat
      BY FS_EmptySet, Sizes, Zenon
    <2>4. guard.total \in Nat /\ guard.dup \in [Sigs -> Nat]
      BY <2>1
    <2>5. guard.total + Cardinality(Asleep) <= GlobalMaxSteps + Cardinality(Queries)
      BY <2>1, <2>2, <2>3, GuardConstants
    <2>6. ASSUME NEW s \in Sigs
          PROVE  guard.dup[s] + Cardinality(AsleepOn(s))
                   <= MaxDuplicateToolCalls + 1 + Cardinality(QueriesOn(s))
      <3>1. guard.dup[s] = 0 /\ Cardinality(AsleepOn(s)) = 0
        BY <2>1, <2>2, <2>3, Zenon
      <3>2. Cardinality(QueriesOn(s)) \in Nat
        BY <2>3, Zenon
      <3> QED
        BY <3>1, <3>2, GuardConstants
    <2> QED
      BY <2>4, <2>5, <2>6, Zenon DEF GuardInv
  <1>2. CallInv /\ GuardInv => CapsHold
    <2> SUFFICES ASSUME CallInv, GuardInv PROVE CapsHold
      OBVIOUS
    <2>1. Asleep \in SUBSET Queries /\ \A s \in Sigs : AsleepOn(s) = On(Asleep, s)
      BY Zenon DEF CallInv, AsleepOn, On
    <2>2. /\ Cardinality(Asleep) \in Nat /\ Cardinality(Queries) \in Nat
          /\ \A s \in Sigs : /\ Cardinality(AsleepOn(s)) \in Nat
                             /\ Cardinality(QueriesOn(s)) \in Nat
      BY <2>1, Sizes, Zenon
    <2>3. guard.total <= GlobalMaxSteps + Cardinality(Queries)
      BY <2>2, GuardConstants DEF GuardConstants, GuardInv
    <2>4. \A s \in Sigs : guard.dup[s] <= MaxDuplicateToolCalls + 1 + Cardinality(QueriesOn(s))
      BY <2>2, GuardConstants DEF GuardConstants, GuardInv
    <2> QED
      BY <2>3, <2>4, Zenon DEF CapsHold, Queries, QueriesOn
  <1> QED
    BY <1>1, <1>2, CallInit, CallNext, GuardNext, PTL DEF Spec

=============================================================================
