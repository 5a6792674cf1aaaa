-------------------------- MODULE GraphResumeIntent --------------------------
(***************************************************************************)
(* Manual holds and durable resume intents of one event                    *)
(* (services/manual_resolution_service.py, models/graph_resume_intent.py,  *)
(* tasks/graph_resume_intent_tasks.py).                                    *)
(*                                                                         *)
(* A graph run that needs a human puts the event on hold under a new       *)
(* generation.  A resolution inserts an intent for the generation it found;*)
(* an approval that met a held lease inserts one without a hold.  A        *)
(* dispatcher claims a batch of intents, starts each, resumes the graph    *)
(* under the event lease, clears the hold and marks the intent.  A claim   *)
(* lapses after 120 s; reconcile_stale puts the intent back.  The soft     *)
(* limit of a Celery dispatcher, also 120 s, interrupts the resume under   *)
(* way, once; the rest of its batch, and the in-process fallback, run      *)
(* without a limit.                                                        *)
(***************************************************************************)
EXTENDS Naturals

CONSTANTS
    Manual, Plan,   \* intents created by resolutions, and by approvals
    Dispatchers,
    InProcess,      \* the dispatchers that run in the API process
    MaxAttempts,    \* _MAX_ATTEMPTS
    MaxHolds,       \* bound on hold generations
    MaxOthers,      \* bound on graph runs that are not resumes
    MaxCrashes,
    Other, NoOne

Intents == Manual \cup Plan

ASSUME ResumeConstants ==
    /\ Manual \cap Plan = {} /\ InProcess \subseteq Dispatchers
    /\ {MaxAttempts, MaxHolds, MaxOthers, MaxCrashes} \subseteq Nat
    /\ {Other, NoOne} \cap Dispatchers = {} /\ Other # NoOne
    /\ NoOne \notin Intents

VARIABLES
    status, gen, attempt,   \* the intent row; gen is hold_generation
    lapsed,                 \* claim_expires_at has passed
    hold, substate,         \* newest hold generation, execution substate
    lease,                  \* holder of the event lease
    pc, batch, cur, res,    \* a dispatcher: place, claimed ids, intent, result
    limited,                \* dispatchers past their soft limit
    resumed,                \* intents whose resume has returned "ok"
    others, crashes

row == <<status, gen, attempt, lapsed>>
ev == <<hold, substate, lease>>
dsp == <<pc, batch, cur, res, limited>>
hist == <<resumed, others, crashes>>
vars == <<row, ev, dsp, hist>>

Active == {"pending", "claimed", "started", "retry"}
Terminal == {"terminal", "skipped", "dead"}

\* GRAPH_RESUME_TRANSITIONS: a write outside the table raises.
Allowed(from) ==
    CASE from = "pending" -> {"claimed", "skipped"}
      [] from = "claimed" -> {"started", "retry", "pending", "skipped", "dead"}
      [] from = "started" -> {"terminal", "skipped", "retry", "dead"}
      [] from = "retry"   -> {"claimed", "dead", "skipped"}
      [] from = "dead"    -> {"retry"}
      [] OTHER            -> {}

Init ==
    /\ status = [i \in Intents |-> "absent"]
    /\ gen = [i \in Intents |-> 0]
    /\ attempt = [i \in Intents |-> 0]
    /\ lapsed = [i \in Intents |-> FALSE]
    /\ hold = 0 /\ substate = "none"
    /\ lease = Other
    /\ pc = [d \in Dispatchers |-> "idle"]
    /\ batch = [d \in Dispatchers |-> {}]
    /\ cur = [d \in Dispatchers |-> NoOne]
    /\ res = [d \in Dispatchers |-> "none"]
    /\ limited = {}
    /\ resumed = {} /\ others = 0 /\ crashes = 0

Goto(d, l) == pc' = [pc EXCEPT ![d] = l]

-----------------------------------------------------------------------------
(* Graph runs, holds and the creation of intents                           *)

\* enter_manual_hold: generation and substate in one transaction.
EnterHold ==
    /\ hold < MaxHolds
    /\ hold' = hold + 1 /\ substate' = "manual"

\* An investigation, or a resume made by a request, runs the graph.
OtherStarts ==
    /\ lease = NoOne /\ others < MaxOthers
    /\ lease' = Other /\ others' = others + 1
    /\ UNCHANGED <<row, hold, substate, dsp, resumed, crashes>>

OtherHolds ==
    /\ lease = Other
    /\ EnterHold
    /\ UNCHANGED <<row, lease, dsp, hist>>

OtherEnds ==
    /\ lease = Other
    /\ lease' = NoOne
    /\ UNCHANGED <<row, hold, substate, dsp, hist>>

ActiveOf(g, K) == {i \in K : status[i] \in Active /\ gen[i] = g}

\* create_or_replay_resume_intent_in_session: under the event row lock, only
\* for a held event; an active intent of the generation is returned instead.
Resolve(i) ==
    /\ i \in Manual /\ status[i] = "absent"
    /\ substate = "manual" /\ ActiveOf(hold, Manual) = {}
    /\ status' = [status EXCEPT ![i] = "pending"]
    /\ gen' = [gen EXCEPT ![i] = hold]
    /\ UNCHANGED <<attempt, lapsed, ev, dsp, hist>>

\* enqueue_approval_plan_resume_intent
EnqueuePlan(i) ==
    /\ i \in Plan /\ status[i] = "absent"
    /\ ActiveOf(0, Plan) = {}
    /\ status' = [status EXCEPT ![i] = "pending"]
    /\ UNCHANGED <<gen, attempt, lapsed, ev, dsp, hist>>

-----------------------------------------------------------------------------
(* Dispatch                                                                *)

Claimable == {i \in Intents : status[i] \in {"pending", "retry"}}

ClaimBatch(d) ==
    /\ pc[d] = "idle" /\ Claimable # {}
    /\ status' = [i \in Intents |-> IF i \in Claimable THEN "claimed" ELSE status[i]]
    /\ lapsed' = [i \in Intents |-> IF i \in Claimable THEN FALSE ELSE lapsed[i]]
    /\ batch' = [batch EXCEPT ![d] = Claimable]
    /\ Goto(d, "batch")
    /\ UNCHANGED <<gen, attempt, ev, cur, res, limited, hist>>

\* Mutant: any manual hold will do.
HoldStandsAny(i) == i \in Manual => substate = "manual"

\* The hold this intent was made for is still the one in force.
HoldStands(i) == i \in Manual => gen[i] = hold /\ substate = "manual"

\* _run_claimed_intent up to the resume: start, or skip an intent whose hold is
\* gone; an id of the batch that is no longer CLAIMED is passed over.
Start(d, i) ==
    /\ pc[d] = "batch" /\ i \in batch[d]
    /\ batch' = [batch EXCEPT ![d] = @ \ {i}]
    /\ IF status[i] = "claimed" /\ HoldStands(i)
       THEN /\ status' = [status EXCEPT ![i] = "started"]
            /\ cur' = [cur EXCEPT ![d] = i]
            /\ Goto(d, "resume")
       ELSE /\ status' = [status EXCEPT ![i] = IF @ = "claimed" THEN "skipped" ELSE @]
            /\ UNCHANGED <<cur, pc>>
    /\ UNCHANGED <<gen, attempt, lapsed, ev, res, limited, hist>>

BatchDone(d) ==
    /\ pc[d] = "batch" /\ batch[d] = {}
    /\ Goto(d, "idle")
    /\ limited' = limited \ {d}
    /\ UNCHANGED <<row, ev, batch, cur, res, hist>>

\* The runner needs the event lease; a held one defers the intent.
Acquire(d) ==
    /\ pc[d] = "resume"
    /\ IF lease = NoOne
       THEN lease' = d /\ Goto(d, "graph") /\ UNCHANGED res
       ELSE res' = [res EXCEPT ![d] = "deferred"] /\ Goto(d, "mark") /\ UNCHANGED lease
    /\ UNCHANGED <<row, hold, substate, batch, cur, limited, hist>>

\* The resumed graph may clear the substate itself or hold the event again.
GraphClears(d) ==
    /\ pc[d] = "graph" /\ substate = "manual"
    /\ substate' = "none"
    /\ UNCHANGED <<row, hold, lease, dsp, hist>>

GraphHolds(d) ==
    /\ pc[d] = "graph"
    /\ EnterHold
    /\ UNCHANGED <<row, lease, dsp, hist>>

GraphEnds(d, r) ==
    /\ pc[d] = "graph"
    /\ lease' = IF lease = d THEN NoOne ELSE lease
    /\ res' = [res EXCEPT ![d] = r]
    /\ Goto(d, IF r = "ok" /\ cur[d] \in Manual THEN "check" ELSE "mark")
    /\ resumed' = IF r = "ok" THEN resumed \cup {cur[d]} ELSE resumed
    /\ UNCHANGED <<row, hold, substate, batch, cur, limited, others, crashes>>

\* SoftTimeLimitExceeded in the resume: the lease is kept for a handler this
\* task does not have, the exception is caught as a failure of the intent.
SoftLimit(d) ==
    /\ pc[d] = "graph" /\ d \notin InProcess \cup limited
    /\ limited' = limited \cup {d}
    /\ res' = [res EXCEPT ![d] = "failed"]
    /\ Goto(d, "mark")
    /\ UNCHANGED <<row, ev, batch, cur, hist>>

\* _clear_manual_resolution_for_resume: the generation is compared in one
\* transaction and the substate written in the next.
ClearChecks(d) ==
    /\ pc[d] = "check"
    /\ Goto(d, IF hold = gen[cur[d]] THEN "clear" ELSE "mark")
    /\ UNCHANGED <<row, ev, batch, cur, res, limited, hist>>

ClearWrites(d) ==
    /\ pc[d] = "clear"
    /\ substate' = "none"
    /\ Goto(d, "mark")
    /\ UNCHANGED <<row, hold, lease, batch, cur, res, limited, hist>>

Exhausted(i) == attempt[i] + 1 >= MaxAttempts

\* Mutant: a deferred resume settles the intent.
OutcomeSettlesDeferred(i, r) ==
    IF r \in {"ok", "deferred"} THEN "terminal"
    ELSE IF Exhausted(i) THEN "dead" ELSE "retry"

\* What _mark_terminal, _mark_failure or _requeue_deferred writes.
Outcome(i, r) ==
    CASE r = "ok"       -> "terminal"
      [] r = "deferred" -> "retry"
      [] OTHER          -> IF Exhausted(i) THEN "dead" ELSE "retry"

\* The marks compare neither owner nor revision.  A settled row is left alone;
\* a write the table refuses raises and ends the whole batch.
Mark(d) ==
    LET i == cur[d]
        to == Outcome(i, res[d]) IN
    /\ pc[d] = "mark"
    /\ IF status[i] \in Terminal \/ to \notin Allowed(status[i])
       THEN UNCHANGED <<status, attempt>>
       ELSE /\ status' = [status EXCEPT ![i] = to]
            /\ attempt' = [attempt EXCEPT ![i] = IF res[d] = "failed" THEN @ + 1 ELSE @]
    /\ IF status[i] \in Terminal \/ to \in Allowed(status[i])
       THEN Goto(d, "batch") /\ UNCHANGED <<batch, limited>>
       ELSE /\ Goto(d, "idle")
            /\ batch' = [batch EXCEPT ![d] = {}]
            /\ limited' = limited \ {d}
    /\ cur' = [cur EXCEPT ![d] = NoOne]
    /\ res' = [res EXCEPT ![d] = "none"]
    /\ UNCHANGED <<gen, lapsed, ev, hist>>

-----------------------------------------------------------------------------
(* Clocks, recovery and deaths                                             *)

\* A Celery dispatcher outlasts no claim before its soft limit, and marks the
\* interrupted intent at once.
HasClaim(d, i) == i \in batch[d] \/ cur[d] = i

ClaimLapses(i) ==
    /\ status[i] \in {"claimed", "started"} /\ ~lapsed[i]
    /\ \A d \in Dispatchers \ InProcess :
          HasClaim(d, i) => d \in limited /\ pc[d] # "mark"
    /\ lapsed' = [lapsed EXCEPT ![i] = TRUE]
    /\ UNCHANGED <<status, gen, attempt, ev, dsp, hist>>

\* Mutant: a STARTED intent is not recovered.
StaleClaimedOnly(i) == status[i] = "claimed" /\ lapsed[i]

\* A row reconcile_stale recovers; the claim's expiry stays on a STARTED row.
Stale(i) == status[i] \in {"claimed", "started"} /\ lapsed[i]

ReconcileStale(i) ==
    /\ Stale(i)
    /\ status' = [status EXCEPT ![i] = IF Exhausted(i) THEN "dead" ELSE "retry"]
    /\ attempt' = [attempt EXCEPT ![i] = IF Exhausted(i) THEN @ ELSE @ + 1]
    /\ lapsed' = [lapsed EXCEPT ![i] = FALSE]
    /\ UNCHANGED <<gen, ev, dsp, hist>>

LeaseExpires ==
    /\ lease \in Dispatchers /\ pc[lease] # "graph"
    /\ lease' = NoOne
    /\ UNCHANGED <<row, hold, substate, dsp, hist>>

Crash(d) ==
    /\ crashes < MaxCrashes /\ pc[d] # "idle"
    /\ crashes' = crashes + 1
    /\ pc' = [pc EXCEPT ![d] = "idle"]
    /\ batch' = [batch EXCEPT ![d] = {}]
    /\ cur' = [cur EXCEPT ![d] = NoOne]
    /\ res' = [res EXCEPT ![d] = "none"]
    /\ limited' = limited \ {d}
    /\ UNCHANGED <<row, ev, resumed, others>>

-----------------------------------------------------------------------------
Step(d) ==
    \/ \E i \in Intents : Start(d, i)
    \/ BatchDone(d) \/ Acquire(d) \/ ClearChecks(d) \/ ClearWrites(d) \/ Mark(d)
    \/ \E r \in {"ok", "failed"} : GraphEnds(d, r)

Next ==
    \/ OtherStarts \/ OtherHolds \/ OtherEnds
    \/ \E i \in Intents : \/ Resolve(i) \/ EnqueuePlan(i)
                          \/ ClaimLapses(i) \/ ReconcileStale(i)
    \/ \E d \in Dispatchers : \/ ClaimBatch(d) \/ Step(d)
                              \/ GraphClears(d) \/ GraphHolds(d)
                              \/ SoftLimit(d) \/ Crash(d)
    \/ LeaseExpires

Spec == Init /\ [][Next]_vars

\* The beat dispatches and reconciles, time passes, and every graph run ends.
FairSpec ==
    /\ Spec
    /\ \A d \in Dispatchers : WF_vars(ClaimBatch(d)) /\ WF_vars(Step(d))
    /\ \A i \in Intents : WF_vars(ClaimLapses(i)) /\ WF_vars(ReconcileStale(i))
    /\ WF_vars(OtherEnds) /\ WF_vars(LeaseExpires)

-----------------------------------------------------------------------------
TypeOK ==
    /\ status \in [Intents -> {"absent"} \cup Active \cup Terminal]
    /\ gen \in [Intents -> 0..MaxHolds]
    /\ attempt \in [Intents -> 0..MaxAttempts]
    /\ lapsed \in [Intents -> BOOLEAN]
    /\ hold \in 0..MaxHolds /\ substate \in {"none", "manual"}
    /\ lease \in Dispatchers \cup {Other, NoOne}
    /\ pc \in [Dispatchers -> {"idle", "batch", "resume", "graph", "check", "clear", "mark"}]
    /\ batch \in [Dispatchers -> SUBSET Intents]
    /\ cur \in [Dispatchers -> Intents \cup {NoOne}]
    /\ res \in [Dispatchers -> {"none", "ok", "failed", "deferred"}]
    /\ limited \subseteq Dispatchers /\ resumed \subseteq Intents
    /\ others \in 0..MaxOthers /\ crashes \in 0..MaxCrashes

\* An intent that a live dispatcher is running belongs to it alone: it is
\* STARTED, no other dispatcher works on it, and reconcile_stale has not put it
\* back.  So the marks, which compare no owner, write the run's own row.
\* The code does not keep this (README, disagreements).
RunOwnsIntent ==
    \A d \in Dispatchers : cur[d] # NoOne =>
        /\ status[cur[d]] = "started"
        /\ \A e \in Dispatchers \ {d} : ~HasClaim(e, cur[d])

\* An intent is TERMINAL only when a resume made for it has returned "ok", not
\* when the resume was deferred, failed or died.
TerminalWasResumed == \A i \in Intents : status[i] = "terminal" => i \in resumed

\* A run never starts for a hold that is not the newest one: a resolution of an
\* earlier hold does not resume a graph that has been held again since
\* (generation fence of _run_claimed_intent).
StartsCurrentHold ==
    [][\A i \in Manual : status[i] # "started" /\ status'[i] = "started"
                            => gen[i] = hold /\ substate = "manual"]_vars

\* Every intent is settled in the end, whichever dispatcher dies and however
\* often the lease is held.
IntentSettles == \A i \in Intents : (status[i] \in Active) ~> (status[i] \in Terminal)

\* Clearing after a resume never removes a newer hold (expected_generation of
\* _clear_manual_resolution_for_resume).
\* The code does not keep this (README, disagreements).
NewerHoldIsKept ==
    [][\A d \in Dispatchers :
          (pc[d] = "clear" /\ pc'[d] = "mark") => hold = gen[cur[d]]]_vars
=============================================================================
