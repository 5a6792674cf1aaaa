------------------------- MODULE InvestigationIntent -------------------------
(***************************************************************************)
(* The durable investigation intents of one event, from claim to settled    *)
(* row: the dispatcher that publishes them (services/                       *)
(* investigation_intent_service.py), an at-least-once broker, the Celery    *)
(* task that admits a delivery and runs it (tasks/investigation_tasks.py),  *)
(* redelivery (core/celery_delivery.py), the event lease                    *)
(* (orchestration/lease.py) and the soft time limit                         *)
(* (services/soft_time_limit_outcome.py).                                   *)
(***************************************************************************)
EXTENDS Naturals, FiniteSets

CONSTANTS
    Intents,         \* intents of the event
    Dispatchers,     \* processes that claim and publish
    Workers,         \* Celery worker processes
    MaxAttempts,     \* auto_investigate_max_attempts
    DeferMax,        \* DEFER_RETRY_MAX_ATTEMPTS
    Conserve,        \* whether conserve_retry_budget publications happen
    MaxRevisions,    \* bound: revisions of an intent that are claimed
    MaxCrashes,      \* bound: process deaths
    MaxFaults,       \* bound: failed publications and transient failures
    None             \* no value

ASSUME IntentConstants ==
    /\ MaxAttempts \in Nat /\ DeferMax \in Nat \ {0} /\ Conserve \in BOOLEAN
    /\ MaxRevisions \in Nat \ {0} /\ MaxCrashes \in Nat /\ MaxFaults \in Nat
    /\ None \notin Intents \X Nat

VARIABLES
    status, attempt, rev, task, \* columns of the intent; task is broker_task_id
    claimLive,                  \* claim_expires_at is set and not past
    aged,                       \* updated_at is older than the stale limit
    event,                      \* phase of the event
    queue,                      \* messages in the broker
    dpc, held, snap,            \* dispatcher: place, intent in hand, row it read
    published, repeated,        \* history: task ids published, and published again
    wpc, msg, mode, res,        \* worker: place, delivery, kind of run, result
    lease, claim,               \* Redis: event lease, redelivery resume claim
    crashes, faults

rows == <<status, attempt, rev, task, claimLive, aged>>
dispatch == <<dpc, held, snap, published, repeated>>
work == <<wpc, msg, mode, res>>
vars == <<rows, event, queue, dispatch, work, lease, claim, crashes, faults>>

Terminal == {"terminal", "skipped", "dead"}
Statuses == {"pending", "claimed", "enqueued", "started", "retry"} \cup Terminal

\* deterministic_investigation_task_id
TaskId(i, r) == <<i, r>>
Tasks == Intents \X (1..(MaxRevisions + 1))
\* again: the broker marks it redelivered; first: not yet put back or retried;
\* claimed: an earlier delivery of it took the resume claim
Messages == [id : Tasks, again : BOOLEAN, resume : BOOLEAN, first : BOOLEAN,
             claimed : BOOLEAN, defers : 0..(DeferMax - 1)]

Init ==
    /\ status = [i \in Intents |-> "pending"]
    /\ attempt = [i \in Intents |-> 0]
    /\ rev = [i \in Intents |-> 1]
    /\ task = [i \in Intents |-> None]
    /\ claimLive = [i \in Intents |-> FALSE]
    /\ aged = [i \in Intents |-> FALSE]
    /\ event = "new"
    /\ queue = {}
    /\ dpc = [d \in Dispatchers |-> "idle"]
    /\ held = [d \in Dispatchers |-> None]
    /\ snap = [d \in Dispatchers |-> None]
    /\ published = {} /\ repeated = {}
    /\ wpc = [w \in Workers |-> "idle"]
    /\ msg = [w \in Workers |-> None]
    /\ mode = [w \in Workers |-> "fresh"]
    /\ res = [w \in Workers |-> None]
    /\ lease = None /\ claim = None
    /\ crashes = 0 /\ faults = 0

-----------------------------------------------------------------------------
(* Rows                                                                    *)

\* A row update writes these columns and refreshes updated_at.
Update(i, s, n, r, t, live) ==
    /\ status' = [status EXCEPT ![i] = s]
    /\ attempt' = [attempt EXCEPT ![i] = n]
    /\ rev' = [rev EXCEPT ![i] = r]
    /\ task' = [task EXCEPT ![i] = t]
    /\ claimLive' = [claimLive EXCEPT ![i] = live]
    /\ aged' = [aged EXCEPT ![i] = FALSE]

\* Status only; the claim is cleared.
SetStatus(i, s) == Update(i, s, attempt[i], rev[i], task[i], FALSE)

\* RETRY under the next revision, from a row with attempt n and revision r.
Retry(i, n, r) == Update(i, "retry", n + 1, r + 1, TaskId(i, r + 1), FALSE)

-----------------------------------------------------------------------------
(* Dispatcher                                                              *)

\* _claim_intent and the rows of _claim_batch
Claim(d, i) ==
    /\ dpc[d] = "idle" /\ rev[i] <= MaxRevisions
    /\ \/ status[i] \in {"pending", "retry"}
          /\ Update(i, "claimed", attempt[i], rev[i], task[i], TRUE)
       \/ status[i] = "claimed" /\ ~claimLive[i]
          /\ Update(i, "claimed", attempt[i] + 1, rev[i], task[i], TRUE)
    /\ dpc' = [dpc EXCEPT ![d] = "claimed"]
    /\ held' = [held EXCEPT ![d] = i]
    /\ UNCHANGED <<snap, published, repeated, event, queue, work, lease, claim, crashes, faults>>

ClaimExpires(i) ==
    /\ claimLive[i]
    /\ claimLive' = [claimLive EXCEPT ![i] = FALSE]
    /\ UNCHANGED <<status, attempt, rev, task, aged, event, queue, dispatch, work,
                   lease, claim, crashes, faults>>

\* sibling_blocking
SiblingBlocks(i) ==
    \E j \in Intents \ {i} : status[j] \in {"claimed", "enqueued", "started"}

\* resume_from_checkpoint
Resumes(i) == rev[i] > 1 /\ event \in {"mid", "waiting"}

Dispatched(d) ==
    /\ dpc' = [dpc EXCEPT ![d] = "idle"]
    /\ held' = [held EXCEPT ![d] = None]
    /\ snap' = [snap EXCEPT ![d] = None]

\* _commit_enqueued_publish_target
CommitEnqueued(d) ==
    LET i == held[d] IN
    /\ dpc[d] = "claimed"
    /\ \/ /\ status[i] # "claimed"
          /\ Dispatched(d) /\ UNCHANGED rows
       \/ /\ status[i] = "claimed" /\ event # "new" /\ ~Resumes(i)
          /\ Dispatched(d) /\ SetStatus(i, "skipped")
       \/ /\ status[i] = "claimed" /\ (event = "new" \/ Resumes(i)) /\ SiblingBlocks(i)
          /\ Dispatched(d) /\ Retry(i, attempt[i], rev[i])
       \/ /\ status[i] = "claimed" /\ (event = "new" \/ Resumes(i)) /\ ~SiblingBlocks(i)
          /\ Update(i, "enqueued", attempt[i], rev[i], TaskId(i, rev[i]), FALSE)
          /\ dpc' = [dpc EXCEPT ![d] = "publish"]
          /\ snap' = [snap EXCEPT ![d] =
                [id |-> TaskId(i, rev[i]), again |-> FALSE, resume |-> Resumes(i),
                 first |-> TRUE, claimed |-> FALSE, defers |-> 0]]
          /\ UNCHANGED held
    /\ UNCHANGED <<published, repeated, event, queue, work, lease, claim, crashes, faults>>

\* The message of snap[d] is in the broker.
Send(d) ==
    /\ queue' = queue \cup {snap[d]}
    /\ published' = published \cup {snap[d].id}
    /\ repeated' = repeated \cup (published \cap {snap[d].id})

\* apply_async returned
Publish(d) ==
    /\ dpc[d] = "publish"
    /\ Send(d)
    /\ Dispatched(d)
    /\ UNCHANGED <<rows, event, work, lease, claim, crashes, faults>>

\* The publication raised, with the message in the broker or not; the revert
\* reads the row, without a lock.
PublishFails(d, sent) ==
    LET i == held[d] IN
    /\ dpc[d] = "publish" /\ faults < MaxFaults
    /\ faults' = faults + 1
    /\ IF sent THEN Send(d) ELSE UNCHANGED <<queue, published, repeated>>
    /\ IF status[i] = "enqueued"
       THEN /\ dpc' = [dpc EXCEPT ![d] = "revert"]
            /\ snap' = [snap EXCEPT ![d] = [attempt |-> attempt[i], rev |-> rev[i]]]
            /\ UNCHANGED held
       ELSE Dispatched(d)
    /\ UNCHANGED <<rows, event, work, lease, claim, crashes>>

\* _revert_enqueued_after_publish_failure and _after_unexpected_failure write
\* what they computed from the row they read.
Revert(d, kind) ==
    LET i == held[d]  s == snap[d] IN
    /\ dpc[d] = "revert"
    /\ \/ kind = "conserve" /\ Conserve /\ rev[i] > 1
          /\ Update(i, "retry", attempt[i], rev[i], None, claimLive[i])
       \/ kind = "transient" /\ s.attempt + 1 >= MaxAttempts
          /\ Update(i, "dead", attempt[i], rev[i], task[i], claimLive[i])
       \/ kind = "transient" /\ s.attempt + 1 < MaxAttempts
          /\ Update(i, "retry", s.attempt + 1, s.rev + 1, TaskId(i, s.rev + 1), claimLive[i])
       \/ kind = "unexpected"
          /\ Update(i, "dead", attempt[i], rev[i], None, claimLive[i])
    /\ Dispatched(d)
    /\ UNCHANGED <<published, repeated, event, queue, work, lease, claim, crashes, faults>>

\* _STARTED_STALE_MIN_S exceeds the soft time limit, which ends the first
\* delivery of a task; a later one may outlast it.
Age(i) ==
    /\ status[i] \in {"enqueued", "started"} /\ ~aged[i]
    /\ status[i] = "started" =>
          \A w \in Workers :
              wpc[w] # "idle" => msg[w].id # task[i] \/ ~msg[w].first
    /\ aged' = [aged EXCEPT ![i] = TRUE]
    /\ UNCHANGED <<status, attempt, rev, task, claimLive, event, queue, dispatch, work,
                   lease, claim, crashes, faults>>

\* Mutant: an ENQUEUED row has no time limit of its own.
StaleStartedOnly(i) ==
    \/ status[i] = "claimed" /\ ~claimLive[i]
    \/ status[i] = "started" /\ aged[i]

\* _is_stale_intent_row
Stale(i) ==
    \/ status[i] = "claimed" /\ ~claimLive[i]
    \/ status[i] \in {"enqueued", "started"} /\ aged[i]

\* _reconcile_stale_row
ReconcileStale(i) ==
    /\ Stale(i) /\ rev[i] <= MaxRevisions
    /\ \/ /\ status[i] = "started" /\ event = "closed" /\ SetStatus(i, "terminal")
       \/ /\ status[i] = "started" /\ event = "failed" /\ SetStatus(i, "skipped")
       \/ /\ ~(status[i] = "started" /\ event \in {"closed", "failed"})
          /\ IF attempt[i] + 1 >= MaxAttempts
             THEN Update(i, "dead", attempt[i], rev[i] + 1, None, FALSE)
             ELSE Retry(i, attempt[i], rev[i])
    /\ UNCHANGED <<event, queue, dispatch, work, lease, claim, crashes, faults>>

-----------------------------------------------------------------------------
(* The event lease                                                         *)

\* _renew_loop: a run that renews keeps its lease; the TTL of one a resumed run
\* acquired itself outlasts the soft time limit.  An inherited one may end before
\* its first renewal.
Keeps(w, t) ==
    /\ wpc[w] \in {"read", "run"} /\ msg[w].id = t /\ mode[w] \in {"fresh", "resume"}

LeaseExpires ==
    /\ lease # None /\ \A w \in Workers : ~Keeps(w, lease)
    /\ lease' = None
    /\ UNCHANGED <<rows, event, queue, dispatch, work, claim, crashes, faults>>

\* The release script
Released(t) == IF lease = t THEN None ELSE lease

\* REDELIVERY_RESUME_CLAIM_TTL_S exceeds the soft time limit of the delivery that
\* took the claim; one that re-enters it may outlast it.
ResumeClaimExpires ==
    /\ claim # None
    /\ \A w \in Workers : wpc[w] # "idle" /\ msg[w].id = claim => msg[w].claimed
    /\ claim' = None
    /\ UNCHANGED <<rows, event, queue, dispatch, work, lease, crashes, faults>>

-----------------------------------------------------------------------------
(* Worker                                                                  *)

Me(w) == msg[w].id

Goto(w, where) == wpc' = [wpc EXCEPT ![w] = where]

Result(w, r) ==
    /\ Goto(w, "finalize")
    /\ res' = [res EXCEPT ![w] = r]

Ack(w) ==
    /\ Goto(w, "idle")
    /\ msg' = [msg EXCEPT ![w] = None]
    /\ res' = [res EXCEPT ![w] = None]
    /\ mode' = [mode EXCEPT ![w] = "fresh"]

\* The broker hands a message to a worker; acks_late leaves it unacknowledged.
Deliver(w, m) ==
    /\ wpc[w] = "idle" /\ m \in queue
    /\ queue' = queue \ {m}
    /\ msg' = [msg EXCEPT ![w] = m]
    /\ Goto(w, "admit")
    /\ UNCHANGED <<rows, event, dispatch, mode, res, lease, claim, crashes, faults>>

\* The admissions of mark_started
Accepts(i, t) ==
    \/ status[i] = "started" /\ t \in {task[i], TaskId(i, rev[i])}
    \/ status[i] = "enqueued" /\ task[i] \in {None, t}

\* mark_started; a delivery that is not ACCEPTED is acknowledged
Admit(w) ==
    LET i == Me(w)[1] IN
    /\ wpc[w] = "admit"
    /\ IF Accepts(i, Me(w))
       THEN /\ IF status[i] = "started" /\ task[i] = Me(w)
               THEN UNCHANGED rows
               ELSE Update(i, "started", attempt[i], rev[i], Me(w), FALSE)
            /\ Goto(w, IF msg[w].again \/ msg[w].resume THEN "handoff" ELSE "acquire")
            /\ UNCHANGED <<msg, mode, res>>
       ELSE Ack(w) /\ UNCHANGED rows
    /\ UNCHANGED <<event, queue, dispatch, lease, claim, crashes, faults>>

\* The delivery ends with its message back in the broker.
PutBack(w, redelivered, defers) ==
    /\ queue' = queue \cup
          {[msg[w] EXCEPT !.again = redelivered, !.first = FALSE, !.defers = defers,
                          !.claimed = @ \/ claim = Me(w)]}
    /\ Ack(w)

\* DEFER_RETRY_MAX_ATTEMPTS
Exhausted(w) == msg[w].defers + 1 >= DeferMax

\* RedeliveryDeferRetry: the message comes back as a retry, which the broker
\* does not mark as redelivered, until the attempts are used up.
Defer(w) ==
    IF Exhausted(w)
    THEN Result(w, "skipped") /\ UNCHANGED <<queue, msg, mode>>
    ELSE PutBack(w, FALSE, msg[w].defers + 1)

\* claim_redelivery_resume
Claimable(w) == claim \in {None, Me(w)}

\* The run starts; one that acquired its lease, or inherited it, renews it.
Begin(w, m) ==
    /\ mode' = [mode EXCEPT ![w] = m]
    /\ Goto(w, "run")
    /\ UNCHANGED res

\* _handle_redelivered_investigation: the decision on the event status,
\* evaluate_redelivery_handoff, and the early exits of execute_redelivery_resume.
\* A lease taken before the claim is refused stays with the task.
Handoff(w) ==
    /\ wpc[w] = "handoff"
    /\ \/ /\ event \in {"closed", "failed"}
          /\ Result(w, "skipped")
          /\ UNCHANGED <<queue, msg, mode, lease, claim>>
       \/ /\ event \notin {"closed", "failed"} /\ lease \in {None, Me(w)} /\ Claimable(w)
          /\ claim' = Me(w)
          /\ \/ event = "waiting" /\ Result(w, "retry")
                /\ lease' = None /\ UNCHANGED mode
             \/ event = "new" /\ Begin(w, "inherit_fresh") /\ lease' = Me(w)
             \/ event = "mid" /\ Goto(w, "resume")
                /\ mode' = [mode EXCEPT ![w] = IF lease = None THEN "resume" ELSE "inherit_resume"]
                /\ UNCHANGED <<res, lease>>
          /\ UNCHANGED <<queue, msg>>
       \/ /\ event \notin {"closed", "failed"} /\ (lease \notin {None, Me(w)} \/ ~Claimable(w))
          /\ lease' = IF event = "new" /\ lease = None THEN Me(w) ELSE lease
          /\ Defer(w) /\ UNCHANGED claim
    /\ UNCHANGED <<rows, event, dispatch, crashes, faults>>

\* The same with no checkpoint to resume from.
HandoffNoCheckpoint(w) ==
    /\ wpc[w] = "handoff" /\ event \in {"mid", "waiting"} /\ lease = None
    /\ Defer(w)
    /\ UNCHANGED <<rows, event, dispatch, lease, claim, crashes, faults>>

\* resume_investigation_from_checkpoint: an inherited lease is used as it is,
\* otherwise it is acquired.  Neither is renewed.
Resume(w) ==
    /\ wpc[w] = "resume"
    /\ \/ mode[w] = "inherit_resume" /\ Goto(w, "read") /\ UNCHANGED <<res, lease>>
       \/ mode[w] = "resume" /\ lease = None
          /\ lease' = Me(w) /\ Goto(w, "read") /\ UNCHANGED res
       \/ mode[w] = "resume" /\ lease # None
          /\ Result(w, "retry") /\ UNCHANGED lease
    /\ UNCHANGED <<rows, event, queue, dispatch, msg, mode, claim, crashes, faults>>

\* The lease a resumed run gives back when it stops early
ResumeReleases(w) == IF mode[w] = "resume" THEN Released(Me(w)) ELSE lease

\* _resume_investigation_from_checkpoint_body reads the status again.
ResumeReads(w) ==
    /\ wpc[w] = "read"
    /\ IF event \in {"waiting", "closed", "failed"}
       THEN Result(w, "skipped") /\ lease' = ResumeReleases(w)
       ELSE Goto(w, "run") /\ UNCHANGED <<res, lease>>
    /\ UNCHANGED <<rows, event, queue, dispatch, msg, mode, claim, crashes, faults>>

\* SET NX
Free == lease = None

\* Mutant: the lease is taken whether or not another run holds it.
AcquireAnyway(w) ==
    /\ wpc[w] = "acquire"
    /\ lease' = Me(w) /\ Begin(w, "fresh")
    /\ UNCHANGED <<rows, event, queue, dispatch, msg, claim, crashes, faults>>

\* SuperAgent.investigate acquires the lease and starts the renewal.
Acquire(w) ==
    /\ wpc[w] = "acquire"
    /\ IF Free
       THEN lease' = Me(w) /\ Begin(w, "fresh")
       ELSE Result(w, "retry") /\ UNCHANGED <<mode, lease>>
    /\ UNCHANGED <<rows, event, queue, dispatch, msg, claim, crashes, faults>>

\* A node of the graph moves the event on.
Progress(w) ==
    /\ wpc[w] = "run"
    /\ \/ event = "new" /\ event' = "mid"
       \/ event = "mid" /\ event' \in {"waiting", "closed"}
    /\ UNCHANGED <<rows, queue, dispatch, work, lease, claim, crashes, faults>>

\* The approval engine lets the event go on.
Approve ==
    /\ event = "waiting" /\ event' = "mid"
    /\ UNCHANGED <<rows, queue, dispatch, work, lease, claim, crashes, faults>>

\* The graph has come to its end, or waits for an approval.
RunEnds(w) ==
    /\ wpc[w] = "run" /\ event \in {"waiting", "closed", "failed"}
    /\ Result(w, "ok")
    /\ lease' = Released(Me(w))
    /\ UNCHANGED <<rows, event, queue, dispatch, msg, mode, claim, crashes, faults>>

Renews(w) == mode[w] \in {"fresh", "inherit_fresh"}

\* The graph of an investigation raises: the event fails, the lease is released,
\* and the error is retried by the broker or ends in mark_dead.
RunRaises(w, transient) ==
    /\ wpc[w] = "run" /\ Renews(w) /\ faults < MaxFaults
    /\ faults' = faults + 1
    /\ event' = IF event = "closed" THEN event ELSE "failed"
    /\ lease' = Released(Me(w))
    /\ IF transient
       THEN PutBack(w, FALSE, msg[w].defers)
       ELSE Result(w, "dead") /\ UNCHANGED <<queue, msg, mode>>
    /\ UNCHANGED <<rows, dispatch, claim, crashes>>

\* A resumed graph raises: execute_graph_resume_with_retry tries again, or the
\* task ends in mark_dead.
ResumeRaises(w, transient) ==
    /\ wpc[w] = "run" /\ ~Renews(w) /\ faults < MaxFaults
    /\ faults' = faults + 1
    /\ lease' = ResumeReleases(w)
    /\ IF transient THEN Goto(w, "resume") /\ UNCHANGED res ELSE Result(w, "dead")
    /\ UNCHANGED <<rows, event, queue, dispatch, msg, mode, claim, crashes>>

\* renew succeeds for the first time on an inherited lease.
Renew(w) ==
    /\ wpc[w] = "run" /\ mode[w] = "inherit_fresh" /\ lease = Me(w)
    /\ mode' = [mode EXCEPT ![w] = "fresh"]
    /\ UNCHANGED <<rows, event, queue, dispatch, wpc, msg, res, lease, claim, crashes, faults>>

\* The renewal loop finds the lease gone, or cannot reach Redis too often in a
\* row; the run is cancelled and releases.
LeaseLost(w) ==
    /\ wpc[w] = "run" /\ Renews(w)
    /\ \/ lease # Me(w) /\ UNCHANGED faults
       \/ lease = Me(w) /\ faults < MaxFaults /\ faults' = faults + 1
    /\ lease' = Released(Me(w))
    /\ Result(w, "retry")
    /\ UNCHANGED <<rows, event, queue, dispatch, msg, mode, claim, crashes>>

\* _missing_broker_fence, _is_stale_broker_owner
Fenced(i, t) == task[i] # t

\* _is_orphan_terminal_intent and no active sibling
Orphan(i) ==
    /\ event \notin {"closed", "failed"} /\ status[i] \in Terminal
    /\ \A j \in Intents \ {i} : status[j] \in Terminal

\* apply_soft_time_limit_outcome, and the release after it.  recoverable is what
\* the probe found of the checkpoint and the write-backs.
SoftLimit(w, recoverable) ==
    LET i == Me(w)[1]
        live == status[i] \notin Terminal
        recovers == /\ ~Fenced(i, Me(w)) /\ live /\ recoverable /\ event = "mid"
                    /\ attempt[i] + 1 < MaxAttempts
    IN
    /\ wpc[w] = "run"
    /\ \/ /\ Fenced(i, Me(w)) /\ ~Orphan(i)
          /\ UNCHANGED <<rows, event>>
       \/ /\ Fenced(i, Me(w)) /\ Orphan(i)
          /\ event' = "failed" /\ UNCHANGED rows
       \/ /\ recovers
          /\ Retry(i, attempt[i], rev[i]) /\ UNCHANGED event
       \/ /\ ~Fenced(i, Me(w)) /\ ~recovers
          /\ event' = IF event = "closed" THEN event ELSE "failed"
          /\ IF live THEN SetStatus(i, "dead") ELSE UNCHANGED rows
    /\ lease' = Released(Me(w))
    /\ Ack(w)
    /\ UNCHANGED <<queue, dispatch, claim, crashes, faults>>

\* Mutant: a completion is not compared with the task that owns the row.
OwnsAny(i, t) == status[i] = "started"

\* expected_broker_task_id of _transition
Owns(i, t) == status[i] = "started" /\ task[i] = t

\* _finalize_intent_from_result, and mark_dead of the task
Finalize(w) ==
    LET i == Me(w)[1] IN
    /\ wpc[w] = "finalize"
    /\ IF ~Owns(i, Me(w))
       THEN UNCHANGED rows
       ELSE \/ res[w] = "ok" /\ SetStatus(i, "terminal")
            \/ res[w] = "skipped" /\ SetStatus(i, "skipped")
            \/ res[w] = "dead" /\ SetStatus(i, "dead")
            \/ res[w] = "retry" /\ Retry(i, attempt[i], rev[i])
    /\ Ack(w)
    /\ UNCHANGED <<event, queue, dispatch, lease, claim, crashes, faults>>

\* A worker dies: reject_on_worker_lost puts the message back as redelivered.
Crash(w) ==
    /\ wpc[w] # "idle" /\ crashes < MaxCrashes
    /\ crashes' = crashes + 1
    /\ PutBack(w, TRUE, msg[w].defers)
    /\ UNCHANGED <<rows, event, dispatch, lease, claim, faults>>

DispatcherDies(d) ==
    /\ dpc[d] # "idle" /\ crashes < MaxCrashes
    /\ crashes' = crashes + 1
    /\ Dispatched(d)
    /\ UNCHANGED <<rows, published, repeated, event, queue, work, lease, claim, faults>>

WorkerStep(w) ==
    \/ Admit(w) \/ Handoff(w) \/ HandoffNoCheckpoint(w) \/ Acquire(w)
    \/ Resume(w) \/ ResumeReads(w)
    \/ Progress(w) \/ RunEnds(w) \/ Renew(w) \/ LeaseLost(w) \/ Finalize(w) \/ Crash(w)
    \/ \E m \in queue : Deliver(w, m)
    \/ \E b \in BOOLEAN : RunRaises(w, b) \/ ResumeRaises(w, b) \/ SoftLimit(w, b)

DispatcherStep(d) ==
    \/ \E i \in Intents : Claim(d, i)
    \/ CommitEnqueued(d) \/ Publish(d) \/ DispatcherDies(d)
    \/ \E sent \in BOOLEAN : PublishFails(d, sent)
    \/ \E kind \in {"conserve", "transient", "unexpected"} : Revert(d, kind)

Next ==
    \/ \E w \in Workers : WorkerStep(w)
    \/ \E d \in Dispatchers : DispatcherStep(d)
    \/ \E i \in Intents : ClaimExpires(i) \/ Age(i) \/ ReconcileStale(i)
    \/ LeaseExpires \/ ResumeClaimExpires \/ Approve

Spec == Init /\ [][Next]_vars

\* The steps of a worker between its long calls
Advance(w) ==
    \/ Admit(w) \/ Handoff(w) \/ Acquire(w) \/ Resume(w) \/ ResumeReads(w) \/ Finalize(w)

\* A worker goes on, the soft time limit ends a run, the beat schedule runs the
\* reconcile, and clocks advance.
FairSpec ==
    /\ Spec
    /\ \A w \in Workers :
          WF_vars(Advance(w)) /\ WF_vars(\E b \in BOOLEAN : SoftLimit(w, b))
    /\ \A i \in Intents :
          WF_vars(ReconcileStale(i)) /\ WF_vars(ClaimExpires(i)) /\ WF_vars(Age(i))

-----------------------------------------------------------------------------
(* Properties                                                              *)

TypeOK ==
    /\ status \in [Intents -> Statuses]
    /\ attempt \in [Intents -> Nat]
    /\ rev \in [Intents -> 1..(MaxRevisions + 1)]
    /\ \A i \in Intents : task[i] = None \/ task[i] \in {i} \X (1..(MaxRevisions + 1))
    /\ claimLive \in [Intents -> BOOLEAN] /\ aged \in [Intents -> BOOLEAN]
    /\ event \in {"new", "mid", "waiting", "closed", "failed"}
    /\ queue \subseteq Messages /\ repeated \subseteq published /\ published \subseteq Tasks
    /\ \A w \in Workers : wpc[w] = "idle" \/ msg[w] \in Messages
    /\ lease \in Tasks \cup {None} /\ claim \in Tasks \cup {None}

Running(w) == wpc[w] = "run"

\* Two runs of different tasks that acquired or renewed the lease are never under
\* way together, whatever was redelivered, reconciled or published in between
\* (EventLease, mark_started, evaluate_redelivery_handoff).  The lease knows its
\* holder by the task id: a second message under the id of a run, which a conserved
\* publication or a late revert causes, can take the lease from it, so such a run
\* is outside this.
FreshRunsExclusive ==
    \A v, w \in Workers :
        Running(v) /\ Running(w) /\ mode[v] = "fresh" /\ mode[w] = "fresh" =>
            Me(v) = Me(w) \/ Me(v) \in repeated \/ Me(w) \in repeated

\* At most one intent of the event is published or started, although rows are
\* claimed before the event is locked (_commit_enqueued_publish_target).
OneActiveIntent ==
    \A i, j \in Intents :
        status[i] \in {"enqueued", "started"} /\ status[j] \in {"enqueued", "started"} => i = j

\* At most one delivery at a time resumes the event from its checkpoint, as the
\* resume claim is there to ensure (claim_redelivery_resume, EventLease).
\* The code does not keep this (README, disagreements).
SingleResume ==
    \A v, w \in Workers :
        Running(v) /\ Running(w) /\ ~Renews(v) /\ ~Renews(w) => v = w

\* A settled intent stays settled: only an explicit replay, which is not part of
\* this model, re-arms it (INTENT_TRANSITIONS).
\* The code does not keep this (README, disagreements).
OnlyReplayRearms ==
    [][\A i \in Intents : status[i] \in Terminal => status'[i] = status[i]]_vars

\* While the run of an intent's current task is under way, no delivery of an older
\* task ends or re-arms the intent: only the time limit of the reconcile, the revert
\* of a failed publication, and a second message under the same task id, which a
\* conserved publication creates, do (mark_started, _transition,
\* apply_soft_time_limit_outcome).
LiveRunKeepsIntent ==
    [][\A i \in Intents, w \in Workers :
          /\ Running(w) /\ Me(w) = task[i] /\ status[i] = "started"
          /\ wpc'[w] = "run" /\ ~aged[i]
          /\ \A d \in Dispatchers : ~(dpc[d] = "revert" /\ held[d] = i)
          /\ \A v \in Workers \ {w} : wpc[v] # "idle" => Me(v) # task[i]
          => status'[i] = "started"]_vars

\* A claimed, published or started intent does not stay so when its dispatcher,
\* message or worker is lost (reconcile_stale).
NotStuck ==
    \A i \in Intents :
        status[i] \in {"claimed", "enqueued", "started"} ~>
            \/ status[i] \notin {"claimed", "enqueued", "started"}
            \/ rev[i] > MaxRevisions

\* A delivery that gives up while another owner holds the lease of an unfinished
\* event leaves its intent recoverable, not SKIPPED
\* (_finalize_intent_from_result).
\* The code does not keep this (README, disagreements).
ContentionKeepsRecoverable ==
    [][\A w \in Workers :
          wpc[w] = "finalize" /\ res[w] = "skipped" /\ event \in {"new", "mid"}
              /\ lease \notin {None, Me(w)}
          => status'[Me(w)[1]] = status[Me(w)[1]]]_vars

=============================================================================
