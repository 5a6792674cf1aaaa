-------------------------- MODULE ActionExecution --------------------------
(***************************************************************************)
(* Execution of the approved actions of one event                          *)
(* (services/action_execution_service.py) with the execution job each       *)
(* idempotency key has, the tool executor's write-back of the job           *)
(* (tools/executor.py), and the reclaim of executions whose worker is gone. *)
(*                                                                         *)
(* A worker claims an action, inserts the job of its key or attaches to the *)
(* one that is there, and then either enqueues the command of the action    *)
(* (XDR-managed) or calls the tool (direct).  A database transaction is one *)
(* step; everything between two transactions can be interrupted.            *)
(***************************************************************************)
EXTENDS Naturals, FiniteSets

CONSTANTS
    Actions,       \* action ids of the plan
    Keys,          \* idempotency keys
    KeyOf,         \* the key of each action
    Direct,        \* actions owned by DIRECT_TOOL; the others are XDR_MANAGED
    Applicable,    \* actions with writeback_applicable
    Workers,       \* processes running execute_plan
    Mock,          \* mock tool mode with simulation enabled
    MaxAttempts,   \* action_execution_max_attempts
    MaxCrashes,    \* bound on process deaths
    MaxFaults      \* bound on raised database errors

ASSUME ActionConstants ==
    /\ Actions # {}
    /\ KeyOf \in [Actions -> Keys]
    /\ Direct \subseteq Actions /\ Applicable \subseteq Actions
    /\ Mock \in BOOLEAN
    /\ MaxAttempts \in Nat \ {0} /\ MaxCrashes \in Nat /\ MaxFaults \in Nat

VARIABLES
    action,        \* Action.status
    linked,        \* Action.execution_job_id is the job of the action's key
    job,           \* ActionExecutionJob.status, "absent" before the insert
    jobAction,     \* ActionExecutionJob.action_id: the action that inserted it
    leased,        \* lease_expires_at is set
    expired,       \* the expiry written at the insert has passed
    attempt,       \* ActionExecutionJob.attempt
    outbox,        \* the command of the action: "none", "active", "settled"
    pc, cur, res,  \* where a worker is, its action, the status it holds
    snap,          \* the job row a worker read before a compare-and-set
    calls,         \* history: requests for the side effect of a key
    effect,        \* history: the provider executed the key's side effect
    human,         \* history: actions an operator adjudicated
    crashes, faults

dbVars == <<action, linked, job, jobAction, leased, expired, attempt, outbox>>
procVars == <<pc, cur, res, snap>>
histVars == <<calls, effect, human, crashes, faults>>
vars == <<dbVars, procVars, histVars>>

Done == {"success", "partial_success", "failed"}
Open == {"queued", "running"}
Finished == {"success", "partial_success", "failed", "timed_out"}

-----------------------------------------------------------------------------
(* Tables and mappings                                                     *)

\* ACTION_STATUS_TRANSITIONS_BY_CATEGORY[RESPONSE], for the statuses an
\* execution meets; executing -> approved needs the reclaim flag.
ActionEdge(from, to) ==
    \/ from = "approved" /\ to = "executing"
    \/ from = "executing" /\ to \in Done \cup {"unknown"}
    \/ from = "unknown" /\ to \in Done

\* _map_job_to_action_status
ActionStatusOf(s) ==
    CASE s \in {"success", "partial_success", "unknown"} -> s
      [] s \in {"failed", "timed_out"} -> "failed"
      [] OTHER -> "executing"

\* _cas_writeback_job: what a tool result makes of the job; a result of any
\* other status leaves the job's status.
JobStatusOf(result, current) ==
    CASE result = "accepted" -> "queued"
      [] result = "timeout" -> "timed_out"
      [] result \in {"success", "partial_success", "unknown", "failed"} -> result
      [] OTHER -> current

Init ==
    /\ action = [a \in Actions |-> "approved"]
    /\ linked = [a \in Actions |-> FALSE]
    /\ job = [k \in Keys |-> "absent"]
    /\ jobAction = [k \in Keys |-> CHOOSE a \in Actions : TRUE]
    /\ leased = [k \in Keys |-> FALSE]
    /\ expired = [k \in Keys |-> FALSE]
    /\ attempt = [k \in Keys |-> 1]
    /\ outbox = [a \in Actions |-> "none"]
    /\ pc = [w \in Workers |-> "idle"]
    /\ cur = [w \in Workers |-> CHOOSE a \in Actions : TRUE]
    /\ res = [w \in Workers |-> "none"]
    /\ snap = [w \in Workers |-> [status |-> "absent", leased |-> FALSE, attempt |-> 1]]
    /\ calls = [k \in Keys |-> 0]
    /\ effect = [k \in Keys |-> FALSE]
    /\ human = {}
    /\ crashes = 0
    /\ faults = 0

Goto(w, label) == pc' = [pc EXCEPT ![w] = label]

-----------------------------------------------------------------------------
(* execute_action: claim, then the job of the key                          *)

\* _claim_action
Claim(w, a) ==
    /\ pc[w] = "idle" /\ action[a] = "approved"
    /\ action' = [action EXCEPT ![a] = "executing"]
    /\ cur' = [cur EXCEPT ![w] = a]
    /\ Goto(w, "claimed")
    /\ UNCHANGED <<linked, job, jobAction, leased, expired, attempt, outbox,
                   res, snap, histVars>>

\* Mutants: attaching takes an open job for done; any finished job for a success.
AttachOptimistic(k) == IF job[k] \in Open THEN "success" ELSE ActionStatusOf(job[k])
\* _attach_existing_job: the status the action takes.  An open job cannot prove
\* that the provider did nothing.
AttachTarget(k) == IF job[k] \in Open THEN "unknown" ELSE ActionStatusOf(job[k])

AttachAllowed(a) ==
    LET t == AttachTarget(KeyOf[a])
    IN  ActionEdge(action[a], t) \/ (t = action[a] /\ job[KeyOf[a]] \notin Open)

Attach(w) ==
    LET a == cur[w] IN
    /\ pc[w] = "claimed" /\ job[KeyOf[a]] # "absent"
    /\ IF AttachAllowed(a)
       THEN /\ action' = [action EXCEPT ![a] = AttachTarget(KeyOf[a])]
            /\ linked' = [linked EXCEPT ![a] = TRUE]
            /\ Goto(w, "idle")
       ELSE Goto(w, "fail") /\ UNCHANGED <<action, linked>>
    /\ UNCHANGED <<job, jobAction, leased, expired, attempt, outbox,
                   cur, res, snap, histVars>>

\* The job of the key is inserted RUNNING with a live lease.  A direct action
\* goes on to the tool; an XDR-managed one enqueues its command in the same
\* transaction and is done.
InsertJob(w) ==
    LET a == cur[w]
        k == KeyOf[a]
    IN
    /\ pc[w] = "claimed" /\ job[k] = "absent"
    /\ job' = [job EXCEPT ![k] = "running"]
    /\ jobAction' = [jobAction EXCEPT ![k] = a]
    /\ leased' = [leased EXCEPT ![k] = TRUE]
    /\ linked' = [linked EXCEPT ![a] = TRUE]
    /\ IF a \in Direct
       THEN Goto(w, "call") /\ UNCHANGED <<outbox, calls>>
       ELSE /\ outbox' = [outbox EXCEPT ![a] = "active"]
            /\ calls' = [calls EXCEPT ![k] = @ + 1]
            /\ Goto(w, "idle")
    /\ UNCHANGED <<action, expired, attempt, cur, res, snap, effect, human,
                   crashes, faults>>

-----------------------------------------------------------------------------
(* _execute_direct_tool: the tool call and what follows it                 *)

\* executor.call reaches the provider.  The result names the provider's job
\* and is then written to ours, or it is lost ("none": a timeout or an error
\* after dispatch, reported as UNKNOWN without a job).  Whether the provider
\* executes the request shows in a final answer only.
CallTool(w, r, done) ==
    LET k == KeyOf[cur[w]] IN
    /\ pc[w] = "call"
    /\ r \in {"success", "partial_success"} => done
    /\ r \in {"failed", "timeout", "remote_error"} => ~done
    /\ (r = "accepted" /\ Mock) => ~done
    /\ calls' = [calls EXCEPT ![k] = @ + 1]
    /\ effect' = [effect EXCEPT ![k] = @ \/ done]
    /\ res' = [res EXCEPT ![w] = r]
    /\ Goto(w, IF r = "none" THEN "final" ELSE "store")
    /\ UNCHANGED <<dbVars, cur, snap, human, crashes, faults>>

\* executor.call refuses before dispatch: the convergence guard or the circuit
\* breaker answers, or the provider is not available.
CallRefused(w) ==
    /\ pc[w] = "call"
    /\ Goto(w, "final")
    /\ UNCHANGED <<dbVars, cur, res, snap, histVars>>

\* _cas_writeback_job, first half: read the job.
ReadJob(w) ==
    LET k == KeyOf[cur[w]] IN
    /\ pc[w] \in {"store", "final"}
    /\ snap' = [snap EXCEPT ![w] =
                  [status |-> job[k], leased |-> leased[k], attempt |-> attempt[k]]]
    /\ IF pc[w] = "store"
       THEN Goto(w, "cas") /\ UNCHANGED res
       \* _finalize_mock_direct_tool_job
       ELSE IF job[k] \in Open /\ Mock
       THEN Goto(w, "mock") /\ UNCHANGED res
       ELSE Goto(w, "settle") /\ res' = [res EXCEPT ![w] = job[k]]
    /\ UNCHANGED <<dbVars, cur, histVars>>

\* cas_update_job: the row must still have the status that was read; lease and
\* attempt are overwritten with what was read.
CasJob(w, to) ==
    LET k == KeyOf[cur[w]] IN
    IF job[k] = snap[w].status
    THEN /\ job' = [job EXCEPT ![k] = to]
         /\ leased' = [leased EXCEPT ![k] = snap[w].leased]
         /\ attempt' = [attempt EXCEPT ![k] = snap[w].attempt]
    ELSE UNCHANGED <<job, leased, attempt>>

WriteJob(w) ==
    /\ pc[w] = "cas"
    /\ CasJob(w, JobStatusOf(res[w], snap[w].status))
    /\ Goto(w, "final")
    /\ UNCHANGED <<action, linked, jobAction, expired, outbox,
                   cur, res, snap, histVars>>

\* _finalize_mock_direct_tool_job: the mock provider runs the job it accepted;
\* the outcome of the compare-and-set is not looked at.
MockFinalize(w, to) ==
    LET k == KeyOf[cur[w]] IN
    /\ pc[w] = "mock" /\ calls[k] > 0
    /\ effect[k] => to # "failed"
    /\ CasJob(w, to)
    /\ res' = [res EXCEPT ![w] = to]
    /\ effect' = [effect EXCEPT ![k] = @ \/ to \in {"success", "partial_success"}]
    /\ Goto(w, "settle")
    /\ UNCHANGED <<action, linked, jobAction, expired, outbox, cur, snap,
                   calls, human, crashes, faults>>

\* Mutant: a result is recorded whatever it is.
RecordableAny(a, t) == a \in Applicable

\* writeback_applicable and a successful end
Recordable(a, t) == a \in Applicable /\ t \in {"success", "partial_success"}

\* The last transaction: the action takes the job's status, if the table lets
\* it, and a successful applicable action has its result recorded next.
Settle(w) ==
    LET a == cur[w]
        t == ActionStatusOf(res[w])
    IN
    /\ pc[w] = "settle"
    /\ IF t = action[a] \/ ActionEdge(action[a], t)
       THEN /\ action' = [action EXCEPT ![a] = t]
            /\ Goto(w, IF Recordable(a, t) THEN "record" ELSE "idle")
       ELSE Goto(w, "fail") /\ UNCHANGED action
    /\ UNCHANGED <<linked, job, jobAction, leased, expired, attempt, outbox,
                   cur, res, snap, histVars>>

\* enqueue_command of the execution_result_record
Record(w) ==
    /\ pc[w] = "record"
    /\ outbox' = [outbox EXCEPT ![cur[w]] = "active"]
    /\ Goto(w, "idle")
    /\ UNCHANGED <<action, linked, job, jobAction, leased, expired, attempt,
                   cur, res, snap, histVars>>

\* A step of the worker raises: the source does not resolve, the envelope is
\* invalid, the mock provider does not know the job, the database fails.
Raise(w) ==
    /\ pc[w] \in {"claimed", "call", "mock", "final", "settle", "record"}
    /\ faults < MaxFaults
    /\ faults' = faults + 1
    /\ Goto(w, "fail")
    /\ UNCHANGED <<dbVars, cur, res, snap, calls, effect, human, crashes>>

\* _fail_executing_action
FailExecuting(w) ==
    LET a == cur[w] IN
    /\ pc[w] = "fail"
    /\ action' = [action EXCEPT ![a] = IF @ = "executing" THEN "failed" ELSE @]
    /\ Goto(w, "idle")
    /\ UNCHANGED <<linked, job, jobAction, leased, expired, attempt, outbox,
                   cur, res, snap, histVars>>

\* The process dies, or a soft time limit takes it out of the action.
Crash(w) ==
    /\ pc[w] # "idle" /\ crashes < MaxCrashes
    /\ crashes' = crashes + 1
    /\ Goto(w, "idle")
    /\ UNCHANGED <<dbVars, cur, res, snap, calls, effect, human, faults>>

-----------------------------------------------------------------------------
(* reconcile_stale_executions_for_event                                    *)

\* _reclaim_stale_job_row: an open job whose lease has run out, unless the
\* command of its action is still with the outbox.
Reclaimed ==
    {k \in Keys : /\ job[k] \in Open /\ leased[k] /\ expired[k]
                  /\ outbox[jobAction[k]] # "active"}

\* Mutant: the first reclaim gives the job up.
TimedOutAtOnce == Reclaimed

TimedOut == {k \in Reclaimed : attempt[k] >= MaxAttempts}

\* Mutant: a stale job is dropped so that its action can run again.
JobDropped(k) == IF k \in Reclaimed THEN "absent" ELSE job[k]

JobReclaimed(k) ==
    IF k \in TimedOut THEN "timed_out" ELSE IF k \in Reclaimed THEN "queued" ELSE job[k]

AttemptReclaimed(k) == IF k \in Reclaimed \ TimedOut THEN attempt[k] + 1 ELSE attempt[k]

\* The running actions that time out with their job.
FailedWithJob ==
    {a \in Actions : action[a] = "executing" /\ \E k \in TimedOut : jobAction[k] = a}

\* An action without a job is released only when it is stale.
Releasable(a, stale) == linked[a] \/ a \in stale

\* _reclaim_stale_executing_action, after the jobs were reclaimed; stale are
\* the actions without a job that have not changed for a lease's length.
ActionReclaimed(a, stale) ==
    LET k == KeyOf[a]
        s == JobReclaimed(k)
    IN
    IF a \in FailedWithJob THEN "failed"
    ELSE IF action[a] # "executing" THEN action[a]
    ELSE IF linked[a] /\ s \in Finished THEN ActionStatusOf(s)
    ELSE IF \/ linked[a] /\ s \in Open /\ leased[k] /\ ~expired[k]
            \/ outbox[a] = "active"
            \/ ~Releasable(a, stale)
    THEN "executing"
    ELSE IF linked[a] /\ AttemptReclaimed(k) >= MaxAttempts THEN "failed" ELSE "approved"

\* execution_job_id is cleared with the job's time-out and when the action is
\* released or failed for want of a finished job.
Unlinks(a, stale) ==
    \/ a \in FailedWithJob
    \/ /\ action[a] = "executing" /\ JobReclaimed(KeyOf[a]) \notin Finished
       /\ ActionReclaimed(a, stale) \in {"approved", "failed"}

Reconcile(stale) ==
    /\ action' = [a \in Actions |-> ActionReclaimed(a, stale)]
    /\ linked' = [a \in Actions |-> linked[a] /\ ~Unlinks(a, stale)]
    /\ job' = [k \in Keys |-> JobReclaimed(k)]
    /\ leased' = [k \in Keys |-> leased[k] /\ k \notin Reclaimed]
    /\ attempt' = [k \in Keys |-> AttemptReclaimed(k)]
    /\ UNCHANGED <<jobAction, expired, outbox, procVars, histVars>>

-----------------------------------------------------------------------------
(* The outbox, operators and time                                          *)

\* _apply_receipt_execution_projection, at the commit of a delivery: the receipt
\* settles the running action and the job of an XDR-managed one.  An accepted
\* command settles neither; an unknown one stays with the outbox.
Receipt(a, s) ==
    LET k == KeyOf[a] IN
    /\ outbox[a] = "active"
    /\ outbox' = [outbox EXCEPT ![a] = IF s = "unknown" THEN "active" ELSE "settled"]
    /\ IF a \in Direct \/ s = "accepted"
       THEN UNCHANGED <<action, job>>
       ELSE /\ action' = [action EXCEPT ![a] = IF @ = "executing" THEN s ELSE @]
            /\ job' = [job EXCEPT ![k] = s]
    /\ effect' = [effect EXCEPT ![k] =
                    @ \/ (a \notin Direct /\ s \in {"success", "partial_success"})]
    /\ UNCHANGED <<linked, jobAction, leased, expired, attempt, procVars,
                   calls, human, crashes, faults>>

\* resolve_unknown
ResolveUnknown(a, to) ==
    /\ action[a] = "unknown"
    /\ action' = [action EXCEPT ![a] = to]
    /\ human' = human \cup {a}
    /\ UNCHANGED <<linked, job, jobAction, leased, expired, attempt, outbox,
                   procVars, calls, effect, crashes, faults>>

LeaseExpires(k) ==
    /\ job[k] # "absent" /\ ~expired[k]
    /\ expired' = [expired EXCEPT ![k] = TRUE]
    /\ UNCHANGED <<action, linked, job, jobAction, leased, attempt, outbox,
                   procVars, histVars>>

-----------------------------------------------------------------------------
Results == {"success", "partial_success", "failed", "unknown", "timeout",
            "accepted", "remote_error", "none"}

WorkerStep(w) ==
    \/ \E a \in Actions : Claim(w, a)
    \/ Attach(w) \/ InsertJob(w)
    \/ \E r \in Results, done \in BOOLEAN : CallTool(w, r, done)
    \/ CallRefused(w)
    \/ ReadJob(w) \/ WriteJob(w)
    \/ \E to \in {"success", "partial_success", "failed", "unknown"} : MockFinalize(w, to)
    \/ Settle(w) \/ Record(w) \/ FailExecuting(w)

Next ==
    \/ \E w \in Workers : WorkerStep(w) \/ Raise(w) \/ Crash(w)
    \/ \E stale \in SUBSET Actions : Reconcile(stale)
    \/ \E a \in Actions : \E to \in Done : ResolveUnknown(a, to)
    \/ \E a \in Actions : \E s \in Done \cup {"accepted", "unknown"} : Receipt(a, s)
    \/ \E k \in Keys : LeaseExpires(k)

Spec == Init /\ [][Next]_vars

\* The beat task and every execute_plan reconcile, and clocks advance.
FairSpec ==
    /\ Spec
    /\ WF_vars(Reconcile(Actions))
    /\ \A k \in Keys : WF_vars(LeaseExpires(k))

-----------------------------------------------------------------------------
(* Properties                                                              *)

JobStatuses == Open \cup Finished \cup {"absent", "unknown"}

TypeOK ==
    /\ action \in [Actions -> Done \cup {"approved", "executing", "unknown"}]
    /\ linked \in [Actions -> BOOLEAN]
    /\ job \in [Keys -> JobStatuses]
    /\ jobAction \in [Keys -> Actions]
    /\ leased \in [Keys -> BOOLEAN] /\ expired \in [Keys -> BOOLEAN]
    /\ attempt \in [Keys -> Nat \ {0}]
    /\ outbox \in [Actions -> {"none", "active", "settled"}]
    /\ pc \in [Workers -> {"idle", "claimed", "call", "store", "cas", "final",
                           "mock", "settle", "record", "fail"}]
    /\ cur \in [Workers -> Actions]
    /\ res \in [Workers -> Results \cup JobStatuses]
    /\ snap \in [Workers -> [status : JobStatuses, leased : BOOLEAN, attempt : Nat \ {0}]]
    /\ calls \in [Keys -> Nat] /\ effect \in [Keys -> BOOLEAN]
    /\ human \subseteq Actions
    /\ crashes \in 0..MaxCrashes /\ faults \in 0..MaxFaults

\* The side effect of an idempotency key is requested at most once, whoever
\* dies and however often actions are released and claimed again: the key's job
\* is inserted once and a later execution attaches to it
\* (_execute_direct_tool, _execute_xdr_managed, _attach_existing_job).
CalledOnce == \A k \in Keys : calls[k] <= 1

\* An action is SUCCESS or PARTIAL_SUCCESS only if the provider executed its
\* side effect or an operator said so: neither a reclaim nor an attached job
\* invents a success (_reclaim_stale_executing_action, _attach_existing_job).
SuccessIsEarned ==
    \A a \in Actions : action[a] \in {"success", "partial_success"}
                        => effect[KeyOf[a]] \/ a \in human

\* An action nobody adjudicated is FAILED only if its side effect did not
\* happen; an outcome that is not known is UNKNOWN (_fail_executing_action,
\* _reclaim_stale_executing_action, _map_job_to_action_status).
\* The code does not keep this (README, disagreements).
FailedIsNotDone ==
    \A a \in Actions : action[a] = "failed" => ~effect[KeyOf[a]] \/ a \in human

\* A worker is at work on the key's job.
Busy(k) == \E w \in Workers : pc[w] # "idle" /\ KeyOf[cur[w]] = k

\* When nobody works on a key any more, a settled action nobody adjudicated
\* says of the outcome what its finished job says (the last transaction of
\* _execute_direct_tool, _apply_receipt_execution_projection).
ActionAgreesWithJob ==
    \A a \in Actions :
        LET k == KeyOf[a] IN
        (/\ ~Busy(k) /\ linked[a] /\ a \notin human
         /\ action[a] \in Done /\ job[k] \in Finished)
        => action[a] = ActionStatusOf(job[k])

\* A finished job never changes its status again, as JOB_STATUS_TRANSITIONS
\* says; cas_update_job itself compares with what was read and no more.
FinishedJobIsFinal ==
    [][\A k \in Keys : job[k] \in Finished => job'[k] = job[k]]_vars

\* The execution result of a direct action is handed to the outbox only when the
\* action is successful, late workers included (_execute_direct_tool).
OnlySuccessIsRecorded ==
    \A a \in Direct : outbox[a] # "none" => action[a] \in {"success", "partial_success"}

\* A direct action does not stay EXECUTING: its worker settles it, or the lease
\* of its job runs out and it is reclaimed (reconcile_stale_executions).
ExecutionEnds ==
    \A a \in Direct : action[a] = "executing" ~> action[a] # "executing"

=============================================================================
