------------------------------ MODULE Rollback ------------------------------
(***************************************************************************)
(* The rollback of one successful response action (services/               *)
(* rollback_service.py): a graph run compensates before it replans, the    *)
(* approval of an automated rollback continues it in the request, and the  *)
(* outbox worker recreates a compensation record that was lost.  Each of   *)
(* them is a process; a database transaction is one step.                  *)
(*                                                                         *)
(* The rollback action is executed by the action execution service, which  *)
(* ActionExecution specifies in full; here it is its claim, its job, the   *)
(* tool call and the settlement.                                           *)
(***************************************************************************)
EXTENDS Naturals, FiniteSets

CONSTANTS Sagas,          \* graph runs that call compensate
          Approvers,      \* requests that decide the rollback action
          Repairers,      \* outbox workers that run repair_completed_rollbacks
          NeedsApproval,  \* the rollback tool is of level L2 or above
          Compensates,    \* the original has a write-back to compensate
          HasReadback,    \* ROLLBACK_VERIFY_MAP has a tool for the rollback
          HostAnswers,    \* whether the event's status hosts WAITING_EXECUTION: it does
                          \* not while VERIFYING, and is not asked without a runtime
          MaxCrashes      \* bound: process deaths

ASSUME RollbackConstants ==
    /\ {NeedsApproval, Compensates, HasReadback} \subseteq BOOLEAN
    /\ HostAnswers \in SUBSET BOOLEAN \ {{}}
    /\ MaxCrashes \in Nat
    /\ Sagas \cap (Approvers \cup Repairers) = {} /\ Approvers \cap Repairers = {}

VARIABLES orig,      \* status of the action that is rolled back
          rb,        \* status of the rollback action, "absent" before the insert
          job,       \* status of its execution job
          comp,      \* active COMPENSATION_RECORD rows
          confirmed, \* those the source system confirmed
          decided,   \* the approval is on record, so that it can be replayed
          released,  \* a graph resume found the saga converged
          pc, seenOrig, seenRb,  \* the processes and the rows they hold in memory
          result,    \* the tool's answer
          missing,   \* the process saw no compensation row
          calls, undone, human,  \* history: tool calls, the effect is gone, a human said so
          crashes

rowVars == <<orig, rb, job, comp, confirmed, decided, released>>
memVars == <<seenOrig, seenRb, result, missing>>
histVars == <<calls, undone, human, crashes>>
vars == <<rowVars, pc, memVars, histVars>>

Procs == Sagas \cup Approvers \cup Repairers

Steps == {"idle", "register", "load", "claim", "substate", "job", "call", "store",
          "settle", "reload", "verify", "demote", "cas", "compread", "compwrite", "fail"}

JobEnds == {"success", "failed", "unknown"}

Goto(p, label) == pc' = [pc EXCEPT ![p] = label]

Init ==
    /\ orig = "success" /\ rb = "absent" /\ job = "absent"
    /\ comp = 0 /\ confirmed = 0
    /\ decided = FALSE /\ released = FALSE
    /\ pc = [p \in Procs |-> "idle"]
    /\ seenOrig = [p \in Procs |-> "success"]
    /\ seenRb = [p \in Procs |-> "absent"]
    /\ result = [p \in Procs |-> "unknown"]
    /\ missing = [p \in Procs |-> FALSE]
    /\ calls = 0 /\ undone = FALSE /\ human = FALSE /\ crashes = 0

-----------------------------------------------------------------------------
(* rollback_action, as compensate calls it                                 *)

\* _existing_rollback_result: where a rollback action of status s is taken up.
Continue(s) ==
    CASE s = "pending" -> "register"
      [] s = "approved" -> "claim"
      [] s = "success" -> "verify"
      [] OTHER -> "idle"

\* compensate selects, and _pre_check_rollbackable lets through, a successful
\* action only.
Rollbackable == orig = "success"

\* The row lock on the original serialises the callers; the second finds the
\* rollback action of the first by its fingerprint.
RollbackAction(p) ==
    LET first == IF NeedsApproval THEN "pending" ELSE "approved"
        now == IF rb = "absent" THEN first ELSE rb
    IN
    /\ p \in Sagas /\ pc[p] = "idle" /\ ~released
    /\ Rollbackable
    /\ rb' = now
    /\ seenOrig' = [seenOrig EXCEPT ![p] = orig]
    /\ seenRb' = [seenRb EXCEPT ![p] = now]
    /\ Goto(p, Continue(now))
    /\ UNCHANGED <<orig, job, comp, confirmed, decided, released, missing, result, histVars>>

\* _register_rollback_approval: the status is written if the table has the
\* edge, and a refusal is a warning of the result.
Register(p) ==
    /\ pc[p] = "register"
    /\ rb' = IF rb \in {"pending", "approved"} THEN "waiting" ELSE rb
    /\ Goto(p, "idle")
    /\ UNCHANGED <<orig, job, comp, confirmed, decided, released, memVars, histVars>>

-----------------------------------------------------------------------------
(* The approval of the rollback action                                     *)

\* _decide and _finish_rollback_decision: an approval continues the rollback
\* in the same request, a rejection leaves the saga held.
Decide(p, to) ==
    /\ p \in Approvers /\ pc[p] = "idle" /\ rb = "waiting"
    /\ rb' = to
    /\ decided' = (to = "approved")
    /\ Goto(p, IF to = "approved" THEN "load" ELSE "idle")
    /\ UNCHANGED <<orig, job, comp, confirmed, released, memVars, histVars>>

\* The same decision_id again: the recorded outcome is found, and the rollback
\* is continued once more.
ReplayDecision(p) ==
    /\ p \in Approvers /\ pc[p] = "idle" /\ decided
    /\ Goto(p, "load")
    /\ UNCHANGED <<rowVars, memVars, histVars>>

\* complete_approved_rollback
Load(p) ==
    /\ pc[p] = "load"
    /\ seenOrig' = [seenOrig EXCEPT ![p] = orig]
    /\ seenRb' = [seenRb EXCEPT ![p] = rb]
    /\ Goto(p, CASE rb = "success" -> "verify"
                 [] rb \in {"approved", "executing"} -> "claim"
                 [] OTHER -> "idle")
    /\ UNCHANGED <<rowVars, result, missing, histVars>>

-----------------------------------------------------------------------------
(* _complete_rollback: execute_action with its failures                    *)

\* _claim_action; a row in another status raises.
Claim(p) ==
    /\ pc[p] = "claim"
    /\ IF rb = "approved"
       THEN rb' = "executing" /\ Goto(p, "substate")
       ELSE Goto(p, "fail") /\ UNCHANGED rb
    /\ UNCHANGED <<orig, job, comp, confirmed, decided, released, memVars, histVars>>

\* _sync_execution_substate, which is outside execute_action's handler.
SyncSubstate(p) ==
    /\ pc[p] = "substate"
    /\ \E hosts \in HostAnswers : Goto(p, IF hosts THEN "job" ELSE "fail")
    /\ UNCHANGED <<rowVars, memVars, histVars>>

\* Mutant: the key of the job is not looked up.
JobUnkeyed(p) ==
    /\ pc[p] = "job"
    /\ job' = "running"
    /\ Goto(p, "call")
    /\ UNCHANGED <<orig, rb, comp, confirmed, decided, released, memVars, histVars>>

\* The job of the rollback's key is inserted, or the existing one attached: an
\* open job cannot prove that the tool did nothing.  An action that is no
\* longer executing makes the attachment raise.
Job(p) ==
    /\ pc[p] = "job"
    /\ CASE job = "absent" ->
              job' = "running" /\ Goto(p, "call") /\ UNCHANGED rb
         [] job # "absent" /\ rb = "executing" ->
              /\ rb' = IF job \in JobEnds THEN job ELSE "unknown"
              /\ Goto(p, "reload") /\ UNCHANGED job
         [] OTHER ->
              Goto(p, "fail") /\ UNCHANGED <<job, rb>>
    /\ UNCHANGED <<orig, comp, confirmed, decided, released, memVars, histVars>>

\* The rollback tool.  A final answer is truthful, a lost one is not an answer.
CallTool(p, answer, done) ==
    /\ pc[p] = "call"
    /\ answer = "success" => done
    /\ answer = "failed" => ~done
    /\ result' = [result EXCEPT ![p] = answer]
    /\ calls' = calls + 1
    /\ undone' = (undone \/ done)
    /\ Goto(p, "store")
    /\ UNCHANGED <<rowVars, seenOrig, seenRb, missing, human, crashes>>

\* The answer is written to the job if nobody changed the job meanwhile.
StoreResult(p) ==
    /\ pc[p] = "store"
    /\ job' = IF job = "running" THEN result[p] ELSE job
    /\ Goto(p, "settle")
    /\ UNCHANGED <<orig, rb, comp, confirmed, decided, released, memVars, histVars>>

\* The action takes the job's status if the table has the edge; otherwise
\* execute_action raises, and so does it when a later step of it fails.
Settle(p) ==
    /\ pc[p] = "settle"
    /\ IF rb \in {"executing", job} /\ job \in JobEnds
       THEN rb' = job /\ Goto(p, "reload")
       ELSE Goto(p, "fail") /\ UNCHANGED rb
    /\ UNCHANGED <<orig, job, comp, confirmed, decided, released, memVars, histVars>>

Reload(p) ==
    /\ pc[p] = "reload"
    /\ seenRb' = [seenRb EXCEPT ![p] = rb]
    /\ Goto(p, "verify")
    /\ UNCHANGED <<rowVars, seenOrig, result, missing, histVars>>

\* The handler of _complete_rollback: _update_action_status looks at nothing.
MarkFailed(p) ==
    /\ pc[p] = "fail"
    /\ rb' = "failed"
    /\ Goto(p, "idle")
    /\ UNCHANGED <<orig, job, comp, confirmed, decided, released, memVars, histVars>>

-----------------------------------------------------------------------------
(* _finalize_rollback_effect                                               *)

\* Mutant: what the execution reported is taken for the effect.
VerifiesReported(p) == seenRb[p] \in {"success", "unknown"}

\* _default_verify_rollback_effect may answer "verified" or "skipped": the
\* execution reported success and the readback, if there is one, finds the
\* effect gone.
Verifies(p) == seenRb[p] = "success" /\ (HasReadback => undone)

\* A readback can also fail for reasons of its own.
Verify(p, ok) ==
    /\ pc[p] = "verify"
    /\ ok => Verifies(p)
    /\ Goto(p, CASE ok -> "cas"
                 [] ~ok /\ seenRb[p] = "success" -> "demote"
                 [] OTHER -> "idle")
    /\ UNCHANGED <<rowVars, memVars, histVars>>

Demote(p) ==
    /\ pc[p] = "demote"
    /\ rb' = "failed"
    /\ Goto(p, "idle")
    /\ UNCHANGED <<orig, job, comp, confirmed, decided, released, memVars, histVars>>

\* _cas_rollback_status; the compensation follows whatever its result is.
Cas(p) ==
    /\ pc[p] = "cas"
    /\ orig' = IF seenOrig[p] = "success" THEN "rolled_back" ELSE orig
    /\ Goto(p, IF Compensates THEN "compread" ELSE "idle")
    /\ UNCHANGED <<rb, job, comp, confirmed, decided, released, memVars, histVars>>

\* _create_compensation_writebacks, up to its look at the existing rows.
CompRead(p) ==
    /\ pc[p] = "compread"
    /\ missing' = [missing EXCEPT ![p] = (comp = 0)]
    /\ Goto(p, "compwrite")
    /\ UNCHANGED <<rowVars, seenOrig, seenRb, result, histVars>>

\* The rows the transaction adds: enqueue_command locks the event, not what
\* CompRead looked at.
NewRecords(p) == IF missing[p] THEN 1 ELSE 0

CompWrite(p) ==
    /\ pc[p] = "compwrite"
    /\ comp' = comp + NewRecords(p)
    /\ Goto(p, "idle")
    /\ UNCHANGED <<orig, rb, job, confirmed, decided, released, memVars, histVars>>

-----------------------------------------------------------------------------
(* Recovery                                                                *)

\* Mutant: the rows are looked for among the replays of the saga only.
RepairableNone == FALSE

\* repair_completed_rollbacks: a successful rollback of a rolled back action
\* without its compensation row.
Repairable == rb = "success" /\ Compensates /\ comp = 0 /\ orig = "rolled_back"

Repair(p) ==
    /\ p \in Repairers /\ pc[p] = "idle" /\ Repairable
    /\ Goto(p, "compread")
    /\ UNCHANGED <<rowVars, memVars, histVars>>

\* reconcile_stale_executions_for_event.  Nobody executes the action any more:
\* the lease of a live execution outlasts it (ActionExecution has the case of
\* a slow one).
ReclaimStale ==
    /\ rb = "executing"
    /\ \A p \in Procs : pc[p] \notin {"substate", "job", "call", "store", "settle"}
    /\ \/ job \in JobEnds /\ rb' = job /\ UNCHANGED job
       \/ job \in {"absent", "queued"} /\ rb' = "approved" /\ UNCHANGED job
       \/ job = "running" /\ job' = "queued" /\ rb' = "approved"
    /\ UNCHANGED <<orig, comp, confirmed, decided, released, pc, memVars, histVars>>

\* resolve_unknown
ResolveUnknown(to) ==
    /\ rb = "unknown"
    /\ rb' = to
    /\ human' = (human \/ to = "success")
    /\ UNCHANGED <<orig, job, comp, confirmed, decided, released, pc, memVars,
                   calls, undone, crashes>>

\* The outbox delivers a compensation record.
Confirm ==
    /\ confirmed < comp
    /\ confirmed' = confirmed + 1
    /\ UNCHANGED <<orig, rb, job, comp, decided, released, pc, memVars, histVars>>

\* Mutant: the rows need not be there.
SagaResolvedVacuous == rb = "success" /\ orig = "rolled_back" /\ confirmed = comp

\* _saga_manual_hold_resolved
SagaResolved ==
    /\ rb = "success" /\ orig = "rolled_back"
    /\ Compensates => comp > 0 /\ confirmed = comp

\* prepare_graph_resume_state lifts the hold of the saga.
Release ==
    /\ ~released /\ SagaResolved
    /\ released' = TRUE
    /\ UNCHANGED <<orig, rb, job, comp, confirmed, decided, pc, memVars, histVars>>

\* A process dies, or a soft time limit takes it out of the rollback.
Crash(p) ==
    /\ pc[p] # "idle" /\ crashes < MaxCrashes
    /\ crashes' = crashes + 1
    /\ Goto(p, "idle")
    /\ UNCHANGED <<rowVars, memVars, calls, undone, human>>

-----------------------------------------------------------------------------

Advance(p) ==
    \/ Register(p) \/ Load(p) \/ Claim(p) \/ SyncSubstate(p) \/ Job(p)
    \/ \E a \in JobEnds, d \in BOOLEAN : CallTool(p, a, d)
    \/ StoreResult(p) \/ Settle(p) \/ Reload(p) \/ MarkFailed(p)
    \/ \E ok \in BOOLEAN : Verify(p, ok)
    \/ Demote(p) \/ Cas(p) \/ CompRead(p) \/ CompWrite(p)

Next ==
    \/ \E p \in Procs : \/ RollbackAction(p) \/ ReplayDecision(p) \/ Repair(p)
                        \/ \E to \in {"approved", "rejected"} : Decide(p, to)
                        \/ Advance(p) \/ Crash(p)
    \/ ReclaimStale
    \/ \E to \in {"success", "failed"} : ResolveUnknown(to)
    \/ Confirm
    \/ Release

Spec == Init /\ [][Next]_vars

\* A process that is in the middle goes on, the beat schedule runs the repair
\* and the reconcile, and the outbox delivers.
FairSpec ==
    /\ Spec
    /\ \A p \in Procs : WF_vars(Advance(p)) /\ WF_vars(Repair(p))
    /\ WF_vars(ReclaimStale) /\ WF_vars(Confirm)

-----------------------------------------------------------------------------

\* Every field holds a value of its column; no process adds more than one
\* compensation row after another process's look.
TypeOK ==
    /\ orig \in {"success", "rolled_back"}
    /\ rb \in {"absent", "pending", "waiting", "approved", "rejected", "executing",
               "success", "failed", "unknown"}
    /\ job \in {"absent", "running", "queued"} \cup JobEnds
    /\ comp \in 0..Cardinality(Procs) /\ confirmed \in 0..comp
    /\ {decided, released, undone, human} \subseteq BOOLEAN
    /\ pc \in [Procs -> Steps] /\ result \in [Procs -> JobEnds]
    /\ calls \in Nat /\ crashes \in 0..MaxCrashes

\* "a later Saga attempt must continue those phases without executing the
\* external side effect a second time": whatever dies and whoever continues
\* (_finalize_rollback_effect, _execute_direct_tool), the tool is called once.
EffectOnce == calls <= 1

\* The original is ROLLED_BACK only when its effect is gone: the readback said
\* so, or, where there is none, the tool or a human did
\* (_finalize_rollback_effect before _cas_rollback_status).
RolledBackIsReal ==
    orig = "rolled_back" => undone \/ (~HasReadback /\ human)

\* The hold is lifted only with a compensation on record and confirmed for
\* an original whose effect is gone (_saga_manual_hold_resolved).
ReleasedIsCompensated ==
    released => orig = "rolled_back" /\ (Compensates => confirmed > 0)

\* "Successful rollback Action stays SUCCESS - it flips source_action_id":
\* beside a ROLLED_BACK original the rollback action is SUCCESS
\* (_finalize_rollback_effect, ACTION_STATUS_TRANSITIONS_BY_CATEGORY).
\* The code does not keep this (README, disagreements).
RolledBackBySuccess == orig = "rolled_back" => rb = "success"

\* "Reuse rows by their immutable parent disposition instead of emitting
\* duplicate side effects": one compensation per original write-back
\* (_create_compensation_writebacks).
\* The code does not keep this (README, disagreements).
CompensatedOnce == comp <= 1

\* An execution that ended FAILED had its chance: the tool was called
\* (build_execute_rollback_hook).
\* The code does not keep this (README, disagreements).
FailedWasTried == rb = "failed" => calls > 0

\* A rolled back original gets its compensation row although the process dies
\* in the post-CAS window (repair_completed_rollbacks), unless another request
\* marked the rollback FAILED meanwhile: the repair looks at SUCCESS rows only.
CompensationIsRecorded ==
    (orig = "rolled_back" /\ Compensates) ~> (comp > 0 \/ rb = "failed")
=============================================================================
