--------------------------- MODULE EventLifecycle ---------------------------
(***************************************************************************)
(* The status of one event: the transition table and the gate of CLOSED    *)
(* (models/workflow.py), the state machine that alone writes the status    *)
(* (services/state_machine_service.py), and the close request              *)
(* (api/v1/events.py).  The graph run walks the table, requests close the  *)
(* event beside it.                                                        *)
(*                                                                         *)
(* The gate reads rows that other parts write.  A plan revision has at     *)
(* most one entity action, with its job and its command, and one terminal  *)
(* action, whose command is the EVENT_STATUS_UPDATE.  ActionExecution and  *)
(* DispositionOutbox specify how these come about; here they only move.    *)
(* The write-back status on the terminal action is that of its command     *)
(* (MirrorOfSettled of DispositionOutbox).                                 *)
(***************************************************************************)
EXTENDS Naturals

CONSTANTS Closers,      \* close requests, one at a time each
          Graph,        \* the graph run
          Required,     \* disposition_policy is required
          Low,          \* the severity is low
          Managed,      \* the source system executes the entity action
          Mock,         \* the disposition adapter is the mock
          None,         \* no verdict asked for, no report, nobody
          MaxReplans, MaxReports, MaxVerdicts, MaxRequests, MaxFaults  \* bounds

ASSUME LifecycleConstants ==
    /\ {Required, Low, Managed, Mock} \subseteq BOOLEAN
    /\ {MaxReplans, MaxReports, MaxVerdicts, MaxRequests, MaxFaults} \subseteq Nat
    /\ Graph \notin Closers
    /\ None \notin Closers \cup {Graph} \cup {"none", "threat", "fp"}

VARIABLES status, verdict, unsynced, replans,  \* columns of the event
          report,      \* the verdict the report states, None without a report
          draft, reports,  \* the verdict ReportAgent has read; its runs
          onlyIntent,  \* disposition_only_intent is in the journal
          rev,         \* newest plan revision, 0 without a plan
          ent, job, box, verified,  \* per revision: entity action, job, command, effect seen
          trm, head, strong,        \* per revision: terminal action, command, evidence
          lock,        \* who holds the event's row lock across several reads
          pc, ask, seen, from, moved, ok,  \* per process, see Init
          verdicts, requests, faults  \* analyst verdicts, requests, deaths so far

evVars == <<status, verdict, unsynced, replans>>
repVars == <<report, draft, reports>>
entVars == <<ent, job, box, verified>>
trmVars == <<trm, head, strong>>
reqVars == <<verdicts, requests>>
planVars == <<onlyIntent, rev, entVars, trmVars>>
memVars == <<ask, seen, from, moved>>
vars == <<evVars, repVars, planVars, lock, pc, memVars, ok, reqVars, faults>>

Procs == Closers \cup {Graph}
Revisions == 1..(MaxReplans + 1)
Verdicts == {"none", "threat", "fp"}
Open == {"new", "triaging", "collecting", "analyzing", "scoring", "planning", "waiting",
         "executing", "verifying", "replanning", "contained", "reporting"}
Responding == {"planning", "waiting", "executing", "verifying"}

STATE_TRANSITIONS ==
    {<<"new", "triaging">>,
     <<"triaging", "collecting">>, <<"triaging", "closed">>, <<"triaging", "planning">>,
     <<"collecting", "analyzing">>, <<"analyzing", "scoring">>,
     <<"scoring", "planning">>, <<"scoring", "reporting">>,
     <<"planning", "waiting">>, <<"planning", "executing">>,
     <<"waiting", "executing">>, <<"waiting", "reporting">>,
     <<"executing", "verifying">>,
     <<"verifying", "reporting">>, <<"verifying", "contained">>, <<"verifying", "replanning">>,
     <<"replanning", "collecting">>, <<"replanning", "planning">>,
     <<"replanning", "executing">>, <<"replanning", "contained">>,
     <<"contained", "reporting">>, <<"failed", "reporting">>, <<"reporting", "closed">>}
    \cup {<<s, "failed">> : s \in Open}

Init ==
    /\ status = "new" /\ verdict = "none" /\ unsynced = FALSE /\ replans = 0
    /\ report = None /\ draft = "none" /\ reports = 0 /\ onlyIntent = FALSE /\ rev = 0
    /\ ent = [r \in Revisions |-> "absent"] /\ job = [r \in Revisions |-> "none"]
    /\ box = [r \in Revisions |-> "none"] /\ verified = [r \in Revisions |-> FALSE]
    /\ trm = [r \in Revisions |-> "absent"] /\ head = [r \in Revisions |-> "none"]
    /\ strong = [r \in Revisions |-> FALSE]
    /\ lock = None
    /\ pc = [p \in Procs |-> "idle"]
    /\ ask = [c \in Closers |-> None]     \* body.final_verdict
    /\ seen = [c \in Closers |-> "none"]  \* final_verdict of the event loaded first
    /\ from = [c \in Closers |-> "new"]   \* its status
    /\ moved = [c \in Closers |-> FALSE]  \* history: this request left FAILED
    /\ ok = [p \in Procs |-> TRUE]        \* what the gate has read so far passes
    /\ verdicts = 0 /\ requests = 0 /\ faults = 0

-----------------------------------------------------------------------------
(* The gate of CLOSED                                                      *)

\* Only actions of the newest revision count, and no rejected or superseded one.
InScope(s) == s \notin {"absent", "rejected", "superseded"}

\* Mutant: an ended action is enough, whatever its job and effect.
EntityBlocksOnAction ==
    InScope(ent[rev]) /\ ent[rev] # "ended"

\* _action_side_effect_blocks_convergence for the entity action.  A job that
\* ended badly blocks like one that runs.
EntityBlocks ==
    /\ InScope(ent[rev])
    /\ \/ ent[rev] = "executing" \/ job[rev] # "success"
       \/ Managed /\ (box[rev] # "accepted" \/ ~verified[rev])

\* The same for the terminal action: an active command that is not confirmed.
TerminalBlocks == InScope(trm[rev]) /\ head[rev] \notin {"none", "confirmed"}

Converged == rev = 0 \/ ~(EntityBlocks \/ TerminalBlocks)

\* check_required_writeback_close_gate: some action is applicable, and it has an
\* active command, confirmed.
WritebackGate == rev > 0 /\ InScope(trm[rev]) /\ head[rev] = "confirmed"

\* validate_closed_gate from the terminal view on: a confirmed command of the
\* newest revision, and outside the mock strong evidence for it.
TerminalGate ==
    rev > 0 /\ trm[rev] # "superseded" /\ head[rev] = "confirmed" /\ (Mock \/ strong[rev])

\* _validate_triaging_to_closed; rec: the caller recommends close_as_fp.
QuickClose(rec) == ~Required /\ (Low \/ verdict = "fp" \/ rec)

\* Mutant: planning is not checked against the verdict.
VerdictAllowsPlanning(v, s) ==
    (v = "fp" /\ s \in Responding)
        => s = "planning" \/ (rev > 0 /\ ent[rev] = "absent" /\ trm[rev] # "absent")

\* validate_verdict_status: a false positive is in a response status only with
\* the intent on record and, once there is a plan, without an entity action.
VerdictAllows(v, s) ==
    (v = "fp" /\ s \in Responding)
        => /\ onlyIntent
           /\ s = "planning" \/ (rev > 0 /\ ent[rev] = "absent" /\ trm[rev] # "absent")

\* validate_transition without the gate of CLOSED.
EdgeAllowed(s, rec) ==
    /\ <<status, s>> \in STATE_TRANSITIONS
    /\ (status = "triaging" /\ s = "closed") => QuickClose(rec)
    /\ (status = "triaging" /\ s = "planning") => onlyIntent /\ (verdict = "fp" \/ rec)
    /\ VerdictAllows(verdict, s)

-----------------------------------------------------------------------------
(* The graph run and the rows it plans                                     *)

Unlocked == lock = None

\* transition to anything but CLOSED: one transaction under the row lock, with
\* the replan bound of _apply_pre_transition_side_effects.
Walk(s, rec) ==
    /\ Unlocked /\ pc[Graph] = "idle" /\ s # "closed" /\ EdgeAllowed(s, rec)
    /\ s = "replanning" => replans < MaxReplans
    /\ status' = s
    /\ replans' = IF s = "replanning" THEN replans + 1 ELSE replans
    /\ UNCHANGED <<verdict, unsynced, repVars, planVars, lock, pc, memVars, ok, reqVars, faults>>

\* begin_disposition_only: verdict, intent and the approved terminal action of
\* revision 1 in one transaction.
BeginDispositionOnly ==
    /\ Unlocked /\ status = "triaging" /\ ~onlyIntent /\ Required
    /\ verdict' = "fp" /\ onlyIntent' = TRUE
    /\ rev' = 1 /\ trm' = [trm EXCEPT ![1] = "approved"]
    /\ UNCHANGED <<status, unsynced, replans, repVars, entVars, head, strong,
                   lock, pc, memVars, ok, reqVars, faults>>

\* publish_risk_assessment of the risk agent.
PublishVerdict(v) ==
    /\ Unlocked /\ status = "scoring" /\ verdict' = v
    /\ UNCHANGED <<status, unsynced, replans, repVars, planVars,
                   lock, pc, memVars, ok, reqVars, faults>>

\* ResponseAgent persists the actions of the next revision and supersedes those
\* of the revision before it that nobody has started.  With the intent on record
\* the plan is the terminal action alone.
Plan(withEntity) ==
    LET r == replans + 1
        Supersede(rows) == [q \in Revisions |-> IF q = rev /\ rows[q] \in {"pending", "approved"}
                                                THEN "superseded" ELSE rows[q]]
    IN  /\ status = "planning" /\ rev < r /\ (withEntity => ~onlyIntent)
        /\ rev' = r
        /\ ent' = [Supersede(ent) EXCEPT ![r] = IF withEntity THEN "pending" ELSE "absent"]
        /\ trm' = [Supersede(trm) EXCEPT ![r] = IF Required THEN "pending" ELSE "absent"]
        /\ UNCHANGED <<evVars, repVars, onlyIntent, job, box, verified, head, strong,
                       lock, pc, memVars, ok, reqVars, faults>>

\* The approval node and the analysts decide on the actions of the plan.
Decide(e, t) ==
    /\ status \in {"planning", "waiting"} /\ rev > 0
    /\ "pending" \in {ent[rev], trm[rev]}
    /\ ent' = IF ent[rev] = "pending" THEN [ent EXCEPT ![rev] = e] ELSE ent
    /\ trm' = IF trm[rev] = "pending" THEN [trm EXCEPT ![rev] = t] ELSE trm
    /\ UNCHANGED <<evVars, repVars, onlyIntent, rev, job, box, verified, head, strong,
                   lock, pc, memVars, ok, reqVars, faults>>

\* The action execution service: claim, job, and in managed mode the command.
Execute ==
    /\ status = "executing" /\ rev > 0 /\ ent[rev] = "approved"
    /\ ent' = [ent EXCEPT ![rev] = "executing"] /\ job' = [job EXCEPT ![rev] = "running"]
    /\ box' = [box EXCEPT ![rev] = IF Managed THEN "ready" ELSE "none"]
    /\ UNCHANGED <<evVars, repVars, onlyIntent, rev, verified, trmVars,
                   lock, pc, memVars, ok, reqVars, faults>>

\* The outbox delivers the command of the entity action, or gives it up.
DeliverEntity(r, s) ==
    /\ box[r] = "ready" /\ box' = [box EXCEPT ![r] = s]
    /\ UNCHANGED <<evVars, repVars, onlyIntent, rev, ent, job, verified, trmVars,
                   lock, pc, memVars, ok, reqVars, faults>>

\* A worker, the projection of a receipt or the stale reclaim ends the job; the
\* action follows in a step of its own.
EndJob(r, s) ==
    /\ job[r] = "running" /\ job' = [job EXCEPT ![r] = s]
    /\ UNCHANGED <<evVars, repVars, onlyIntent, rev, ent, box, verified, trmVars,
                   lock, pc, memVars, ok, reqVars, faults>>

SettleAction(r) ==
    /\ ent[r] = "executing" /\ job[r] # "running" /\ ent' = [ent EXCEPT ![r] = "ended"]
    /\ UNCHANGED <<evVars, repVars, onlyIntent, rev, job, box, verified, trmVars,
                   lock, pc, memVars, ok, reqVars, faults>>

\* Verify, phase 1: what it read back of the effect becomes the verification_result.
Verify(v) ==
    /\ status = "verifying" /\ rev > 0 /\ job[rev] # "none"
    /\ v => job[rev] = "success"
    /\ verified' = [verified EXCEPT ![rev] = v]
    /\ UNCHANGED <<evVars, repVars, onlyIntent, rev, ent, job, box, trmVars,
                   lock, pc, memVars, ok, reqVars, faults>>

\* Verify, phase 2: activate_and_submit inserts the terminal command.
ActivateTerminal ==
    /\ status = "verifying" /\ rev > 0 /\ trm[rev] = "approved" /\ head[rev] = "none"
    /\ trm' = [trm EXCEPT ![rev] = "executing"] /\ head' = [head EXCEPT ![rev] = "sent"]
    /\ UNCHANGED <<evVars, repVars, onlyIntent, rev, entVars, strong,
                   lock, pc, memVars, ok, reqVars, faults>>

\* The outbox, the recovery and the operators settle the terminal command, with
\* the evidence the source system gave, or send a failed one again.
SettleTerminal(r, s, e) ==
    /\ \/ head[r] = "sent" /\ s \in {"confirmed", "failed"}
       \/ head[r] = "failed" /\ s \in {"sent", "confirmed"}
    /\ e => s = "confirmed"
    /\ head' = [head EXCEPT ![r] = s] /\ strong' = [strong EXCEPT ![r] = e]
    /\ trm' = [trm EXCEPT ![r] = IF s = "sent" THEN "executing" ELSE "ended"]
    /\ UNCHANGED <<evVars, repVars, onlyIntent, rev, entVars,
                   lock, pc, memVars, ok, reqVars, faults>>

\* ReportAgent, in the report node or the close node: it reads the verdict, has
\* the text written, and stores the report with the verdict it read.
StartReport ==
    /\ pc[Graph] = "idle" /\ reports < MaxReports
    /\ status \in {"triaging", "scoring", "waiting", "verifying", "contained", "failed", "reporting"}
    /\ draft' = verdict /\ reports' = reports + 1
    /\ pc' = [pc EXCEPT ![Graph] = "writing"]
    /\ UNCHANGED <<evVars, report, planVars, lock, memVars, ok, reqVars, faults>>

WriteReport ==
    /\ pc[Graph] = "writing" /\ report' = draft /\ draft' = "none"
    /\ pc' = [pc EXCEPT ![Graph] = "idle"]
    /\ UNCHANGED <<evVars, reports, planVars, lock, memVars, ok, reqVars, faults>>

\* The close node asks for CLOSED.
GraphCloses ==
    /\ pc[Graph] = "idle" /\ status \in {"triaging", "reporting"} /\ report # None
    /\ pc' = [pc EXCEPT ![Graph] = "close"]
    /\ UNCHANGED <<evVars, repVars, planVars, lock, memVars, ok, reqVars, faults>>

-----------------------------------------------------------------------------
(* transition to CLOSED: the statements of one transaction under the row   *)
(* lock, which does not cover the rows they read.  The stale reclaim in    *)
(* front of it is an EndJob.                                               *)

\* A process that has its answer keeps nothing in memory.
Answered(p, at) ==
    /\ pc' = [pc EXCEPT ![p] = IF p = Graph THEN "idle" ELSE at]
    /\ ask' = [c \in Closers |-> IF c = p THEN None ELSE ask[c]]
    /\ seen' = [c \in Closers |-> IF c = p THEN "none" ELSE seen[c]]
    /\ from' = [c \in Closers |-> IF c = p THEN "new" ELSE from[c]]
    /\ moved' = [c \in Closers |-> c # p /\ moved[c]]

Refuse(p) == Answered(p, "refused")

Goes(c, at) == pc' = [pc EXCEPT ![c] = at] /\ UNCHANGED memVars

\* The event row, the report and build_closed_gate_actions.
LockEvent(p) ==
    /\ pc[p] = "close" /\ Unlocked
    /\ lock' = p /\ pc' = [pc EXCEPT ![p] = "readTerminal"]
    /\ \E rec \in {FALSE, p = Graph} :
         ok' = [ok EXCEPT ![p] = EdgeAllowed("closed", rec) /\ report # None
                                 /\ (Required => WritebackGate)]
    /\ UNCHANGED <<evVars, repVars, planVars, memVars, reqVars, faults>>

ReadTerminal(p) ==
    /\ pc[p] = "readTerminal" /\ pc' = [pc EXCEPT ![p] = "readEffects"]
    /\ ok' = [ok EXCEPT ![p] = @ /\ (Required => TerminalGate)]
    /\ UNCHANGED <<evVars, repVars, planVars, lock, memVars, reqVars, faults>>

ReadEffects(p) ==
    /\ pc[p] = "readEffects" /\ pc' = [pc EXCEPT ![p] = "commit"]
    /\ ok' = [ok EXCEPT ![p] = @ /\ (Required => Converged)]
    /\ UNCHANGED <<evVars, repVars, planVars, lock, memVars, reqVars, faults>>

CommitClose(p) ==
    /\ pc[p] = "commit" /\ lock' = None /\ ok' = [ok EXCEPT ![p] = TRUE]
    /\ \/ ok[p] /\ status' = "closed" /\ Answered(p, "done")
       \/ ~ok[p] /\ UNCHANGED status /\ Refuse(p)
    /\ UNCHANGED <<verdict, unsynced, replans, repVars, planVars, reqVars, faults>>

\* force_close by an administrator: any edge to CLOSED, no gate.
ForceClose ==
    /\ Unlocked /\ requests < MaxRequests /\ requests' = requests + 1
    /\ <<status, "closed">> \in STATE_TRANSITIONS
    /\ status' = "closed" /\ unsynced' = TRUE
    /\ UNCHANGED <<verdict, replans, repVars, planVars, lock, pc, memVars, ok, verdicts, faults>>

\* POST final-verdict by an analyst.
SetFinalVerdict(v) ==
    /\ Unlocked /\ verdicts < MaxVerdicts /\ verdicts' = verdicts + 1
    /\ VerdictAllows(v, status) /\ verdict' = v
    /\ UNCHANGED <<status, unsynced, replans, repVars, planVars, lock, pc, memVars, ok, requests, faults>>

-----------------------------------------------------------------------------
(* close_event                                                             *)

reqRest == <<repVars, planVars, ok, reqVars, faults>>

\* Load the event and choose the branch.
RequestClose(c, v) ==
    /\ pc[c] \in {"idle", "refused", "done"}
    /\ requests < MaxRequests /\ requests' = requests + 1
    /\ IF status \in {"reporting", "failed"} \/ (status = "triaging" /\ ~Required)
       THEN /\ ask' = [ask EXCEPT ![c] = v] /\ seen' = [seen EXCEPT ![c] = verdict]
            /\ from' = [from EXCEPT ![c] = status] /\ UNCHANGED moved
            /\ pc' = [pc EXCEPT ![c] = IF status = "triaging" THEN "verdict" ELSE "effects"]
       ELSE Refuse(c)
    /\ UNCHANGED <<evVars, repVars, planVars, lock, ok, verdicts, faults>>

\* _validate_side_effect_convergence_gate and _validate_writeback_gate
CheckEffects(c) ==
    /\ pc[c] = "effects"
    /\ IF Required => Converged THEN Goes(c, "writebacks") ELSE Refuse(c)
    /\ UNCHANGED <<evVars, lock, reqRest>>

\* Mutant: the write-back gate is not consulted.
CheckWritebacksNever(c) ==
    /\ pc[c] = "writebacks" /\ Goes(c, IF from[c] = "failed" THEN "quick" ELSE "verdict")
    /\ UNCHANGED <<evVars, lock, reqRest>>

CheckWritebacks(c) ==
    /\ pc[c] = "writebacks"
    /\ IF Required => WritebackGate
       THEN Goes(c, IF from[c] = "failed" THEN "quick" ELSE "verdict")
       ELSE Refuse(c)
    /\ UNCHANGED <<evVars, lock, reqRest>>

\* set_final_verdict, when the verdict asked for is not the one loaded.
ChangeVerdict(c) ==
    /\ pc[c] = "verdict"
    /\ LET change == ask[c] \notin {None, seen[c]}
           next   == IF from[c] = "triaging" THEN "quick" ELSE IF change THEN "report" ELSE "close"
       IN  IF ~change THEN UNCHANGED verdict /\ Goes(c, next)
           ELSE /\ Unlocked
                /\ IF VerdictAllows(ask[c], status)
                   THEN verdict' = ask[c] /\ Goes(c, next)
                   ELSE UNCHANGED verdict /\ Refuse(c)
    /\ UNCHANGED <<status, unsynced, replans, lock, reqRest>>

\* _regenerate_report_after_verdict_change
RegenerateReport(c) ==
    /\ pc[c] = "report" /\ pc' = [pc EXCEPT ![c] = "close"]
    /\ report' = ask[c]
    /\ UNCHANGED <<evVars, draft, reports, planVars, lock, memVars, ok, reqVars, faults>>

\* _generate_quick_close_report, which keeps a report that exists.
QuickReport(c) ==
    /\ pc[c] = "quick"
    /\ pc' = [pc EXCEPT ![c] = IF from[c] = "failed" THEN "move" ELSE "close"]
    /\ report' = IF report # None THEN report
                 ELSE IF from[c] = "triaging" /\ ask[c] # None THEN ask[c] ELSE seen[c]
    /\ UNCHANGED <<evVars, draft, reports, planVars, lock, memVars, ok, reqVars, faults>>

\* FAILED to REPORTING
MoveToReporting(c) ==
    /\ pc[c] = "move" /\ Unlocked
    /\ IF EdgeAllowed("reporting", FALSE)
       THEN /\ status' = "reporting" /\ moved' = [moved EXCEPT ![c] = TRUE]
            /\ pc' = [pc EXCEPT ![c] = "verdict"] /\ UNCHANGED <<ask, seen, from>>
       ELSE UNCHANGED status /\ Refuse(c)
    /\ UNCHANGED <<verdict, unsynced, replans, lock, reqRest>>

\* A step of the request fails or its process dies; what it has committed stays.
Dies(p) ==
    /\ pc[p] \notin {"idle", "refused", "done"}
    /\ faults < MaxFaults /\ faults' = faults + 1
    /\ Answered(p, "idle") /\ ok' = [ok EXCEPT ![p] = TRUE]
    /\ lock' = IF lock = p THEN None ELSE lock
    /\ draft' = IF p = Graph THEN "none" ELSE draft
    /\ UNCHANGED <<evVars, report, reports, planVars, reqVars>>

-----------------------------------------------------------------------------
GraphStep ==
    \/ \E s \in Open \cup {"failed"}, rec \in BOOLEAN : Walk(s, rec)
    \/ BeginDispositionOnly
    \/ \E v \in Verdicts : PublishVerdict(v)
    \/ \E e \in BOOLEAN : Plan(e)
    \/ Execute
    \/ \E v \in BOOLEAN : Verify(v)
    \/ ActivateTerminal
    \/ StartReport
    \/ WriteReport
    \/ GraphCloses

Background ==
    \/ \E e, t \in {"approved", "rejected"} : Decide(e, t)
    \/ \E r \in Revisions, s \in {"accepted", "failed"} : DeliverEntity(r, s)
    \/ \E r \in Revisions, s \in {"success", "failed"} : EndJob(r, s)
    \/ \E r \in Revisions : SettleAction(r)
    \/ \E r \in Revisions, s \in {"sent", "confirmed", "failed"}, e \in BOOLEAN : SettleTerminal(r, s, e)
    \/ ForceClose
    \/ \E v \in Verdicts \ {"none"} : SetFinalVerdict(v)

Closing(p) == LockEvent(p) \/ ReadTerminal(p) \/ ReadEffects(p) \/ CommitClose(p) \/ Dies(p)

Request(c) ==
    \/ \E v \in Verdicts \cup {None} : RequestClose(c, v)
    \/ CheckEffects(c)
    \/ CheckWritebacks(c)
    \/ ChangeVerdict(c)
    \/ RegenerateReport(c)
    \/ QuickReport(c)
    \/ MoveToReporting(c)

Next ==
    \/ GraphStep
    \/ Background
    \/ \E p \in Procs : Closing(p)
    \/ \E c \in Closers : Request(c)

Spec == Init /\ [][Next]_vars

-----------------------------------------------------------------------------
(* Properties                                                              *)

\* Every column and every process memory has its type.
TypeOK ==
    /\ status \in Open \cup {"failed", "closed"} /\ verdict \in Verdicts
    /\ unsynced \in BOOLEAN /\ replans \in 0..MaxReplans
    /\ report \in Verdicts \cup {None} /\ draft \in Verdicts /\ reports \in 0..MaxReports
    /\ onlyIntent \in BOOLEAN /\ rev \in 0..(MaxReplans + 1)
    /\ ent \in [Revisions -> {"absent", "pending", "approved", "rejected", "superseded", "executing", "ended"}]
    /\ job \in [Revisions -> {"none", "running", "success", "failed"}]
    /\ box \in [Revisions -> {"none", "ready", "accepted", "failed"}]
    /\ verified \in [Revisions -> BOOLEAN]
    /\ trm \in [Revisions -> {"absent", "pending", "approved", "rejected", "superseded", "executing", "ended"}]
    /\ head \in [Revisions -> {"none", "sent", "confirmed", "failed"}]
    /\ strong \in [Revisions -> BOOLEAN]
    /\ lock \in Procs \cup {None}
    /\ pc \in [Procs -> {"idle", "writing", "effects", "writebacks", "quick", "move", "verdict",
                         "report", "close", "readTerminal", "readEffects", "commit", "done", "refused"}]
    /\ ask \in [Closers -> Verdicts \cup {None}] /\ seen \in [Closers -> Verdicts]
    /\ from \in [Closers -> Open \cup {"failed", "closed"}]
    /\ moved \in [Closers -> BOOLEAN] /\ ok \in [Procs -> BOOLEAN]
    /\ verdicts \in 0..MaxVerdicts /\ requests \in 0..MaxRequests /\ faults \in 0..MaxFaults

\* An event whose disposition is required, closed by anything but a forced close,
\* has its terminal command of the newest revision confirmed, and every entity
\* action of that revision that was let through has ended well, in managed mode
\* with the effect read back.  validate_closed_gate reads this in several
\* statements while executors and the outbox move the rows.
ClosedIsConfirmed ==
    (status = "closed" /\ Required /\ ~unsynced)
        => /\ rev > 0 /\ head[rev] = "confirmed" /\ trm[rev] \notin {"rejected", "superseded"}
           /\ ent[rev] \in {"approved", "executing", "ended"}
                => /\ ent[rev] = "ended" /\ job[rev] = "success"
                   /\ Managed => box[rev] = "accepted" /\ verified[rev]

\* A false positive is in a response status only with a plan that touches no
\* entity: whatever analysts, the risk agent and the planner write in between,
\* nothing is executed against a host or an account for it
\* (validate_verdict_status on both sides of the row lock).
FalsePositiveHasNoEntityAction ==
    (verdict = "fp" /\ status \in Responding) => (rev = 0 \/ ent[rev] = "absent")

\* A close request that asked for a verdict and succeeds closes the event with
\* that verdict in the report too (close_event regenerates the report first).
\* The code does not keep this (README, disagreements).
ClosedAsAsked ==
    [][\A c \in Closers :
         (pc[c] = "commit" /\ pc'[c] = "done" /\ ask[c] # None)
             => verdict = ask[c] /\ report = ask[c]]_vars

\* A close request answered from TRIAGING with a verdict leaves a report that
\* states it (_generate_quick_close_report keeps an existing report "unless caller
\* needs a verdict refresh").
\* The code does not keep this (README, disagreements).
QuickCloseReportsVerdict ==
    [][\A c \in Closers :
         (status = "triaging" /\ pc[c] = "commit" /\ pc'[c] = "done" /\ ask[c] # None)
             => report = ask[c]]_vars

\* A close request that took the event out of FAILED is not refused afterwards
\* with the event left in REPORTING: the pre-checks of close_event cover what the
\* gate of CLOSED will ask.
NotStranded ==
    [][\A c \in Closers :
         (moved[c] /\ pc[c] # "refused" /\ pc'[c] = "refused") => status' # "reporting"]_vars

=============================================================================
