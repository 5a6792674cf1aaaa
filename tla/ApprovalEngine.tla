--------------------------- MODULE ApprovalEngine ---------------------------
(***************************************************************************)
(* Approval of one response plan: the approval nodes of the investigation  *)
(* graph, the approve and reject requests, the timeout scan, and the       *)
(* resume of the graph once the plan is decided                            *)
(* (services/approval_engine.py, approval_node and approval_wait_node of   *)
(* orchestration/workflow_graph.py, orchestration/graph_resume.py).        *)
(*                                                                         *)
(* The response node has moved the event to WAITING_APPROVAL before the    *)
(* plan is evaluated.  From then on two sides race: the worker that holds  *)
(* the event lease walks through the approval nodes, and requests decide   *)
(* actions, advance the event and try to resume the graph.  Which rule     *)
(* decides an action is data: evaluation picks any of the three outcomes.  *)
(* The durable resume intent is one flag here; GraphResumeIntent is its    *)
(* life.                                                                   *)
(***************************************************************************)
EXTENDS Naturals, FiniteSets

CONSTANTS
    Actions,      \* response actions of the plan
    Terminal,     \* those whose tool is the terminal disposition
    Required,     \* some action of the plan has writeback_required
    Callers,      \* requests and the background scan
    Graph,        \* the worker running the investigation graph
    Dispatcher,   \* the resume intent dispatcher
    MaxCrashes,   \* bound on process deaths
    MaxFaults,    \* bound on failed database writes that are swallowed
    NoOne

ASSUME ApprovalConstants ==
    /\ Terminal \subseteq Actions
    /\ Required \in BOOLEAN
    /\ MaxCrashes \in Nat /\ MaxFaults \in Nat
    /\ Graph # Dispatcher /\ {Graph, Dispatcher} \cap Callers = {}
    /\ NoOne \notin Callers \cup {Graph, Dispatcher}

VARIABLES
    action,    \* action status
    record,    \* approval record: absent, pending, or who decided what
    due,       \* timeout_at of the record has passed
    event,     \* event status
    pc,        \* where each process is
    todo,      \* actions evaluate_plan has not evaluated yet
    target,    \* event status a process is about to advance to
    rows,      \* expired records the scan has read
    scanLock,  \* holder of advisory lock 580058
    lease,     \* holder of the event lease
    intent,    \* a resume intent is waiting to be dispatched
    ran,       \* the graph has gone past the approval nodes
    crashes, faults

db == <<action, record, due, event>>
vars == <<action, record, due, event, pc, todo, target, rows, scanLock, lease,
          intent, ran, crashes, faults>>

Procs == Callers \cup {Graph, Dispatcher}
AutoDecisions == {"auto_approve", "auto_reject"}
HumanDecisions == {"approve", "reject"}
Granting == {"auto_approve", "approve"}
Denying == {"auto_reject", "reject", "timeout"}

Init ==
    /\ action = [a \in Actions |-> "planned"]
    /\ record = [a \in Actions |-> "none"]
    /\ due = [a \in Actions |-> FALSE]
    /\ event = "waiting"
    /\ pc = [p \in Procs |-> IF p = Graph THEN "evaluate" ELSE "idle"]
    /\ todo = Actions
    /\ target = [p \in Procs |-> "none"]
    /\ rows = {}
    /\ scanLock = NoOne
    /\ lease = Graph
    /\ intent = FALSE
    /\ ran = FALSE
    /\ crashes = 0 /\ faults = 0

Goto(p, l) == pc' = [pc EXCEPT ![p] = l]

\* What follows a call of _maybe_advance_plan: evaluate_plan ignores a failed
\* advance and the node goes on; a request returns to its caller.
Return(p) == Goto(p, IF p = Graph THEN "enter" ELSE "idle")

-----------------------------------------------------------------------------
(* Evaluation: evaluate_plan, called by approval_node                      *)

\* One action: record and status in one transaction.
Evaluate(a, d) ==
    /\ pc[Graph] = "evaluate" /\ a \in todo
    /\ todo' = todo \ {a}
    /\ record' = [record EXCEPT ![a] = d]
    /\ action' = [action EXCEPT ![a] = CASE d = "auto_approve" -> "approved"
                                         [] d = "auto_reject"  -> "rejected"
                                         [] d = "pending"      -> "waiting"]
    /\ UNCHANGED <<due, event, pc, target, rows, scanLock, lease, intent, ran,
                   crashes, faults>>

\* The statuses are read again after the loop.
Refresh ==
    /\ pc[Graph] = "evaluate" /\ todo = {}
    /\ Goto(Graph, IF \E a \in Actions : action[a] = "waiting"
                   THEN "setwait" ELSE "advance")
    /\ UNCHANGED <<db, todo, target, rows, scanLock, lease, intent, ran,
                   crashes, faults>>

\* approval_node persists the substate under the status it expects; the write
\* raises when the row has another one.
SetWaiting ==
    /\ pc[Graph] = "setwait"
    /\ Goto(Graph, IF event = "waiting" THEN "waitread" ELSE "raised")
    /\ UNCHANGED <<db, todo, target, rows, scanLock, lease, intent, ran,
                   crashes, faults>>

\* approval_wait_node reads the status and, when the event still waits,
\* persists the substate under it before it halts.
WaitReads ==
    /\ pc[Graph] = "waitread"
    /\ Goto(Graph, IF event = "waiting" THEN "waitset" ELSE "halted")
    /\ UNCHANGED <<db, todo, target, rows, scanLock, lease, intent, ran,
                   crashes, faults>>

WaitSets ==
    /\ pc[Graph] = "waitset"
    /\ Goto(Graph, IF event = "waiting" THEN "halted" ELSE "raised")
    /\ UNCHANGED <<db, todo, target, rows, scanLock, lease, intent, ran,
                   crashes, faults>>

\* The graph goes past the approval nodes: execution takes the approved
\* actions, a plan without any goes to the report.
Continue ==
    /\ ran' = TRUE
    /\ action' = [a \in Actions |->
                    IF event' = "executing" /\ action[a] = "approved"
                    THEN "executing" ELSE action[a]]

\* maybe_catchup_approval_resume_same_lease, after the graph has halted.
CatchUp ==
    /\ pc[Graph] = "halted"
    /\ \/ /\ event = "waiting"
          /\ UNCHANGED <<action, event, ran>>
       \/ /\ event \in {"executing", "reporting"}
          /\ UNCHANGED event
          /\ Continue
    /\ Goto(Graph, "release")
    /\ UNCHANGED <<record, due, todo, target, rows, scanLock, lease, intent,
                   crashes, faults>>

Release ==
    /\ pc[Graph] = "release"
    /\ Goto(Graph, "ended")
    /\ lease' = IF lease = Graph THEN NoOne ELSE lease
    /\ UNCHANGED <<db, todo, target, rows, scanLock, intent, ran, crashes, faults>>

\* _enter_execution: the status is read; an event the engine has not moved is
\* moved to EXECUTING_RESPONSE by the graph.
EnterReads ==
    /\ pc[Graph] = "enter"
    /\ \/ /\ event \in {"executing", "reporting"}
          /\ UNCHANGED event
          /\ Continue
          /\ Goto(Graph, "release")
       \/ /\ event = "waiting"
          /\ Goto(Graph, "entermove")
          /\ UNCHANGED <<action, event, ran>>
    /\ UNCHANGED <<record, due, todo, target, rows, scanLock, lease, intent,
                   crashes, faults>>

EnterMoves ==
    /\ pc[Graph] = "entermove"
    /\ \/ /\ event = "waiting"
          /\ event' = "executing"
          /\ Continue
          /\ Goto(Graph, "release")
       \/ /\ event # "waiting"
          /\ Goto(Graph, "raised")
          /\ UNCHANGED <<action, event, ran>>
    /\ UNCHANGED <<record, due, todo, target, rows, scanLock, lease, intent,
                   crashes, faults>>

\* A node's exception reaches SuperAgent.investigate, which fails the event.
Raised ==
    /\ pc[Graph] = "raised"
    /\ event' = "failed"
    /\ Goto(Graph, "release")
    /\ UNCHANGED <<action, record, due, todo, target, rows, scanLock, lease,
                   intent, ran, crashes, faults>>

-----------------------------------------------------------------------------
(* Decisions                                                               *)

\* _decide: under the row lock the action must wait and its record be pending.
\* A repeated decision_id returns the stored outcome and changes nothing.
Decide(p, a, d) ==
    /\ pc[p] = "idle"
    /\ action[a] = "waiting" /\ record[a] = "pending"
    /\ record' = [record EXCEPT ![a] = d]
    /\ action' = [action EXCEPT ![a] = IF d = "approve" THEN "approved" ELSE "rejected"]
    /\ Goto(p, "advance")
    /\ UNCHANGED <<due, event, todo, target, rows, scanLock, lease, intent, ran,
                   crashes, faults>>

\* scan_timeouts reads the expired records under the advisory lock.
Expired == {a \in Actions : record[a] = "pending" /\ due[a]}

ScanReads(p) ==
    /\ pc[p] = "idle" /\ scanLock = NoOne /\ Expired # {}
    /\ rows' = Expired
    /\ scanLock' = p
    /\ Goto(p, "scanned")
    /\ UNCHANGED <<db, todo, target, lease, intent, ran, crashes, faults>>

\* Mutant: the scan trusts what it read before taking the locks.
TimeoutsUnchecked == rows

\* The actions the scan rejects: their rows are locked, and a row that no
\* longer waits is left alone.
Timeouts == {a \in rows : action[a] = "waiting"}

ScanCommits(p) ==
    /\ pc[p] = "scanned"
    /\ action' = [a \in Actions |-> IF a \in Timeouts THEN "rejected" ELSE action[a]]
    /\ record' = [a \in Actions |-> IF a \in Timeouts THEN "timeout" ELSE record[a]]
    /\ Goto(p, IF Timeouts # {} THEN "advance" ELSE "idle")
    /\ rows' = {} /\ scanLock' = NoOne
    /\ UNCHANGED <<due, event, todo, target, lease, intent, ran, crashes, faults>>

TimePasses(a) ==
    /\ record[a] = "pending" /\ ~due[a]
    /\ due' = [due EXCEPT ![a] = TRUE]
    /\ UNCHANGED <<action, record, event, pc, todo, target, rows, scanLock, lease,
                   intent, ran, crashes, faults>>

-----------------------------------------------------------------------------
(* _maybe_advance_plan                                                     *)

FullyDecided == \A a \in Actions : action[a] \in {"approved", "rejected"}

\* An action that was approved, whether or not its execution has begun.
Approved == {a \in Actions : action[a] \in {"approved", "executing"}}

\* Mutant: an approved action is enough, the terminal disposition is not asked for.
TargetAnyApproved == IF Approved # {} THEN "executing" ELSE "reporting"

\* EXECUTING_RESPONSE needs an approved action and, when the plan must be
\* written back, an approved terminal disposition; else the event is reported.
Target ==
    IF Approved # {} /\ (Required => Approved \cap Terminal # {})
    THEN "executing" ELSE "reporting"

CheckDecided(p) ==
    /\ pc[p] = "advance"
    /\ IF FullyDecided
       THEN /\ Goto(p, "status")
            /\ target' = [target EXCEPT ![p] = Target]
       ELSE Return(p) /\ UNCHANGED target
    /\ UNCHANGED <<db, todo, rows, scanLock, lease, intent, ran, crashes, faults>>

ReadStatus(p) ==
    /\ pc[p] = "status"
    /\ Goto(p, IF event = "waiting" THEN "transition" ELSE "resume")
    /\ UNCHANGED <<db, todo, target, rows, scanLock, lease, intent, ran, crashes, faults>>

\* The state machine validates the edge again under the row lock; a refusal or
\* a database error ends the advance without a resume.
Transition(p) ==
    /\ pc[p] = "transition"
    /\ \/ /\ event = "waiting"
          /\ event' = target[p]
          /\ Goto(p, "resume")
          /\ UNCHANGED faults
       \/ /\ event # "waiting"
          /\ Return(p)
          /\ UNCHANGED <<event, faults>>
       \/ /\ faults < MaxFaults
          /\ faults' = faults + 1
          /\ Return(p)
          /\ UNCHANGED event
    /\ UNCHANGED <<action, record, due, todo, target, rows, scanLock, lease, intent,
                   ran, crashes>>

\* Mutant: a resume that must be deferred is dropped.
ResumeOrGiveUp(p) ==
    /\ pc[p] = "resume"
    /\ IF p = Graph \/ lease # NoOne
       THEN Return(p) /\ UNCHANGED lease
       ELSE Goto(p, "run") /\ lease' = p
    /\ UNCHANGED <<db, todo, target, rows, scanLock, intent, ran, crashes, faults>>

\* Inside the graph the resume is always deferred to an intent; outside it
\* needs the event lease, and a held lease defers it too.
Resume(p) ==
    /\ pc[p] = "resume"
    /\ IF p = Graph \/ lease # NoOne
       THEN Goto(p, "enqueue") /\ UNCHANGED lease
       ELSE Goto(p, "run") /\ lease' = p
    /\ UNCHANGED <<db, todo, target, rows, scanLock, intent, ran, crashes, faults>>

Enqueue(p) ==
    /\ pc[p] = "enqueue"
    /\ \/ intent' = TRUE /\ UNCHANGED faults
       \/ faults < MaxFaults /\ faults' = faults + 1 /\ UNCHANGED intent
    /\ Return(p)
    /\ UNCHANGED <<db, todo, target, rows, scanLock, lease, ran, crashes>>

\* resume_investigation_from_checkpoint under the lease: a waiting or failed
\* event is skipped, another continues from the checkpoint.
Run(p) ==
    /\ pc[p] = "run"
    /\ IF event \in {"executing", "reporting"}
       THEN UNCHANGED event /\ Continue
       ELSE UNCHANGED <<action, event, ran>>
    /\ lease' = NoOne
    /\ Goto(p, IF p = Graph THEN "ended" ELSE "idle")
    /\ UNCHANGED <<record, due, todo, target, rows, scanLock, intent, crashes, faults>>

\* The dispatcher takes the intent to a resume; a held lease puts it back.
Dispatch ==
    /\ pc[Dispatcher] = "idle" /\ intent
    /\ lease = NoOne
    /\ lease' = Dispatcher
    /\ intent' = FALSE
    /\ Goto(Dispatcher, "run")
    /\ UNCHANGED <<db, todo, target, rows, scanLock, ran, crashes, faults>>

-----------------------------------------------------------------------------
(* Deaths and redelivery                                                   *)

Crash(p) ==
    /\ crashes < MaxCrashes
    /\ p \in Callers => pc[p] # "idle"
    /\ p = Graph => pc[p] \notin {"ended", "dead"}
    /\ p # Dispatcher
    /\ crashes' = crashes + 1
    /\ Goto(p, IF p = Graph THEN "dead" ELSE "idle")
    /\ scanLock' = IF scanLock = p THEN NoOne ELSE scanLock
    /\ rows' = IF scanLock = p THEN {} ELSE rows
    /\ UNCHANGED <<db, todo, target, lease, intent, ran, faults>>

\* A lease nobody renews ends.
LeaseExpires ==
    /\ lease # NoOne
    /\ pc[lease] \in {"dead", "idle"}
    /\ lease' = NoOne
    /\ UNCHANGED <<db, pc, todo, target, rows, scanLock, intent, ran, crashes, faults>>

\* execute_redelivery_resume: the delivery of a dead worker comes back; an
\* event waiting for approval is skipped, another resumes when the lease is free.
Redeliver ==
    /\ pc[Graph] = "dead"
    /\ lease # Graph
    /\ IF event \in {"waiting", "failed"} \/ lease # NoOne
       THEN Goto(Graph, "ended") /\ UNCHANGED lease
       ELSE Goto(Graph, "run") /\ lease' = Graph
    /\ UNCHANGED <<db, todo, target, rows, scanLock, intent, ran, crashes, faults>>

-----------------------------------------------------------------------------
Advance(p) ==
    \/ CheckDecided(p) \/ ReadStatus(p) \/ Transition(p) \/ Resume(p)
    \/ Enqueue(p) \/ Run(p)

GraphStep ==
    \/ \E a \in Actions : \E d \in AutoDecisions \cup {"pending"} : Evaluate(a, d)
    \/ Refresh \/ SetWaiting \/ WaitReads \/ WaitSets \/ CatchUp \/ Release
    \/ EnterReads \/ EnterMoves \/ Raised

CallerStep(p) ==
    \/ \E a \in Actions : \E d \in HumanDecisions : Decide(p, a, d)
    \/ ScanReads(p) \/ ScanCommits(p)

Next ==
    \/ GraphStep
    \/ \E p \in Callers : CallerStep(p)
    \/ \E p \in Procs : Advance(p) \/ Crash(p)
    \/ \E a \in Actions : TimePasses(a)
    \/ Dispatch \/ LeaseExpires \/ Redeliver

Spec == Init /\ [][Next]_vars

\* Processes go on, the dispatcher is scheduled, unrenewed leases end and
\* unacknowledged deliveries come back.  Nobody has to decide anything.
FairSpec ==
    /\ Spec
    /\ WF_vars(GraphStep)
    /\ \A p \in Procs : WF_vars(Advance(p))
    /\ WF_vars(Dispatch) /\ WF_vars(LeaseExpires) /\ WF_vars(Redeliver)

-----------------------------------------------------------------------------
TypeOK ==
    /\ action \in [Actions -> {"planned", "waiting", "approved", "rejected", "executing"}]
    /\ record \in [Actions -> {"none", "pending", "timeout"} \cup AutoDecisions
                                \cup HumanDecisions]
    /\ due \in [Actions -> BOOLEAN]
    /\ event \in {"waiting", "executing", "reporting", "failed"}
    /\ pc \in [Procs -> {"idle", "evaluate", "setwait", "waitread", "waitset", "halted",
                         "release", "enter", "entermove", "raised", "ended", "dead",
                         "scanned", "advance", "status", "transition", "resume",
                         "enqueue", "run"}]
    /\ todo \subseteq Actions /\ rows \subseteq Actions
    /\ target \in [Procs -> {"none", "executing", "reporting"}]
    /\ scanLock \in Callers \cup {NoOne}
    /\ lease \in Procs \cup {NoOne}
    /\ intent \in BOOLEAN /\ ran \in BOOLEAN
    /\ crashes \in 0..MaxCrashes /\ faults \in 0..MaxFaults

\* A decision, once recorded, stands: a timeout that races an approval does not
\* overwrite it, nor a second request the first, and the action keeps the status
\* it was given until execution takes it (_decide and
\* _scan_expired_approval_records under the action row lock).
DecisionIsFinal ==
    [][\A a \in Actions : record[a] \in Granting \cup Denying =>
          /\ record'[a] = record[a]
          /\ \/ action'[a] = action[a]
             \/ action[a] = "approved" /\ action'[a] = "executing"]_vars

\* The event is in EXECUTING_RESPONSE only when every action has been decided
\* and the decisions call for execution; with a required write-back that
\* includes the terminal disposition (the target of _maybe_advance_plan,
\* whoever advances the event).  A transition failure that is swallowed is
\* excepted: the graph then moves even a rejected plan on.
ExecutingIsApproved ==
    event = "executing" /\ faults = 0 =>
        /\ \E a \in Approved : Required => a \in Terminal
        /\ \A a \in Actions : action[a] \notin {"planned", "waiting"}

\* Once every action has been decided the graph goes on past the approval
\* nodes, unless the event has failed: a deferred resume is not lost between
\* the worker's last look at the event and the release of its lease.  A request
\* that dies or fails between its decision and the advance loses the wake.
DecidedIsResumed ==
    FullyDecided ~> (ran \/ event = "failed" \/ crashes > 0 \/ faults > 0)

\* A decision that overtakes the graph does not fail the event: the graph
\* halts and the resume continues it (comment of approval_wait_node).
\* The code does not keep this (README, disagreements).
OvertakenIsNotFailed == event # "failed"

\* A worker that dies in the approval node is made up for by the redelivery:
\* every action of the plan is evaluated.
\* The code does not keep this (README, disagreements).
PlanIsEvaluated == <>(\A a \in Actions : action[a] # "planned")
=============================================================================
