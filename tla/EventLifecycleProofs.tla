------------------------ MODULE EventLifecycleProofs ------------------------
(***************************************************************************)
(* Theorems about EventLifecycle, for any number of close requests,        *)
(* replans, reports, verdicts and deaths, and for every policy, severity,  *)
(* execution mode and adapter; and about StateProjection, what a           *)
(* transition does after its commit, for any number of tasks of one        *)
(* service instance, of transitions and of failing store calls.            *)
(*                                                                         *)
(* A theorem is about one of the two specifications.  A name both declare, *)
(* such as pc, stands for the one of the specification at hand.            *)
(***************************************************************************)
EXTENDS EventLifecycle, Sequences, TLAPS

CONSTANTS Callers, Jobs, Admins, Flaggers, Instances, Home, AuditIds,
          MaxFlagFaults, MaxOthers, MaxCrashes, MaxAttempts, NoOne
VARIABLES audits, summary, history, flags, row, gen, read, failed, attempt,
          flagFaults, others, crashes

Proj == INSTANCE StateProjection

-----------------------------------------------------------------------------
(* The lifecycle: the inductive invariant                                  *)

\* Once an event failed or has its report written it never responds again.
After == {"failed", "reporting", "closed"}

\* Places of a process in the transition to CLOSED, of a request that took the
\* event out of FAILED, and of one that passed the two gates in front.
Reading == {"readTerminal", "readEffects", "commit"}
Moved == {"verdict", "report", "close"} \cup Reading
Checked == {"quick", "move"} \cup Moved
Busy == {"effects", "writebacks"} \cup Checked

\* A revision for every replan, and every row of one
PlanShape ==
    /\ DOMAIN ent = Revisions /\ DOMAIN job = Revisions /\ DOMAIN box = Revisions
    /\ DOMAIN verified = Revisions /\ DOMAIN trm = Revisions /\ DOMAIN head = Revisions
    /\ rev \in 0..(MaxReplans + 1) /\ replans \in 0..MaxReplans

\* Only an action that was executed has a job.
JobInv ==
    \A r \in Revisions : job[r] # "none" => ent[r] \in {"executing", "ended"} /\ r <= rev

\* Only an activated terminal action has a command, and none before the plan.
CommandInv ==
    /\ \A r \in Revisions : head[r] # "none" => trm[r] \in {"executing", "ended"} /\ r <= rev
    /\ status \in {"new", "triaging"} => \A r \in Revisions : head[r] = "none"

\* With the intent on record, or before the investigation, no entity action was
\* planned; a false positive responds only with the intent on record.
IntentInv ==
    /\ onlyIntent \/ status \in {"new", "triaging"} => \A r \in Revisions : ent[r] = "absent"
    /\ verdict = "fp" /\ status \in Responding => onlyIntent

\* What each process has in memory
ProcShape ==
    /\ DOMAIN pc = Procs /\ ok \in [Procs -> BOOLEAN]
    /\ DOMAIN from = Closers /\ moved \in [Closers -> BOOLEAN]

\* Verdicts that are read, written and asked for
TextInv ==
    /\ verdict \in Verdicts /\ draft \in Verdicts
    /\ seen \in [Closers -> Verdicts] /\ ask \in [Closers -> Verdicts \cup {None}]
    /\ \A c \in Closers : pc[c] = "report" => ask[c] # None

\* The transition to CLOSED runs under the row lock, and what it has read of the
\* gate still holds; it held when the event was closed.
GateInv ==
    /\ \A p \in Procs : pc[p] \in Reading => lock = p
    /\ \A p \in Procs : pc[p] \in Reading /\ ok[p] /\ Required => status = "reporting" /\ WritebackGate
    /\ \A p \in Procs : pc[p] = "commit" /\ ok[p] /\ Required => Converged
    /\ status = "closed" /\ Required /\ ~unsynced => WritebackGate /\ Converged

\* What request c on a FAILED event has checked still holds, and suffices.
Unstranded(c) ==
    /\ moved[c] => from[c] = "failed" /\ pc[c] \in Moved
    /\ pc[c] = "move" => from[c] = "failed"
    /\ from[c] = "failed" =>
        /\ pc[c] \in Busy => status \in After
        /\ pc[c] \in {"writebacks"} \cup Checked /\ Required => Converged
        /\ pc[c] \in Checked /\ Required => WritebackGate
        /\ pc[c] \in {"move"} \cup Moved => report # None
    /\ moved[c] /\ pc[c] \in Reading /\ status = "reporting" => ok[c]

-----------------------------------------------------------------------------
(* Who writes what                                                         *)

PlanStep ==
    \/ BeginDispositionOnly \/ (\E e \in BOOLEAN : Plan(e)) \/ Execute
    \/ (\E v \in BOOLEAN : Verify(v)) \/ ActivateTerminal
    \/ \E e, t \in {"approved", "rejected"} : Decide(e, t)
    \/ \E r \in Revisions, s \in {"accepted", "failed"} : DeliverEntity(r, s)
    \/ \E r \in Revisions, s \in {"success", "failed"} : EndJob(r, s)
    \/ \E r \in Revisions : SettleAction(r)
    \/ \E r \in Revisions, s \in {"sent", "confirmed", "failed"}, e \in BOOLEAN : SettleTerminal(r, s, e)

StatusStep ==
    \/ \E s \in Open \cup {"failed"}, rec \in BOOLEAN : Walk(s, rec)
    \/ \E p \in Procs : CommitClose(p)
    \/ ForceClose
    \/ \E c \in Closers : MoveToReporting(c)

VerdictStep ==
    \/ BeginDispositionOnly
    \/ \E v \in Verdicts : PublishVerdict(v) \/ SetFinalVerdict(v)
    \/ \E c \in Closers : ChangeVerdict(c)

\* The rows of a plan are written by the planner, the approvals, the executors and
\* the outbox alone.
LEMMA PlanWriters == [Next]_vars => PlanStep \/ UNCHANGED planVars
<1> SUFFICES ASSUME [Next]_vars PROVE PlanStep \/ UNCHANGED planVars
  OBVIOUS
<1>1. CASE GraphStep
  BY <1>1, Zenon DEF GraphStep, PlanStep, Walk, PublishVerdict, StartReport, WriteReport, GraphCloses
<1>2. CASE Background
  BY <1>2, Zenon DEF Background, PlanStep, ForceClose, SetFinalVerdict
<1>3. ASSUME NEW p \in Procs, Closing(p) PROVE UNCHANGED planVars
  BY <1>3, Zenon DEF Closing, LockEvent, ReadTerminal, ReadEffects, CommitClose, Dies
<1>4. ASSUME NEW c \in Closers, Request(c) PROVE UNCHANGED planVars
  BY <1>4, Zenon DEF Request, RequestClose, CheckEffects, CheckWritebacks, ChangeVerdict,
                     RegenerateReport, QuickReport, MoveToReporting, reqRest
<1>5. CASE UNCHANGED vars
  BY <1>5, Zenon DEF vars
<1> QED
  BY <1>1, <1>2, <1>3, <1>4, <1>5, Zenon DEF Next

\* The status is written by the state machine alone, under the row lock.
LEMMA StatusWriters == [Next]_vars => StatusStep \/ UNCHANGED <<status, unsynced, replans>>
<1> SUFFICES ASSUME [Next]_vars PROVE StatusStep \/ UNCHANGED <<status, unsynced, replans>>
  OBVIOUS
<1>1. CASE GraphStep
  BY <1>1, Zenon DEF GraphStep, StatusStep, BeginDispositionOnly, PublishVerdict, Plan, Execute,
                     Verify, ActivateTerminal, StartReport, WriteReport, GraphCloses, evVars
<1>2. CASE Background
  BY <1>2, ZenonT(30) DEF Background, StatusStep, Decide, DeliverEntity, EndJob, SettleAction,
                     SettleTerminal, SetFinalVerdict, evVars
<1>3. ASSUME NEW p \in Procs, Closing(p) PROVE CommitClose(p) \/ UNCHANGED <<status, unsynced, replans>>
  BY <1>3, Zenon DEF Closing, LockEvent, ReadTerminal, ReadEffects, Dies, evVars
<1>4. ASSUME NEW c \in Closers, Request(c)
      PROVE  MoveToReporting(c) \/ UNCHANGED <<status, unsynced, replans>>
  BY <1>4, Zenon DEF Request, RequestClose, CheckEffects, CheckWritebacks, ChangeVerdict,
                     RegenerateReport, QuickReport, evVars
<1>5. CASE UNCHANGED vars
  BY <1>5, Zenon DEF vars, evVars
<1> QED
  BY <1>1, <1>2, <1>3, <1>4, <1>5, Zenon DEF Next, StatusStep

\* The verdict is written by the risk agent, the analysts and the requests.
LEMMA VerdictWriters == [Next]_vars => VerdictStep \/ UNCHANGED verdict
<1> SUFFICES ASSUME [Next]_vars PROVE VerdictStep \/ UNCHANGED verdict
  OBVIOUS
<1>1. CASE GraphStep
  BY <1>1, Zenon DEF GraphStep, VerdictStep, Walk, Plan, Execute, Verify, ActivateTerminal,
                     StartReport, WriteReport, GraphCloses, evVars
<1>2. CASE Background
  BY <1>2, Zenon DEF Background, VerdictStep, Decide, DeliverEntity, EndJob, SettleAction,
                     SettleTerminal, ForceClose, evVars
<1>3. ASSUME NEW p \in Procs, Closing(p) PROVE UNCHANGED verdict
  BY <1>3, Zenon DEF Closing, LockEvent, ReadTerminal, ReadEffects, CommitClose, Dies, evVars
<1>4. ASSUME NEW c \in Closers, Request(c) PROVE ChangeVerdict(c) \/ UNCHANGED verdict
  BY <1>4, Zenon DEF Request, RequestClose, CheckEffects, CheckWritebacks,
                     RegenerateReport, QuickReport, MoveToReporting, evVars
<1>5. CASE UNCHANGED vars
  BY <1>5, Zenon DEF vars, evVars
<1> QED
  BY <1>1, <1>2, <1>3, <1>4, <1>5, Zenon DEF Next, VerdictStep

-----------------------------------------------------------------------------
(* The rows of the plan                                                    *)

\* Every bound is a number, and None is neither a process nor a verdict.
LEMMA Constants ==
  /\ MaxReplans \in Nat /\ None \notin Procs /\ None \notin Verdicts
  /\ Required \in BOOLEAN /\ Mock \in BOOLEAN
  BY LifecycleConstants, Zenon DEF Procs, Verdicts

\* No edge enters NEW, leaves CLOSED, or leads from FAILED or REPORTING back to
\* the response; CLOSED is entered from TRIAGING and REPORTING.
LEMMA Edges ==
  ASSUME NEW s, <<status, s>> \in STATE_TRANSITIONS
  PROVE  /\ s # "new" /\ status # "closed"
         /\ s = "triaging" => status = "new"
         /\ s = "closed" => status \in {"triaging", "reporting"}
         /\ status = "failed" => s = "reporting"
         /\ status = "reporting" => s \in {"closed", "failed"}
  BY Zenon DEF STATE_TRANSITIONS, Open

\* Every step keeps a row of each kind for every revision.
LEMMA PlanShapeStep == PlanShape /\ [Next]_vars => PlanShape'
<1> SUFFICES ASSUME PlanShape, [Next]_vars PROVE PlanShape'
  OBVIOUS
<1>1. replans' \in 0..MaxReplans
  <2>1. ASSUME NEW s, NEW rec, Walk(s, rec) PROVE replans' \in {replans, replans + 1} /\ (replans' # replans => replans < MaxReplans)
    BY <2>1, Zenon DEF Walk
  <2>2. StatusStep => replans' = replans \/ \E s, rec : Walk(s, rec)
    BY Zenon DEF StatusStep, CommitClose, ForceClose, MoveToReporting
  <2> QED
    BY <2>1, <2>2, StatusWriters, Constants DEF PlanShape
<1>2. CASE UNCHANGED planVars
  BY <1>1, <1>2, Zenon DEF PlanShape, planVars, entVars, trmVars
<1>3. CASE BeginDispositionOnly
  <2>1. /\ rev' = 1 /\ trm' = [trm EXCEPT ![1] = "approved"]
        /\ UNCHANGED <<ent, job, box, verified, head>>
    BY <1>3, Zenon DEF BeginDispositionOnly, entVars
  <2> QED
    BY <1>1, <2>1, Constants DEF PlanShape
<1>4. ASSUME NEW e \in BOOLEAN, Plan(e) PROVE PlanShape'
  <2>1. /\ rev' = replans + 1 /\ UNCHANGED <<job, box, verified, head>>
        /\ DOMAIN ent' = Revisions /\ DOMAIN trm' = Revisions
    BY <1>4, Zenon DEF Plan
  <2> QED
    BY <1>1, <2>1, Constants DEF PlanShape
<1>5. ASSUME NEW e, NEW t, Decide(e, t) PROVE PlanShape'
  <2>1. /\ UNCHANGED <<rev, job, box, verified, head>>
        /\ ent' = [ent EXCEPT ![rev] = e] \/ ent' = ent
        /\ trm' = [trm EXCEPT ![rev] = t] \/ trm' = trm
    BY <1>5, Zenon DEF Decide
  <2> QED
    BY <1>1, <2>1, Zenon DEF PlanShape
<1>6. CASE Execute
  <2>1. /\ ent' = [ent EXCEPT ![rev] = "executing"] /\ job' = [job EXCEPT ![rev] = "running"]
        /\ \E s : box' = [box EXCEPT ![rev] = s]
        /\ UNCHANGED <<rev, verified, trm, head>>
    BY <1>6, Zenon DEF Execute, trmVars
  <2> QED
    BY <1>1, <2>1, Zenon DEF PlanShape
<1>7. ASSUME NEW r \in Revisions, NEW s, DeliverEntity(r, s) \/ EndJob(r, s) \/ SettleAction(r)
      PROVE  PlanShape'
  <2>1. /\ ent' = [ent EXCEPT ![r] = "ended"] \/ ent' = ent
        /\ job' = [job EXCEPT ![r] = s] \/ job' = job
        /\ box' = [box EXCEPT ![r] = s] \/ box' = box
        /\ UNCHANGED <<rev, verified, trm, head>>
    BY <1>7, Zenon DEF DeliverEntity, EndJob, SettleAction, trmVars
  <2> QED
    BY <1>1, <2>1, Zenon DEF PlanShape
<1>8. ASSUME NEW v, Verify(v) PROVE PlanShape'
  <2>1. verified' = [verified EXCEPT ![rev] = v] /\ UNCHANGED <<rev, ent, job, box, trm, head>>
    BY <1>8, Zenon DEF Verify, trmVars
  <2> QED
    BY <1>1, <2>1, Zenon DEF PlanShape
<1>9. CASE ActivateTerminal
  <2>1. /\ trm' = [trm EXCEPT ![rev] = "executing"] /\ head' = [head EXCEPT ![rev] = "sent"]
        /\ UNCHANGED <<rev, ent, job, box, verified>>
    BY <1>9, Zenon DEF ActivateTerminal, entVars
  <2> QED
    BY <1>1, <2>1, Zenon DEF PlanShape
<1>10. ASSUME NEW r, NEW s, NEW e, SettleTerminal(r, s, e) PROVE PlanShape'
  <2>1. /\ head' = [head EXCEPT ![r] = s] /\ \E x : trm' = [trm EXCEPT ![r] = x]
        /\ UNCHANGED <<rev, ent, job, box, verified>>
    BY <1>10, Zenon DEF SettleTerminal, entVars
  <2> QED
    BY <1>1, <2>1, Zenon DEF PlanShape
<1> QED
  BY <1>2, <1>3, <1>4, <1>5, <1>6, <1>7, <1>8, <1>9, <1>10, PlanWriters, Zenon DEF PlanStep

\* A job is started with its action, and every step keeps it there.
LEMMA JobStep == PlanShape /\ JobInv /\ IntentInv /\ [Next]_vars => JobInv'
<1> SUFFICES ASSUME PlanShape, JobInv, IntentInv, [Next]_vars PROVE JobInv'
  OBVIOUS
<1>1. CASE UNCHANGED <<rev, ent, job>>
  BY <1>1, Zenon DEF JobInv
<1>2. CASE BeginDispositionOnly
  <2>1. status = "triaging" /\ rev' = 1 /\ UNCHANGED <<ent, job>>
    BY <1>2, Zenon DEF BeginDispositionOnly, entVars
  <2> QED
    BY <2>1, Zenon DEF JobInv, IntentInv
<1>3. ASSUME NEW e \in BOOLEAN, Plan(e) PROVE JobInv'
  <2>1. rev < replans + 1 /\ rev' = replans + 1 /\ UNCHANGED job
    BY <1>3, Zenon DEF Plan
  <2>2. ASSUME NEW q \in Revisions, ent[q] \in {"executing", "ended"}, q # replans + 1 PROVE ent'[q] = ent[q]
    BY <1>3, <2>2, Zenon DEF Plan
  <2> QED
    BY <2>1, <2>2, Constants DEF JobInv, PlanShape, Revisions
<1>4. ASSUME NEW e, NEW t, Decide(e, t) PROVE JobInv'
  <2>1. /\ UNCHANGED <<rev, job>>
        /\ (ent[rev] = "pending" /\ ent' = [ent EXCEPT ![rev] = e]) \/ ent' = ent
    BY <1>4, Zenon DEF Decide
  <2> QED
    BY <2>1, Zenon DEF PlanShape, JobInv
<1>5. CASE Execute
  <2>1. /\ ent' = [ent EXCEPT ![rev] = "executing"] /\ job' = [job EXCEPT ![rev] = "running"]
        /\ rev' = rev
    BY <1>5, Zenon DEF Execute
  <2> QED
    BY <2>1 DEF PlanShape, JobInv
<1>6. ASSUME NEW r \in Revisions, NEW s, EndJob(r, s) PROVE JobInv'
  <2>1. job[r] = "running" /\ job' = [job EXCEPT ![r] = s] /\ UNCHANGED <<rev, ent>>
    BY <1>6, Zenon DEF EndJob
  <2> QED
    BY <2>1, Zenon DEF PlanShape, JobInv
<1>7. ASSUME NEW r \in Revisions, SettleAction(r) PROVE JobInv'
  <2>1. ent' = [ent EXCEPT ![r] = "ended"] /\ UNCHANGED <<rev, job>>
    BY <1>7, Zenon DEF SettleAction
  <2> QED
    BY <2>1, Zenon DEF PlanShape, JobInv
<1>8. PlanStep \/ UNCHANGED planVars
  BY PlanWriters, Zenon
<1> QED
  BY <1>1, <1>2, <1>3, <1>4, <1>5, <1>6, <1>7, <1>8, Zenon
  DEF PlanStep, DeliverEntity, Verify, ActivateTerminal, SettleTerminal, entVars, planVars

\* No step takes an event back to NEW or TRIAGING.
LEMMA NoReturn ==
  ASSUME [Next]_vars, status' \in {"new", "triaging"}
  PROVE  status \in {"new", "triaging"}
<1>1. ASSUME NEW s, NEW rec, Walk(s, rec) PROVE status \in {"new", "triaging"}
  <2>1. status' = s /\ <<status, s>> \in STATE_TRANSITIONS
    BY <1>1, Zenon DEF Walk, EdgeAllowed
  <2> QED
    BY <2>1, Edges, Zenon
<1>2. ASSUME NEW p \in Procs, CommitClose(p) PROVE status' \in {status, "closed"}
  BY <1>2, Zenon DEF CommitClose
<1>3. ForceClose => status' = "closed"
  BY Zenon DEF ForceClose
<1>4. ASSUME NEW c \in Closers, MoveToReporting(c) PROVE status' \in {status, "reporting"}
  BY <1>4, Zenon DEF MoveToReporting
<1> QED
  BY <1>1, <1>2, <1>3, <1>4, StatusWriters, Zenon DEF StatusStep

\* A terminal command is inserted with its action, and every step keeps it there.
LEMMA CommandStep == PlanShape /\ CommandInv /\ [Next]_vars => CommandInv'
<1> SUFFICES ASSUME PlanShape, CommandInv, [Next]_vars PROVE CommandInv'
  OBVIOUS
<1>1. CASE UNCHANGED <<rev, trm, head>>
  BY <1>1, NoReturn, Zenon DEF CommandInv
<1>2. CASE BeginDispositionOnly
  <2>1. status = "triaging" /\ rev' = 1 /\ trm' = [trm EXCEPT ![1] = "approved"] /\ UNCHANGED head
    BY <1>2, Zenon DEF BeginDispositionOnly
  <2> QED
    BY <2>1, Zenon DEF CommandInv, PlanShape
<1>3. ASSUME NEW e \in BOOLEAN, Plan(e) PROVE CommandInv'
  <2>1. rev < replans + 1 /\ rev' = replans + 1 /\ UNCHANGED head
    BY <1>3, Zenon DEF Plan
  <2>2. ASSUME NEW q \in Revisions, trm[q] \in {"executing", "ended"}, q # replans + 1 PROVE trm'[q] = trm[q]
    BY <1>3, <2>2, Zenon DEF Plan
  <2> QED
    BY <2>1, <2>2, NoReturn, Constants DEF CommandInv, PlanShape, Revisions
<1>4. ASSUME NEW e, NEW t, Decide(e, t) PROVE CommandInv'
  <2>1. /\ UNCHANGED <<rev, head>>
        /\ (trm[rev] = "pending" /\ trm' = [trm EXCEPT ![rev] = t]) \/ trm' = trm
    BY <1>4, Zenon DEF Decide
  <2> QED
    BY <2>1, NoReturn, Zenon DEF PlanShape, CommandInv
<1>5. CASE ActivateTerminal
  <2>1. /\ trm' = [trm EXCEPT ![rev] = "executing"] /\ head' = [head EXCEPT ![rev] = "sent"]
        /\ rev' = rev /\ status = "verifying"
    BY <1>5, Zenon DEF ActivateTerminal
  <2> QED
    BY <2>1, NoReturn DEF PlanShape, CommandInv
<1>6. ASSUME NEW r \in Revisions, NEW s, NEW e, SettleTerminal(r, s, e) PROVE CommandInv'
  <2>1. /\ head[r] # "none" /\ head' = [head EXCEPT ![r] = s] /\ rev' = rev
        /\ \E x \in {"executing", "ended"} : trm' = [trm EXCEPT ![r] = x]
    BY <1>6, Zenon DEF SettleTerminal
  <2> QED
    BY <2>1, NoReturn, Zenon DEF PlanShape, CommandInv
<1>7. PlanStep \/ UNCHANGED planVars
  BY PlanWriters, Zenon
<1> QED
  BY <1>1, <1>2, <1>3, <1>4, <1>5, <1>6, <1>7, Zenon
  DEF PlanStep, Execute, DeliverEntity, EndJob, SettleAction, Verify, trmVars, planVars

\* Every step keeps a false positive away from entity actions.
LEMMA IntentStep == PlanShape /\ IntentInv /\ [Next]_vars => IntentInv'
<1> SUFFICES ASSUME PlanShape, IntentInv, [Next]_vars PROVE IntentInv'
  OBVIOUS
<1> DEFINE Absent == \A r \in Revisions : ent[r] = "absent"
<1>1. onlyIntent' = onlyIntent \/ BeginDispositionOnly
  BY PlanWriters, Zenon DEF PlanStep, Plan, Execute, Verify, ActivateTerminal, Decide, DeliverEntity,
                            EndJob, SettleAction, SettleTerminal, planVars
<1>2. status' \in {"new", "triaging"} => status \in {"new", "triaging"}
  BY NoReturn, Zenon
<1>3. ASSUME Absent, onlyIntent \/ status \in {"new", "triaging"} PROVE Absent'
  <2>1. CASE UNCHANGED ent
    BY <1>3, <2>1, Zenon
  <2>2. ASSUME NEW e \in BOOLEAN, Plan(e) PROVE Absent'
    <3>1. ~e /\ status = "planning"
      BY <1>3, <2>2, Zenon DEF Plan
    <3> QED
      BY <1>3, <2>2, <3>1, Zenon DEF Plan
  <2>3. ASSUME NEW e, NEW t, Decide(e, t) PROVE ent' = ent
    <3>1. rev \in Revisions /\ (ent[rev] # "pending" => ent' = ent)
      BY <2>3 DEF Decide, PlanShape, Revisions
    <3> QED
      BY <1>3, <3>1, Zenon
  <2>4. ~Execute
    <3>1. Execute => rev > 0 /\ ent[rev] = "approved"
      BY Zenon DEF Execute
    <3> QED
      BY <1>3, <3>1 DEF PlanShape, Revisions
  <2>5. ASSUME NEW r \in Revisions PROVE ~SettleAction(r)
    BY <1>3, <2>5, Zenon DEF SettleAction
  <2>6. PlanStep \/ UNCHANGED planVars
    BY PlanWriters, Zenon
  <2> QED
    BY <2>1, <2>2, <2>3, <2>4, <2>5, <2>6, Zenon
    DEF PlanStep, BeginDispositionOnly, DeliverEntity, EndJob, Verify, ActivateTerminal, SettleTerminal,
        entVars, planVars
<1>4. BeginDispositionOnly => status = "triaging" /\ status' = status
  BY Zenon DEF BeginDispositionOnly
<1>5. onlyIntent' \/ status' \in {"new", "triaging"} => Absent'
  BY <1>1, <1>2, <1>3, <1>4, Zenon DEF IntentInv
<1>6. ASSUME verdict' = "fp", status' \in Responding PROVE onlyIntent'
  <2>1. ASSUME NEW s, NEW rec, Walk(s, rec) PROVE onlyIntent
    <3>1. status' = s /\ verdict' = verdict /\ VerdictAllows(verdict, s)
      BY <2>1, Zenon DEF Walk, EdgeAllowed
    <3> QED
      BY <1>6, <3>1, Zenon DEF VerdictAllows
  <2>2. ASSUME NEW p \in Procs, CommitClose(p) PROVE status' \in {status, "closed"}
    BY <2>2, Zenon DEF CommitClose
  <2>3. ForceClose => status' = "closed"
    BY Zenon DEF ForceClose
  <2>4. ASSUME NEW c \in Closers, MoveToReporting(c) PROVE status' \in {status, "reporting"}
    BY <2>4, Zenon DEF MoveToReporting
  <2>5. onlyIntent \/ status' = status
    BY <1>6, <2>1, <2>2, <2>3, <2>4, StatusWriters, Zenon DEF StatusStep, Responding
  <2>6. ASSUME NEW v, PublishVerdict(v) PROVE status' = "scoring"
    BY <2>6, Zenon DEF PublishVerdict
  <2>7. ASSUME NEW v, SetFinalVerdict(v) PROVE VerdictAllows("fp", status)
    BY <1>6, <2>7, Zenon DEF SetFinalVerdict
  <2>8. ASSUME NEW c \in Closers, ChangeVerdict(c) PROVE verdict' = verdict \/ VerdictAllows("fp", status)
    BY <1>6, <2>8, Zenon DEF ChangeVerdict
  <2>9. onlyIntent \/ verdict' = verdict \/ VerdictAllows("fp", status) \/ BeginDispositionOnly
    BY <1>6, <2>6, <2>7, <2>8, VerdictWriters, Zenon DEF VerdictStep, Responding
  <2>10. BeginDispositionOnly => onlyIntent'
    BY Zenon DEF BeginDispositionOnly
  <2> QED
    BY <1>1, <1>6, <2>5, <2>9, <2>10, Zenon DEF IntentInv, VerdictAllows
<1> QED
  BY <1>5, <1>6, Zenon DEF IntentInv

-----------------------------------------------------------------------------
(* Stability of the gate                                                   *)

\* Once the event has failed or is being reported, no planner, executor, verifier,
\* outbox or recovery step takes back what the gate has read.
LEMMA GateKept ==
  ASSUME PlanShape, CommandInv, status \in After, [Next]_vars
  PROVE  (WritebackGate => WritebackGate') /\ (Converged => Converged')
<1>1. CASE UNCHANGED planVars
  BY <1>1, Zenon DEF planVars, entVars, trmVars, WritebackGate, Converged, EntityBlocks, TerminalBlocks
<1>2. /\ ~BeginDispositionOnly /\ ~Execute /\ ~ActivateTerminal
      /\ \A e : ~Plan(e)
      /\ \A e, t : ~Decide(e, t)
      /\ \A v : ~Verify(v)
  BY Zenon DEF BeginDispositionOnly, Execute, ActivateTerminal, Plan, Decide, Verify, After
<1>3. ASSUME NEW r \in Revisions, NEW s, DeliverEntity(r, s)
      PROVE  (WritebackGate => WritebackGate') /\ (Converged => Converged')
  <2>1. /\ box[r] = "ready" /\ box' = [box EXCEPT ![r] = s]
        /\ UNCHANGED <<rev, ent, job, verified, trm, head>>
    BY <1>3, Zenon DEF DeliverEntity, trmVars
  <2> QED
    BY <2>1 DEF PlanShape, WritebackGate, Converged, EntityBlocks, TerminalBlocks
<1>4. ASSUME NEW r \in Revisions, NEW s, EndJob(r, s)
      PROVE  (WritebackGate => WritebackGate') /\ (Converged => Converged')
  <2>1. /\ job[r] = "running" /\ job' = [job EXCEPT ![r] = s]
        /\ UNCHANGED <<rev, ent, box, verified, trm, head>>
    BY <1>4, Zenon DEF EndJob, trmVars
  <2> QED
    BY <2>1 DEF PlanShape, WritebackGate, Converged, EntityBlocks, TerminalBlocks
<1>5. ASSUME NEW r \in Revisions, SettleAction(r)
      PROVE  (WritebackGate => WritebackGate') /\ (Converged => Converged')
  <2>1. /\ ent[r] = "executing" /\ ent' = [ent EXCEPT ![r] = "ended"]
        /\ UNCHANGED <<rev, job, box, verified, trm, head>>
    BY <1>5, Zenon DEF SettleAction, trmVars
  <2> QED
    BY <2>1 DEF PlanShape, WritebackGate, Converged, EntityBlocks, TerminalBlocks, InScope
<1>6. ASSUME NEW r \in Revisions, NEW s, NEW e, SettleTerminal(r, s, e)
      PROVE  (WritebackGate => WritebackGate') /\ (Converged => Converged')
  <2>1. /\ head[r] \in {"sent", "failed"} /\ s \in {"sent", "confirmed", "failed"}
        /\ head' = [head EXCEPT ![r] = s]
        /\ trm' = [trm EXCEPT ![r] = IF s = "sent" THEN "executing" ELSE "ended"]
        /\ UNCHANGED <<rev, ent, job, box, verified>>
    BY <1>6, Zenon DEF SettleTerminal, entVars
  <2> QED
    BY <2>1 DEF PlanShape, CommandInv, WritebackGate, Converged, EntityBlocks, TerminalBlocks, InScope
<1>7. PlanStep \/ UNCHANGED planVars
  BY PlanWriters, Zenon
<1> QED
  BY <1>1, <1>2, <1>3, <1>4, <1>5, <1>6, <1>7, Zenon DEF PlanStep

-----------------------------------------------------------------------------
(* The processes                                                           *)

GraphAlone == StartReport \/ WriteReport \/ GraphCloses

\* Only the graph run, the transition to CLOSED and the requests move a process.
LEMMA ProcWriters ==
  [Next]_vars => \/ UNCHANGED <<lock, pc, ok, ask, seen, from, moved>>
                 \/ GraphAlone
                 \/ \E p \in Procs : Closing(p)
                 \/ \E c \in Closers : Request(c)
<1> SUFFICES ASSUME [Next]_vars
             PROVE  \/ UNCHANGED <<lock, pc, ok, ask, seen, from, moved>> \/ GraphAlone
                    \/ (\E p \in Procs : Closing(p)) \/ \E c \in Closers : Request(c)
  OBVIOUS
<1>1. CASE GraphStep
  BY <1>1, Zenon DEF GraphStep, GraphAlone, Walk, BeginDispositionOnly, PublishVerdict, Plan, Execute,
                     Verify, ActivateTerminal, memVars
<1>2. CASE Background
  BY <1>2, ZenonT(30) DEF Background, Decide, DeliverEntity, EndJob, SettleAction, SettleTerminal,
                     ForceClose, SetFinalVerdict, memVars
<1>3. CASE UNCHANGED vars
  BY <1>3, Zenon DEF vars, memVars
<1> QED
  BY <1>1, <1>2, <1>3, Zenon DEF Next

\* What the graph run does outside the transition to CLOSED
LEMMA GraphMoves ==
  ASSUME GraphAlone
  PROVE  /\ \E x \in {"writing", "idle", "close"} : pc' = [pc EXCEPT ![Graph] = x]
         /\ UNCHANGED <<lock, ok, ask, seen, from, moved>>
  BY Zenon DEF GraphAlone, StartReport, WriteReport, GraphCloses, memVars

\* An answer leaves nothing in the memory of the process, and touches no other.
LEMMA AnswerMoves ==
  ASSUME ProcShape, TextInv, NEW p \in Procs, NEW at \in {"refused", "done", "idle"}, Answered(p, at)
  PROVE  /\ pc' = [pc EXCEPT ![p] = IF p = Graph THEN "idle" ELSE at]
         /\ DOMAIN from' = Closers /\ moved' \in [Closers -> BOOLEAN]
         /\ seen' \in [Closers -> Verdicts] /\ ask' \in [Closers -> Verdicts \cup {None}]
         /\ p \in Closers => from'[p] = "new" /\ ~moved'[p]
         /\ \A c \in Closers \ {p} : /\ ask'[c] = ask[c] /\ seen'[c] = seen[c]
                                     /\ from'[c] = from[c] /\ moved'[c] = moved[c]
<1>1. pc' = [pc EXCEPT ![p] = IF p = Graph THEN "idle" ELSE at]
  BY Zenon DEF Answered
<1>2. ask' = [c \in Closers |-> IF c = p THEN None ELSE ask[c]]
  BY Zenon DEF Answered
<1>3. seen' = [c \in Closers |-> IF c = p THEN "none" ELSE seen[c]]
  BY Zenon DEF Answered
<1>4. from' = [c \in Closers |-> IF c = p THEN "new" ELSE from[c]]
  BY Zenon DEF Answered
<1>5. moved' = [c \in Closers |-> c # p /\ moved[c]]
  BY Zenon DEF Answered
<1>6. \A c \in Closers : moved'[c] \in BOOLEAN /\ (moved'[c] <=> c # p /\ moved[c])
  BY <1>5, Zenon DEF ProcShape
<1>7. moved' \in [Closers -> BOOLEAN] /\ \A c \in Closers \ {p} : moved'[c] = moved[c]
  BY <1>5, <1>6, Zenon DEF ProcShape
<1>8. seen' \in [Closers -> Verdicts] /\ ask' \in [Closers -> Verdicts \cup {None}]
  BY <1>2, <1>3, Zenon DEF TextInv, Verdicts
<1> QED
  BY <1>1, <1>2, <1>3, <1>4, <1>6, <1>7, <1>8, Zenon

\* A step of the transition to CLOSED
LEMMA ClosingMoves ==
  ASSUME ProcShape, TextInv, NEW p \in Procs, Closing(p)
  PROVE  /\ \E x : pc' = [pc EXCEPT ![p] = x]
         /\ ok' \in [Procs -> BOOLEAN] /\ \A q \in Procs \ {p} : ok'[q] = ok[q]
         /\ \/ UNCHANGED <<ask, seen, from, moved>>
            \/ \E at \in {"refused", "done", "idle"} : Answered(p, at)
<1>1. ASSUME NEW b \in BOOLEAN, ok' = [ok EXCEPT ![p] = b]
      PROVE  ok' \in [Procs -> BOOLEAN] /\ \A q \in Procs \ {p} : ok'[q] = ok[q]
  BY <1>1, Zenon DEF ProcShape
<1>2. ok[p] \in BOOLEAN
  BY Zenon DEF ProcShape
<1>3. CASE LockEvent(p)
  BY <1>1, <1>3, Zenon DEF LockEvent, memVars
<1>4. CASE ReadTerminal(p)
  BY <1>1, <1>2, <1>4, Zenon DEF ReadTerminal, memVars
<1>5. CASE ReadEffects(p)
  BY <1>1, <1>2, <1>5, Zenon DEF ReadEffects, memVars
<1>6. CASE CommitClose(p)
  BY <1>1, <1>6, Zenon DEF CommitClose, Refuse, Answered
<1>7. CASE Dies(p)
  BY <1>1, <1>7, Zenon DEF Dies, Answered
<1> QED
  BY <1>3, <1>4, <1>5, <1>6, <1>7, Zenon DEF Closing

\* What the other requests have in memory
Others(c) ==
    \A d \in Closers \ {c} : /\ ask'[d] = ask[d] /\ seen'[d] = seen[d]
                             /\ from'[d] = from[d] /\ moved'[d] = moved[d]
MemTypes ==
    /\ DOMAIN from = Closers /\ moved \in [Closers -> BOOLEAN]
    /\ seen \in [Closers -> Verdicts] /\ ask \in [Closers -> Verdicts \cup {None}]

\* A step of a request outside the transition to CLOSED
LEMMA RequestMoves ==
  ASSUME ProcShape, TextInv, NEW c \in Closers, Request(c)
  PROVE  /\ \E x : x \notin Reading /\ pc' = [pc EXCEPT ![c] = x] /\ (x = "report" => ask'[c] # None)
         /\ UNCHANGED <<lock, ok>> /\ MemTypes' /\ Others(c)
<1> DEFINE Goal == /\ \E x : /\ x \notin Reading /\ pc' = [pc EXCEPT ![c] = x]
                             /\ (x = "report" => ask'[c] # None)
                   /\ UNCHANGED <<lock, ok>> /\ MemTypes' /\ Others(c)
<1>1. c \in Procs /\ c # Graph /\ MemTypes
  BY LifecycleConstants, Zenon DEF Procs, ProcShape, TextInv, MemTypes
<1>2. ASSUME Refuse(c), UNCHANGED <<lock, ok>> PROVE Goal
  <2>1. /\ pc' = [pc EXCEPT ![c] = IF c = Graph THEN "idle" ELSE "refused"]
        /\ DOMAIN from' = Closers /\ moved' \in [Closers -> BOOLEAN]
        /\ seen' \in [Closers -> Verdicts] /\ ask' \in [Closers -> Verdicts \cup {None}]
        /\ \A d \in Closers \ {c} : /\ ask'[d] = ask[d] /\ seen'[d] = seen[d]
                                    /\ from'[d] = from[d] /\ moved'[d] = moved[d]
    BY <1>1, <1>2, AnswerMoves, Zenon DEF Refuse
  <2>2. pc' = [pc EXCEPT ![c] = "refused"] /\ "refused" \notin Reading /\ "refused" # "report"
    BY <1>1, <2>1, Zenon DEF Reading
  <2> QED
    BY <1>2, <2>1, <2>2, Zenon DEF MemTypes, Others
<1>3. ASSUME NEW x, x \notin Reading, x = "report" => ask[c] # None,
             pc' = [pc EXCEPT ![c] = x], UNCHANGED <<lock, ok, ask, seen, from, moved>>
      PROVE  Goal
  BY <1>1, <1>3, Zenon DEF MemTypes, Others
<1>4. ASSUME NEW v \in Verdicts \cup {None}, RequestClose(c, v) PROVE Goal
  <2>1. CASE Refuse(c)
    BY <1>2, <1>4, <2>1, Zenon DEF RequestClose
  <2>2. CASE ~Refuse(c)
    <3>1. /\ ask' = [ask EXCEPT ![c] = v] /\ seen' = [seen EXCEPT ![c] = verdict]
          /\ from' = [from EXCEPT ![c] = status] /\ moved' = moved
          /\ UNCHANGED <<lock, ok>>
          /\ \E x \in {"verdict", "effects"} : pc' = [pc EXCEPT ![c] = x]
      BY <1>4, <2>2, Zenon DEF RequestClose
    <3>2. MemTypes' /\ Others(c)
      BY <3>1, Zenon DEF ProcShape, TextInv, MemTypes, Others
    <3> QED
      BY <3>1, <3>2, Zenon DEF Reading
  <2> QED
    BY <2>1, <2>2, Zenon
<1>5. CASE CheckEffects(c)
  <2>1. \/ Refuse(c) /\ UNCHANGED <<lock, ok>>
        \/ pc' = [pc EXCEPT ![c] = "writebacks"] /\ UNCHANGED <<lock, ok, ask, seen, from, moved>>
    BY <1>5, Zenon DEF CheckEffects, Goes, memVars, reqRest
  <2>2. "writebacks" \notin Reading /\ "writebacks" # "report"
    BY Zenon DEF Reading
  <2> QED
    BY <1>2, <1>3, <2>1, <2>2, Zenon
<1>6. CASE CheckWritebacks(c)
  <2>1. \/ Refuse(c) /\ UNCHANGED <<lock, ok>>
        \/ /\ \E x \in {"quick", "verdict"} : pc' = [pc EXCEPT ![c] = x]
           /\ UNCHANGED <<lock, ok, ask, seen, from, moved>>
    BY <1>6, Zenon DEF CheckWritebacks, Goes, memVars, reqRest
  <2>2. \A x \in {"quick", "verdict"} : x \notin Reading /\ x # "report"
    BY Zenon DEF Reading
  <2> QED
    BY <1>2, <1>3, <2>1, <2>2, Zenon
<1>7. CASE ChangeVerdict(c)
  <2>1. \/ Refuse(c) /\ UNCHANGED <<lock, ok>>
        \/ /\ \E x \in {"quick", "report", "close"} : pc' = [pc EXCEPT ![c] = x] /\ (x = "report" => ask[c] # None)
           /\ UNCHANGED <<lock, ok, ask, seen, from, moved>>
    BY <1>7, Zenon DEF ChangeVerdict, Goes, memVars, reqRest
  <2>2. \A x \in {"quick", "report", "close"} : x \notin Reading
    BY Zenon DEF Reading
  <2> QED
    BY <1>2, <1>3, <2>1, <2>2, Zenon
<1>8. CASE RegenerateReport(c) \/ QuickReport(c)
  <2>1. /\ \E x \in {"move", "close"} : pc' = [pc EXCEPT ![c] = x]
        /\ UNCHANGED <<lock, ok, ask, seen, from, moved>>
    BY <1>8, Zenon DEF RegenerateReport, QuickReport, memVars
  <2>2. \A x \in {"move", "close"} : x \notin Reading /\ x # "report"
    BY Zenon DEF Reading
  <2> QED
    BY <1>3, <2>1, <2>2, Zenon
<1>9. CASE MoveToReporting(c)
  <2>1. CASE Refuse(c)
    BY <1>2, <1>9, <2>1, Zenon DEF MoveToReporting, reqRest
  <2>2. CASE ~Refuse(c)
    <3>1. /\ moved' = [moved EXCEPT ![c] = TRUE] /\ pc' = [pc EXCEPT ![c] = "verdict"]
          /\ UNCHANGED <<lock, ok, ask, seen, from>>
      BY <1>9, <2>2, Zenon DEF MoveToReporting, reqRest
    <3>2. MemTypes' /\ Others(c)
      BY <1>1, <3>1, Zenon DEF MemTypes, Others
    <3>3. "verdict" \notin Reading /\ "verdict" # "report"
      BY Zenon DEF Reading
    <3> QED
      BY <3>1, <3>2, <3>3, Zenon
  <2> QED
    BY <2>1, <2>2, Zenon
<1> QED
  BY <1>4, <1>5, <1>6, <1>7, <1>8, <1>9, Zenon DEF Request

\* Every step keeps the memory of the processes typed.
LEMMA ProcShapeStep == ProcShape /\ TextInv /\ [Next]_vars => ProcShape' /\ MemTypes'
<1> SUFFICES ASSUME ProcShape, TextInv, [Next]_vars PROVE ProcShape' /\ MemTypes'
  OBVIOUS
<1>1. CASE UNCHANGED <<lock, pc, ok, ask, seen, from, moved>>
  BY <1>1, Zenon DEF ProcShape, TextInv, MemTypes
<1>2. CASE GraphAlone
  <2>1. /\ \E x : pc' = [pc EXCEPT ![Graph] = x]
        /\ UNCHANGED <<ok, ask, seen, from, moved>>
    BY <1>2, GraphMoves, Zenon
  <2>2. DOMAIN pc' = Procs
    BY <2>1, Zenon DEF ProcShape
  <2> QED
    BY <2>1, <2>2, Zenon DEF ProcShape, TextInv, MemTypes
<1>3. ASSUME NEW p \in Procs, Closing(p) PROVE ProcShape' /\ MemTypes'
  <2>1. DOMAIN pc' = Procs
    <3>1. \E x : pc' = [pc EXCEPT ![p] = x]
      BY <1>3, ClosingMoves, Zenon
    <3> QED
      BY <3>1, Zenon DEF ProcShape
  <2>2. MemTypes'
    <3>1. CASE UNCHANGED <<ask, seen, from, moved>>
      BY <3>1, Zenon DEF ProcShape, TextInv, MemTypes
    <3>2. ASSUME NEW at \in {"refused", "done", "idle"}, Answered(p, at) PROVE MemTypes'
      BY <3>2, AnswerMoves, Zenon DEF MemTypes
    <3> QED
      BY <1>3, <3>1, <3>2, ClosingMoves, Zenon
  <2>3. ok' \in [Procs -> BOOLEAN]
    BY <1>3, ClosingMoves, Zenon
  <2> QED
    BY <2>1, <2>2, <2>3, Zenon DEF ProcShape, MemTypes
<1>4. ASSUME NEW c \in Closers, Request(c) PROVE ProcShape' /\ MemTypes'
  <2>1. (\E x : pc' = [pc EXCEPT ![c] = x]) /\ UNCHANGED ok /\ MemTypes'
    BY <1>4, RequestMoves, Zenon
  <2>2. DOMAIN pc' = Procs
    BY <2>1, Zenon DEF ProcShape
  <2> QED
    BY <2>1, <2>2, Zenon DEF ProcShape, MemTypes
<1> QED
  BY <1>1, <1>2, <1>3, <1>4, ProcWriters, Zenon

\* Every verdict that is read, written or asked for is one.
LEMMA TextStep == ProcShape /\ TextInv /\ [Next]_vars => TextInv'
<1> SUFFICES ASSUME ProcShape, TextInv, [Next]_vars PROVE TextInv'
  OBVIOUS
<1>1. verdict' \in Verdicts
  <2>1. ASSUME NEW c \in Closers, ChangeVerdict(c) PROVE verdict' \in Verdicts
    BY <2>1, Zenon DEF ChangeVerdict, TextInv
  <2>2. BeginDispositionOnly => verdict' \in Verdicts
    BY Zenon DEF BeginDispositionOnly, Verdicts
  <2>3. ASSUME NEW v \in Verdicts, PublishVerdict(v) \/ SetFinalVerdict(v) PROVE verdict' \in Verdicts
    BY <2>3, Zenon DEF PublishVerdict, SetFinalVerdict
  <2> QED
    BY <2>1, <2>2, <2>3, VerdictWriters, Zenon DEF VerdictStep, TextInv
<1>2. draft' \in Verdicts
  <2>1. CASE GraphStep
    BY <2>1, Zenon DEF GraphStep, Walk, BeginDispositionOnly, PublishVerdict, Plan, Execute, Verify,
                ActivateTerminal, StartReport, WriteReport, GraphCloses, repVars, TextInv, Verdicts
  <2>2. CASE Background
    BY <2>2, Zenon DEF Background, Decide, DeliverEntity, EndJob, SettleAction, SettleTerminal,
                       ForceClose, SetFinalVerdict, repVars, TextInv
  <2>3. ASSUME NEW p \in Procs, Closing(p) PROVE draft' = draft \/ draft' = "none"
    BY <2>3, Zenon DEF Closing, LockEvent, ReadTerminal, ReadEffects, CommitClose, Dies, repVars
  <2>4. ASSUME NEW c \in Closers, Request(c) PROVE draft' = draft
    BY <2>4, Zenon DEF Request, RequestClose, CheckEffects, CheckWritebacks, ChangeVerdict,
                       RegenerateReport, QuickReport, MoveToReporting, reqRest, repVars
  <2>5. CASE UNCHANGED vars
    BY <2>5, Zenon DEF vars, repVars, TextInv
  <2>6. "none" \in Verdicts /\ draft \in Verdicts
    BY Zenon DEF Verdicts, TextInv
  <2> QED
    BY <2>1, <2>2, <2>3, <2>4, <2>5, <2>6, Zenon DEF Next
<1>3. MemTypes'
  BY ProcShapeStep, Zenon
<1>4. ASSUME NEW c \in Closers, pc'[c] = "report" PROVE ask'[c] # None
  <2>1. c \in Procs /\ c # Graph /\ DOMAIN pc = Procs /\ (pc[c] = "report" => ask[c] # None)
    BY LifecycleConstants, Zenon DEF Procs, ProcShape, TextInv
  <2>2. CASE UNCHANGED <<lock, pc, ok, ask, seen, from, moved>>
    BY <1>4, <2>1, <2>2, Zenon
  <2>3. CASE GraphAlone
    BY <1>4, <2>1, <2>3, GraphMoves, Zenon
  <2>4. ASSUME NEW p \in Procs, Closing(p) PROVE ask'[c] # None
    <3>1. ASSUME NEW at \in {"refused", "done", "idle"}, Answered(p, at) PROVE ask'[c] # None
      <4>1. /\ pc' = [pc EXCEPT ![p] = IF p = Graph THEN "idle" ELSE at]
            /\ \A d \in Closers \ {p} : ask'[d] = ask[d]
        BY <3>1, AnswerMoves, Zenon
      <4> QED
        BY <1>4, <2>1, <4>1, Zenon
    <3>2. ASSUME UNCHANGED ask, pc'[c] = pc[c] PROVE ask'[c] # None
      BY <1>4, <2>1, <3>2, Zenon
    <3>3. LockEvent(p) \/ ReadTerminal(p) \/ ReadEffects(p) =>
            UNCHANGED ask /\ \E x \in Reading : pc' = [pc EXCEPT ![p] = x]
      BY Zenon DEF LockEvent, ReadTerminal, ReadEffects, memVars, Reading
    <3>4. LockEvent(p) \/ ReadTerminal(p) \/ ReadEffects(p) => UNCHANGED ask /\ pc'[c] = pc[c]
      BY <1>4, <2>1, <3>3, Zenon DEF Reading
    <3> QED
      BY <2>4, <3>1, <3>2, <3>4, Zenon DEF Closing, CommitClose, Dies, Refuse
  <2>5. ASSUME NEW d \in Closers, Request(d) PROVE ask'[c] # None
    <3>1. /\ \E x : pc' = [pc EXCEPT ![d] = x] /\ (x = "report" => ask'[d] # None)
          /\ c # d => ask'[c] = ask[c]
      BY <2>5, RequestMoves, Zenon DEF Others
    <3> QED
      BY <1>4, <2>1, <3>1, Zenon
  <2> QED
    BY <2>2, <2>3, <2>4, <2>5, ProcWriters, Zenon
<1> QED
  BY <1>1, <1>2, <1>3, <1>4, Zenon DEF TextInv, MemTypes

-----------------------------------------------------------------------------
(* The transition to CLOSED                                                *)

\* A process in the transition took the row lock for it or was there before, and
\* its reads only ever turn its answer to a refusal.
LEMMA ReadingStep ==
  ASSUME ProcShape, TextInv, [Next]_vars, NEW p \in Procs, pc'[p] \in Reading
  PROVE  \/ LockEvent(p)
         \/ /\ pc[p] \in Reading /\ (ok'[p] => ok[p])
            /\ pc'[p] = "commit" => (pc[p] = "commit" \/ ReadEffects(p))
<1> DEFINE Goal == \/ LockEvent(p)
                   \/ /\ pc[p] \in Reading /\ (ok'[p] => ok[p])
                      /\ pc'[p] = "commit" => (pc[p] = "commit" \/ ReadEffects(p))
<1>1. ASSUME pc'[p] = pc[p], ok'[p] = ok[p] PROVE Goal
  BY <1>1, Zenon
<1>2. CASE UNCHANGED <<lock, pc, ok, ask, seen, from, moved>>
  BY <1>1, <1>2, Zenon
<1>3. CASE GraphAlone
  <2>1. p # Graph /\ pc'[p] = pc[p] /\ ok' = ok
    BY <1>3, GraphMoves, Zenon DEF Reading, ProcShape, Procs
  <2> QED
    BY <1>1, <2>1, Zenon
<1>4. ASSUME NEW q \in Procs, Closing(q) PROVE Goal
  <2>1. CASE q # p
    <3>1. pc'[p] = pc[p] /\ ok'[p] = ok[p]
      BY <1>4, <2>1, ClosingMoves, ZenonT(30) DEF ProcShape
    <3> QED
      BY <1>1, <3>1, Zenon
  <2>2. CASE q = p
    <3>1. CommitClose(p) \/ Dies(p) => \E x \in {"idle", "done", "refused"} : pc' = [pc EXCEPT ![p] = x]
      BY Zenon DEF CommitClose, Dies, Refuse, Answered
    <3>2. ~CommitClose(p) /\ ~Dies(p)
      BY <3>1, Zenon DEF ProcShape, Reading
    <3>3. ASSUME ReadTerminal(p) PROVE Goal
      <4>1. pc[p] = "readTerminal" /\ pc'[p] = "readEffects" /\ (ok'[p] => ok[p])
        BY <3>3, Zenon DEF ReadTerminal, ProcShape
      <4> QED
        BY <4>1, Zenon DEF Reading
    <3>4. ASSUME ReadEffects(p) PROVE Goal
      <4>1. pc[p] = "readEffects" /\ (ok'[p] => ok[p])
        BY <3>4, Zenon DEF ReadEffects, ProcShape
      <4> QED
        BY <3>4, <4>1, Zenon DEF Reading
    <3> QED
      BY <1>4, <2>2, <3>2, <3>3, <3>4, Zenon DEF Closing
  <2> QED
    BY <2>1, <2>2, Zenon
<1>5. ASSUME NEW c \in Closers, Request(c) PROVE Goal
  <2>1. (\E x : x \notin Reading /\ pc' = [pc EXCEPT ![c] = x]) /\ ok' = ok
    BY <1>5, RequestMoves, Zenon
  <2>2. pc'[p] = pc[p]
    BY <2>1, Zenon DEF ProcShape, Procs
  <2> QED
    BY <1>1, <2>1, <2>2, Zenon
<1> QED
  BY <1>2, <1>3, <1>4, <1>5, ProcWriters, Zenon

\* The row lock keeps the status of the event from every other process.
LEMMA LockedStatus ==
  ASSUME ProcShape, TextInv, GateInv, [Next]_vars, NEW p \in Procs, pc[p] \in Reading, pc'[p] \in Reading
  PROVE  status' = status /\ unsynced' = unsynced
<1>1. lock = p /\ lock # None
  BY Constants, Zenon DEF GateInv
<1>2. ~ForceClose /\ \A s, rec : ~Walk(s, rec)
  BY <1>1, Zenon DEF ForceClose, Walk, Unlocked
<1>3. \A c : ~MoveToReporting(c)
  BY <1>1, Zenon DEF MoveToReporting, Unlocked
<1>4. ASSUME NEW q \in Procs, CommitClose(q) PROVE FALSE
  <2>1. /\ pc[q] = "commit"
        /\ \E x \in {"idle", "done", "refused"} : pc' = [pc EXCEPT ![q] = x]
    BY <1>4, Zenon DEF CommitClose, Refuse, Answered
  <2>2. q = p
    BY <1>1, <2>1, Zenon DEF GateInv, Reading
  <2> QED
    BY <2>1, <2>2, Zenon DEF ProcShape, Reading
<1> QED
  BY <1>2, <1>3, <1>4, StatusWriters, Zenon DEF StatusStep

\* A required event that the gate lets be closed is in REPORTING.
LEMMA GateStatus ==
  ASSUME NEW rec, EdgeAllowed("closed", rec), Required
  PROVE  status = "reporting"
<1>1. status \in {"triaging", "reporting"}
  BY Edges, Zenon DEF EdgeAllowed
<1>2. status # "triaging"
  BY Zenon DEF EdgeAllowed, QuickClose
<1> QED
  BY <1>1, <1>2, Zenon

\* Every step keeps what a process in the transition has read, and what was read
\* when the event was closed.
LEMMA GateStep ==
  PlanShape /\ CommandInv /\ ProcShape /\ TextInv /\ GateInv /\ [Next]_vars => GateInv'
<1> SUFFICES ASSUME PlanShape, CommandInv, ProcShape, TextInv, GateInv, [Next]_vars PROVE GateInv'
  OBVIOUS
<1>1. ASSUME NEW p \in Procs, pc'[p] \in Reading PROVE lock' = p
  <2>1. CASE LockEvent(p)
    BY <2>1, Zenon DEF LockEvent
  <2>2. CASE pc[p] \in Reading
    <3>1. lock = p /\ lock # None
      BY <2>2, Constants, Zenon DEF GateInv
    <3>2. ASSUME NEW q \in Procs, Closing(q) PROVE lock' = lock
      <4>1. ~LockEvent(q)
        BY <3>1, Zenon DEF LockEvent, Unlocked
      <4>2. CASE CommitClose(q) \/ Dies(q)
        <5>1. /\ \E x \in {"idle", "done", "refused"} : pc' = [pc EXCEPT ![q] = x]
              /\ CommitClose(q) => pc[q] = "commit"
          BY <4>2, Zenon DEF CommitClose, Dies, Refuse, Answered
        <5>2. q # p
          BY <1>1, <5>1, Zenon DEF ProcShape, Reading
        <5>3. ~CommitClose(q)
          BY <3>1, <5>1, <5>2, Zenon DEF GateInv, Reading
        <5> QED
          BY <3>1, <4>2, <5>2, <5>3, Zenon DEF Dies
      <4> QED
        BY <3>2, <4>1, <4>2, Zenon DEF Closing, ReadTerminal, ReadEffects
    <3>3. lock' = lock
      BY <3>2, ProcWriters, GraphMoves, RequestMoves, Zenon
    <3> QED
      BY <3>1, <3>3, Zenon
  <2> QED
    BY <1>1, <2>1, <2>2, ReadingStep, Zenon
<1>2. ASSUME NEW p \in Procs, pc'[p] \in Reading, ok'[p], Required
      PROVE  status' = "reporting" /\ WritebackGate'
  <2>1. CASE LockEvent(p)
    <3>1. status' = status /\ UNCHANGED planVars
      BY <2>1, Zenon DEF LockEvent, evVars
    <3>2. \E rec : ok' = [ok EXCEPT ![p] = EdgeAllowed("closed", rec) /\ report # None
                                           /\ (Required => WritebackGate)]
      BY <2>1, Zenon DEF LockEvent
    <3>3. (\E rec : EdgeAllowed("closed", rec)) /\ WritebackGate
      BY <1>2, <3>2, Zenon DEF ProcShape
    <3>4. WritebackGate'
      BY <3>1, <3>3, Zenon DEF planVars, trmVars, WritebackGate
    <3> QED
      BY <1>2, <3>1, <3>3, <3>4, GateStatus, Zenon
  <2>2. CASE pc[p] \in Reading /\ ok[p]
    <3>1. status = "reporting" /\ WritebackGate
      BY <1>2, <2>2, Zenon DEF GateInv
    <3>2. status \in After
      BY <3>1, Zenon DEF After
    <3> QED
      BY <1>2, <2>2, <3>1, <3>2, LockedStatus, GateKept, Zenon
  <2> QED
    BY <1>2, <2>1, <2>2, ReadingStep, Zenon
<1>3. ASSUME NEW p \in Procs, pc'[p] = "commit", ok'[p], Required PROVE Converged'
  <2>1. CASE ReadEffects(p)
    <3>1. UNCHANGED planVars /\ ok' = [ok EXCEPT ![p] = @ /\ (Required => Converged)]
      BY <2>1, Zenon DEF ReadEffects
    <3>2. Converged
      BY <1>3, <3>1, Zenon DEF ProcShape
    <3> QED
      BY <3>1, <3>2, Zenon DEF planVars, entVars, trmVars, Converged, EntityBlocks, TerminalBlocks
  <2>2. CASE pc[p] = "commit" /\ ok[p]
    <3>1. pc[p] \in Reading /\ status \in After
      BY <1>3, <2>2, Zenon DEF GateInv, Reading, After
    <3> QED
      BY <1>3, <2>2, <3>1, GateKept, Zenon DEF GateInv
  <2>3. CASE LockEvent(p)
    <3>1. pc' = [pc EXCEPT ![p] = "readTerminal"]
      BY <2>3, Zenon DEF LockEvent
    <3> QED
      BY <1>3, <3>1, Zenon DEF ProcShape
  <2>4. pc'[p] \in Reading
    BY <1>3, Zenon DEF Reading
  <2> QED
    BY <1>3, <2>1, <2>2, <2>3, <2>4, ReadingStep, Zenon
<1>4. ASSUME status' = "closed", Required, ~unsynced' PROVE WritebackGate' /\ Converged'
  <2>1. CASE status = "closed" /\ ~unsynced
    <3>1. status \in After
      BY <2>1, Zenon DEF After
    <3> QED
      BY <1>4, <2>1, <3>1, GateKept, Zenon DEF GateInv
  <2>2. ASSUME NEW p \in Procs, CommitClose(p), status # "closed" PROVE WritebackGate' /\ Converged'
    <3>1. pc[p] = "commit" /\ ok[p]
      BY <1>4, <2>2, Zenon DEF CommitClose
    <3>2. pc[p] \in Reading
      BY <3>1, Zenon DEF Reading
    <3>3. status = "reporting" /\ WritebackGate /\ Converged
      BY <1>4, <3>1, <3>2, Zenon DEF GateInv
    <3>4. status \in After
      BY <3>3, Zenon DEF After
    <3> QED
      BY <3>3, <3>4, GateKept, Zenon
  <2>3. ASSUME NEW s, NEW rec, Walk(s, rec) PROVE FALSE
    BY <1>4, <2>3, Zenon DEF Walk
  <2>4. ~ForceClose
    BY <1>4, Zenon DEF ForceClose
  <2>5. ASSUME NEW c \in Closers, MoveToReporting(c) PROVE status = "closed" /\ ~unsynced
    BY <1>4, <2>5, Zenon DEF MoveToReporting
  <2>6. ASSUME NEW p \in Procs, CommitClose(p) PROVE unsynced' = unsynced
    BY <2>6, Zenon DEF CommitClose
  <2> QED
    BY <1>4, <2>1, <2>2, <2>3, <2>4, <2>5, <2>6, StatusWriters, Zenon DEF StatusStep
<1> QED
  BY <1>1, <1>2, <1>3, <1>4, Zenon DEF GateInv

-----------------------------------------------------------------------------
(* A request on a FAILED event                                             *)

\* No step leads from FAILED, REPORTING or CLOSED back to the response.
LEMMA AfterKept ==
  ASSUME [Next]_vars, status \in After
  PROVE  status' \in After
<1>1. ASSUME NEW s, NEW rec, Walk(s, rec) PROVE status' \in After
  <2>1. status' = s /\ <<status, s>> \in STATE_TRANSITIONS
    BY <1>1, Zenon DEF Walk, EdgeAllowed
  <2> QED
    BY <2>1, Edges, Zenon DEF After
<1>2. ASSUME NEW p \in Procs, CommitClose(p) PROVE status' \in {status, "closed"}
  BY <1>2, Zenon DEF CommitClose
<1>3. ForceClose => status' = "closed"
  BY Zenon DEF ForceClose
<1>4. ASSUME NEW c \in Closers, MoveToReporting(c) PROVE status' \in {status, "reporting"}
  BY <1>4, Zenon DEF MoveToReporting
<1> QED
  BY <1>1, <1>2, <1>3, <1>4, StatusWriters, Zenon DEF StatusStep, After

\* A report is rewritten, never removed.
LEMMA ReportKept ==
  ASSUME TextInv, [Next]_vars, report # None
  PROVE  report' # None
<1>1. CASE GraphStep
  <2>1. report' = report \/ report' = draft
    BY <1>1, Zenon DEF GraphStep, Walk, BeginDispositionOnly, PublishVerdict, Plan, Execute, Verify,
                       ActivateTerminal, StartReport, WriteReport, GraphCloses, repVars
  <2> QED
    BY <2>1, Constants, Zenon DEF TextInv
<1>2. CASE Background
  BY <1>2, Zenon DEF Background, Decide, DeliverEntity, EndJob, SettleAction, SettleTerminal,
                     ForceClose, SetFinalVerdict, repVars
<1>3. ASSUME NEW p \in Procs, Closing(p) PROVE report' = report
  BY <1>3, Zenon DEF Closing, LockEvent, ReadTerminal, ReadEffects, CommitClose, Dies, repVars
<1>4. ASSUME NEW c \in Closers, Request(c) PROVE report' # None
  <2>1. report' = report \/ (pc[c] = "report" /\ report' = ask[c])
    BY <1>4, Zenon DEF Request, RequestClose, CheckEffects, CheckWritebacks, ChangeVerdict,
                       RegenerateReport, QuickReport, MoveToReporting, reqRest, repVars
  <2> QED
    BY <2>1, Zenon DEF TextInv
<1>5. CASE UNCHANGED vars
  BY <1>5, Zenon DEF vars, repVars
<1> QED
  BY <1>1, <1>2, <1>3, <1>4, <1>5, Zenon DEF Next

\* A step of another process leaves the request alone.
LEMMA OwnSteps ==
  ASSUME ProcShape, TextInv, [Next]_vars, NEW c \in Closers
  PROVE  \/ pc'[c] = pc[c] /\ ok'[c] = ok[c] /\ from'[c] = from[c] /\ moved'[c] = moved[c]
         \/ Closing(c) \/ Request(c)
<1>1. c \in Procs /\ c # Graph
  BY LifecycleConstants, Zenon DEF Procs
<1>2. CASE GraphAlone
  BY <1>1, <1>2, GraphMoves, Zenon DEF ProcShape
<1>3. ASSUME NEW p \in Procs \ {c}, Closing(p)
      PROVE  pc'[c] = pc[c] /\ ok'[c] = ok[c] /\ from'[c] = from[c] /\ moved'[c] = moved[c]
  <2>1. pc'[c] = pc[c] /\ ok'[c] = ok[c]
    BY <1>1, <1>3, ClosingMoves, Zenon DEF ProcShape
  <2>2. from'[c] = from[c] /\ moved'[c] = moved[c]
    <3>1. ASSUME NEW at \in {"refused", "done", "idle"}, Answered(p, at)
          PROVE  from'[c] = from[c] /\ moved'[c] = moved[c]
      BY <1>3, <3>1, AnswerMoves, Zenon
    <3> QED
      BY <1>3, <3>1, ClosingMoves, Zenon
  <2> QED
    BY <2>1, <2>2, Zenon
<1>4. ASSUME NEW d \in Closers \ {c}, Request(d)
      PROVE  pc'[c] = pc[c] /\ ok'[c] = ok[c] /\ from'[c] = from[c] /\ moved'[c] = moved[c]
  <2>1. (\E x : pc' = [pc EXCEPT ![d] = x]) /\ ok' = ok /\ Others(d)
    BY <1>4, RequestMoves, Zenon
  <2> QED
    BY <1>1, <1>4, <2>1, Zenon DEF ProcShape, Others
<1> QED
  BY <1>2, <1>3, <1>4, ProcWriters, Zenon

\* The two checks in front of the transition, step by step.
LEMMA UnstrandedRequest ==
  ASSUME PlanShape, ProcShape, TextInv, NEW c \in Closers, Unstranded(c), Request(c), [Next]_vars
  PROVE  Unstranded(c)'
<1>1. c \in Procs /\ c # Graph /\ DOMAIN pc = Procs /\ DOMAIN from = Closers /\ moved \in [Closers -> BOOLEAN]
  BY LifecycleConstants, Zenon DEF Procs, ProcShape
<1>2. ASSUME Refuse(c) PROVE Unstranded(c)'
  <2>1. /\ pc' = [pc EXCEPT ![c] = IF c = Graph THEN "idle" ELSE "refused"]
        /\ from'[c] = "new" /\ ~moved'[c]
    BY <1>1, <1>2, AnswerMoves, Zenon DEF Refuse
  <2>2. pc'[c] = "refused"
    BY <1>1, <2>1, Zenon
  <2> QED
    BY <2>1, <2>2, Zenon DEF Unstranded
<1>3. UNCHANGED planVars => Converged' = Converged /\ WritebackGate' = WritebackGate
  BY Zenon DEF planVars, entVars, trmVars, WritebackGate, Converged, EntityBlocks, TerminalBlocks
<1>4. ASSUME NEW v \in Verdicts \cup {None}, RequestClose(c, v), ~Refuse(c) PROVE Unstranded(c)'
  <2>1. /\ pc[c] \in {"idle", "refused", "done"} /\ from' = [from EXCEPT ![c] = status]
        /\ moved' = moved /\ status' = status
        /\ pc' = [pc EXCEPT ![c] = IF status = "triaging" THEN "verdict" ELSE "effects"]
    BY <1>4, Zenon DEF RequestClose, evVars
  <2>2. ~moved'[c]
    BY <2>1, Zenon DEF Unstranded, Moved, Reading
  <2> QED
    BY <1>1, <2>1, <2>2, Zenon DEF Unstranded, Busy, Checked, Moved, Reading, After
<1>5. ASSUME CheckEffects(c), ~Refuse(c) PROVE Unstranded(c)'
  <2>1. /\ pc[c] = "effects" /\ (Required => Converged) /\ pc' = [pc EXCEPT ![c] = "writebacks"]
        /\ UNCHANGED <<from, moved, status, planVars>>
    BY <1>5, Zenon DEF CheckEffects, Goes, memVars, evVars, reqRest
  <2> QED
    BY <1>1, <1>3, <2>1, Zenon DEF Unstranded, Busy, Checked, Moved, Reading
<1>6. ASSUME CheckWritebacks(c), ~Refuse(c) PROVE Unstranded(c)'
  <2>1. /\ pc[c] = "writebacks" /\ (Required => WritebackGate)
        /\ pc' = [pc EXCEPT ![c] = IF from[c] = "failed" THEN "quick" ELSE "verdict"]
        /\ UNCHANGED <<from, moved, status, planVars>>
    BY <1>6, Zenon DEF CheckWritebacks, Goes, memVars, evVars, reqRest
  <2> QED
    BY <1>1, <1>3, <2>1, Zenon DEF Unstranded, Busy, Checked, Moved, Reading
<1>7. ASSUME ChangeVerdict(c), ~Refuse(c) PROVE Unstranded(c)'
  <2>1. /\ pc[c] = "verdict" /\ UNCHANGED <<from, moved, status, report, planVars>>
        /\ \E x \in {"quick", "report", "close"} : /\ pc' = [pc EXCEPT ![c] = x]
                                                   /\ x = "quick" => from[c] = "triaging"
    BY <1>7, Zenon DEF ChangeVerdict, Goes, memVars, reqRest, repVars
  <2> QED
    BY <1>1, <1>3, <2>1, Zenon DEF Unstranded, Busy, Checked, Moved, Reading
<1>8. CASE RegenerateReport(c)
  <2>1. /\ pc[c] = "report" /\ report' = ask[c] /\ pc' = [pc EXCEPT ![c] = "close"]
        /\ UNCHANGED <<from, moved, status, planVars>>
    BY <1>8, Zenon DEF RegenerateReport, memVars, evVars
  <2>2. report' # None
    BY <2>1, Zenon DEF TextInv
  <2> QED
    BY <1>1, <1>3, <2>1, <2>2, Zenon DEF Unstranded, Busy, Checked, Moved, Reading
<1>9. CASE QuickReport(c)
  <2>1. /\ pc[c] = "quick" /\ pc' = [pc EXCEPT ![c] = IF from[c] = "failed" THEN "move" ELSE "close"]
        /\ report' = IF report # None THEN report
                     ELSE IF from[c] = "triaging" /\ ask[c] # None THEN ask[c] ELSE seen[c]
        /\ UNCHANGED <<from, moved, status, planVars>>
    BY <1>9, Zenon DEF QuickReport, memVars, evVars
  <2>2. report' # None
    BY <2>1, Constants, Zenon DEF TextInv
  <2> QED
    BY <1>1, <1>3, <2>1, <2>2, Zenon DEF Unstranded, Busy, Checked, Moved, Reading
<1>10. ASSUME MoveToReporting(c), ~Refuse(c) PROVE Unstranded(c)'
  <2>1. /\ pc[c] = "move" /\ status' = "reporting" /\ moved' = [moved EXCEPT ![c] = TRUE]
        /\ pc' = [pc EXCEPT ![c] = "verdict"] /\ UNCHANGED <<from, report, planVars>>
    BY <1>10, Zenon DEF MoveToReporting, reqRest, repVars
  <2> QED
    BY <1>1, <1>3, <2>1, Zenon DEF Unstranded, Busy, Checked, Moved, Reading, After
<1> QED
  BY <1>2, <1>4, <1>5, <1>6, <1>7, <1>8, <1>9, <1>10, Zenon DEF Request

\* The transition of a request that took the event out of FAILED: while the event
\* is in REPORTING no read of the gate fails.
LEMMA UnstrandedClosing ==
  ASSUME PlanShape, ProcShape, TextInv, Mock \/ ~Required,
         NEW c \in Closers, Unstranded(c), Closing(c)
  PROVE  Unstranded(c)'
<1>1. c \in Procs /\ c # Graph /\ DOMAIN pc = Procs /\ ok \in [Procs -> BOOLEAN]
  BY LifecycleConstants, Zenon DEF Procs, ProcShape
<1>2. UNCHANGED planVars => Converged' = Converged /\ WritebackGate' = WritebackGate
  BY Zenon DEF planVars, entVars, trmVars, WritebackGate, Converged, EntityBlocks, TerminalBlocks
<1>3. CASE LockEvent(c)
  <2>1. /\ pc[c] = "close" /\ pc' = [pc EXCEPT ![c] = "readTerminal"]
        /\ UNCHANGED <<from, moved, status, report, planVars>>
    BY <1>3, Zenon DEF LockEvent, memVars, evVars, repVars
  <2>2. PICK rec \in {FALSE, c = Graph} :
          ok' = [ok EXCEPT ![c] = EdgeAllowed("closed", rec) /\ report # None
                                  /\ (Required => WritebackGate)]
    BY <1>3, Zenon DEF LockEvent
  <2>3. status = "reporting" => EdgeAllowed("closed", rec)
    <3>1. <<"reporting", "closed">> \in STATE_TRANSITIONS
      BY Zenon DEF STATE_TRANSITIONS
    <3>2. VerdictAllows(verdict, "closed")
      BY Zenon DEF VerdictAllows, Responding
    <3> QED
      BY <3>1, <3>2, Zenon DEF EdgeAllowed
  <2>4. moved[c] => report # None /\ (Required => WritebackGate)
    BY <2>1, Zenon DEF Unstranded, Checked, Moved
  <2>5. moved[c] /\ status = "reporting" => ok'[c]
    BY <1>1, <2>2, <2>3, <2>4, Zenon
  <2> QED
    BY <1>1, <1>2, <2>1, <2>5, Zenon DEF Unstranded, Busy, Checked, Moved, Reading
<1>4. CASE ReadTerminal(c)
  <2>1. /\ pc[c] = "readTerminal" /\ pc' = [pc EXCEPT ![c] = "readEffects"]
        /\ ok' = [ok EXCEPT ![c] = @ /\ (Required => TerminalGate)]
        /\ UNCHANGED <<from, moved, status, report, planVars>>
    BY <1>4, Zenon DEF ReadTerminal, memVars, evVars, repVars
  <2>2. moved[c] => (Required => WritebackGate)
    BY <2>1, Zenon DEF Unstranded, Checked, Moved, Reading
  <2>3. moved[c] => (Required => TerminalGate)
    BY <2>2, Zenon DEF WritebackGate, TerminalGate, InScope
  <2>4. moved[c] /\ status = "reporting" => ok[c]
    BY <2>1, Zenon DEF Unstranded, Reading
  <2>5. moved[c] /\ status = "reporting" => ok'[c]
    BY <1>1, <2>1, <2>3, <2>4, Zenon
  <2> QED
    BY <1>1, <1>2, <2>1, <2>5, Zenon DEF Unstranded, Busy, Checked, Moved, Reading
<1>5. CASE ReadEffects(c)
  <2>1. /\ pc[c] = "readEffects" /\ pc' = [pc EXCEPT ![c] = "commit"]
        /\ ok' = [ok EXCEPT ![c] = @ /\ (Required => Converged)]
        /\ UNCHANGED <<from, moved, status, report, planVars>>
    BY <1>5, Zenon DEF ReadEffects, memVars, evVars, repVars
  <2>2. moved[c] => (Required => Converged)
    BY <2>1, Zenon DEF Unstranded, Checked, Moved, Reading
  <2>3. moved[c] /\ status = "reporting" => ok[c]
    BY <2>1, Zenon DEF Unstranded, Reading
  <2>4. moved[c] /\ status = "reporting" => ok'[c]
    BY <1>1, <2>1, <2>2, <2>3, Zenon
  <2> QED
    BY <1>1, <1>2, <2>1, <2>4, Zenon DEF Unstranded, Busy, Checked, Moved, Reading
<1>6. CASE CommitClose(c) \/ Dies(c)
  <2>1. PICK at \in {"refused", "done", "idle"} : Answered(c, at)
    BY <1>6, Zenon DEF CommitClose, Dies, Refuse
  <2>2. /\ pc' = [pc EXCEPT ![c] = IF c = Graph THEN "idle" ELSE at]
        /\ c \in Closers => from'[c] = "new" /\ ~moved'[c]
    BY <1>1, <2>1, AnswerMoves
  <2>3. pc'[c] \in {"refused", "done", "idle"}
    BY <1>1, <2>2, Zenon
  <2> QED
    BY <2>2, <2>3, Zenon DEF Unstranded
<1> QED
  BY <1>3, <1>4, <1>5, <1>6, Zenon DEF Closing

\* Every step keeps what a request on a FAILED event has checked.
LEMMA UnstrandedStep ==
  ASSUME PlanShape, CommandInv, ProcShape, TextInv, GateInv, Mock \/ ~Required, [Next]_vars,
         NEW c \in Closers, Unstranded(c)
  PROVE  Unstranded(c)'
<1>1. CASE pc'[c] = pc[c] /\ ok'[c] = ok[c] /\ from'[c] = from[c] /\ moved'[c] = moved[c]
  <2>1. ASSUME moved'[c], pc'[c] \in Reading, status' = "reporting" PROVE ok'[c]
    <3>1. c \in Procs
      BY Zenon DEF Procs
    <3>2. status' = status
      BY <1>1, <2>1, <3>1, LockedStatus, Zenon
    <3> QED
      BY <1>1, <2>1, <3>2, Zenon DEF Unstranded
  <2>2. ASSUME from'[c] = "failed", pc'[c] \in Busy
        PROVE  /\ status' \in After
               /\ pc'[c] \in {"writebacks"} \cup Checked /\ Required => Converged'
               /\ pc'[c] \in Checked /\ Required => WritebackGate'
               /\ pc'[c] \in {"move"} \cup Moved => report' # None
    <3>1. status \in After
      BY <1>1, <2>2, Zenon DEF Unstranded
    <3> QED
      BY <1>1, <2>2, <3>1, AfterKept, GateKept, ReportKept, Zenon DEF Unstranded
  <2>3. {"writebacks"} \cup Checked \subseteq Busy /\ {"move"} \cup Moved \subseteq Busy
    BY Zenon DEF Busy, Checked
  <2> QED
    BY <1>1, <2>1, <2>2, <2>3, Zenon DEF Unstranded
<1> QED
  BY <1>1, OwnSteps, UnstrandedRequest, UnstrandedClosing, Zenon

-----------------------------------------------------------------------------
(* The theorems                                                            *)

LifecycleInv ==
    PlanShape /\ CommandInv /\ JobInv /\ IntentInv /\ ProcShape /\ TextInv /\ GateInv

\* No plan, no close, nobody in the transition.
LEMMA LifecycleInit == Init => LifecycleInv /\ \A c \in Closers : Unstranded(c)
<1> SUFFICES ASSUME Init PROVE LifecycleInv /\ \A c \in Closers : Unstranded(c)
  OBVIOUS
<1>1. PlanShape
  BY Constants DEF Init, PlanShape
<1>2. CommandInv /\ JobInv /\ IntentInv
  <2>1. /\ \A r \in Revisions : head[r] = "none" /\ job[r] = "none" /\ ent[r] = "absent"
        /\ status = "new"
    BY Zenon DEF Init
  <2> QED
    BY <2>1, Zenon DEF CommandInv, JobInv, IntentInv, Responding
<1>3. ProcShape
  BY Zenon DEF Init, ProcShape
<1>4. /\ \A p \in Procs : pc[p] = "idle"
      /\ \A c \in Closers : c \in Procs /\ ~moved[c] /\ from[c] = "new"
  BY Zenon DEF Init, Procs
<1>5. TextInv
  <2>1. /\ verdict \in Verdicts /\ draft \in Verdicts
        /\ seen \in [Closers -> Verdicts] /\ ask \in [Closers -> Verdicts \cup {None}]
    BY Zenon DEF Init, Verdicts
  <2> QED
    BY <1>4, <2>1, Zenon DEF TextInv
<1>6. GateInv
  <2>1. status = "new"
    BY Zenon DEF Init
  <2> QED
    BY <1>4, <2>1, Zenon DEF GateInv, Reading
<1>7. \A c \in Closers : Unstranded(c)
  BY <1>4, Zenon DEF Unstranded
<1> QED
  BY <1>1, <1>2, <1>3, <1>5, <1>6, <1>7, Zenon DEF LifecycleInv

\* Every step keeps the invariant.
LEMMA LifecycleStep == LifecycleInv /\ [Next]_vars => LifecycleInv'
  BY PlanShapeStep, CommandStep, JobStep, IntentStep, ProcShapeStep, TextStep, GateStep, Zenon DEF LifecycleInv

\* An event whose disposition is required, closed without force, has its terminal
\* command confirmed and its entity action ended well, with the effect read back
\* in managed mode: the gate of CLOSED reads this in several statements while
\* executors, outbox and recovery write the rows, and none of them takes back
\* what it has read.
THEOREM ClosedConfirmed == Spec => []ClosedIsConfirmed
<1>1. LifecycleInv => ClosedIsConfirmed
  <2> SUFFICES ASSUME LifecycleInv, status = "closed", Required, ~unsynced
               PROVE  /\ rev > 0 /\ head[rev] = "confirmed" /\ trm[rev] \notin {"rejected", "superseded"}
                      /\ ent[rev] \in {"approved", "executing", "ended"}
                           => /\ ent[rev] = "ended" /\ job[rev] = "success"
                              /\ Managed => box[rev] = "accepted" /\ verified[rev]
    BY Zenon DEF ClosedIsConfirmed
  <2>1. WritebackGate /\ Converged
    BY Zenon DEF LifecycleInv, GateInv
  <2>2. rev > 0 /\ rev \in Revisions
    BY <2>1 DEF WritebackGate, LifecycleInv, PlanShape, Revisions
  <2>3. ent[rev] \in {"approved", "executing", "ended"} =>
           /\ ent[rev] # "executing" /\ job[rev] = "success"
           /\ Managed => box[rev] = "accepted" /\ verified[rev]
    BY <2>1, <2>2 DEF Converged, EntityBlocks, InScope
  <2>4. job[rev] = "success" => ent[rev] # "approved"
    BY <2>2, Zenon DEF LifecycleInv, JobInv
  <2> QED
    BY <2>1, <2>2, <2>3, <2>4, Zenon DEF WritebackGate, InScope
<1> QED
  BY <1>1, LifecycleInit, LifecycleStep, PTL DEF Spec

\* Whatever the risk agent, the analysts, the planner and close requests write in
\* between, a false positive never responds with an entity action planned.
THEOREM FalsePositiveUntouched == Spec => []FalsePositiveHasNoEntityAction
<1>1. LifecycleInv => FalsePositiveHasNoEntityAction
  BY DEF LifecycleInv, IntentInv, PlanShape, FalsePositiveHasNoEntityAction, Revisions
<1> QED
  BY <1>1, LifecycleInit, LifecycleStep, PTL DEF Spec

\* With the mock adapter, or where no disposition is required, the checks of
\* close_event in front of a FAILED event cover the gate of CLOSED: a request that
\* moved the event to REPORTING is not refused there, whatever other requests, the
\* graph run and the outbox do meanwhile.
THEOREM NobodyStranded == Mock \/ ~Required => (Spec => NotStranded)
<1> SUFFICES ASSUME Mock \/ ~Required PROVE Spec => NotStranded
  OBVIOUS
<1> DEFINE Inv == LifecycleInv /\ \A c \in Closers : Unstranded(c)
<1>1. Inv /\ [Next]_vars => Inv'
  BY LifecycleStep, UnstrandedStep, Zenon DEF LifecycleInv
<1>2. ASSUME Inv, [Next]_vars, NEW c \in Closers, moved[c], pc[c] # "refused", pc'[c] = "refused"
      PROVE  status' # "reporting"
  <2>1. c \in Procs /\ c # Graph /\ DOMAIN pc = Procs /\ pc[c] \in Moved /\ status \in After
    <3>1. from[c] = "failed" /\ pc[c] \in Moved
      BY <1>2, Zenon DEF Unstranded
    <3> QED
      BY <1>2, <3>1, LifecycleConstants, Zenon DEF Procs, LifecycleInv, ProcShape, Unstranded, Busy, Checked
  <2>2. Closing(c) \/ Request(c)
    BY <1>2, OwnSteps, Zenon DEF LifecycleInv
  <2>3. CommitClose(c) \/ ChangeVerdict(c)
    <3>1. ~(LockEvent(c) \/ ReadTerminal(c) \/ ReadEffects(c) \/ RegenerateReport(c) \/ QuickReport(c))
      <4>1. LockEvent(c) \/ ReadTerminal(c) \/ ReadEffects(c) \/ RegenerateReport(c) \/ QuickReport(c) =>
              \E x \in Reading \cup {"close", "move"} : pc' = [pc EXCEPT ![c] = x]
        BY Zenon DEF LockEvent, ReadTerminal, ReadEffects, RegenerateReport, QuickReport, Reading
      <4> QED
        BY <1>2, <2>1, <4>1, Zenon DEF Reading
    <3>2. ~Dies(c)
      <4>1. Dies(c) => pc' = [pc EXCEPT ![c] = "idle"]
        BY <2>1, Zenon DEF Dies, Answered
      <4> QED
        BY <1>2, <2>1, <4>1, Zenon
    <3>3. ~CheckEffects(c) /\ ~CheckWritebacks(c) /\ ~MoveToReporting(c) /\ \A v : ~RequestClose(c, v)
      BY <2>1, Zenon DEF CheckEffects, CheckWritebacks, MoveToReporting, RequestClose, Moved, Reading
    <3> QED
      BY <2>2, <3>1, <3>2, <3>3, Zenon DEF Closing, Request
  <2>4. CASE CommitClose(c)
    <3>1. pc[c] = "commit" /\ (status' = "closed" \/ (~ok[c] /\ status' = status))
      BY <2>4, Zenon DEF CommitClose
    <3> QED
      BY <1>2, <3>1, Zenon DEF Unstranded, Reading
  <2>5. CASE ChangeVerdict(c)
    <3>1. VerdictAllows(ask[c], status)
      BY <2>1, Zenon DEF VerdictAllows, After, Responding
    <3>2. \E x \in {"quick", "report", "close"} : pc' = [pc EXCEPT ![c] = x]
      BY <2>5, <3>1, Zenon DEF ChangeVerdict, Goes
    <3> QED
      BY <1>2, <2>1, <3>2, Zenon
  <2> QED
    BY <2>3, <2>4, <2>5, Zenon
<1>3. Inv /\ [Next]_vars =>
        [\A c \in Closers : (moved[c] /\ pc[c] # "refused" /\ pc'[c] = "refused") => status' # "reporting"]_vars
  BY <1>2, Zenon
<1>4. Init => Inv
  BY LifecycleInit, Zenon
<1> QED
  BY <1>1, <1>3, <1>4, PTL DEF Spec, NotStranded

-----------------------------------------------------------------------------
(* Projections: the inductive invariant                                    *)

\* The tasks are of one service instance and a request that transitions the event
\* is not one that repairs it.
OneService ==
    /\ Home \in [Proj!Tasks -> Instances] /\ NoOne \notin Proj!Tasks /\ AuditIds \subseteq Nat \ {0}
    /\ Callers \cap Proj!Repairers = {}
    /\ \A t, u \in Proj!Tasks : Home[t] = Home[u]

\* Nothing so far that loses a marker
Calm == others = 0 /\ flagFaults = 0 /\ crashes = 0

\* The counters of what may lose one
Counters == others \in Nat /\ flagFaults \in Nat /\ crashes \in Nat

\* The logs, and the domains of what the tasks hold
LogShape ==
    /\ audits \in Seq(AuditIds) /\ history \in Seq(AuditIds)
    /\ read \in [Proj!Tasks -> Seq(AuditIds)] /\ failed \in [Proj!Tasks -> BOOLEAN]
    /\ flags \in Proj!Flags /\ seen \in [Proj!Tasks -> Proj!Flags]
    /\ DOMAIN pc = Proj!Tasks /\ DOMAIN gen = Proj!Tasks /\ DOMAIN lock = Instances

\* Places under the projection lock, and those of one kind of task
Locked == {"summary", "read", "append", "replace", "sync", "mark", "markWrite",
           "source", "again", "check", "clear", "clearWrite"}
OfCallers == {"lock", "read", "append"}
OfRepairs == {"source", "replace", "again", "check", "clear", "clearWrite"}

\* Who is under the lock holds it, and each task is in a place of its own kind.
LockInv ==
    \A t \in Proj!Tasks :
       /\ pc[t] \in Locked => lock[Home[t]] = t /\ t \in Callers \cup Proj!Repairers
       /\ pc[t] \in OfCallers => t \in Callers
       /\ pc[t] \in OfRepairs => t \in Proj!Repairers
       /\ pc[t] # "other"

\* The identities in the log are distinct, and so are those in the history.
LogInv ==
    /\ Proj!IsInjective(audits) /\ Proj!IsInjective(history)
    /\ Proj!Range(history) \subseteq Proj!Range(audits)
    /\ \A t \in Proj!Tasks : pc[t] \notin {"idle", "source"} => gen[t] \in Proj!Range(audits)
    /\ \A t \in Proj!Tasks : pc[t] = "source" => audits # <<>>

\* Who is going to add the entry id, or to leave the marker
Waiting(id) == \E c \in Callers : pc[c] = "lock" /\ gen[c] = id
Projecting(id) == \E c \in Callers : pc[c] \in {"summary", "read", "append"} /\ gen[c] = id
Failing == \E t \in Proj!Tasks : pc[t] \in {"mark", "markWrite"} \/ (pc[t] = "sync" /\ failed[t])

\* Without a marker, an entry that is missing is somebody's to add.
Covered ==
    flags.proj = 0 =>
       \A id \in Proj!Range(audits) \ Proj!Range(history) : Waiting(id) \/ Projecting(id) \/ Failing

\* A repair has read every transition but those whose tasks wait for the lock.
IsSource(s) ==
    /\ Proj!IsInjective(s)
    /\ Proj!Range(history) \subseteq Proj!Range(s) /\ Proj!Range(s) \subseteq Proj!Range(audits)
    /\ \A id \in Proj!Range(audits) \ Proj!Range(s) : Waiting(id)

\* What a task under the lock may rely on
TaskInv(t) ==
    /\ pc[t] = "append" => read[t] = history /\ gen[t] \notin Proj!Range(history)
    /\ t \in Proj!Repairers /\ pc[t] \in Locked \ {"source"} => IsSource(read[t])
    /\ t \in Proj!Repairers /\ pc[t] \in {"check", "clear", "clearWrite"}
          => Proj!Range(read[t]) \subseteq Proj!Range(history)
    /\ t \in Proj!Repairers /\ pc[t] = "sync" /\ ~failed[t]
          => Proj!Range(read[t]) \subseteq Proj!Range(history)
    /\ pc[t] = "markWrite" => seen[t] = flags
    /\ pc[t] = "again" => flags.proj # 0

\* The invariant; it is kept as long as nothing loses a marker.
ProjectionInv ==
    LogShape /\ LockInv /\ LogInv /\ Covered /\ \A t \in Proj!Tasks : TaskInv(t)

-----------------------------------------------------------------------------
(* Projections: sequences                                                  *)

\* What appending does to the entries of a log
LEMMA RangeAppend ==
  ASSUME NEW s \in Seq(AuditIds), NEW x \in AuditIds
  PROVE  Proj!Range(Append(s, x)) = Proj!Range(s) \cup {x}
  <1> DEFINE z == Append(s, x)
  <1>1. /\ DOMAIN s = 1..Len(s) /\ DOMAIN z = 1..(Len(s) + 1) /\ Len(s) \in Nat
        /\ \A i \in 1..Len(s) : z[i] = s[i]
        /\ z[Len(s) + 1] = x
    OBVIOUS
  <1>2. ASSUME NEW y \in Proj!Range(z) PROVE y \in Proj!Range(s) \cup {x}
    <2>1. PICK i \in DOMAIN z : y = z[i]
      BY <1>2, Zenon DEF Proj!Range
    <2>2. i \in 1..Len(s) \/ i = Len(s) + 1
      BY <1>1, <2>1
    <2> QED
      BY <1>1, <2>1, <2>2, Zenon DEF Proj!Range
  <1>3. ASSUME NEW y \in Proj!Range(s) \cup {x} PROVE y \in Proj!Range(z)
    <2>1. 1..Len(s) \subseteq DOMAIN z /\ Len(s) + 1 \in DOMAIN z
      BY <1>1
    <2>2. CASE y \in Proj!Range(s)
      <3>1. PICK i \in DOMAIN s : y = s[i]
        BY <2>2, Zenon DEF Proj!Range
      <3> QED
        BY <1>1, <2>1, <3>1, Zenon DEF Proj!Range
    <2> QED
      BY <1>1, <1>3, <2>1, <2>2, Zenon DEF Proj!Range
  <1> QED
    BY <1>2, <1>3, Zenon

\* A new entry leaves the log without repetitions.
LEMMA InjectiveAppend ==
  ASSUME NEW s \in Seq(AuditIds), NEW x \in AuditIds, Proj!IsInjective(s), x \notin Proj!Range(s)
  PROVE  Proj!IsInjective(Append(s, x))
  <1> DEFINE z == Append(s, x)
  <1>1. /\ DOMAIN s = 1..Len(s) /\ DOMAIN z = 1..(Len(s) + 1) /\ Len(s) \in Nat
        /\ \A i \in 1..Len(s) : z[i] = s[i]
        /\ z[Len(s) + 1] = x
    OBVIOUS
  <1>2. \A i \in 1..Len(s) : z[i] # x
    BY <1>1, Zenon DEF Proj!Range
  <1>3. ASSUME NEW i \in DOMAIN z, NEW j \in DOMAIN z, z[i] = z[j] PROVE i = j
    <2>1. /\ i \in 1..Len(s) \/ i = Len(s) + 1
          /\ j \in 1..Len(s) \/ j = Len(s) + 1
      BY <1>1, <1>3
    <2> QED
      BY <1>1, <1>2, <1>3, <2>1, Zenon DEF Proj!IsInjective
  <1> QED
    BY <1>3, Zenon DEF Proj!IsInjective

\* The entries of a log, its last one, and an identity above all of it
LEMMA LogFacts ==
  ASSUME NEW s \in Seq(AuditIds), AuditIds \subseteq Nat \ {0}
  PROVE  /\ Proj!Range(s) \subseteq AuditIds
         /\ s # <<>> => s[Len(s)] \in Proj!Range(s)
         /\ \A id \in AuditIds : (\A i \in 1..Len(s) : s[i] < id) => id \notin Proj!Range(s)
  <1>1. DOMAIN s = 1..Len(s) /\ Len(s) \in Nat /\ \A i \in 1..Len(s) : s[i] \in AuditIds
    OBVIOUS
  <1>2. Proj!Range(s) \subseteq AuditIds
    BY <1>1, Zenon DEF Proj!Range
  <1>4. ASSUME s # <<>> PROVE s[Len(s)] \in Proj!Range(s)
    <2>1. Len(s) \in 1..Len(s)
      BY <1>4
    <2> QED
      BY <1>1, <2>1, Zenon DEF Proj!Range
  <1>5. ASSUME NEW id \in AuditIds, \A i \in 1..Len(s) : s[i] < id
        PROVE  id \notin Proj!Range(s)
    <2>1. \A i \in 1..Len(s) : s[i] # id
      BY <1>1, <1>5
    <2> QED
      BY <1>1, <2>1, Zenon DEF Proj!Range
  <1> QED
    BY <1>2, <1>4, <1>5, Zenon

-----------------------------------------------------------------------------
(* Projections: steps under the lock                                       *)

\* A task has the lock and keeps it or gives it back; the log is as it was.
WorkerStep(t) ==
    /\ pc[t] \in Locked /\ pc'[t] \in Locked \cup {"idle"} /\ pc' = [pc EXCEPT ![t] = pc'[t]]
    /\ pc'[t] \in OfCallers => t \in Callers
    /\ pc'[t] \in OfRepairs => t \in Proj!Repairers
    /\ pc'[t] \in Locked => lock' = lock
    /\ lock' = lock \/ lock' = [lock EXCEPT ![Home[t]] = NoOne]
    /\ audits' = audits /\ \A u \in Proj!Tasks \ {t} : gen'[u] = gen[u]

\* One task at a time is under the lock.
LEMMA Alone ==
  ASSUME OneService, LockInv, NEW t \in Proj!Tasks, pc[t] \in Locked
  PROVE  \A u \in Proj!Tasks \ {t} : pc[u] \notin Locked
  <1>1. ASSUME NEW u \in Proj!Tasks, pc[u] \in Locked PROVE u = t
    <2>1. lock[Home[u]] = u /\ lock[Home[t]] = t
      BY <1>1, Zenon DEF LockInv
    <2>2. Home[u] = Home[t]
      BY Zenon DEF OneService
    <2> QED
      BY <2>1, <2>2, Zenon
  <1> QED
    BY <1>1, Zenon

\* Nobody starts or stops waiting in such a step.
LEMMA WaitingKept ==
  ASSUME LogShape, NEW t \in Proj!Tasks, WorkerStep(t)
  PROVE  \A id : Waiting(id) <=> Waiting(id)'
  <1>1. pc[t] # "lock" /\ pc'[t] # "lock" /\ \A u \in Proj!Tasks \ {t} : pc'[u] = pc[u]
    BY Zenon DEF WorkerStep, LogShape, Locked
  <1>2. Callers \subseteq Proj!Tasks
    BY Zenon DEF Proj!Tasks
  <1> QED
    BY <1>1, <1>2, Zenon DEF Waiting, WorkerStep

\* Unless the task under the lock projects or failed, all that is missing waits.
LEMMA OnlyWaiting ==
  ASSUME OneService, LockInv, Covered, NEW t \in Proj!Tasks, pc[t] \in Locked,
         t \in Proj!Repairers \/ pc[t] \notin {"summary", "read", "append"},
         pc[t] \notin {"mark", "markWrite"}, pc[t] = "sync" => ~failed[t],
         flags.proj = 0
  PROVE  \A id \in Proj!Range(audits) \ Proj!Range(history) : Waiting(id)
  <1>1. \A u \in Proj!Tasks \ {t} : pc[u] \notin Locked
    BY Alone, Zenon
  <1>2. Callers \subseteq Proj!Tasks
    BY Zenon DEF Proj!Tasks
  <1>3. ASSUME Failing PROVE FALSE
    <2>1. PICK u \in Proj!Tasks : pc[u] \in {"mark", "markWrite"} \/ (pc[u] = "sync" /\ failed[u])
      BY <1>3, Zenon DEF Failing
    <2>2. u = t
      BY <1>1, <2>1, Zenon DEF Locked
    <2> QED
      BY <2>1, <2>2, Zenon
  <1>4. ASSUME NEW id, Projecting(id) PROVE FALSE
    <2>1. PICK c \in Callers : pc[c] \in {"summary", "read", "append"} /\ gen[c] = id
      BY <1>4, Zenon DEF Projecting
    <2>2. c = t
      BY <1>1, <1>2, <2>1, Zenon DEF Locked
    <2> QED
      BY <2>1, <2>2, Zenon DEF OneService
  <1> QED
    BY <1>3, <1>4, Zenon DEF Covered

\* What remains to be shown of a step under the lock
LEMMA WorkerKeeps ==
  ASSUME OneService, ProjectionInv, NEW t \in Proj!Tasks, WorkerStep(t),
         LogShape', LogInv', Covered', TaskInv(t)'
  PROVE  ProjectionInv'
  <1>1. pc[t] \in Locked /\ \A u \in Proj!Tasks \ {t} : pc'[u] = pc[u] /\ pc[u] \notin Locked
    BY Alone, Zenon DEF WorkerStep, ProjectionInv, LogShape
  <1>2. LockInv'
    <2>1. ASSUME NEW u \in Proj!Tasks \ {t}
          PROVE  /\ pc'[u] \in Locked => lock'[Home[u]] = u /\ u \in Callers \cup Proj!Repairers
                 /\ pc'[u] \in OfCallers => u \in Callers
                 /\ pc'[u] \in OfRepairs => u \in Proj!Repairers
                 /\ pc'[u] # "other"
      BY <1>1, <2>1, Zenon DEF ProjectionInv, LockInv
    <2>2. pc'[t] \in Locked => lock'[Home[t]] = t /\ t \in Callers \cup Proj!Repairers
      BY <1>1, Zenon DEF ProjectionInv, LockInv, WorkerStep
    <2>3. pc'[t] # "other"
      BY Zenon DEF WorkerStep, Locked
    <2> QED
      BY <2>1, <2>2, <2>3, Zenon DEF LockInv, WorkerStep
  <1>3. ASSUME NEW u \in Proj!Tasks \ {t} PROVE TaskInv(u)'
    BY <1>1, <1>3, Zenon DEF TaskInv, Locked
  <1> QED
    BY <1>2, <1>3, Zenon DEF ProjectionInv

\* Such a step is harmless if it leaves the log, the history, the marker and what
\* the task read alone, and does not drop what the task owes.
LEMMA QuietStep ==
  ASSUME OneService, ProjectionInv, NEW t \in Proj!Tasks, WorkerStep(t), LogShape',
         UNCHANGED <<history, read, gen, flags>>,
         pc[t] # "source", pc'[t] \notin {"source", "append", "again", "sync"},
         pc'[t] = "markWrite" => seen'[t] = flags,
         pc'[t] \in {"check", "clear", "clearWrite"}
            => pc[t] \in {"check", "clear"} \/ (pc[t] = "sync" /\ ~failed[t]),
         \/ pc'[t] \in {"mark", "markWrite"} \/ flags.proj # 0
         \/ pc[t] = "summary" /\ pc'[t] = "read"
         \/ /\ t \in Proj!Repairers \/ pc[t] \notin {"summary", "read", "append"}
            /\ pc[t] \notin {"mark", "markWrite"}
            /\ pc[t] = "sync" => ~failed[t]
  PROVE  ProjectionInv'
  <1>0. /\ LogShape /\ LockInv /\ LogInv /\ Covered /\ TaskInv(t)
        /\ audits' = audits /\ \A u \in Proj!Tasks \ {t} : pc'[u] = pc[u]
        /\ pc[t] \in Locked
    BY Zenon DEF ProjectionInv, WorkerStep, LogShape
  <1>1. LogInv'
    <2>1. pc[t] # "idle"
      BY <1>0, Zenon DEF Locked
    <2> QED
      BY <1>0, <2>1, Zenon DEF LogInv
  <1>2. ASSUME t \in Proj!Repairers PROVE IsSource(read[t])'
    <2>1. IsSource(read[t])
      BY <1>0, <1>2, Zenon DEF TaskInv
    <2> QED
      BY <1>0, <2>1, WaitingKept, Zenon DEF IsSource
  <1>3. TaskInv(t)'
    <2>1. pc'[t] \in {"check", "clear", "clearWrite"} /\ t \in Proj!Repairers
             => Proj!Range(read[t]) \subseteq Proj!Range(history)
      BY <1>0, Zenon DEF TaskInv
    <2> QED
      BY <1>2, <2>1, Zenon DEF TaskInv
  <1>4. Covered'
    <2>1. CASE pc'[t] \in {"mark", "markWrite"}
      BY <2>1, Zenon DEF Covered, Failing
    <2>2. CASE flags.proj # 0
      BY <2>2, Zenon DEF Covered
    <2>3. CASE pc[t] = "summary" /\ pc'[t] = "read"
      <3>1. ~Failing
        BY <1>0, <2>3, Alone, Zenon DEF Failing, Locked
      <3>2. \A id : Projecting(id) => Projecting(id)'
        <4>1. ASSUME NEW id, NEW c \in Callers, pc[c] \in {"summary", "read", "append"}, gen[c] = id
              PROVE  Projecting(id)'
          <5>1. c \in Proj!Tasks
            BY Zenon DEF Proj!Tasks
          <5>2. pc'[c] \in {"summary", "read", "append"}
            BY <1>0, <2>3, <4>1, <5>1, Zenon
          <5> QED
            BY <4>1, <5>2, Zenon DEF Projecting
        <4> QED
          BY <4>1, Zenon DEF Projecting
      <3> QED
        BY <1>0, <3>1, <3>2, WaitingKept, Zenon DEF Covered
    <2>4. CASE /\ t \in Proj!Repairers \/ pc[t] \notin {"summary", "read", "append"}
               /\ pc[t] \notin {"mark", "markWrite"}
               /\ pc[t] = "sync" => ~failed[t]
      <3>1. flags.proj = 0 => \A id \in Proj!Range(audits) \ Proj!Range(history) : Waiting(id)
        BY <1>0, <2>4, OnlyWaiting, Zenon
      <3> QED
        BY <1>0, <3>1, WaitingKept, Zenon DEF Covered
    <2> QED
      BY <2>1, <2>2, <2>3, <2>4, Zenon
  <1> QED
    BY <1>0, <1>1, <1>3, <1>4, WorkerKeeps, Zenon

\* The steps that only move the task on
LEMMA StepQuiet ==
  ASSUME OneService, ProjectionInv, NEW t \in Proj!Tasks,
         \/ \E o \in Proj!Outcomes : Proj!SetSummary(t, o)
         \/ Proj!Synced(t) \/ Proj!MarkRead(t) \/ Proj!Again(t)
         \/ Proj!CheckMarker(t) \/ Proj!ClearRead(t)
  PROVE  ProjectionInv'
  <1>0. LogShape /\ LockInv /\ TaskInv(t) /\ failed[t] \in BOOLEAN /\ DOMAIN pc = Proj!Tasks
    BY Zenon DEF ProjectionInv, LogShape
  <1>1. CASE \E o \in Proj!Outcomes : Proj!SetSummary(t, o)
    <2>1. PICK o \in Proj!Outcomes : Proj!SetSummary(t, o)
      BY <1>1, Zenon
    <2>2. /\ pc[t] = "summary"
          /\ pc' = [pc EXCEPT ![t] = IF t \in Callers THEN "read" ELSE "replace"]
          /\ UNCHANGED <<audits, history, flags, lock, gen, read, seen>>
          /\ failed' = [failed EXCEPT ![t] = failed[t] \/ o # "ok"]
      BY <2>1, Zenon DEF Proj!SetSummary, Proj!Go, Proj!Call
    <2>3. LogShape'
      BY <1>0, <2>2, Zenon DEF LogShape
    <2>4. pc'[t] = IF t \in Callers THEN "read" ELSE "replace"
      BY <1>0, <2>2, Zenon
    <2>5. t \in Callers \cup Proj!Repairers
      BY <1>0, <2>2, Zenon DEF LockInv, Locked
    <2>6. pc' = [pc EXCEPT ![t] = pc'[t]]
      BY <2>2, <2>4, Zenon
    <2>7. \/ t \in Callers /\ pc'[t] = "read"
          \/ t \in Proj!Repairers /\ pc'[t] = "replace"
      BY <2>4, <2>5, Zenon
    <2>8. WorkerStep(t)
      BY <2>2, <2>6, <2>7, Zenon DEF WorkerStep, Locked, OfCallers, OfRepairs
    <2> QED
      BY <2>2, <2>3, <2>7, <2>8, QuietStep, Zenon
  <1>2. CASE Proj!Synced(t)
    <2>1. /\ pc[t] = "sync" /\ UNCHANGED <<audits, history, flags, gen, read, seen, failed>>
          /\ \/ failed[t] /\ pc' = [pc EXCEPT ![t] = "mark"] /\ lock' = lock
             \/ /\ ~failed[t] /\ t \in Proj!Repairers
                /\ pc' = [pc EXCEPT ![t] = "check"] /\ lock' = lock
             \/ /\ ~failed[t] /\ t \notin Proj!Repairers
                /\ pc' = [pc EXCEPT ![t] = "idle"] /\ lock' = [lock EXCEPT ![Home[t]] = NoOne]
      BY <1>2, Zenon DEF Proj!Synced, Proj!Go, Proj!Release
    <2>2. LogShape'
      BY <1>0, <2>1, Zenon DEF LogShape
    <2>3. \/ failed[t] /\ pc'[t] = "mark"
          \/ ~failed[t] /\ t \in Proj!Repairers /\ pc'[t] = "check"
          \/ ~failed[t] /\ pc'[t] = "idle"
      BY <1>0, <2>1, Zenon
    <2>4. WorkerStep(t)
      BY <1>0, <2>1, Zenon DEF WorkerStep, Locked, OfCallers, OfRepairs
    <2> QED
      BY <2>1, <2>2, <2>3, <2>4, QuietStep, Zenon
  <1>3. CASE Proj!MarkRead(t)
    <2>1. /\ pc[t] = "mark" /\ pc' = [pc EXCEPT ![t] = "markWrite"]
          /\ seen' = [seen EXCEPT ![t] = flags]
          /\ UNCHANGED <<audits, history, flags, lock, gen, read, failed>>
      BY <1>3, Zenon DEF Proj!MarkRead, Proj!Go
    <2>2. LogShape' /\ pc'[t] = "markWrite" /\ seen'[t] = flags
      BY <1>0, <2>1, Zenon DEF LogShape
    <2>3. WorkerStep(t)
      BY <2>1, <2>2, Zenon DEF WorkerStep, Locked, OfCallers, OfRepairs
    <2> QED
      BY <2>1, <2>2, <2>3, QuietStep, Zenon
  <1>4. CASE Proj!Again(t)
    <2>1. /\ pc[t] = "again" /\ pc' = [pc EXCEPT ![t] = "summary"]
          /\ failed' = [failed EXCEPT ![t] = FALSE]
          /\ UNCHANGED <<audits, history, flags, lock, gen, read, seen>>
      BY <1>4, Zenon DEF Proj!Again, Proj!Go
    <2>2. LogShape' /\ pc'[t] = "summary" /\ flags.proj # 0
      BY <1>0, <2>1, Zenon DEF LogShape, TaskInv
    <2>3. WorkerStep(t)
      BY <2>1, <2>2, Zenon DEF WorkerStep, Locked, OfCallers, OfRepairs
    <2> QED
      BY <2>1, <2>2, <2>3, QuietStep, Zenon
  <1>5. CASE Proj!CheckMarker(t) \/ Proj!ClearRead(t)
    <2>1. /\ pc[t] \in {"check", "clear"}
          /\ UNCHANGED <<audits, history, flags, gen, read, failed>>
          /\ seen' = seen \/ seen' = [seen EXCEPT ![t] = flags]
          /\ \/ /\ lock' = lock
                /\ \E x \in {"clear", "clearWrite"} : pc' = [pc EXCEPT ![t] = x]
             \/ pc' = [pc EXCEPT ![t] = "idle"] /\ lock' = [lock EXCEPT ![Home[t]] = NoOne]
      BY <1>5, Zenon DEF Proj!CheckMarker, Proj!ClearRead, Proj!Go, Proj!Release
    <2>2. LogShape'
      BY <1>0, <2>1, Zenon DEF LogShape
    <2>3. pc'[t] \in {"clear", "clearWrite", "idle"}
      BY <1>0, <2>1, Zenon
    <2>4. WorkerStep(t)
      <3>1. t \in Proj!Repairers
        BY <1>0, <2>1, Zenon DEF LockInv, OfRepairs
      <3> QED
        BY <1>0, <2>1, <2>3, <3>1, Zenon DEF WorkerStep, Locked, OfCallers, OfRepairs
    <2> QED
      BY <2>1, <2>2, <2>3, <2>4, QuietStep, Zenon
  <1> QED
    BY <1>1, <1>2, <1>3, <1>4, <1>5, Zenon

\* The task reads the history and goes on to append, or has no more to do.
LEMMA StepRead ==
  ASSUME OneService, ProjectionInv, NEW t \in Proj!Tasks, NEW o \in Proj!Outcomes,
         Proj!ReadHistory(t, o)
  PROVE  ProjectionInv'
  <1>0. /\ LogShape /\ LockInv /\ LogInv /\ Covered /\ TaskInv(t) /\ DOMAIN pc = Proj!Tasks
        /\ history \in Seq(AuditIds) /\ failed[t] \in BOOLEAN
    BY Zenon DEF ProjectionInv, LogShape
  <1>1. /\ pc[t] = "read" /\ read' = [read EXCEPT ![t] = history]
        /\ UNCHANGED <<audits, history, flags, lock, gen, seen>>
        /\ failed' = [failed EXCEPT ![t] = failed[t] \/ o # "ok"]
        /\ \/ o # "ok" /\ pc' = [pc EXCEPT ![t] = "sync"]
           \/ gen[t] \in Proj!Range(history) /\ pc' = [pc EXCEPT ![t] = "sync"]
           \/ gen[t] \notin Proj!Range(history) /\ pc' = [pc EXCEPT ![t] = "append"]
    BY Zenon DEF Proj!ReadHistory, Proj!Call, Proj!Go
  <1>2. LogShape' /\ read'[t] = history /\ failed'[t] = (failed[t] \/ o # "ok")
    BY <1>0, <1>1, Zenon DEF LogShape
  <1>4. /\ \A u \in Proj!Tasks \ {t} : pc'[u] = pc[u]
        /\ \/ failed'[t] /\ pc'[t] = "sync"
           \/ gen[t] \in Proj!Range(history) /\ pc'[t] = "sync"
           \/ gen[t] \notin Proj!Range(history) /\ pc'[t] = "append"
    BY <1>0, <1>1, <1>2, Zenon
  <1>5. t \in Callers /\ t \notin Proj!Repairers
    BY <1>0, <1>1, Zenon DEF LockInv, OfCallers, OneService
  <1>6. WorkerStep(t)
    BY <1>1, <1>4, <1>5, Zenon DEF WorkerStep, Locked, OfCallers, OfRepairs
  <1>7. LogInv'
    BY <1>0, <1>1, <1>4, Zenon DEF LogInv
  <1>8. TaskInv(t)'
    BY <1>1, <1>2, <1>4, <1>5, Zenon DEF TaskInv
  <1>9. Covered'
    <2>1. CASE pc'[t] = "sync" /\ failed'[t]
      BY <2>1, Zenon DEF Covered, Failing
    <2>2. CASE pc'[t] = "append" \/ gen[t] \in Proj!Range(history)
      <3>1. \A u \in Proj!Tasks \ {t} : pc[u] \notin Locked
        BY <1>0, <1>1, Alone, Zenon DEF Locked
      <3>2. ~Failing
        BY <1>1, <3>1, Zenon DEF Failing, Locked
      <3>3. ASSUME NEW id \in Proj!Range(audits) \ Proj!Range(history), Projecting(id)
            PROVE  Projecting(id)'
        <4>1. gen[t] = id
          BY <3>1, <3>3, Zenon DEF Projecting, Locked, Proj!Tasks
        <4>2. pc'[t] = "append" /\ gen'[t] = id
          BY <1>1, <2>2, <3>3, <4>1, Zenon
        <4> QED
          BY <1>5, <4>2, Zenon DEF Projecting
      <3> QED
        BY <1>0, <1>1, <1>6, <3>2, <3>3, WaitingKept, Zenon DEF Covered
    <2> QED
      BY <1>4, <2>1, <2>2, Zenon
  <1> QED
    BY <1>2, <1>6, <1>7, <1>8, <1>9, WorkerKeeps, Zenon

\* The task adds its entry, or fails and owes the marker.
LEMMA StepAppend ==
  ASSUME OneService, ProjectionInv, NEW t \in Proj!Tasks, NEW o \in Proj!Outcomes,
         Proj!AppendHistory(t, o)
  PROVE  ProjectionInv'
  <1>0. /\ LogShape /\ LockInv /\ LogInv /\ Covered /\ TaskInv(t) /\ DOMAIN pc = Proj!Tasks
        /\ history \in Seq(AuditIds) /\ audits \in Seq(AuditIds) /\ failed[t] \in BOOLEAN
    BY Zenon DEF ProjectionInv, LogShape
  <1>1. /\ pc[t] = "append" /\ pc' = [pc EXCEPT ![t] = "sync"]
        /\ UNCHANGED <<audits, flags, lock, gen, read, seen>>
        /\ failed' = [failed EXCEPT ![t] = failed[t] \/ o # "ok"]
        /\ history' = IF o = "raised" THEN history ELSE Append(read[t], gen[t])
    BY Zenon DEF Proj!AppendHistory, Proj!Call, Proj!Go
  <1>2. read[t] = history /\ gen[t] \notin Proj!Range(history) /\ gen[t] \in Proj!Range(audits)
    BY <1>0, <1>1, Zenon DEF TaskInv, LogInv
  <1>3. gen[t] \in AuditIds
    BY <1>0, <1>2, LogFacts, Zenon DEF OneService
  <1>4. \/ failed'[t] /\ history' = history
        \/ history' = Append(history, gen[t])
    <2>1. failed'[t] = (failed[t] \/ o # "ok")
      BY <1>0, <1>1, Zenon DEF LogShape
    <2> QED
      BY <1>1, <1>2, <2>1, Zenon
  <1>5. /\ history' \in Seq(AuditIds) /\ Proj!IsInjective(history')
        /\ Proj!Range(history') \subseteq Proj!Range(audits)
        /\ failed'[t] \/ Proj!Range(history') = Proj!Range(history) \cup {gen[t]}
        /\ Proj!Range(history) \subseteq Proj!Range(history')
    <2>1. CASE history' = history /\ failed'[t]
      BY <1>0, <2>1, Zenon DEF LogInv
    <2>2. CASE history' = Append(history, gen[t])
      <3>1. Append(history, gen[t]) \in Seq(AuditIds)
        BY <1>0, <1>3
      <3>0. Proj!IsInjective(history)
        BY <1>0, Zenon DEF LogInv
      <3>2. Proj!IsInjective(Append(history, gen[t]))
        BY <1>0, <1>2, <1>3, <3>0, InjectiveAppend, Zenon
      <3>3. Proj!Range(Append(history, gen[t])) = Proj!Range(history) \cup {gen[t]}
        BY <1>0, <1>3, RangeAppend, Zenon
      <3> QED
        BY <1>0, <1>2, <2>2, <3>1, <3>2, <3>3, Zenon DEF LogInv
    <2> QED
      BY <1>4, <2>1, <2>2, Zenon
  <1>6. LogShape' /\ pc'[t] = "sync" /\ \A u \in Proj!Tasks \ {t} : pc'[u] = pc[u]
    BY <1>0, <1>1, <1>5, Zenon DEF LogShape
  <1>7. t \in Callers /\ t \notin Proj!Repairers
    BY <1>0, <1>1, Zenon DEF LockInv, OfCallers, OneService
  <1>8. WorkerStep(t)
    BY <1>1, <1>6, Zenon DEF WorkerStep, Locked, OfCallers, OfRepairs
  <1>9. LogInv'
    BY <1>0, <1>1, <1>2, <1>5, <1>6, Zenon DEF LogInv
  <1>10. TaskInv(t)'
    BY <1>6, <1>7, Zenon DEF TaskInv
  <1>11. Covered'
    <2>1. CASE failed'[t]
      BY <1>6, <2>1, Zenon DEF Covered, Failing
    <2>2. CASE Proj!Range(history') = Proj!Range(history) \cup {gen[t]}
      <3>1. \A u \in Proj!Tasks \ {t} : pc[u] \notin Locked
        BY <1>0, <1>1, Alone, Zenon DEF Locked
      <3>2. ~Failing
        BY <1>1, <3>1, Zenon DEF Failing, Locked
      <3>3. \A id : Projecting(id) => gen[t] = id
        BY <3>1, Zenon DEF Projecting, Locked, Proj!Tasks
      <3> QED
        BY <1>0, <1>1, <1>8, <2>2, <3>2, <3>3, WaitingKept, Zenon DEF Covered
    <2> QED
      BY <1>5, <2>1, <2>2, Zenon
  <1> QED
    BY <1>6, <1>8, <1>9, <1>10, <1>11, WorkerKeeps, Zenon

\* set_flag leaves the marker, which covers whatever is missing.
LEMMA StepMark ==
  ASSUME OneService, ProjectionInv, NEW t \in Proj!Tasks, Proj!MarkWrite(t)
  PROVE  ProjectionInv'
  <1>0. /\ LogShape /\ LockInv /\ LogInv /\ Covered /\ TaskInv(t) /\ DOMAIN pc = Proj!Tasks
        /\ audits \in Seq(AuditIds) /\ flags \in Proj!Flags
    BY Zenon DEF ProjectionInv, LogShape
  <1>1. /\ pc[t] = "markWrite" /\ UNCHANGED <<audits, history, gen, read, seen, failed>>
        /\ flags' = IF seen[t].proj = gen[t] THEN flags ELSE [seen[t] EXCEPT !.proj = gen[t]]
        /\ \/ /\ pc' = [pc EXCEPT ![t] = "idle"] /\ lock' = [lock EXCEPT ![Home[t]] = NoOne]
           \/ t \notin Callers /\ pc' = [pc EXCEPT ![t] = "again"] /\ lock' = lock
    BY Zenon DEF Proj!MarkWrite, Proj!AfterMark, Proj!Go, Proj!Release
  <1>2. seen[t] = flags /\ gen[t] \in Proj!Range(audits)
    BY <1>0, <1>1, Zenon DEF TaskInv, LogInv
  <1>3. gen[t] \in AuditIds /\ gen[t] # 0
    BY <1>0, <1>2, LogFacts, Zenon DEF OneService
  <1>4. flags' \in Proj!Flags /\ flags'.proj # 0
    BY <1>0, <1>1, <1>2, <1>3 DEF Proj!Flags
  <1>5. LogShape' /\ \A u \in Proj!Tasks \ {t} : pc'[u] = pc[u]
    BY <1>0, <1>1, <1>4, Zenon DEF LogShape
  <1>6. pc'[t] = "idle" \/ (t \notin Callers /\ pc'[t] = "again")
    BY <1>0, <1>1, Zenon
  <1>7. t \in Callers \cup Proj!Repairers
    BY <1>0, <1>1, Zenon DEF LockInv, Locked
  <1>8. WorkerStep(t)
    BY <1>0, <1>1, <1>6, <1>7, Zenon DEF WorkerStep, Locked, OfCallers, OfRepairs
  <1>9. LogInv'
    BY <1>0, <1>1, <1>5, Zenon DEF LogInv
  <1>10. TaskInv(t)'
    <2>1. t \in Proj!Repairers => IsSource(read[t])
      BY <1>0, <1>1, Zenon DEF TaskInv, Locked
    <2>2. t \in Proj!Repairers => IsSource(read[t])'
      BY <1>0, <1>1, <1>8, <2>1, WaitingKept, Zenon DEF IsSource
    <2> QED
      BY <1>4, <1>6, <2>2, Zenon DEF TaskInv, Locked
  <1>11. Covered'
    BY <1>4, Zenon DEF Covered
  <1> QED
    BY <1>5, <1>8, <1>9, <1>10, <1>11, WorkerKeeps, Zenon

\* _load_projection_repair_source, under the lock: what is missing waits.
LEMMA StepSource ==
  ASSUME OneService, ProjectionInv, NEW t \in Proj!Tasks, Proj!LoadSource(t)
  PROVE  ProjectionInv'
  <1>0. /\ LogShape /\ LockInv /\ LogInv /\ Covered /\ DOMAIN pc = Proj!Tasks
        /\ audits \in Seq(AuditIds)
    BY Zenon DEF ProjectionInv, LogShape
  <1>1. /\ pc[t] = "source" /\ pc' = [pc EXCEPT ![t] = "summary"]
        /\ read' = [read EXCEPT ![t] = audits] /\ gen' = [gen EXCEPT ![t] = audits[Len(audits)]]
        /\ UNCHANGED <<audits, history, flags, lock, seen, failed>>
    BY Zenon DEF Proj!LoadSource, Proj!Go
  <1>2. audits[Len(audits)] \in Proj!Range(audits)
    BY <1>0, <1>1, LogFacts, Zenon DEF LogInv, OneService
  <1>3. /\ LogShape' /\ pc'[t] = "summary" /\ read'[t] = audits /\ gen'[t] = audits[Len(audits)]
        /\ \A u \in Proj!Tasks \ {t} : pc'[u] = pc[u] /\ gen'[u] = gen[u]
    BY <1>0, <1>1, Zenon DEF LogShape
  <1>4. t \in Proj!Repairers
    BY <1>0, <1>1, Zenon DEF LockInv, OfRepairs
  <1>5. WorkerStep(t)
    BY <1>1, <1>3, Zenon DEF WorkerStep, Locked, OfCallers, OfRepairs
  <1>6. LogInv'
    BY <1>0, <1>1, <1>2, <1>3, Zenon DEF LogInv
  <1>7. TaskInv(t)'
    <2>1. IsSource(read[t])'
      BY <1>0, <1>1, <1>3, Zenon DEF IsSource, LogInv
    <2> QED
      BY <1>3, <2>1, Zenon DEF TaskInv
  <1>8. Covered'
    <2>1. flags.proj = 0 => \A id \in Proj!Range(audits) \ Proj!Range(history) : Waiting(id)
      BY <1>0, <1>1, <1>4, OnlyWaiting, Zenon DEF Locked
    <2> QED
      BY <1>0, <1>1, <1>5, <2>1, WaitingKept, Zenon DEF Covered
  <1> QED
    BY <1>3, <1>5, <1>6, <1>7, <1>8, WorkerKeeps, Zenon

\* The repair writes the log it read, which has all the history had.
LEMMA StepReplace ==
  ASSUME OneService, ProjectionInv, NEW t \in Proj!Tasks, NEW o \in Proj!Outcomes,
         Proj!ReplaceHistory(t, o)
  PROVE  ProjectionInv'
  <1>0. /\ LogShape /\ LockInv /\ LogInv /\ Covered /\ TaskInv(t) /\ DOMAIN pc = Proj!Tasks
        /\ failed[t] \in BOOLEAN
    BY Zenon DEF ProjectionInv, LogShape
  <1>1. /\ pc[t] = "replace" /\ pc' = [pc EXCEPT ![t] = "sync"]
        /\ UNCHANGED <<audits, flags, lock, gen, read, seen>>
        /\ failed' = [failed EXCEPT ![t] = failed[t] \/ o # "ok"]
        /\ history' = IF o = "raised" THEN history ELSE read[t]
    BY Zenon DEF Proj!ReplaceHistory, Proj!Call, Proj!Go
  <1>2. t \in Proj!Repairers /\ IsSource(read[t])
    BY <1>0, <1>1, Zenon DEF TaskInv, LockInv, OfRepairs, Locked
  <1>3. (failed'[t] /\ history' = history) \/ history' = read[t]
    <2>1. failed'[t] = (failed[t] \/ o # "ok")
      BY <1>0, <1>1, Zenon DEF LogShape
    <2> QED
      BY <1>1, <2>1, Zenon
  <1>4. LogShape' /\ pc'[t] = "sync" /\ \A u \in Proj!Tasks \ {t} : pc'[u] = pc[u]
    BY <1>0, <1>1, <1>3, Zenon DEF LogShape
  <1>5. WorkerStep(t)
    BY <1>1, <1>4, Zenon DEF WorkerStep, Locked, OfCallers, OfRepairs
  <1>6. IsSource(read[t])'
    BY <1>0, <1>1, <1>2, <1>3, <1>5, WaitingKept, Zenon DEF IsSource
  <1>7. LogInv'
    BY <1>0, <1>1, <1>2, <1>3, <1>4, Zenon DEF LogInv, IsSource
  <1>8. TaskInv(t)'
    BY <1>1, <1>3, <1>4, <1>6, Zenon DEF TaskInv
  <1>9. Covered'
    <2>1. CASE failed'[t]
      BY <1>4, <2>1, Zenon DEF Covered, Failing
    <2>2. CASE history' = read[t]
      BY <1>1, <1>6, <2>2, Zenon DEF Covered, IsSource
    <2> QED
      BY <1>3, <2>1, <2>2, Zenon
  <1> QED
    BY <1>4, <1>5, <1>7, <1>8, <1>9, WorkerKeeps, Zenon

\* A repair clears the marker once the history has what it read.
LEMMA StepClear ==
  ASSUME OneService, ProjectionInv, NEW t \in Proj!Tasks, Proj!ClearWrite(t)
  PROVE  ProjectionInv'
  <1>0. /\ LogShape /\ LockInv /\ LogInv /\ Covered /\ TaskInv(t) /\ DOMAIN pc = Proj!Tasks
        /\ flags \in Proj!Flags /\ seen[t] \in Proj!Flags
    BY Zenon DEF ProjectionInv, LogShape
  <1>1. /\ pc[t] = "clearWrite" /\ pc' = [pc EXCEPT ![t] = "idle"]
        /\ lock' = [lock EXCEPT ![Home[t]] = NoOne]
        /\ UNCHANGED <<audits, history, gen, read, seen, failed>>
        /\ flags' = IF seen[t].proj = 0 THEN flags ELSE [seen[t] EXCEPT !.proj = 0]
    BY Zenon DEF Proj!ClearWrite, Proj!Go, Proj!Release
  <1>2. flags' \in Proj!Flags
    BY <1>0, <1>1 DEF Proj!Flags
  <1>3. LogShape' /\ pc'[t] = "idle" /\ \A u \in Proj!Tasks \ {t} : pc'[u] = pc[u]
    BY <1>0, <1>1, <1>2, Zenon DEF LogShape
  <1>4. t \in Proj!Repairers
    BY <1>0, <1>1, Zenon DEF LockInv, OfRepairs
  <1>5. WorkerStep(t)
    BY <1>1, <1>3, Zenon DEF WorkerStep, Locked, OfCallers, OfRepairs
  <1>6. LogInv'
    BY <1>0, <1>1, <1>3, Zenon DEF LogInv
  <1>7. TaskInv(t)'
    BY <1>3, Zenon DEF TaskInv, Locked
  <1>8. Covered'
    <2>1. IsSource(read[t]) /\ Proj!Range(read[t]) \subseteq Proj!Range(history)
      BY <1>0, <1>1, <1>4, Zenon DEF TaskInv, Locked
    <2>2. \A id \in Proj!Range(audits) \ Proj!Range(history) : Waiting(id)
      BY <2>1, Zenon DEF IsSource
    <2> QED
      BY <1>0, <1>1, <1>5, <2>2, WaitingKept, Zenon DEF Covered
  <1> QED
    BY <1>3, <1>5, <1>6, <1>7, <1>8, WorkerKeeps, Zenon

-----------------------------------------------------------------------------
(* Projections: the other steps                                            *)

\* A transition is committed by a task that will wait for the lock.
LEMMA StepCommit ==
  ASSUME OneService, ProjectionInv, NEW t \in Callers, Proj!Commit(t)
  PROVE  ProjectionInv'
  <1>0. /\ LogShape /\ LockInv /\ LogInv /\ Covered /\ DOMAIN pc = Proj!Tasks
        /\ audits \in Seq(AuditIds) /\ t \in Proj!Tasks /\ \A u \in Proj!Tasks : TaskInv(u)
    BY Zenon DEF ProjectionInv, LogShape, Proj!Tasks
  <1>1. PICK id \in AuditIds :
          /\ \A i \in 1..Len(audits) : audits[i] < id
          /\ audits' = Append(audits, id) /\ gen' = [gen EXCEPT ![t] = id]
    BY Zenon DEF Proj!Commit
  <1>2. /\ pc[t] = "idle" /\ pc' = [pc EXCEPT ![t] = "lock"]
        /\ UNCHANGED <<history, flags, lock, read, seen, failed>>
    BY Zenon DEF Proj!Commit, Proj!Go
  <1>3. id \notin Proj!Range(audits)
    BY <1>0, <1>1, LogFacts, Zenon DEF OneService
  <1>4. Proj!Range(audits') = Proj!Range(audits) \cup {id}
    BY <1>0, <1>1, RangeAppend, Zenon
  <1>5. Proj!IsInjective(audits)
    BY <1>0, Zenon DEF LogInv
  <1>6. Proj!IsInjective(Append(audits, id))
    BY <1>0, <1>3, <1>5, InjectiveAppend, Zenon
  <1>7. audits' \in Seq(AuditIds) /\ audits' # <<>>
    BY <1>0, <1>1
  <1>8. /\ LogShape' /\ pc'[t] = "lock" /\ gen'[t] = id
        /\ \A u \in Proj!Tasks \ {t} : pc'[u] = pc[u] /\ gen'[u] = gen[u]
    BY <1>0, <1>1, <1>2, <1>7, Zenon DEF LogShape
  <1>9. LockInv'
    BY <1>0, <1>2, <1>8, Zenon DEF LockInv, Locked, OfCallers, OfRepairs
  <1>10. LogInv'
    <2>1. \A u \in Proj!Tasks : pc'[u] \notin {"idle", "source"} => gen'[u] \in Proj!Range(audits')
      BY <1>0, <1>4, <1>8, Zenon DEF LogInv
    <2>2. Proj!Range(history') \subseteq Proj!Range(audits') /\ Proj!IsInjective(history')
      BY <1>0, <1>2, <1>4, Zenon DEF LogInv
    <2> QED
      BY <1>1, <1>6, <1>7, <2>1, <2>2, Zenon DEF LogInv
  <1>11. (\A x : Waiting(x) => Waiting(x)') /\ Waiting(id)'
    BY <1>2, <1>8, Zenon DEF Waiting, Proj!Tasks
  <1>12. Covered'
    <2>1. \A x : Projecting(x) => Projecting(x)'
      BY <1>2, <1>8, Zenon DEF Projecting, Proj!Tasks
    <2>2. Failing => Failing'
      BY <1>2, <1>8, Zenon DEF Failing
    <2> QED
      BY <1>0, <1>2, <1>4, <1>11, <2>1, <2>2, Zenon DEF Covered
  <1>13. ASSUME NEW u \in Proj!Tasks PROVE TaskInv(u)'
    <2>1. CASE u = t
      BY <1>8, <2>1, Zenon DEF TaskInv, Locked
    <2>2. CASE u # t
      <3>1. TaskInv(u) /\ pc'[u] = pc[u] /\ gen'[u] = gen[u]
        BY <1>0, <1>8, <2>2, Zenon
      <3>2. IsSource(read[u]) => IsSource(read[u])'
        BY <1>2, <1>4, <1>11, Zenon DEF IsSource
      <3> QED
        BY <1>2, <3>1, <3>2, Zenon DEF TaskInv
    <2> QED
      BY <2>1, <2>2, Zenon
  <1> QED
    BY <1>8, <1>9, <1>10, <1>12, <1>13, Zenon DEF ProjectionInv

\* A task that takes the free lock is alone and has read nothing yet.
LEMMA StepTakeLock ==
  ASSUME OneService, ProjectionInv, NEW t \in Proj!Tasks,
         Proj!Acquire(t) \/ (t \in Proj!Repairers /\ Proj!StartRepair(t))
  PROVE  ProjectionInv'
  <1>0. /\ LogShape /\ LockInv /\ LogInv /\ Covered /\ DOMAIN pc = Proj!Tasks
        /\ Home[t] \in Instances /\ t # NoOne
    BY Zenon DEF ProjectionInv, LogShape, OneService
  <1>1. /\ lock[Home[t]] = NoOne /\ lock' = [lock EXCEPT ![Home[t]] = t]
        /\ UNCHANGED <<audits, history, flags, gen, read, seen>>
        /\ failed' = [failed EXCEPT ![t] = FALSE]
        /\ \/ pc[t] = "lock" /\ pc' = [pc EXCEPT ![t] = "summary"]
           \/ /\ pc[t] = "idle" /\ t \in Proj!Repairers /\ pc' = [pc EXCEPT ![t] = "source"]
              /\ audits # <<>>
    BY Zenon DEF Proj!Acquire, Proj!StartRepair, Proj!Go
  <1>2. ASSUME NEW u \in Proj!Tasks PROVE pc[u] \notin Locked
    <2>1. Home[u] = Home[t] /\ u # NoOne
      BY <1>2, Zenon DEF OneService
    <2> QED
      BY <1>0, <1>1, <2>1, Zenon DEF LockInv
  <1>3. LogShape' /\ lock'[Home[t]] = t /\ \A u \in Proj!Tasks \ {t} : pc'[u] = pc[u]
    BY <1>0, <1>1, Zenon DEF LogShape
  <1>4. \/ pc[t] = "lock" /\ pc'[t] = "summary" /\ t \in Callers /\ t \notin Proj!Repairers
        \/ pc[t] = "idle" /\ pc'[t] = "source" /\ t \in Proj!Repairers /\ audits # <<>>
    <2>1. pc[t] = "lock" => t \in Callers /\ t \notin Proj!Repairers
      BY <1>0, Zenon DEF LockInv, OfCallers, OneService
    <2> QED
      BY <1>0, <1>1, <2>1, Zenon
  <1>5. LockInv'
    <2>1. ASSUME NEW u \in Proj!Tasks \ {t}
          PROVE  /\ pc'[u] \notin Locked /\ pc'[u] # "other"
                 /\ pc'[u] \in OfCallers => u \in Callers
                 /\ pc'[u] \in OfRepairs => u \in Proj!Repairers
      BY <1>0, <1>2, <1>3, <2>1, Zenon DEF LockInv
    <2>2. /\ t \in Callers \cup Proj!Repairers /\ pc'[t] # "other"
          /\ pc'[t] \in OfCallers => t \in Callers
          /\ pc'[t] \in OfRepairs => t \in Proj!Repairers
      BY <1>4, Zenon DEF OfCallers, OfRepairs
    <2> QED
      BY <1>3, <2>1, <2>2, Zenon DEF LockInv
  <1>6. LogInv'
    BY <1>0, <1>1, <1>3, <1>4, Zenon DEF LogInv
  <1>7. Covered'
    <2>1. ~Failing /\ \A id : ~Projecting(id)
      BY <1>2, Zenon DEF Failing, Projecting, Locked, Proj!Tasks
    <2>2. ASSUME NEW id, Waiting(id) PROVE Waiting(id)' \/ Projecting(id)'
      <3>1. PICK c \in Callers : pc[c] = "lock" /\ gen[c] = id
        BY <2>2, Zenon DEF Waiting
      <3>2. CASE c = t
        BY <1>1, <1>4, <3>1, <3>2, Zenon DEF Projecting
      <3>3. CASE c # t
        BY <1>1, <1>3, <3>1, <3>3, Zenon DEF Waiting, Proj!Tasks
      <3> QED
        BY <3>2, <3>3, Zenon
    <2> QED
      BY <1>0, <1>1, <2>1, <2>2, Zenon DEF Covered
  <1>8. ASSUME NEW u \in Proj!Tasks PROVE TaskInv(u)'
    <2>1. CASE u = t
      BY <1>4, <2>1, Zenon DEF TaskInv
    <2>2. CASE u # t
      <3>1. pc'[u] \notin Locked
        BY <1>2, <1>3, <2>2, Zenon
      <3> QED
        BY <3>1, Zenon DEF TaskInv, Locked
    <2> QED
      BY <2>1, <2>2, Zenon
  <1> QED
    BY <1>3, <1>5, <1>6, <1>7, <1>8, Zenon DEF ProjectionInv

\* A step of a task that is not a failing set_flag or clear_flag
TaskStep(t) ==
    \/ Proj!Acquire(t) \/ Proj!MarkWrite(t) \/ Proj!LoadSource(t) \/ Proj!ClearWrite(t)
    \/ \E o \in Proj!Outcomes :
          \/ Proj!SetSummary(t, o) \/ Proj!ReadHistory(t, o)
          \/ Proj!AppendHistory(t, o) \/ Proj!ReplaceHistory(t, o)
    \/ Proj!Synced(t) \/ Proj!MarkRead(t) \/ Proj!Again(t) \/ Proj!CheckMarker(t)
    \/ Proj!ClearRead(t)

\* A step that does not lose a marker
CalmStep ==
    \/ \E t \in Callers : Proj!Commit(t)
    \/ \E t \in Proj!Repairers : Proj!StartRepair(t)
    \/ \E t \in Proj!Tasks : TaskStep(t)
    \/ \E t \in Flaggers : Proj!OtherWrite(t)
    \/ UNCHANGED Proj!vars

\* The other steps count what they do, and the counters do not go back.
LEMMA CalmBefore ==
  ASSUME Counters, [Proj!Next]_(Proj!vars)
  PROVE  Counters' /\ (Calm' => Calm /\ CalmStep)
  <1>1. CASE CalmStep
    <2>1. UNCHANGED <<others, flagFaults, crashes>>
      <3>1. CASE \E t \in Callers : Proj!Commit(t)
        BY <3>1, Zenon DEF Proj!Commit
      <3>2. CASE \E t \in Proj!Repairers : Proj!StartRepair(t)
        BY <3>2, Zenon DEF Proj!StartRepair
      <3>3. ASSUME NEW t \in Proj!Tasks, TaskStep(t) PROVE UNCHANGED <<others, flagFaults, crashes>>
        <4>1. CASE Proj!Acquire(t) \/ Proj!MarkWrite(t) \/ Proj!LoadSource(t) \/ Proj!ClearWrite(t)
          BY <4>1, Zenon DEF Proj!Acquire, Proj!MarkWrite, Proj!LoadSource, Proj!ClearWrite
        <4>2. CASE \E o \in Proj!Outcomes : Proj!SetSummary(t, o) \/ Proj!ReadHistory(t, o)
          BY <4>2, Zenon DEF Proj!SetSummary, Proj!ReadHistory
        <4>3. CASE \E o \in Proj!Outcomes : Proj!AppendHistory(t, o) \/ Proj!ReplaceHistory(t, o)
          BY <4>3, Zenon DEF Proj!AppendHistory, Proj!ReplaceHistory
        <4>4. CASE \/ Proj!Synced(t) \/ Proj!MarkRead(t) \/ Proj!Again(t)
                   \/ Proj!CheckMarker(t) \/ Proj!ClearRead(t)
          BY <4>4, Zenon
          DEF Proj!Synced, Proj!MarkRead, Proj!Again, Proj!CheckMarker, Proj!ClearRead
        <4> QED
          BY <3>3, <4>1, <4>2, <4>3, <4>4, Zenon DEF TaskStep
      <3>4. CASE \E t \in Flaggers : Proj!OtherWrite(t)
        BY <3>4, Zenon DEF Proj!OtherWrite
      <3>5. CASE UNCHANGED Proj!vars
        BY <3>5, Zenon DEF Proj!vars
      <3> QED
        BY <1>1, <3>1, <3>2, <3>3, <3>4, <3>5, Zenon DEF CalmStep
    <2> QED
      BY <1>1, <2>1, Zenon DEF Counters, Calm
  <1>2. CASE \E t \in Proj!Tasks : Proj!MarkFails(t) \/ Proj!ClearFails(t)
    <2>1. flagFaults' = flagFaults + 1 /\ others' = others /\ crashes' = crashes
      BY <1>2, Zenon DEF Proj!MarkFails, Proj!ClearFails
    <2> QED
      BY <2>1 DEF Counters, Calm
  <1>3. CASE \E t \in Flaggers : Proj!OtherRead(t)
    <2>1. others' = others + 1 /\ flagFaults' = flagFaults /\ crashes' = crashes
      BY <1>3, Zenon DEF Proj!OtherRead
    <2> QED
      BY <2>1 DEF Counters, Calm
  <1>4. CASE \E i \in Instances : Proj!Crash(i)
    <2>1. crashes' = crashes + 1 /\ flagFaults' = flagFaults /\ others' = others
      BY <1>4, Zenon DEF Proj!Crash
    <2> QED
      BY <2>1 DEF Counters, Calm
  <1>5. Proj!Next => CalmStep \/ (\E t \in Proj!Tasks : Proj!MarkFails(t) \/ Proj!ClearFails(t))
                \/ (\E t \in Flaggers : Proj!OtherRead(t)) \/ (\E i \in Instances : Proj!Crash(i))
    BY Zenon DEF Proj!Next, Proj!Project, Proj!Repair, CalmStep, TaskStep
  <1>6. UNCHANGED Proj!vars => CalmStep
    BY Zenon DEF CalmStep
  <1> QED
    BY <1>1, <1>2, <1>3, <1>4, <1>5, <1>6, Zenon

\* ProjectionInv holds at first and as long as nothing loses a marker.
LEMMA ProjectionInit == OneService /\ Proj!Init => Counters /\ (Calm => ProjectionInv)
  <1> SUFFICES ASSUME OneService, Proj!Init PROVE Counters /\ ProjectionInv
    BY Zenon
  <1>1. Counters
    BY DEF Proj!Init, Counters
  <1>2. LogShape
    BY DEF Proj!Init, LogShape, Proj!Flags, Proj!NoFlags
  <1>3. LockInv
    BY Zenon DEF Proj!Init, LockInv, Locked, OfCallers, OfRepairs
  <1>4. Proj!IsInjective(<<>>) /\ Proj!Range(<<>>) = {}
    BY DEF Proj!IsInjective, Proj!Range
  <1>5. LogInv
    BY <1>4, Zenon DEF Proj!Init, LogInv
  <1>6. Covered
    BY <1>4, Zenon DEF Proj!Init, Covered
  <1>7. \A t \in Proj!Tasks : TaskInv(t)
    BY Zenon DEF Proj!Init, TaskInv, Locked
  <1> QED
    BY <1>1, <1>2, <1>3, <1>5, <1>6, <1>7, Zenon DEF ProjectionInv

\* Each step is one of those above.
LEMMA ProjectionNext ==
  ASSUME OneService, Counters, Calm => ProjectionInv, [Proj!Next]_(Proj!vars)
  PROVE  Counters' /\ (Calm => ProjectionInv)'
  <1> SUFFICES ASSUME Calm' PROVE ProjectionInv'
    BY CalmBefore, Zenon
  <1>0. ProjectionInv /\ CalmStep
    BY CalmBefore, Zenon
  <1>1. ASSUME NEW t \in Callers, Proj!Commit(t) PROVE ProjectionInv'
    BY <1>0, <1>1, StepCommit, Zenon
  <1>2. ASSUME NEW t \in Proj!Repairers, Proj!StartRepair(t) PROVE ProjectionInv'
    BY <1>0, <1>2, StepTakeLock, Zenon DEF Proj!Tasks
  <1>3. ASSUME NEW t \in Proj!Tasks, TaskStep(t) PROVE ProjectionInv'
    BY <1>0, <1>3, StepTakeLock, StepMark, StepSource, StepClear, StepRead, StepAppend,
       StepReplace, StepQuiet, Zenon DEF TaskStep
  <1>4. ASSUME NEW t \in Flaggers, Proj!OtherWrite(t) PROVE FALSE
    BY <1>0, <1>4, Zenon DEF Proj!OtherWrite, ProjectionInv, LockInv, Proj!Tasks
  <1>5. CASE UNCHANGED Proj!vars
    <2>1. UNCHANGED <<audits, history, flags, lock, pc, gen, read, seen, failed>>
      BY <1>5, Zenon DEF Proj!vars, Proj!taskVars
    <2> QED
      BY <1>0, <2>1, Zenon DEF ProjectionInv, LogShape, LockInv, LogInv, Covered, TaskInv,
         IsSource, Waiting, Projecting, Failing
  <1> QED
    BY <1>0, <1>1, <1>2, <1>3, <1>4, <1>5, Zenon DEF CalmStep

\* UnmarkedIsComplete, for any number of tasks of one service instance, of
\* transitions and of failing store calls.
THEOREM UnmarkedComplete == OneService => (Proj!Spec => []Proj!UnmarkedIsComplete)
  <1> SUFFICES ASSUME OneService PROVE Proj!Spec => []Proj!UnmarkedIsComplete
    OBVIOUS
  <1>1. Proj!Init => Counters /\ (Calm => ProjectionInv)
    BY ProjectionInit, Zenon
  <1>2. Counters /\ (Calm => ProjectionInv) /\ [Proj!Next]_(Proj!vars)
          => (Counters /\ (Calm => ProjectionInv))'
    BY ProjectionNext, Zenon
  <1>3. (Calm => ProjectionInv) => Proj!UnmarkedIsComplete
    <2> SUFFICES ASSUME ProjectionInv, Proj!Quiet, flags.proj = 0 PROVE Proj!HistoryFull
      BY Zenon DEF Proj!UnmarkedIsComplete, Calm
    <2>1. \A id : ~Waiting(id) /\ ~Projecting(id) /\ ~Failing
      BY Zenon DEF Proj!Quiet, Waiting, Projecting, Failing, Proj!Tasks
    <2>2. Proj!Range(audits) \subseteq Proj!Range(history)
      BY <2>1, Zenon DEF ProjectionInv, Covered
    <2> QED
      BY <2>2, Zenon DEF ProjectionInv, LogInv, Proj!HistoryFull
  <1> QED
    BY <1>1, <1>2, <1>3, PTL DEF Proj!Spec

=============================================================================
