-------------------------- MODULE ApprovalProofs ---------------------------
(***************************************************************************)
(* Theorems about ApprovalEngine, for every plan, every set of requests,   *)
(* with and without a required write-back, and every number of deaths and  *)
(* failed writes.                                                          *)
(***************************************************************************)
EXTENDS ApprovalEngine, TLAPS

ActionStatuses == {"planned", "waiting", "approved", "rejected", "executing"}
EventStatuses == {"waiting", "executing", "reporting", "failed"}
Places == {"idle", "evaluate", "setwait", "waitread", "waitset", "halted", "release",
           "enter", "entermove", "raised", "ended", "dead", "scanned", "advance",
           "status", "transition", "resume", "enqueue", "run"}

-----------------------------------------------------------------------------
(* The inductive invariant                                                 *)

AllDecided == \A a \in Actions : action[a] \notin {"planned", "waiting"}

\* The rows: what is still to evaluate is planned and has no record; only an
\* action whose record is pending waits; execution has taken an action only
\* after the event left WAITING_APPROVAL.
RowInv ==
    /\ \A a \in Actions : a \in todo <=> action[a] = "planned"
    /\ \A a \in todo : record[a] = "none"
    /\ \A a \in Actions : action[a] = "waiting" => record[a] = "pending"
    /\ \A a \in Actions : action[a] = "executing" => event # "waiting"

\* The processes: an advance under way has computed its target from a decided
\* plan; the graph asks for the advance of a decided plan only, and comes to
\* enter execution with the event moved, unless a write failed.
AdvanceInv ==
    /\ \A p \in Procs : pc[p] \in {"status", "transition"} => (AllDecided /\ target[p] = Target)
    /\ pc[Graph] = "advance" => AllDecided
    /\ pc[Graph] \in {"resume", "enqueue"} => event # "waiting"
    /\ (pc[Graph] = "enter" /\ faults = 0) => event # "waiting"
    /\ pc[Graph] = "entermove" => faults # 0
    /\ (event = "executing" /\ faults = 0) => (AllDecided /\ Target = "executing")

-----------------------------------------------------------------------------
(* Types                                                                   *)

\* At first every action is planned and the graph is about to evaluate.
LEMMA TypeInit == Init => TypeOK
  <1> SUFFICES ASSUME Init PROVE TypeOK
    OBVIOUS
  <1>1. /\ action \in [Actions -> ActionStatuses]
        /\ record \in [Actions -> {"none", "pending", "timeout"} \cup AutoDecisions
                                    \cup HumanDecisions]
        /\ due \in [Actions -> BOOLEAN]
    BY Zenon DEF Init, ActionStatuses
  <1>2. pc \in [Procs -> Places] /\ target \in [Procs -> {"none", "executing", "reporting"}]
    BY Zenon DEF Init, Places
  <1>3. /\ crashes \in 0..MaxCrashes /\ faults \in 0..MaxFaults
    BY ApprovalConstants DEF ApprovalConstants, Init
  <1>4. /\ scanLock \in Callers \cup {NoOne} /\ lease \in Procs \cup {NoOne}
    BY Zenon DEF Init, Procs
  <1> QED
    BY <1>1, <1>2, <1>3, <1>4, Zenon DEF Init, TypeOK, ActionStatuses, Places

\* The graph's nodes keep the types.
LEMMA TypeGraph == ASSUME TypeOK, GraphStep PROVE TypeOK'
  <1> USE ApprovalConstants DEF ApprovalConstants, TypeOK, db, Goto, Procs
  <1>1. ASSUME NEW a \in Actions, NEW d \in AutoDecisions \cup {"pending"}, Evaluate(a, d)
        PROVE  TypeOK'
    <2>1. /\ action' \in [Actions -> ActionStatuses]
          /\ record' \in [Actions -> {"none", "pending", "timeout"} \cup AutoDecisions
                                      \cup HumanDecisions]
      BY <1>1, Zenon DEF Evaluate, AutoDecisions, ActionStatuses
    <2> QED
      BY <1>1, <2>1, Zenon DEF Evaluate, ActionStatuses
  <1>2. CASE Refresh \/ SetWaiting \/ WaitReads \/ WaitSets
    <2>1. /\ \E l \in Places : pc' = [pc EXCEPT ![Graph] = l]
          /\ UNCHANGED <<action, record, due, event, todo, target, rows, scanLock, lease,
                         intent, ran, crashes, faults>>
      BY <1>2, Zenon DEF Refresh, SetWaiting, WaitReads, WaitSets, Places
    <2> QED
      BY <2>1 DEF Places
  <1>3. CASE CatchUp \/ EnterReads \/ EnterMoves
    <2>1. /\ \E l \in Places : pc' = [pc EXCEPT ![Graph] = l]
          /\ event' = event \/ event' = "executing"
          /\ UNCHANGED <<record, due, todo, target, rows, scanLock, lease, intent, crashes,
                         faults>>
      BY <1>3, Zenon DEF CatchUp, EnterReads, EnterMoves, Places
    <2>2. (UNCHANGED <<action, ran>>) \/ Continue
      BY <1>3, Zenon DEF CatchUp, EnterReads, EnterMoves
    <2>3. action' \in [Actions -> ActionStatuses] /\ ran' \in BOOLEAN
      BY <2>2, Zenon DEF Continue, ActionStatuses
    <2> QED
      BY <2>1, <2>3 DEF Places, ActionStatuses
  <1>4. CASE Release
    BY <1>4, Zenon DEF Release
  <1>5. CASE Raised
    BY <1>5, Zenon DEF Raised
  <1> QED
    BY <1>1, <1>2, <1>3, <1>4, <1>5, Zenon DEF GraphStep

\* So do the requests and the scan.
LEMMA TypeCaller == ASSUME TypeOK, NEW p \in Callers, CallerStep(p) PROVE TypeOK'
  <1> USE ApprovalConstants DEF ApprovalConstants, TypeOK, db, Goto, Procs
  <1>1. ASSUME NEW a \in Actions, NEW d \in HumanDecisions, Decide(p, a, d) PROVE TypeOK'
    BY <1>1, ZenonT(30) DEF Decide, HumanDecisions
  <1>2. CASE ScanReads(p)
    BY <1>2, Zenon DEF ScanReads, Expired
  <1>3. CASE ScanCommits(p)
    BY <1>3, Zenon DEF ScanCommits
  <1> QED
    BY <1>1, <1>2, <1>3, Zenon DEF CallerStep

\* And the advance, deaths, leases and the dispatcher.
LEMMA TypeAdvance ==
  ASSUME TypeOK, AdvanceInv,
         \/ \E p \in Procs : Advance(p) \/ Crash(p)
         \/ \E a \in Actions : TimePasses(a)
         \/ Dispatch \/ LeaseExpires \/ Redeliver
  PROVE  TypeOK'
  <1> USE ApprovalConstants DEF ApprovalConstants, TypeOK, db, Goto
  <1>1. ASSUME NEW p \in Procs, CheckDecided(p) PROVE TypeOK'
    <2>1. /\ \E l \in Places : pc' = [pc EXCEPT ![p] = l]
          /\ target' = target \/ target' = [target EXCEPT ![p] = Target]
          /\ Target \in {"executing", "reporting"}
      BY <1>1, Zenon DEF CheckDecided, Return, Places, Target
    <2> QED
      BY <1>1, <2>1 DEF CheckDecided, Places
  <1>2. ASSUME NEW p \in Procs, ReadStatus(p) \/ Transition(p) \/ Enqueue(p) PROVE TypeOK'
    <2>1. \E l \in Places : pc' = [pc EXCEPT ![p] = l]
      BY <1>2, Zenon DEF ReadStatus, Transition, Enqueue, Return, Places
    <2>2. pc' \in [Procs -> Places]
      BY <2>1, ZenonT(30) DEF Places
    <2>3. CASE ReadStatus(p)
      BY <2>2, <2>3, Zenon DEF ReadStatus, Places
    <2>4. CASE Transition(p)
      <3>1. target[p] \in {"executing", "reporting"}
        BY <2>4, Zenon DEF Transition, AdvanceInv, Target
      <3>2. event' \in EventStatuses
        BY <2>4, <3>1, Zenon DEF Transition, EventStatuses
      <3> QED
        BY <2>2, <2>4, <3>2 DEF Transition, Places, EventStatuses
    <2>5. CASE Enqueue(p)
      <3>1. intent' \in BOOLEAN /\ faults' \in 0..MaxFaults
        <4>1. (intent' = TRUE /\ faults' = faults)
              \/ (faults < MaxFaults /\ faults' = faults + 1 /\ intent' = intent)
          BY <2>5, Zenon DEF Enqueue
        <4>2. faults' \in 0..MaxFaults
          BY <4>1, SMT
        <4>3. intent' \in BOOLEAN
          BY <4>1, Zenon
        <4> QED
          BY <4>2, <4>3, Zenon
      <3> QED
        BY <2>2, <2>5, <3>1, Zenon DEF Enqueue, Places
    <2> QED
      BY <1>2, <2>3, <2>4, <2>5, Zenon
  <1>3. ASSUME NEW p \in Procs, Resume(p) PROVE TypeOK'
    BY <1>3 DEF Resume
  <1>4. ASSUME NEW p \in Procs, Run(p) PROVE TypeOK'
    <2>1. action' \in [Actions -> ActionStatuses] /\ ran' \in BOOLEAN /\ event' = event
      BY <1>4, ZenonT(30) DEF Run, Continue, ActionStatuses
    <2> QED
      BY <1>4, <2>1, Zenon DEF Run, ActionStatuses
  <1>5. ASSUME NEW p \in Procs, Crash(p) PROVE TypeOK'
    BY <1>5 DEF Crash
  <1>6. ASSUME NEW a \in Actions, TimePasses(a) PROVE TypeOK'
    BY <1>6, Zenon DEF TimePasses
  <1>7. CASE Dispatch \/ LeaseExpires \/ Redeliver
    BY <1>7, ZenonT(30) DEF Dispatch, LeaseExpires, Redeliver, Procs
  <1> QED
    BY <1>1, <1>2, <1>3, <1>4, <1>5, <1>6, <1>7, Zenon DEF Advance

-----------------------------------------------------------------------------
(* Rows                                                                    *)

\* How a step may change the rows of the actions: execution takes approved
\* ones once the event has moved, and nothing else changes.
RowsKept ==
    /\ todo' = todo /\ record' = record
    /\ event # "waiting" => event' # "waiting"
    /\ \A a \in Actions : \/ action'[a] = action[a]
                          \/ /\ action[a] = "approved" /\ action'[a] = "executing"
                             /\ event' # "waiting"

\* Such a step keeps what the rows say, and the target of a decided plan.
LEMMA RowsFrame ==
  ASSUME TypeOK, RowInv, RowsKept
  PROVE  /\ RowInv'
         /\ AllDecided => (AllDecided' /\ Target' = Target)
  <1>1. RowInv'
    BY ZenonT(30) DEF TypeOK, RowInv, RowsKept
  <1>2. Approved' = Approved
    BY Zenon DEF RowsKept, Approved
  <1>3. AllDecided => AllDecided'
    BY Zenon DEF RowsKept, AllDecided
  <1> QED
    BY <1>1, <1>2, <1>3, Zenon DEF Target

\* Every step but an evaluation, a decision and a scan keeps the rows.
LEMMA RowsKeptBy ==
  ASSUME TypeOK, RowInv, AdvanceInv,
         \/ Refresh \/ SetWaiting \/ WaitReads \/ WaitSets \/ CatchUp \/ Release
         \/ EnterReads \/ EnterMoves \/ Raised
         \/ \E p \in Callers : ScanReads(p)
         \/ \E p \in Procs : Advance(p) \/ Crash(p)
         \/ \E a \in Actions : TimePasses(a)
         \/ Dispatch \/ LeaseExpires \/ Redeliver
         \/ UNCHANGED vars
  PROVE  RowsKept
  <1> USE DEF db
  <1>1. CASE \/ Refresh \/ SetWaiting \/ WaitReads \/ WaitSets \/ Release
             \/ \E p \in Callers : ScanReads(p)
             \/ \E p \in Procs : \/ CheckDecided(p) \/ ReadStatus(p) \/ Resume(p) \/ Enqueue(p)
                                 \/ Crash(p)
             \/ \E a \in Actions : TimePasses(a)
             \/ Dispatch \/ LeaseExpires \/ Redeliver
             \/ UNCHANGED vars
    <2>1. UNCHANGED <<action, record, event, todo>>
      BY <1>1, Zenon DEF Refresh, SetWaiting, WaitReads, WaitSets, Release, ScanReads, CheckDecided,
                  ReadStatus, Resume, Enqueue, Crash, TimePasses, Dispatch, LeaseExpires,
                  Redeliver, vars
    <2> QED
      BY <2>1, Zenon DEF RowsKept
  <1>2. CASE CatchUp \/ EnterReads \/ EnterMoves
    <2>1. /\ todo' = todo /\ record' = record
          /\ event' = event \/ event' = "executing"
      BY <1>2, Zenon DEF CatchUp, EnterReads, EnterMoves
    <2>2. action' = action \/ Continue
      BY <1>2, Zenon DEF CatchUp, EnterReads, EnterMoves
    <2> QED
      BY <2>1, <2>2, Zenon DEF RowsKept, Continue
  <1>3. ASSUME NEW p \in Procs, Run(p) PROVE RowsKept
    <2>1. todo' = todo /\ record' = record /\ event' = event /\ (action' = action \/ Continue)
      BY <1>3, Zenon DEF Run
    <2> QED
      BY <2>1, Zenon DEF RowsKept, Continue
  <1>4. ASSUME NEW p \in Procs, Transition(p) PROVE RowsKept
    <2>1. target[p] # "waiting"
      BY <1>4, Zenon DEF Transition, AdvanceInv, Target
    <2> QED
      BY <1>4, <2>1, Zenon DEF Transition, RowsKept
  <1>5. CASE Raised
    BY <1>5, Zenon DEF Raised, RowsKept
  <1> QED
    BY <1>1, <1>2, <1>3, <1>4, <1>5, Zenon DEF Advance

\* An evaluation, a decision or a scan finds something undecided, or changes
\* no status; the rows it writes are consistent.
LEMMA RowsDecided ==
  ASSUME TypeOK, RowInv,
         \/ \E a \in Actions : \E d \in AutoDecisions \cup {"pending"} : Evaluate(a, d)
         \/ \E p \in Callers, a \in Actions : \E d \in HumanDecisions : Decide(p, a, d)
         \/ \E p \in Callers : ScanCommits(p)
  PROVE  /\ RowInv'
         /\ event' = event
         /\ AllDecided => (AllDecided' /\ Target' = Target)
  <1>t. /\ action \in [Actions -> ActionStatuses] /\ rows \subseteq Actions
        /\ DOMAIN record = Actions
    BY Zenon DEF TypeOK, ActionStatuses
  <1>1. ASSUME NEW a \in Actions, NEW d \in AutoDecisions \cup {"pending"}, Evaluate(a, d)
        PROVE  RowInv' /\ event' = event /\ ~AllDecided
    <2>1. /\ a \in todo /\ action[a] = "planned" /\ event' = event /\ todo' = todo \ {a}
          /\ record' = [record EXCEPT ![a] = d]
      BY <1>1, Zenon DEF Evaluate, RowInv
    <2>2. \E s \in {"approved", "rejected", "waiting"} :
             /\ action' = [action EXCEPT ![a] = s]
             /\ s = "waiting" => d = "pending"
      BY <1>1, Zenon DEF Evaluate, AutoDecisions
    <2>3. ~AllDecided
      BY <2>1, Zenon DEF AllDecided
    <2> QED
      BY <1>t, <2>1, <2>2, <2>3 DEF RowInv, TypeOK
  <1>2. ASSUME NEW p \in Callers, NEW a \in Actions, NEW d \in HumanDecisions, Decide(p, a, d)
        PROVE  RowInv' /\ event' = event /\ ~AllDecided
    <2>1. /\ action[a] = "waiting" /\ event' = event /\ todo' = todo
          /\ record' = [record EXCEPT ![a] = d]
          /\ \E s \in {"approved", "rejected"} : action' = [action EXCEPT ![a] = s]
      BY <1>2, Zenon DEF Decide
    <2>2. ~AllDecided
      BY <2>1, Zenon DEF AllDecided
    <2>3. a \notin todo
      BY <2>1, Zenon DEF RowInv
    <2> QED
      BY <1>t, <2>1, <2>2, <2>3 DEF RowInv, TypeOK
  <1>3. ASSUME NEW p \in Callers, ScanCommits(p)
        PROVE  /\ RowInv' /\ event' = event
               /\ AllDecided => (AllDecided' /\ Target' = Target)
    <2>1. /\ event' = event /\ todo' = todo
          /\ action' = [a \in Actions |-> IF a \in Timeouts THEN "rejected" ELSE action[a]]
          /\ record' = [a \in Actions |-> IF a \in Timeouts THEN "timeout" ELSE record[a]]
      BY <1>3, Zenon DEF ScanCommits
    <2>2. \A a \in Timeouts : a \in Actions /\ action[a] = "waiting" /\ a \notin todo
      BY <1>t, Zenon DEF Timeouts, RowInv
    <2>3. RowInv'
      BY <1>t, <2>1, <2>2, Zenon DEF RowInv, TypeOK
    <2>4. AllDecided => action' = action
      BY <1>t, <2>1, <2>2, Zenon DEF AllDecided
    <2> QED
      BY <2>1, <2>3, <2>4, Zenon DEF AllDecided, Target, Approved
  <1> QED
    BY <1>1, <1>2, <1>3, Zenon

-----------------------------------------------------------------------------
(* The advance                                                             *)

\* What an advance under way needs of the rows carries over a step.
LEMMA AdvanceFrame ==
  ASSUME TypeOK, AdvanceInv,
         AllDecided => (AllDecided' /\ Target' = Target),
         event # "waiting" => event' # "waiting",
         faults' = faults \/ faults' = faults + 1,
         \A p \in Procs : pc'[p] \in {"status", "transition"} =>
            \/ pc[p] \in {"status", "transition"} /\ target'[p] = target[p]
            \/ AllDecided' /\ target'[p] = Target',
         pc'[Graph] = "advance" => (pc[Graph] = "advance" \/ AllDecided'),
         pc'[Graph] \in {"resume", "enqueue"} =>
            (pc[Graph] \in {"resume", "enqueue"} \/ event' # "waiting"),
         (pc'[Graph] = "enter" /\ faults' = 0) => (pc[Graph] = "enter" \/ event' # "waiting"),
         pc'[Graph] = "entermove" => (pc[Graph] = "entermove" \/ faults' # 0),
         (event' = "executing" /\ faults' = 0) =>
            (event = "executing" \/ (AllDecided' /\ Target' = "executing"))
  PROVE  AdvanceInv'
  <1>1. faults \in Nat /\ faults' \in Nat /\ (faults' = 0 => faults = 0)
    BY ApprovalConstants DEF ApprovalConstants, TypeOK
  <1> QED
    BY <1>1, Zenon DEF AdvanceInv

\* A step that leaves the graph where it is and starts no advance
LEMMA AdvanceQuiet ==
  ASSUME TypeOK, AdvanceInv,
         AllDecided => (AllDecided' /\ Target' = Target),
         UNCHANGED <<event, faults, target>>, pc'[Graph] = pc[Graph],
         \A p \in Procs : pc'[p] \in {"status", "transition"} => pc[p] = pc'[p]
  PROVE  AdvanceInv'
  BY AdvanceFrame, Zenon

\* The steps of the graph run keep what the processes know of the plan.
LEMMA AdvanceGraph ==
  ASSUME TypeOK, RowInv, AdvanceInv, GraphStep,
         AllDecided => (AllDecided' /\ Target' = Target),
         event # "waiting" => event' # "waiting"
  PROVE  AdvanceInv'
  <1> USE DEF Goto, db
  <1>t. pc \in [Procs -> Places] /\ Graph \in Procs /\ faults \in Nat
    BY ApprovalConstants DEF ApprovalConstants, TypeOK, Places, Procs
  <1>1. ASSUME NEW a \in Actions, NEW d \in AutoDecisions \cup {"pending"}, Evaluate(a, d)
        PROVE  AdvanceInv'
    BY <1>1, AdvanceQuiet, Zenon DEF Evaluate
  <1>2. CASE Refresh
    <2>1. /\ UNCHANGED <<action, event, faults, target, todo>> /\ todo = {}
          /\ \/ pc' = [pc EXCEPT ![Graph] = "setwait"]
             \/ /\ pc' = [pc EXCEPT ![Graph] = "advance"]
                /\ \A a \in Actions : action[a] # "waiting"
      BY <1>2, Zenon DEF Refresh
    <2>2. pc'[Graph] = "advance" => AllDecided'
      BY <1>t, <2>1, Zenon DEF RowInv, AllDecided
    <2> QED
      BY <1>t, <2>1, <2>2, AdvanceFrame, Zenon
  <1>3. CASE SetWaiting \/ WaitReads \/ WaitSets \/ Release
    <2>1. /\ UNCHANGED <<event, faults, target>>
          /\ \E l \in {"waitread", "raised", "waitset", "halted", "ended"} :
                pc' = [pc EXCEPT ![Graph] = l]
      BY <1>3, Zenon DEF SetWaiting, WaitReads, WaitSets, Release
    <2> QED
      BY <1>t, <2>1, AdvanceFrame, Zenon
  <1>4. CASE CatchUp
    <2>1. UNCHANGED <<event, faults, target>> /\ pc' = [pc EXCEPT ![Graph] = "release"]
      BY <1>4, Zenon DEF CatchUp
    <2> QED
      BY <1>t, <2>1, AdvanceFrame, Zenon
  <1>5. CASE EnterReads
    <2>1. /\ UNCHANGED <<event, faults, target>> /\ pc[Graph] = "enter"
          /\ \/ pc' = [pc EXCEPT ![Graph] = "release"]
             \/ pc' = [pc EXCEPT ![Graph] = "entermove"] /\ event = "waiting"
      BY <1>5, Zenon DEF EnterReads
    <2>2. pc'[Graph] = "entermove" => faults' # 0
      BY <1>t, <2>1, Zenon DEF AdvanceInv
    <2> QED
      BY <1>t, <2>1, <2>2, AdvanceFrame, Zenon
  <1>6. CASE EnterMoves
    <2>1. /\ UNCHANGED <<faults, target>> /\ pc[Graph] = "entermove"
          /\ \E l \in {"release", "raised"} : pc' = [pc EXCEPT ![Graph] = l]
      BY <1>6, Zenon DEF EnterMoves
    <2>2. faults' # 0
      BY <2>1, Zenon DEF AdvanceInv
    <2> QED
      BY <1>t, <2>1, <2>2, AdvanceFrame, Zenon
  <1>7. CASE Raised
    <2>1. /\ UNCHANGED <<faults, target>> /\ event' = "failed"
          /\ pc' = [pc EXCEPT ![Graph] = "release"]
      BY <1>7, Zenon DEF Raised
    <2> QED
      BY <1>t, <2>1, AdvanceFrame, Zenon
  <1> QED
    BY <1>1, <1>2, <1>3, <1>4, <1>5, <1>6, <1>7, Zenon DEF GraphStep

\* The steps of an advance, whoever makes it, and deaths keep it.
LEMMA AdvanceSteps ==
  ASSUME TypeOK, RowInv, AdvanceInv, NEW p \in Procs, Advance(p) \/ Crash(p),
         AllDecided => (AllDecided' /\ Target' = Target),
         event # "waiting" => event' # "waiting"
  PROVE  AdvanceInv'
  <1> USE DEF Goto, db
  <1>t. /\ pc \in [Procs -> Places] /\ Graph \in Procs /\ faults \in Nat
        /\ target \in [Procs -> {"none", "executing", "reporting"}]
    BY ApprovalConstants DEF ApprovalConstants, TypeOK, Places, Procs
  <1>1. CASE CheckDecided(p)
    <2>1. UNCHANGED <<action, event, faults>> /\ pc[p] = "advance"
      BY <1>1, Zenon DEF CheckDecided
    <2>2. CASE FullyDecided
      <3>1. pc' = [pc EXCEPT ![p] = "status"] /\ target' = [target EXCEPT ![p] = Target]
        BY <1>1, <2>2, Zenon DEF CheckDecided
      <3>2. AllDecided /\ AllDecided' /\ Target' = Target
        BY <2>2, Zenon DEF FullyDecided, AllDecided
      <3> QED
        BY <1>t, <2>1, <3>1, <3>2, AdvanceFrame, Zenon
    <2>3. CASE ~FullyDecided
      <3>1. /\ target' = target
            /\ \/ p = Graph /\ pc' = [pc EXCEPT ![p] = "enter"]
               \/ p # Graph /\ pc' = [pc EXCEPT ![p] = "idle"]
        BY <1>1, <2>3, Zenon DEF CheckDecided, Return
      <3>2. p = Graph => event # "waiting"
        <4> SUFFICES ASSUME p = Graph PROVE event # "waiting"
          OBVIOUS
        <4>1. AllDecided
          BY <2>1, Zenon DEF AdvanceInv
        <4>2. PICK a \in Actions : action[a] \notin {"approved", "rejected"}
          BY <2>3, Zenon DEF FullyDecided
        <4>3. action[a] = "executing"
          BY <4>1, <4>2, Zenon DEF AllDecided, TypeOK
        <4> QED
          BY <4>3, Zenon DEF RowInv
      <3> QED
        BY <1>t, <2>1, <3>1, <3>2, AdvanceFrame, Zenon
    <2> QED
      BY <2>2, <2>3, Zenon
  <1>2. CASE ReadStatus(p)
    <2>1. /\ UNCHANGED <<event, faults, target>> /\ pc[p] = "status"
          /\ \/ pc' = [pc EXCEPT ![p] = "transition"]
             \/ pc' = [pc EXCEPT ![p] = "resume"] /\ event # "waiting"
      BY <1>2, Zenon DEF ReadStatus
    <2> QED
      BY <1>t, <2>1, AdvanceFrame, Zenon
  <1>3. CASE Transition(p)
    <2>1. /\ target' = target /\ pc[p] = "transition" /\ AllDecided /\ target[p] = Target
          /\ target[p] # "waiting"
      BY <1>3, <1>t, Zenon DEF Transition, AdvanceInv
    <2>2. \/ /\ event' = target[p] /\ pc' = [pc EXCEPT ![p] = "resume"]
             /\ faults' = faults
          \/ /\ event' = event /\ event # "waiting" /\ faults' = faults
             /\ \E l \in {"enter", "idle"} : pc' = [pc EXCEPT ![p] = l]
          \/ /\ event' = event /\ faults' = faults + 1
             /\ \E l \in {"enter", "idle"} : pc' = [pc EXCEPT ![p] = l]
      BY <1>3, Zenon DEF Transition, Return
    <2> QED
      BY <1>t, <2>1, <2>2, AdvanceFrame
  <1>4. CASE Resume(p)
    <2>1. /\ UNCHANGED <<event, faults, target>> /\ pc[p] = "resume"
          /\ \E l \in {"enqueue", "run"} : pc' = [pc EXCEPT ![p] = l]
      BY <1>4, Zenon DEF Resume
    <2> QED
      BY <1>t, <2>1, AdvanceFrame, Zenon DEF AdvanceInv
  <1>5. CASE Enqueue(p)
    <2>1. /\ UNCHANGED <<event, target>> /\ pc[p] = "enqueue"
          /\ faults' = faults \/ faults' = faults + 1
          /\ \/ p = Graph /\ pc' = [pc EXCEPT ![p] = "enter"]
             \/ p # Graph /\ pc' = [pc EXCEPT ![p] = "idle"]
      BY <1>5, Zenon DEF Enqueue, Return
    <2>2. p = Graph => event # "waiting"
      BY <2>1, Zenon DEF AdvanceInv
    <2> QED
      BY <1>t, <2>1, <2>2, AdvanceFrame, Zenon
  <1>6. CASE Run(p) \/ Crash(p)
    <2>1. /\ UNCHANGED <<event, faults, target>>
          /\ \E l \in {"ended", "idle", "dead"} : pc' = [pc EXCEPT ![p] = l]
      BY <1>6, Zenon DEF Run, Crash
    <2> QED
      BY <1>t, <2>1, AdvanceFrame, Zenon
  <1> QED
    BY <1>1, <1>2, <1>3, <1>4, <1>5, <1>6, Zenon DEF Advance

\* Requests, the scan, the dispatcher and clocks keep it.
LEMMA AdvanceOthers ==
  ASSUME TypeOK, AdvanceInv,
         \/ \E p \in Callers : CallerStep(p)
         \/ \E a \in Actions : TimePasses(a)
         \/ Dispatch \/ LeaseExpires \/ Redeliver
         \/ UNCHANGED vars,
         AllDecided => (AllDecided' /\ Target' = Target)
  PROVE  AdvanceInv'
  <1> USE DEF Goto, db
  <1>t. /\ pc \in [Procs -> Places] /\ Graph \in Procs /\ faults \in Nat
        /\ Dispatcher \in Procs /\ Dispatcher # Graph
        /\ Callers \subseteq Procs /\ Graph \notin Callers
    BY ApprovalConstants DEF ApprovalConstants, TypeOK, Places, Procs
  <1>1. ASSUME NEW p \in Callers, CallerStep(p) PROVE AdvanceInv'
    <2>1. /\ UNCHANGED <<event, faults, target>>
          /\ \E l \in {"advance", "scanned", "idle"} : pc' = [pc EXCEPT ![p] = l]
      BY <1>1, Zenon DEF CallerStep, Decide, ScanReads, ScanCommits
    <2> QED
      BY <1>t, <2>1, AdvanceQuiet, Zenon
  <1>2. ASSUME NEW a \in Actions, TimePasses(a) PROVE AdvanceInv'
    BY <1>2, AdvanceQuiet, Zenon DEF TimePasses
  <1>3. CASE Dispatch \/ Redeliver
    <2>1. /\ UNCHANGED <<event, faults, target>>
          /\ \E p \in {Graph, Dispatcher}, l \in {"ended", "run"} : pc' = [pc EXCEPT ![p] = l]
      BY <1>3, Zenon DEF Dispatch, Redeliver
    <2> QED
      BY <1>t, <2>1, AdvanceFrame, Zenon
  <1>4. CASE LeaseExpires \/ UNCHANGED vars
    BY <1>4, AdvanceQuiet, Zenon DEF LeaseExpires, vars
  <1> QED
    BY <1>1, <1>2, <1>3, <1>4, Zenon

-----------------------------------------------------------------------------
(* Theorems                                                                *)

ApprovalInv == TypeOK /\ RowInv /\ AdvanceInv

\* The invariant holds at first.
LEMMA ApprovalInit == Init => ApprovalInv
  <1> SUFFICES ASSUME Init PROVE ApprovalInv
    OBVIOUS
  <1>1. RowInv
    BY Zenon DEF Init, RowInv
  <1>2. Graph \in Procs /\ \A p \in Procs : pc[p] \in {"evaluate", "idle"}
    BY Zenon DEF Init, Procs
  <1>3. AdvanceInv
    BY <1>2, Zenon DEF Init, AdvanceInv
  <1> QED
    BY <1>1, <1>3, TypeInit, Zenon DEF ApprovalInv

\* Every step keeps the invariant.
LEMMA ApprovalNext == ApprovalInv /\ [Next]_vars => ApprovalInv'
  <1> SUFFICES ASSUME TypeOK, RowInv, AdvanceInv, [Next]_vars PROVE ApprovalInv'
    BY Zenon DEF ApprovalInv
  <1>1. TypeOK'
    <2>1. CASE UNCHANGED vars
      BY <2>1, Zenon DEF TypeOK, vars
    <2> QED
      BY <2>1, TypeGraph, TypeCaller, TypeAdvance, Zenon DEF Next
  <1>2. /\ RowInv'
        /\ AllDecided => (AllDecided' /\ Target' = Target)
        /\ event # "waiting" => event' # "waiting"
    <2>1. \/ RowsKept
          \/ \E a \in Actions : \E d \in AutoDecisions \cup {"pending"} : Evaluate(a, d)
          \/ \E p \in Callers, a \in Actions : \E d \in HumanDecisions : Decide(p, a, d)
          \/ \E p \in Callers : ScanCommits(p)
      BY RowsKeptBy, Zenon DEF Next, GraphStep, CallerStep
    <2>2. RowsKept => (event # "waiting" => event' # "waiting")
      BY Zenon DEF RowsKept
    <2> QED
      BY <2>1, <2>2, RowsFrame, RowsDecided, Zenon
  <1>3. AdvanceInv'
    BY <1>2, AdvanceGraph, AdvanceSteps, AdvanceOthers, Zenon DEF Next
  <1> QED
    BY <1>1, <1>2, <1>3, Zenon DEF ApprovalInv

\* The columns and the variables of the code keep their values, and with them
\* the invariant that an advance under way has its target from a decided plan.
THEOREM ApprovalInvariant == Spec => []ApprovalInv
  BY ApprovalInit, ApprovalNext, PTL DEF Spec

\* EXECUTING_RESPONSE means a decided plan whose decisions call for execution,
\* for any plan and any number of racing requests, scans, deaths and leases:
\* the target is computed before the status is read and the event moved, and
\* it cannot go stale because a decided plan stays decided as it is
\* (_maybe_advance_plan, _decide, _scan_expired_approval_records).
THEOREM ExecutesApproved == Spec => []ExecutingIsApproved
  <1>1. ApprovalInv => ExecutingIsApproved
    <2> SUFFICES ASSUME ApprovalInv, event = "executing", faults = 0
                 PROVE  /\ \E a \in Approved : Required => a \in Terminal
                        /\ \A a \in Actions : action[a] \notin {"planned", "waiting"}
      BY Zenon DEF ExecutingIsApproved
    <2>1. AllDecided /\ Target = "executing"
      BY Zenon DEF ApprovalInv, AdvanceInv
    <2>2. Approved # {} /\ (Required => Approved \cap Terminal # {})
      BY <2>1, Zenon DEF Target
    <2> QED
      BY <2>1, <2>2, Zenon DEF AllDecided
  <1> QED
    BY <1>1, ApprovalInvariant, PTL

\* A recorded decision is final, whatever races it: the scan rejects only what
\* still waits under the row lock, a request needs a pending record, and an
\* evaluation writes only what has none (_decide, evaluate_plan,
\* _scan_expired_approval_records).
THEOREM DecisionsStand == Spec => DecisionIsFinal
  <1>1. ApprovalInv /\ [Next]_vars =>
          [\A a \in Actions : record[a] \in Granting \cup Denying =>
              /\ record'[a] = record[a]
              /\ \/ action'[a] = action[a]
                 \/ action[a] = "approved" /\ action'[a] = "executing"]_vars
    <2> SUFFICES ASSUME ApprovalInv, [Next]_vars,
                        NEW a \in Actions, record[a] \in Granting \cup Denying
                 PROVE  /\ record'[a] = record[a]
                        /\ \/ action'[a] = action[a]
                           \/ action[a] = "approved" /\ action'[a] = "executing"
      OBVIOUS
    <2> USE DEF ApprovalInv
    <2>0. /\ a \notin todo /\ record[a] # "pending" /\ action[a] # "waiting"
          /\ action \in [Actions -> ActionStatuses] /\ DOMAIN record = Actions
      BY Zenon DEF RowInv, Granting, Denying, TypeOK, ActionStatuses
    <2>1. CASE RowsKept
      BY <2>1, Zenon DEF RowsKept
    <2>2. ASSUME NEW b \in Actions, NEW d \in AutoDecisions \cup {"pending"}, Evaluate(b, d)
          PROVE  record'[a] = record[a] /\ action'[a] = action[a]
      BY <2>0, <2>2, Zenon DEF Evaluate, TypeOK
    <2>3. ASSUME NEW p \in Callers, NEW b \in Actions, NEW d \in HumanDecisions, Decide(p, b, d)
          PROVE  record'[a] = record[a] /\ action'[a] = action[a]
      BY <2>0, <2>3, Zenon DEF Decide, TypeOK
    <2>4. ASSUME NEW p \in Callers, ScanCommits(p)
          PROVE  record'[a] = record[a] /\ action'[a] = action[a]
      BY <2>0, <2>4, Zenon DEF ScanCommits, Timeouts
    <2> QED
      BY <2>1, <2>2, <2>3, <2>4, RowsKeptBy, Zenon DEF Next, GraphStep, CallerStep
  <1> QED
    BY <1>1, ApprovalInvariant, PTL DEF Spec, DecisionIsFinal

=============================================================================
