----------------------- MODULE ActionExecutionProofs -----------------------
(***************************************************************************)
(* Theorems about ActionExecution, for every set of actions, keys and      *)
(* workers, every assignment of keys, every ownership and every number of  *)
(* attempts, deaths and database errors.                                   *)
(***************************************************************************)
EXTENDS ActionExecution, TLAPS

Places == {"idle", "claimed", "call", "store", "cas", "final", "mock", "settle",
           "record", "fail"}
ActionStatuses == Done \cup {"approved", "executing", "unknown"}
Snaps == [status : JobStatuses, leased : BOOLEAN, attempt : Nat \ {0}]

-----------------------------------------------------------------------------
(* Types                                                                   *)

\* Every action approved, no job, every worker idle
LEMMA TypeInit == Init => TypeOK
  <1> SUFFICES ASSUME Init PROVE TypeOK
    OBVIOUS
  <1>1. (CHOOSE a \in Actions : TRUE) \in Actions
    BY ActionConstants, Zenon DEF ActionConstants
  <1>2. \A w \in Workers : snap[w] \in Snaps
    BY DEF Init, Snaps, JobStatuses
  <1> QED
    BY <1>1, <1>2, ActionConstants
       DEF ActionConstants, Init, TypeOK, Snaps, JobStatuses, Done, Results

\* The mappings between statuses stay within their tables.
LEMMA StatusMaps ==
  /\ \A s : ActionStatusOf(s) \in ActionStatuses
  /\ \A r \in Results \cup JobStatuses, s \in JobStatuses : JobStatusOf(r, s) \in JobStatuses
  /\ \A k \in Keys : AttachTarget(k) \in ActionStatuses
  BY Zenon DEF ActionStatusOf, ActionStatuses, JobStatusOf, JobStatuses, Open, Finished, Done,
     AttachTarget

\* The compare-and-set keeps the job row typed.
LEMMA CasTypes ==
  ASSUME TypeOK, NEW w \in Workers, NEW to \in JobStatuses, CasJob(w, to)
  PROVE  /\ job' \in [Keys -> JobStatuses] /\ leased' \in [Keys -> BOOLEAN]
         /\ attempt' \in [Keys -> Nat \ {0}]
  <1>1. CASE job[KeyOf[cur[w]]] = snap[w].status
    <2>1. snap[w].leased \in BOOLEAN /\ snap[w].attempt \in Nat \ {0}
      BY Zenon DEF TypeOK
    <2>2. KeyOf[cur[w]] \in Keys
      BY ActionConstants, Zenon DEF ActionConstants, TypeOK
    <2>3. /\ job' = [job EXCEPT ![KeyOf[cur[w]]] = to]
          /\ leased' = [leased EXCEPT ![KeyOf[cur[w]]] = snap[w].leased]
          /\ attempt' = [attempt EXCEPT ![KeyOf[cur[w]]] = snap[w].attempt]
      BY <1>1, Zenon DEF CasJob
    <2> QED
      BY <2>1, <2>2, <2>3, Zenon DEF TypeOK
  <1>2. CASE job[KeyOf[cur[w]]] # snap[w].status
    BY <1>2, Zenon DEF TypeOK, CasJob
  <1> QED
    BY <1>1, <1>2, Zenon

\* Every action of the workers keeps the types.
LEMMA TypeWorker ==
  ASSUME TypeOK, NEW w \in Workers, WorkerStep(w) \/ Raise(w) \/ Crash(w)
  PROVE  TypeOK'
  <1> USE ActionConstants DEF ActionConstants, TypeOK, ActionStatuses, Snaps, dbVars, histVars,
         procVars, Goto
  <1>0. /\ cur[w] \in Actions /\ KeyOf[cur[w]] \in Keys
        /\ {"executing", "failed"} \subseteq ActionStatuses
        /\ {"running", "absent", "success", "partial_success", "failed", "unknown"}
             \subseteq JobStatuses
        /\ \A l \in {"idle", "claimed", "call", "store", "cas", "final", "mock", "settle",
                      "record", "fail"} : l \in Places
    BY Zenon DEF ActionStatuses, JobStatuses, Open, Finished, Done, Places
  <1>1. ASSUME NEW a \in Actions, Claim(w, a) PROVE TypeOK'
    BY <1>0, <1>1, Zenon DEF Claim
  <1>2. CASE Attach(w)
    <2>1. CASE AttachAllowed(cur[w])
      <3>1. /\ action' = [action EXCEPT ![cur[w]] = AttachTarget(KeyOf[cur[w]])]
            /\ linked' = [linked EXCEPT ![cur[w]] = TRUE] /\ Goto(w, "idle")
        BY <1>2, <2>1, Zenon DEF Attach
      <3>2. UNCHANGED <<job, jobAction, leased, expired, attempt, outbox, cur, res, snap,
                        histVars>>
        BY <1>2, Zenon DEF Attach
      <3> QED
        BY <1>0, <3>1, <3>2, StatusMaps, Zenon
    <2>2. CASE ~AttachAllowed(cur[w])
      BY <1>0, <1>2, <2>2, Zenon DEF Attach
    <2> QED
      BY <2>1, <2>2, Zenon
  <1>3. CASE InsertJob(w)
    <2>1. CASE cur[w] \in Direct
      BY <1>0, <1>3, <2>1, ZenonT(30) DEF InsertJob
    <2>2. CASE cur[w] \notin Direct
      <3>1. /\ outbox' = [outbox EXCEPT ![cur[w]] = "active"]
            /\ calls' = [calls EXCEPT ![KeyOf[cur[w]]] = @ + 1]
            /\ pc' = [pc EXCEPT ![w] = "idle"]
        BY <1>3, <2>2, Zenon DEF InsertJob
      <3>2. /\ outbox' \in [Actions -> {"none", "active", "settled"}]
            /\ calls' \in [Keys -> Nat] /\ pc' \in [Workers -> Places]
        BY <1>0, <3>1 DEF Places
      <3> QED
        BY <1>0, <1>3, <3>2, Zenon DEF InsertJob, Places
    <2> QED
      BY <2>1, <2>2, Zenon
  <1>4. ASSUME NEW r \in Results, NEW done \in BOOLEAN, CallTool(w, r, done) PROVE TypeOK'
    BY <1>0, <1>4 DEF CallTool
  <1>5. CASE CallRefused(w)
    BY <1>0, <1>5, Zenon DEF CallRefused
  <1>6. CASE ReadJob(w)
    <2>1. snap' \in [Workers -> Snaps]
      BY <1>0, <1>6, Zenon DEF ReadJob
    <2>2. pc' \in [Workers -> Places] /\ res' \in [Workers -> Results \cup JobStatuses]
      <3>1. \/ Goto(w, "cas") /\ UNCHANGED res
            \/ Goto(w, "mock") /\ UNCHANGED res
            \/ Goto(w, "settle") /\ res' = [res EXCEPT ![w] = job[KeyOf[cur[w]]]]
        <4>1. CASE pc[w] = "store"
          BY <1>6, <4>1, Zenon DEF ReadJob
        <4>2. CASE pc[w] # "store" /\ job[KeyOf[cur[w]]] \in Open /\ Mock
          BY <1>6, <4>2, Zenon DEF ReadJob
        <4>3. CASE pc[w] # "store" /\ ~(job[KeyOf[cur[w]]] \in Open /\ Mock)
          BY <1>6, <4>3, Zenon DEF ReadJob
        <4> QED
          BY <4>1, <4>2, <4>3, Zenon
      <3>2. pc' \in [Workers -> Places]
        BY <3>1, Zenon DEF Places
      <3>3. job[KeyOf[cur[w]]] \in Results \cup JobStatuses
        BY <1>0, Zenon
      <3>4. res' \in [Workers -> Results \cup JobStatuses]
        BY <3>1, <3>3, Zenon
      <3> QED
        BY <3>2, <3>4, Zenon
    <2> QED
      BY <1>6, <2>1, <2>2, Zenon DEF ReadJob, Places
  <1>7. CASE WriteJob(w)
    <2>1. JobStatusOf(res[w], snap[w].status) \in JobStatuses
      BY StatusMaps, Zenon
    <2>2. /\ job' \in [Keys -> JobStatuses] /\ leased' \in [Keys -> BOOLEAN]
          /\ attempt' \in [Keys -> Nat \ {0}]
      BY <1>0, <1>7, <2>1, CasTypes, Zenon DEF WriteJob
    <2> QED
      BY <1>0, <1>7, <2>2, Zenon DEF WriteJob
  <1>8. ASSUME NEW to \in {"success", "partial_success", "failed", "unknown"},
               MockFinalize(w, to)
        PROVE  TypeOK'
    <2>1. to \in JobStatuses
      BY <1>0, Zenon
    <2>2. /\ job' \in [Keys -> JobStatuses] /\ leased' \in [Keys -> BOOLEAN]
          /\ attempt' \in [Keys -> Nat \ {0}]
      BY <1>0, <1>8, <2>1, CasTypes, Zenon DEF MockFinalize
    <2> QED
      BY <1>0, <1>8, <2>1, <2>2, Zenon DEF MockFinalize
  <1>9. CASE Settle(w)
    <2> DEFINE t == ActionStatusOf(res[w])
    <2>1. t \in ActionStatuses
      BY StatusMaps, Zenon
    <2>2. pc' \in [Workers -> Places]
      BY <1>0, <1>9 DEF Settle, Places
    <2>3. action' = [action EXCEPT ![cur[w]] = t] \/ action' = action
      BY <1>9, Zenon DEF Settle
    <2> HIDE DEF t
    <2>4. action' \in [Actions -> ActionStatuses]
      BY <1>0, <2>1, <2>3, Zenon
    <2> QED
      BY <1>9, <2>2, <2>4, Zenon DEF Settle, Places
  <1>10. CASE Record(w)
    BY <1>0, <1>10, Zenon DEF Record
  <1>11. CASE FailExecuting(w)
    BY <1>0, <1>11, Zenon DEF FailExecuting
  <1>12. CASE Raise(w)
    BY <1>0, <1>12 DEF Raise
  <1>13. CASE Crash(w)
    BY <1>0, <1>13 DEF Crash
  <1> QED
    BY <1>1, <1>2, <1>3, <1>4, <1>5, <1>6, <1>7, <1>8, <1>9, <1>10, <1>11, <1>12, <1>13, ZenonT(30)
       DEF WorkerStep

\* So do the reclaim, the receipts, the operators and time.
LEMMA TypeOthers ==
  ASSUME TypeOK
  PROVE  /\ \A stale \in SUBSET Actions : Reconcile(stale) => TypeOK'
         /\ \A a \in Actions, to \in Done : ResolveUnknown(a, to) => TypeOK'
         /\ \A a \in Actions, s \in Done \cup {"accepted", "unknown"} : Receipt(a, s) => TypeOK'
         /\ \A k \in Keys : LeaseExpires(k) => TypeOK'
  <1> USE ActionConstants DEF ActionConstants, TypeOK, ActionStatuses, Snaps, dbVars, histVars, procVars
  <1>1. ASSUME NEW stale \in SUBSET Actions, Reconcile(stale) PROVE TypeOK'
    <2>1. \A a \in Actions : ActionReclaimed(a, stale) \in ActionStatuses
      <3> SUFFICES ASSUME NEW a \in Actions PROVE ActionReclaimed(a, stale) \in ActionStatuses
        OBVIOUS
      <3>1. ActionReclaimed(a, stale)
              \in {"failed", action[a], ActionStatusOf(JobReclaimed(KeyOf[a])), "executing",
                   "approved"}
        BY Zenon DEF ActionReclaimed
      <3>2. ActionStatusOf(JobReclaimed(KeyOf[a])) \in ActionStatuses
        BY StatusMaps, Zenon
      <3>3. action[a] \in ActionStatuses
        OBVIOUS
      <3> QED
        BY <3>1, <3>2, <3>3, Zenon DEF Done
    <2>2. \A k \in Keys : /\ JobReclaimed(k) \in JobStatuses
                          /\ AttemptReclaimed(k) \in Nat \ {0}
      BY DEF JobReclaimed, AttemptReclaimed, JobStatuses, Open, Finished
    <2> QED
      BY <1>1, <2>1, <2>2, Zenon DEF Reconcile
  <1>2. ASSUME NEW a \in Actions, NEW to \in Done, ResolveUnknown(a, to) PROVE TypeOK'
    BY <1>2, Zenon DEF ResolveUnknown, ActionStatuses
  <1>3. ASSUME NEW a \in Actions, NEW s \in Done \cup {"accepted", "unknown"}, Receipt(a, s)
        PROVE  TypeOK'
    <2>1. s # "accepted" => s \in ActionStatuses /\ s \in JobStatuses
      BY Zenon DEF ActionStatuses, JobStatuses, Done, Finished
    <2>2. KeyOf[a] \in Keys
      OBVIOUS
    <2> QED
      <3>1. CASE a \in Direct \/ s = "accepted"
        BY <1>3, <2>1, <2>2, <3>1, Zenon DEF Receipt
      <3>2. CASE ~(a \in Direct \/ s = "accepted")
        <4>1. /\ action' = [action EXCEPT ![a] = IF @ = "executing" THEN s ELSE @]
              /\ job' = [job EXCEPT ![KeyOf[a]] = s]
          BY <1>3, <3>2, Zenon DEF Receipt
        <4>2. action' \in [Actions -> ActionStatuses] /\ job' \in [Keys -> JobStatuses]
          BY <2>1, <2>2, <3>2, <4>1, Zenon
        <4> QED
          BY <1>3, <2>2, <4>2, Zenon DEF Receipt
      <3> QED
        BY <3>1, <3>2, Zenon
  <1>4. ASSUME NEW k \in Keys, LeaseExpires(k) PROVE TypeOK'
    BY <1>4, Zenon DEF LeaseExpires
  <1> QED
    BY <1>1, <1>2, <1>3, <1>4, Zenon

\* Every step of a worker, the reconcile, an operator or the outbox keeps the types.
LEMMA TypeNext == TypeOK /\ [Next]_vars => TypeOK'
  <1> SUFFICES ASSUME TypeOK, [Next]_vars PROVE TypeOK'
    OBVIOUS
  <1>1. CASE UNCHANGED vars
    BY <1>1, Zenon DEF TypeOK, vars, dbVars, procVars, histVars
  <1> QED
    BY <1>1, TypeWorker, TypeOthers, Zenon DEF Next

\* Every reachable value is a value of its column: statuses stay within the
\* enumerations of models/action.py through every mapping of the service
\* (_map_job_to_action_status, _cas_writeback_job, the reclaim).
THEOREM ActionTypes == Spec => []TypeOK
  BY TypeInit, TypeNext, PTL DEF Spec

-----------------------------------------------------------------------------
(* One request per key                                                     *)

KeyAt(w) == KeyOf[cur[w]]

\* Places after the key's job was inserted or found
PastInsert == {"call", "store", "cas", "final", "mock", "settle"}

\* A key without a job was never requested.  A worker about to request has
\* inserted the job, is alone in this, and the request has not been made.
OnceInv ==
    /\ \A k \in Keys : calls[k] <= 1 /\ (job[k] = "absent" => calls[k] = 0)
    /\ \A w \in Workers : pc[w] \in PastInsert => job[KeyAt(w)] # "absent"
    /\ \A w \in Workers : pc[w] = "call" => calls[KeyAt(w)] = 0
    /\ \A w, v \in Workers : (pc[w] = "call" /\ pc[v] = "call" /\ KeyAt(w) = KeyAt(v)) => w = v

\* A step that requests nothing, drops no job and moves no worker to the call
\* or past the insert.
OnceQuiet ==
    /\ calls' = calls
    /\ \A k \in Keys : job'[k] = "absent" => job[k] = "absent"
    /\ \A w \in Workers : pc'[w] = "call" => pc[w] = "call"
    /\ \A w \in Workers : pc'[w] \in PastInsert => (pc[w] \in PastInsert /\ cur'[w] = cur[w])

\* A quiet step keeps the once-invariant.
LEMMA OnceFrame == TypeOK /\ OnceInv /\ OnceQuiet => OnceInv'
  <1> SUFFICES ASSUME TypeOK, OnceInv, OnceQuiet PROVE OnceInv'
    OBVIOUS
  <1>1. \A w \in Workers : KeyAt(w) \in Keys
    BY ActionConstants, Zenon DEF ActionConstants, TypeOK, KeyAt
  <1>2. \A w \in Workers : pc'[w] \in PastInsert => KeyAt(w)' = KeyAt(w)
    BY Zenon DEF OnceQuiet, KeyAt
  <1>3. \A w \in Workers : pc'[w] = "call" => (KeyAt(w)' = KeyAt(w) /\ pc[w] = "call")
    BY <1>2, Zenon DEF OnceQuiet, PastInsert
  <1>4. \A w \in Workers : pc'[w] \in PastInsert => pc[w] \in PastInsert
    BY Zenon DEF OnceQuiet
  <1>5. /\ calls' = calls
        /\ \A k \in Keys : job'[k] = "absent" => job[k] = "absent"
    BY Zenon DEF OnceQuiet
  <1> QED
    BY <1>1, <1>2, <1>3, <1>4, <1>5 DEF OnceInv

\* A compare-and-set never drops a job.
LEMMA CasKeepsJob ==
  ASSUME TypeOK, OnceInv, NEW w \in Workers, pc[w] \in PastInsert, NEW to,
         CasJob(w, to), to = "absent" => snap[w].status = "absent"
  PROVE  \A k \in Keys : job'[k] = "absent" => job[k] = "absent"
  <1>1. KeyAt(w) \in Keys /\ job[KeyAt(w)] # "absent" /\ job \in [Keys -> JobStatuses]
    BY ActionConstants, Zenon DEF ActionConstants, TypeOK, KeyAt, OnceInv
  <1>2. job' = job \/ (job' = [job EXCEPT ![KeyAt(w)] = to] /\ job[KeyAt(w)] = snap[w].status)
    BY Zenon DEF CasJob, KeyAt
  <1> QED
    BY <1>1, <1>2, Zenon

\* Every action of the workers but the insert and the call is quiet.
LEMMA OnceWorkerQuiet ==
  ASSUME TypeOK, OnceInv, NEW w \in Workers,
         \/ \E a \in Actions : Claim(w, a)
         \/ Attach(w) \/ CallRefused(w) \/ ReadJob(w) \/ WriteJob(w)
         \/ \E to \in {"success", "partial_success", "failed", "unknown"} : MockFinalize(w, to)
         \/ Settle(w) \/ Record(w) \/ FailExecuting(w) \/ Raise(w) \/ Crash(w)
  PROVE  OnceQuiet
  <1> USE DEF OnceQuiet, PastInsert, TypeOK, Goto, dbVars, histVars
  <1>1. ASSUME NEW a \in Actions, Claim(w, a) PROVE OnceQuiet
    BY <1>1, Zenon DEF Claim
  <1>2. CASE Attach(w)
    <2>1. /\ Goto(w, "idle") \/ Goto(w, "fail")
          /\ UNCHANGED <<job, cur, calls>>
      BY <1>2, Zenon DEF Attach
    <2> QED
      BY <2>1, Zenon
  <1>3. CASE CallRefused(w)
    BY <1>3, Zenon DEF CallRefused
  <1>4. CASE ReadJob(w)
    <2>1. /\ pc[w] \in {"store", "final"} /\ UNCHANGED <<job, cur, calls>>
          /\ Goto(w, "cas") \/ Goto(w, "mock") \/ Goto(w, "settle")
      BY <1>4, Zenon DEF ReadJob
    <2> QED
      BY <2>1, ZenonT(30)
  <1>5. CASE WriteJob(w)
    <2>1. pc[w] = "cas" /\ Goto(w, "final") /\ UNCHANGED <<cur, calls>>
      BY <1>5, Zenon DEF WriteJob
    <2>2. JobStatusOf(res[w], snap[w].status) = "absent" => snap[w].status = "absent"
      BY Zenon DEF JobStatusOf
    <2>3. \A k \in Keys : job'[k] = "absent" => job[k] = "absent"
      BY <1>5, <2>1, <2>2, CasKeepsJob, Zenon DEF WriteJob
    <2> QED
      BY <2>1, <2>3, Zenon
  <1>6. ASSUME NEW to \in {"success", "partial_success", "failed", "unknown"},
               MockFinalize(w, to)
        PROVE  OnceQuiet
    <2>1. pc[w] = "mock" /\ Goto(w, "settle") /\ UNCHANGED <<cur, calls>> /\ CasJob(w, to)
      BY <1>6, Zenon DEF MockFinalize
    <2>2. to # "absent"
      OBVIOUS
    <2>3. \A k \in Keys : job'[k] = "absent" => job[k] = "absent"
      BY <2>1, <2>2, CasKeepsJob, Zenon
    <2> QED
      BY <2>1, <2>3, Zenon
  <1>7. CASE Settle(w)
    <2>1. /\ pc[w] = "settle" /\ UNCHANGED <<job, cur, calls>>
          /\ Goto(w, "record") \/ Goto(w, "idle") \/ Goto(w, "fail")
      BY <1>7, Zenon DEF Settle
    <2> QED
      BY <2>1, ZenonT(30)
  <1>8. CASE Record(w) \/ FailExecuting(w) \/ Raise(w) \/ Crash(w)
    <2>1. /\ Goto(w, "idle") \/ Goto(w, "fail")
          /\ UNCHANGED <<job, cur, calls>>
      BY <1>8, Zenon DEF Record, FailExecuting, Raise, Crash
    <2> QED
      BY <2>1, Zenon
  <1> QED
    BY <1>1, <1>2, <1>3, <1>4, <1>5, <1>6, <1>7, <1>8, Zenon

\* The insert: nobody was past the insert of a key that had no job.
LEMMA OnceInsert ==
  ASSUME TypeOK, OnceInv, NEW w \in Workers, InsertJob(w)
  PROVE  OnceInv'
  <1> DEFINE k == KeyAt(w)
  <1>1. /\ k \in Keys /\ job[k] = "absent" /\ pc[w] = "claimed" /\ cur' = cur
        /\ job' = [job EXCEPT ![k] = "running"]
    BY ActionConstants, Zenon DEF ActionConstants, InsertJob, TypeOK, KeyAt
  <1>2. \/ /\ pc' = [pc EXCEPT ![w] = "call"]
           /\ calls' = calls
        \/ /\ pc' = [pc EXCEPT ![w] = "idle"]
           /\ calls' = [calls EXCEPT ![k] = @ + 1]
    BY Zenon DEF InsertJob, Goto, KeyAt
  <1>3. calls[k] = 0 /\ \A v \in Workers : pc[v] = "call" => KeyAt(v) # k
    BY <1>1, Zenon DEF OnceInv, PastInsert
  <1>4. \A v \in Workers : KeyAt(v)' = KeyAt(v) /\ KeyAt(v) \in Keys
    BY <1>1, ActionConstants, Zenon DEF ActionConstants, TypeOK, KeyAt
  <1>5. /\ pc \in [Workers -> Places] /\ job \in [Keys -> JobStatuses] /\ calls \in [Keys -> Nat]
    BY Zenon DEF TypeOK, Places
  <1> HIDE DEF k
  <1>6. \A v \in Workers : pc'[v] \in PastInsert => job'[KeyAt(v)] # "absent"
    BY <1>1, <1>2, <1>4, <1>5, Zenon DEF OnceInv, PastInsert, k
  <1>7. \A j \in Keys : calls'[j] <= 1 /\ (job'[j] = "absent" => calls'[j] = 0)
    BY <1>1, <1>2, <1>3, <1>5 DEF OnceInv
  <1>8. \A v \in Workers : pc'[v] = "call" => calls'[KeyAt(v)] = 0
    BY <1>1, <1>2, <1>3, <1>4, <1>5, Zenon DEF OnceInv, k
  <1>9. \A v, u \in Workers :
          (pc'[v] = "call" /\ pc'[u] = "call" /\ KeyAt(v) = KeyAt(u)) => v = u
    BY <1>2, <1>3, <1>4, <1>5, ZenonT(30) DEF OnceInv, k
  <1> QED
    BY <1>4, <1>6, <1>7, <1>8, <1>9 DEF OnceInv

\* The call: its worker was the only one about to request the key.
LEMMA OnceCall ==
  ASSUME TypeOK, OnceInv, NEW w \in Workers, NEW r, NEW done, CallTool(w, r, done)
  PROVE  OnceInv'
  <1> DEFINE k == KeyAt(w)
  <1>1. /\ k \in Keys /\ pc[w] = "call" /\ cur' = cur /\ job' = job
        /\ calls' = [calls EXCEPT ![k] = @ + 1]
    BY ActionConstants, Zenon DEF ActionConstants, CallTool, TypeOK, KeyAt, dbVars
  <1>2. pc' = [pc EXCEPT ![w] = "final"] \/ pc' = [pc EXCEPT ![w] = "store"]
    BY Zenon DEF CallTool, Goto
  <1>3. /\ calls[k] = 0 /\ job[k] # "absent"
        /\ \A v \in Workers : (pc[v] = "call" /\ KeyAt(v) = k) => v = w
    BY <1>1, Zenon DEF OnceInv, PastInsert
  <1>4. \A v \in Workers : KeyAt(v)' = KeyAt(v) /\ KeyAt(v) \in Keys
    BY <1>1, ActionConstants, Zenon DEF ActionConstants, TypeOK, KeyAt
  <1>5. /\ pc \in [Workers -> Places] /\ calls \in [Keys -> Nat]
    BY Zenon DEF TypeOK, Places
  <1> HIDE DEF k
  <1>6. \A v \in Workers : pc'[v] \in PastInsert => job'[KeyAt(v)] # "absent"
    BY <1>1, <1>2, <1>4, <1>5, Zenon DEF OnceInv, PastInsert
  <1>7. \A j \in Keys : calls'[j] <= 1 /\ (job'[j] = "absent" => calls'[j] = 0)
    BY <1>1, <1>3, <1>5 DEF OnceInv
  <1>8. \A v \in Workers : pc'[v] = "call" => (pc[v] = "call" /\ v # w)
    BY <1>2, <1>5, Zenon
  <1>9. \A v \in Workers : pc'[v] = "call" => calls'[KeyAt(v)] = 0
    BY <1>1, <1>3, <1>4, <1>5, <1>8, Zenon DEF OnceInv
  <1> QED
    BY <1>4, <1>6, <1>7, <1>8, <1>9 DEF OnceInv

\* The reclaim, the receipts, the operators and time request nothing.
LEMMA OnceOthersQuiet ==
  ASSUME TypeOK,
         \/ \E stale \in SUBSET Actions : Reconcile(stale)
         \/ \E a \in Actions : \E to \in Done : ResolveUnknown(a, to)
         \/ \E a \in Actions : \E s \in Done \cup {"accepted", "unknown"} : Receipt(a, s)
         \/ \E k \in Keys : LeaseExpires(k)
         \/ UNCHANGED vars
  PROVE  OnceQuiet
  <1> USE DEF OnceQuiet, PastInsert, procVars, histVars
  <1>1. ASSUME NEW stale \in SUBSET Actions, Reconcile(stale) PROVE OnceQuiet
    <2>1. \A k \in Keys : JobReclaimed(k) = "absent" => job[k] = "absent"
      BY Zenon DEF JobReclaimed, TimedOut, Reclaimed, Open
    <2> QED
      BY <1>1, <2>1, Zenon DEF Reconcile
  <1>2. ASSUME NEW a \in Actions, NEW to \in Done, ResolveUnknown(a, to) PROVE OnceQuiet
    BY <1>2, Zenon DEF ResolveUnknown
  <1>3. ASSUME NEW k \in Keys, LeaseExpires(k) PROVE OnceQuiet
    BY <1>3, Zenon DEF LeaseExpires
  <1>4. CASE UNCHANGED vars
    BY <1>4, Zenon DEF vars, dbVars
  <1>5. ASSUME NEW a \in Actions, NEW s \in Done \cup {"accepted", "unknown"}, Receipt(a, s)
        PROVE  OnceQuiet
    <2>1. /\ job' = job \/ job' = [job EXCEPT ![KeyOf[a]] = s]
          /\ s # "absent" /\ job \in [Keys -> JobStatuses]
      BY <1>5, Zenon DEF Receipt, TypeOK, Done
    <2> QED
      BY <1>5, <2>1, Zenon DEF Receipt
  <1> QED
    BY <1>1, <1>2, <1>3, <1>4, <1>5, Zenon

\* At first no key has a job and nothing was requested.
LEMMA OnceInit == Init => OnceInv
  BY DEF Init, OnceInv, PastInsert

\* Every step keeps the once-invariant: the insert of the job and the request are
\* the only ones that are not quiet.
LEMMA OnceNext == TypeOK /\ OnceInv /\ [Next]_vars => OnceInv'
  <1> SUFFICES ASSUME TypeOK, OnceInv, [Next]_vars PROVE OnceInv'
    OBVIOUS
  <1>1. ASSUME NEW w \in Workers, WorkerStep(w) \/ Raise(w) \/ Crash(w) PROVE OnceInv'
    BY <1>1, OnceWorkerQuiet, OnceFrame, OnceInsert, OnceCall, Zenon DEF WorkerStep
  <1> QED
    BY <1>1, OnceOthersQuiet, OnceFrame, Zenon DEF Next

\* The side effect of an idempotency key is requested at most once, for any
\* number of actions sharing the key, of workers, of deaths and of reclaims: a
\* request follows the insert of the key's job and the job is never removed
\* (_execute_direct_tool, _execute_xdr_managed, reconcile_stale_executions).
THEOREM RequestedOnce == Spec => []CalledOnce
  <1>1. OnceInv => CalledOnce
    BY Zenon DEF OnceInv, CalledOnce
  <1> QED
    BY <1>1, ActionTypes, OnceInit, OnceNext, PTL DEF Spec

-----------------------------------------------------------------------------
(* Success is earned                                                       *)

Good == {"success", "partial_success"}

\* Places where the worker's result is one of its own key
Holding == {"store", "cas", "settle"}

\* Whoever says success, the job, a worker's result or the action, says it of
\* a side effect the provider executed, or an operator did.
EarnInv ==
    /\ \A k \in Keys : job[k] \in Good => effect[k]
    /\ \A w \in Workers : (pc[w] \in Holding /\ res[w] \in Good) => effect[KeyAt(w)]
    /\ SuccessIsEarned

\* A step adds no success without its effect.
EarnKept ==
    /\ \A k \in Keys : effect[k] => effect'[k]
    /\ human \subseteq human'
    /\ \A k \in Keys : job'[k] \in Good => job[k] \in Good \/ effect'[k]
    /\ \A w \in Workers : (pc'[w] \in Holding /\ res'[w] \in Good) =>
         \/ effect'[KeyAt(w)']
         \/ pc[w] \in Holding /\ res[w] \in Good /\ KeyAt(w)' = KeyAt(w)
    /\ \A a \in Actions : action'[a] \in Good =>
         \/ effect'[KeyOf[a]]
         \/ a \in human'
         \/ action[a] \in Good

\* A step that adds no unearned success keeps the invariant.
LEMMA EarnFrame == TypeOK /\ EarnInv /\ EarnKept => EarnInv'
  <1> SUFFICES ASSUME TypeOK, EarnInv, EarnKept PROVE EarnInv'
    OBVIOUS
  <1>1. \A w \in Workers : KeyAt(w) \in Keys
    BY ActionConstants, Zenon DEF ActionConstants, TypeOK, KeyAt
  <1>2. \A a \in Actions : KeyOf[a] \in Keys
    BY ActionConstants, Zenon DEF ActionConstants
  <1>3. (\A k \in Keys : job[k] \in Good => effect[k])'
    BY Zenon DEF EarnInv, EarnKept
  <1>4. (\A w \in Workers : (pc[w] \in Holding /\ res[w] \in Good) => effect[KeyAt(w)])'
    BY <1>1, Zenon DEF EarnInv, EarnKept
  <1>5. SuccessIsEarned'
    BY <1>2, Zenon DEF EarnInv, EarnKept, SuccessIsEarned, Good
  <1> QED
    BY <1>3, <1>4, <1>5, Zenon DEF EarnInv

\* A mapped status is a success only if the status mapped is that success.
LEMMA MapsKeepSuccess ==
  /\ \A s : ActionStatusOf(s) \in Good => s \in Good
  /\ \A r, s : JobStatusOf(r, s) \in Good => r \in Good \/ s \in Good
  /\ \A k \in Keys : AttachTarget(k) \in Good => job[k] \in Good
  BY Zenon DEF ActionStatusOf, JobStatusOf, AttachTarget, Good, Open

\* The worker's actions
LEMMA EarnWorker ==
  ASSUME TypeOK, EarnInv, NEW w \in Workers, WorkerStep(w) \/ Raise(w) \/ Crash(w)
  PROVE  EarnKept
  <1> USE DEF dbVars, histVars, Goto
  <1>0. /\ cur[w] \in Actions /\ KeyAt(w) \in Keys
        /\ \A v \in Workers : KeyAt(v) \in Keys
    BY ActionConstants, Zenon DEF ActionConstants, TypeOK, KeyAt
  <1>t. /\ pc \in [Workers -> Places] /\ res \in [Workers -> Results \cup JobStatuses]
        /\ action \in [Actions -> ActionStatuses] /\ job \in [Keys -> JobStatuses]
        /\ effect \in [Keys -> BOOLEAN] /\ cur \in [Workers -> Actions]
    BY Zenon DEF TypeOK, Places, ActionStatuses
  <1>1. ASSUME NEW a \in Actions, Claim(w, a) PROVE EarnKept
    <2>1. /\ \A v \in Workers : pc'[v] \in Holding => v # w
          /\ \A v \in Workers : v # w => (pc'[v] = pc[v] /\ KeyAt(v)' = KeyAt(v))
      BY <1>1, <1>t, Zenon DEF Claim, Holding, KeyAt
    <2>2. \A b \in Actions : action'[b] \in Good => action[b] \in Good
      BY <1>1, <1>t, Zenon DEF Claim, Good
    <2>3. UNCHANGED <<job, effect, human, res>>
      BY <1>1, Zenon DEF Claim
    <2> QED
      BY <2>1, <2>2, <2>3, Zenon DEF EarnKept
  <1>2. CASE Attach(w)
    <2>1. /\ UNCHANGED <<job, effect, human, res, cur>>
          /\ pc' = [pc EXCEPT ![w] = "idle"] \/ pc' = [pc EXCEPT ![w] = "fail"]
      BY <1>2, Zenon DEF Attach
    <2>2. \/ action' = action
          \/ action' = [action EXCEPT ![cur[w]] = AttachTarget(KeyAt(w))]
      BY <1>2, Zenon DEF Attach, KeyAt
    <2>3. \A v \in Workers : pc'[v] \in Holding => pc[v] \in Holding
      BY <2>1, <1>t, Zenon DEF Holding
    <2>4. AttachTarget(KeyAt(w)) \in Good => effect[KeyAt(w)]
      BY <1>0, MapsKeepSuccess, Zenon DEF EarnInv
    <2>5. \A b \in Actions : action'[b] \in Good => action[b] \in Good \/ effect[KeyOf[b]]
      BY <1>0, <1>t, <2>2, <2>4, Zenon DEF KeyAt
    <2> QED
      BY <2>1, <2>3, <2>5, Zenon DEF EarnKept, KeyAt
  <1>3. CASE InsertJob(w)
    <2>1. /\ UNCHANGED <<action, effect, human, res, cur>>
          /\ pc' = [pc EXCEPT ![w] = "idle"] \/ pc' = [pc EXCEPT ![w] = "call"]
          /\ job' = [job EXCEPT ![KeyAt(w)] = "running"]
      BY <1>3, Zenon DEF InsertJob, KeyAt
    <2>2. \A v \in Workers : pc'[v] \in Holding => pc[v] \in Holding
      BY <2>1, <1>t, Zenon DEF Holding
    <2>3. \A k \in Keys : job'[k] \in Good => job[k] \in Good
      BY <2>1, <1>t, Zenon DEF Good
    <2> QED
      BY <2>1, <2>2, <2>3, Zenon DEF EarnKept, KeyAt
  <1>4. ASSUME NEW r \in Results, NEW done \in BOOLEAN, CallTool(w, r, done) PROVE EarnKept
    <2>1. /\ UNCHANGED <<action, job, human, cur>> /\ (r \in Good => done)
          /\ effect' = [effect EXCEPT ![KeyAt(w)] = @ \/ done]
          /\ res' = [res EXCEPT ![w] = r]
          /\ \E l : pc' = [pc EXCEPT ![w] = l]
      BY <1>4, Zenon DEF CallTool, KeyAt, Good
    <2>2. \A k \in Keys : effect[k] => effect'[k]
      BY <2>1, <1>t, Zenon
    <2>3. \A v \in Workers : (pc'[v] \in Holding /\ res'[v] \in Good) =>
             (effect'[KeyAt(v)] \/ (pc[v] \in Holding /\ res[v] \in Good))
      BY <2>1, <1>0, <1>t, Zenon
    <2> QED
      BY <2>1, <2>2, <2>3, Zenon DEF EarnKept, KeyAt
  <1>5. CASE CallRefused(w)
    <2>1. UNCHANGED <<action, job, effect, human, cur, res>> /\ pc' = [pc EXCEPT ![w] = "final"]
      BY <1>5, Zenon DEF CallRefused
    <2>2. \A v \in Workers : pc'[v] \in Holding => pc[v] \in Holding
      BY <2>1, <1>t, Zenon DEF Holding
    <2> QED
      BY <2>1, <2>2, Zenon DEF EarnKept, KeyAt
  <1>6. CASE ReadJob(w)
    <2>1. UNCHANGED <<action, job, effect, human, cur>>
      BY <1>6, Zenon DEF ReadJob
    <2>2. \/ /\ pc[w] = "store" /\ pc' = [pc EXCEPT ![w] = "cas"]
             /\ res' = res
          \/ /\ pc' = [pc EXCEPT ![w] = "mock"]
             /\ res' = res
          \/ /\ pc' = [pc EXCEPT ![w] = "settle"]
             /\ res' = [res EXCEPT ![w] = job[KeyAt(w)]]
      BY <1>6, Zenon DEF ReadJob, KeyAt
    <2>3. \A v \in Workers : (pc'[v] \in Holding /\ res'[v] \in Good) =>
             (effect[KeyAt(v)] \/ (pc[v] \in Holding /\ res[v] \in Good))
      BY <2>2, <1>0, <1>t, Zenon DEF Holding, EarnInv
    <2> QED
      BY <2>1, <2>3, Zenon DEF EarnKept, KeyAt
  <1>7. CASE WriteJob(w)
    <2>1. /\ UNCHANGED <<action, effect, human, cur, res>> /\ pc[w] = "cas"
          /\ pc' = [pc EXCEPT ![w] = "final"]
      BY <1>7, Zenon DEF WriteJob
    <2>2. \/ job' = job
          \/ /\ job' = [job EXCEPT ![KeyAt(w)] = JobStatusOf(res[w], snap[w].status)]
             /\ job[KeyAt(w)] = snap[w].status
      BY <1>7, Zenon DEF WriteJob, CasJob, KeyAt
    <2>3. JobStatusOf(res[w], snap[w].status) \in Good
            => (effect[KeyAt(w)] \/ snap[w].status \in Good)
      BY <2>1, MapsKeepSuccess, Zenon DEF EarnInv, Holding
    <2>4. \A k \in Keys : job'[k] \in Good => job[k] \in Good \/ effect[k]
      BY <2>2, <2>3, <1>0, <1>t, Zenon
    <2>5. \A v \in Workers : pc'[v] \in Holding => pc[v] \in Holding
      BY <2>1, <1>t, Zenon DEF Holding
    <2> QED
      BY <2>1, <2>4, <2>5, Zenon DEF EarnKept, KeyAt
  <1>8. ASSUME NEW to \in {"success", "partial_success", "failed", "unknown"},
               MockFinalize(w, to)
        PROVE  EarnKept
    <2>1. /\ UNCHANGED <<action, human, cur>> /\ pc' = [pc EXCEPT ![w] = "settle"]
          /\ res' = [res EXCEPT ![w] = to]
          /\ effect' = [effect EXCEPT ![KeyAt(w)] = @ \/ to \in Good]
      BY <1>8, Zenon DEF MockFinalize, KeyAt, Good
    <2>2. job' = job \/ job' = [job EXCEPT ![KeyAt(w)] = to]
      BY <1>8, Zenon DEF MockFinalize, CasJob, KeyAt
    <2>3. \A k \in Keys : /\ effect[k] => effect'[k]
                          /\ job'[k] \in Good => job[k] \in Good \/ effect'[k]
      BY <2>1, <2>2, <1>0, <1>t, Zenon
    <2>4. \A v \in Workers : (pc'[v] \in Holding /\ res'[v] \in Good) =>
             (effect'[KeyAt(v)] \/ (pc[v] \in Holding /\ res[v] \in Good))
      BY <2>1, <1>0, <1>t, Zenon
    <2> QED
      BY <2>1, <2>3, <2>4, Zenon DEF EarnKept, KeyAt
  <1>9. CASE Settle(w)
    <2>1. /\ UNCHANGED <<job, effect, human, cur, res>> /\ pc[w] = "settle"
          /\ \E l \in {"record", "idle", "fail"} : pc' = [pc EXCEPT ![w] = l]
      BY <1>9, Zenon DEF Settle
    <2>2. action' = action \/ action' = [action EXCEPT ![cur[w]] = ActionStatusOf(res[w])]
      BY <1>9, Zenon DEF Settle
    <2>3. ActionStatusOf(res[w]) \in Good => effect[KeyAt(w)]
      BY <2>1, MapsKeepSuccess, Zenon DEF EarnInv, Holding
    <2>4. \A b \in Actions : action'[b] \in Good => action[b] \in Good \/ effect[KeyOf[b]]
      BY <1>0, <1>t, <2>2, <2>3, Zenon DEF KeyAt
    <2>5. \A v \in Workers : pc'[v] \in Holding => pc[v] \in Holding
      BY <2>1, <1>t, Zenon DEF Holding
    <2> QED
      BY <2>1, <2>4, <2>5, Zenon DEF EarnKept, KeyAt
  <1>10. CASE Record(w) \/ FailExecuting(w) \/ Raise(w) \/ Crash(w)
    <2>1. /\ UNCHANGED <<job, effect, human, cur, res>>
          /\ pc' = [pc EXCEPT ![w] = "idle"] \/ pc' = [pc EXCEPT ![w] = "fail"]
      BY <1>10, Zenon DEF Record, FailExecuting, Raise, Crash
    <2>2. action' = action \/ (action' = [action EXCEPT ![cur[w]] =
                                            IF @ = "executing" THEN "failed" ELSE @])
      BY <1>10, Zenon DEF Record, FailExecuting, Raise, Crash
    <2>3. \A b \in Actions : action'[b] \in Good => action[b] \in Good
      BY <2>2, <1>0, <1>t, Zenon DEF Good
    <2>4. \A v \in Workers : pc'[v] \in Holding => pc[v] \in Holding
      BY <2>1, <1>t, Zenon DEF Holding
    <2> QED
      BY <2>1, <2>3, <2>4, Zenon DEF EarnKept, KeyAt
  <1> QED
    BY <1>1, <1>2, <1>3, <1>4, <1>5, <1>6, <1>7, <1>8, <1>9, <1>10, Zenon DEF WorkerStep

\* The reclaim, the receipts, the operators and time
LEMMA EarnOthers ==
  ASSUME TypeOK, EarnInv,
         \/ \E stale \in SUBSET Actions : Reconcile(stale)
         \/ \E a \in Actions : \E to \in Done : ResolveUnknown(a, to)
         \/ \E a \in Actions : \E s \in Done \cup {"accepted", "unknown"} : Receipt(a, s)
         \/ \E k \in Keys : LeaseExpires(k)
         \/ UNCHANGED vars
  PROVE  EarnKept
  <1> USE DEF procVars, histVars
  <1>t. /\ action \in [Actions -> ActionStatuses] /\ job \in [Keys -> JobStatuses]
        /\ effect \in [Keys -> BOOLEAN] /\ \A a \in Actions : KeyOf[a] \in Keys
    BY ActionConstants, Zenon DEF ActionConstants, TypeOK, ActionStatuses
  <1>1. ASSUME NEW stale \in SUBSET Actions, Reconcile(stale) PROVE EarnKept
    <2>1. \A k \in Keys : JobReclaimed(k) \in Good => job[k] \in Good
      BY Zenon DEF JobReclaimed, Good
    <2>2. ASSUME NEW a \in Actions
          PROVE  ActionReclaimed(a, stale) \in Good => action[a] \in Good \/ effect[KeyOf[a]]
      <3>1. ActionReclaimed(a, stale)
              \in {"failed", action[a], ActionStatusOf(JobReclaimed(KeyOf[a])), "executing",
                   "approved"}
        BY Zenon DEF ActionReclaimed
      <3>2. ActionStatusOf(JobReclaimed(KeyOf[a])) \in Good => effect[KeyOf[a]]
        BY <1>t, <2>1, MapsKeepSuccess, Zenon DEF EarnInv
      <3> QED
        BY <3>1, <3>2, Zenon DEF Good
    <2>3. /\ action' = [a \in Actions |-> ActionReclaimed(a, stale)]
          /\ job' = [k \in Keys |-> JobReclaimed(k)]
          /\ UNCHANGED <<pc, cur, res, effect, human>>
      BY <1>1, Zenon DEF Reconcile
    <2> QED
      BY <2>1, <2>2, <2>3, Zenon DEF EarnKept, KeyAt
  <1>2. ASSUME NEW a \in Actions, NEW to \in Done, ResolveUnknown(a, to) PROVE EarnKept
    BY <1>2, <1>t, Zenon DEF ResolveUnknown, EarnKept, KeyAt
  <1>3. ASSUME NEW a \in Actions, NEW s \in Done \cup {"accepted", "unknown"}, Receipt(a, s)
        PROVE  EarnKept
    <2>1. UNCHANGED <<pc, cur, res, human>>
      BY <1>3, Zenon DEF Receipt
    <2>2. effect' = [effect EXCEPT ![KeyOf[a]] = @ \/ (a \notin Direct /\ s \in Good)]
      BY <1>3, Zenon DEF Receipt, Good
    <2>3. \/ action' = action /\ job' = job
          \/ /\ a \notin Direct
             /\ action' = [action EXCEPT ![a] = IF @ = "executing" THEN s ELSE @]
             /\ job' = [job EXCEPT ![KeyOf[a]] = s]
      BY <1>3, Zenon DEF Receipt
    <2>4. \A k \in Keys : /\ effect[k] => effect'[k]
                          /\ job'[k] \in Good => job[k] \in Good \/ effect'[k]
      BY <1>t, <2>2, <2>3, Zenon
    <2>5. \A b \in Actions : action'[b] \in Good => action[b] \in Good \/ effect'[KeyOf[b]]
      BY <1>t, <2>2, <2>3, Zenon
    <2> QED
      BY <2>1, <2>4, <2>5, Zenon DEF EarnKept, KeyAt
  <1>4. ASSUME NEW k \in Keys, LeaseExpires(k) PROVE EarnKept
    BY <1>4, Zenon DEF LeaseExpires, EarnKept, KeyAt
  <1>5. CASE UNCHANGED vars
    BY <1>5, Zenon DEF vars, dbVars, EarnKept, KeyAt
  <1> QED
    BY <1>1, <1>2, <1>3, <1>4, <1>5, Zenon

\* SUCCESS and PARTIAL_SUCCESS are earned, for any number of actions, workers,
\* attempts, deaths and errors: the reclaim, the attach and the result a worker
\* carries across its transactions never make a success of anything but the
\* provider's execution or an operator's word (_reclaim_stale_executing_action,
\* _attach_existing_job, _cas_writeback_job, _apply_receipt_execution_projection).
THEOREM SuccessEarned == Spec => []SuccessIsEarned
  <1>1. Init => EarnInv
    BY DEF Init, EarnInv, Good, Holding, SuccessIsEarned
  <1>2. TypeOK /\ EarnInv /\ [Next]_vars => EarnInv'
    <2> SUFFICES ASSUME TypeOK, EarnInv, [Next]_vars PROVE EarnInv'
      OBVIOUS
    <2>1. ASSUME NEW w \in Workers, WorkerStep(w) \/ Raise(w) \/ Crash(w) PROVE EarnInv'
      BY <2>1, EarnWorker, EarnFrame, Zenon
    <2> QED
      BY <2>1, EarnOthers, EarnFrame, Zenon DEF Next
  <1>3. EarnInv => SuccessIsEarned
    BY Zenon DEF EarnInv
  <1> QED
    BY <1>1, <1>2, <1>3, ActionTypes, PTL DEF Spec

-----------------------------------------------------------------------------
(* Only success is recorded                                                *)

\* A worker about to record holds a successful action.
RecordInv ==
    /\ OnlySuccessIsRecorded
    /\ \A w \in Workers : pc[w] = "record" => action[cur[w]] \in Good

\* A successful action is never anything but successful again: the table of
\* status transitions has no edge out of a success.
LEMMA GoodStays ==
  ASSUME TypeOK, [Next]_vars, NEW a \in Actions, action[a] \in Good
  PROVE  action'[a] \in Good
  <1> USE DEF Good
  <1>t. action \in [Actions -> ActionStatuses] /\ cur \in [Workers -> Actions]
    BY Zenon DEF TypeOK, ActionStatuses
  <1>1. \A t : ActionEdge(action[a], t) => FALSE
    BY Zenon DEF ActionEdge
  <1>2. ASSUME NEW w \in Workers, WorkerStep(w) \/ Raise(w) \/ Crash(w)
        PROVE  action'[a] \in Good
    <2>1. ASSUME NEW b \in Actions, Claim(w, b) PROVE action'[a] \in Good
      BY <2>1, <1>t, Zenon DEF Claim
    <2>2. CASE Attach(w)
      <3>1. \/ action' = action
            \/ /\ action' = [action EXCEPT ![cur[w]] = AttachTarget(KeyOf[cur[w]])]
               /\ \/ ActionEdge(action[cur[w]], AttachTarget(KeyOf[cur[w]]))
                  \/ AttachTarget(KeyOf[cur[w]]) = action[cur[w]]
        BY <2>2, Zenon DEF Attach, AttachAllowed
      <3> QED
        BY <1>1, <1>t, <3>1, Zenon
    <2>3. CASE Settle(w)
      <3>1. \/ action' = action
            \/ /\ action' = [action EXCEPT ![cur[w]] = ActionStatusOf(res[w])]
               /\ \/ ActionEdge(action[cur[w]], ActionStatusOf(res[w]))
                  \/ ActionStatusOf(res[w]) = action[cur[w]]
        BY <2>3, Zenon DEF Settle
      <3> QED
        BY <1>1, <1>t, <3>1, Zenon
    <2>4. CASE FailExecuting(w)
      BY <2>4, <1>t, Zenon DEF FailExecuting
    <2>5. CASE \/ InsertJob(w) \/ CallRefused(w) \/ ReadJob(w) \/ WriteJob(w) \/ Record(w)
               \/ Raise(w) \/ Crash(w)
               \/ \E r \in Results, done \in BOOLEAN : CallTool(w, r, done)
               \/ \E to \in {"success", "partial_success", "failed", "unknown"} :
                    MockFinalize(w, to)
      <3>1. action' = action
        BY <2>5, Zenon DEF InsertJob, CallRefused, ReadJob, WriteJob, Record, Raise, Crash, CallTool,
                    MockFinalize, dbVars
      <3> QED
        BY <3>1, Zenon
    <2> QED
      BY <1>2, <2>1, <2>2, <2>3, <2>4, <2>5, Zenon DEF WorkerStep
  <1>3. ASSUME NEW stale \in SUBSET Actions, Reconcile(stale) PROVE action'[a] \in Good
    <2>1. ActionReclaimed(a, stale) = action[a]
      <3>1. action[a] # "executing" /\ a \notin FailedWithJob
        BY Zenon DEF FailedWithJob
      <3> QED
        BY <3>1, Zenon DEF ActionReclaimed
    <2> QED
      BY <1>3, <2>1, Zenon DEF Reconcile
  <1>4. ASSUME NEW b \in Actions, NEW to \in Done, ResolveUnknown(b, to)
        PROVE  action'[a] \in Good
    BY <1>4, <1>t, Zenon DEF ResolveUnknown
  <1>5. ASSUME NEW b \in Actions, NEW s \in Done \cup {"accepted", "unknown"}, Receipt(b, s)
        PROVE  action'[a] \in Good
    <2>1. \/ action' = action
          \/ action' = [action EXCEPT ![b] = IF @ = "executing" THEN s ELSE @]
      BY <1>5, Zenon DEF Receipt
    <2> QED
      BY <2>1, <1>t, Zenon
  <1>6. ASSUME NEW k \in Keys, LeaseExpires(k) PROVE action'[a] \in Good
    BY <1>6, Zenon DEF LeaseExpires
  <1>7. CASE UNCHANGED vars
    BY <1>7, Zenon DEF vars, dbVars
  <1> QED
    BY <1>2, <1>3, <1>4, <1>5, <1>6, <1>7, Zenon DEF Next

\* The result of a direct action reaches the outbox only from a successful
\* action, for any number of workers and however late one is: the worker that
\* records has seen the action take its success, and a success stays
\* (_execute_direct_tool, ACTION_STATUS_TRANSITIONS_BY_CATEGORY).
THEOREM RecordsSuccess == Spec => []OnlySuccessIsRecorded
  <1>1. Init => RecordInv
    BY ActionConstants DEF ActionConstants, Init, RecordInv, OnlySuccessIsRecorded
  <1>2. TypeOK /\ RecordInv /\ [Next]_vars => RecordInv'
    <2> SUFFICES ASSUME TypeOK, RecordInv, [Next]_vars PROVE RecordInv'
      OBVIOUS
    <2>t. /\ pc \in [Workers -> Places] /\ outbox \in [Actions -> {"none", "active", "settled"}]
          /\ action \in [Actions -> ActionStatuses] /\ cur \in [Workers -> Actions]
          /\ Direct \subseteq Actions
      BY ActionConstants, Zenon DEF ActionConstants, TypeOK, Places, ActionStatuses
    <2>1. ASSUME \A w \in Workers : pc'[w] = "record" => (pc[w] = "record" /\ cur'[w] = cur[w]),
                 \A a \in Direct : outbox'[a] # "none" =>
                    (outbox[a] # "none" \/ \E w \in Workers : pc[w] = "record" /\ cur[w] = a)
          PROVE  RecordInv'
      BY <2>1, <2>t, GoodStays DEF RecordInv, OnlySuccessIsRecorded, Good
    <2>2. ASSUME NEW w \in Workers, Settle(w) PROVE RecordInv'
      <3> DEFINE s == ActionStatusOf(res[w])
      <3>1. /\ outbox' = outbox /\ cur' = cur
            /\ \/ /\ pc' = [pc EXCEPT ![w] = "record"]
                  /\ s \in Good /\ action' = [action EXCEPT ![cur[w]] = s]
               \/ pc' = [pc EXCEPT ![w] = "idle"]
               \/ pc' = [pc EXCEPT ![w] = "fail"]
        BY <2>2, Zenon DEF Settle, Recordable, Goto, Good
      <3> HIDE DEF s
      <3>2. \A v \in Workers : pc'[v] = "record" => action'[cur[v]] \in Good
        BY <2>t, <3>1, GoodStays, Zenon DEF RecordInv
      <3>3. \A a \in Direct : outbox[a] # "none" => action'[a] \in Good
        BY <2>t, GoodStays, Zenon DEF RecordInv, OnlySuccessIsRecorded, Good
      <3> QED
        BY <3>1, <3>2, <3>3, Zenon DEF RecordInv, OnlySuccessIsRecorded, Good
    <2>3. ASSUME NEW w \in Workers, Record(w) PROVE RecordInv'
      BY <2>1, <2>3, <2>t, Zenon DEF Record, Goto
    <2>4. ASSUME NEW w \in Workers, InsertJob(w) PROVE RecordInv'
      <3>1. /\ cur' = cur
            /\ \/ pc' = [pc EXCEPT ![w] = "call"] /\ outbox' = outbox
               \/ /\ pc' = [pc EXCEPT ![w] = "idle"]
                  /\ cur[w] \notin Direct /\ outbox' = [outbox EXCEPT ![cur[w]] = "active"]
        BY <2>4, Zenon DEF InsertJob, Goto
      <3> QED
        BY <2>1, <2>t, <3>1, Zenon
    <2>5. ASSUME NEW w \in Workers, NEW a \in Actions, Claim(w, a) PROVE RecordInv'
      BY <2>1, <2>5, <2>t, Zenon DEF Claim, Goto
    <2>6. ASSUME NEW w \in Workers,
                 \/ Attach(w) \/ CallRefused(w) \/ ReadJob(w) \/ WriteJob(w) \/ FailExecuting(w)
                 \/ Raise(w) \/ Crash(w)
                 \/ \E r \in Results, done \in BOOLEAN : CallTool(w, r, done)
                 \/ \E to \in {"success", "partial_success", "failed", "unknown"} :
                      MockFinalize(w, to)
          PROVE  RecordInv'
      <3>1. /\ cur' = cur /\ outbox' = outbox
            /\ \E l \in Places \ {"record"} : pc' = [pc EXCEPT ![w] = l]
        BY <2>6, Zenon DEF Attach, CallRefused, ReadJob, WriteJob, FailExecuting, Raise, Crash,
                    CallTool, MockFinalize, Goto, dbVars, Places
      <3> QED
        BY <2>1, <2>t, <3>1, Zenon
    <2>7. ASSUME NEW a \in Actions, NEW s \in Done \cup {"accepted", "unknown"}, Receipt(a, s)
          PROVE  RecordInv'
      <3>1. /\ pc' = pc /\ cur' = cur /\ outbox[a] # "none"
            /\ \E l : outbox' = [outbox EXCEPT ![a] = l]
        BY <2>7, Zenon DEF Receipt, procVars
      <3> QED
        BY <2>1, <2>t, <3>1, Zenon
    <2>8. CASE \/ \E stale \in SUBSET Actions : Reconcile(stale)
               \/ \E a \in Actions : \E to \in Done : ResolveUnknown(a, to)
               \/ \E k \in Keys : LeaseExpires(k)
               \/ UNCHANGED vars
      <3>1. pc' = pc /\ cur' = cur /\ outbox' = outbox
        BY <2>8, Zenon DEF Reconcile, ResolveUnknown, LeaseExpires, vars, dbVars, procVars
      <3> QED
        BY <2>1, <3>1, Zenon
    <2> QED
      BY <2>2, <2>3, <2>4, <2>5, <2>6, <2>7, <2>8, Zenon DEF Next, WorkerStep
  <1>3. RecordInv => OnlySuccessIsRecorded
    BY Zenon DEF RecordInv
  <1> QED
    BY <1>1, <1>2, <1>3, ActionTypes, PTL DEF Spec

-----------------------------------------------------------------------------
(* A finished job is final                                                 *)

\* Places of a worker whose result is not yet on the job
Early == {"call", "store", "cas"}

\* Reclaiming takes the lease away for good, so no job that is reclaimed is at its
\* last attempt.
AttemptInv ==
    /\ \A k \in Keys : job[k] = "absent" \/ leased[k] => attempt[k] = 1
    /\ \A w \in Workers : snap[w].leased => snap[w].attempt = 1

\* Only the worker that inserted a job, or the receipt of the command enqueued
\* with it, writes its result: one writer per key,
WriterInv ==
    /\ \A w \in Workers : pc[w] \in PastInsert \cup {"record"} => cur[w] \in Direct
    /\ \A w \in Workers : pc[w] \in PastInsert => jobAction[KeyAt(w)] = cur[w]
    /\ \A w, v \in Workers :
          (pc[w] \in PastInsert /\ pc[v] \in PastInsert /\ KeyAt(w) = KeyAt(v)) => w = v

\* whose job is not finished before the worker writes,
EarlyInv ==
    /\ \A w \in Workers : pc[w] = "mock" => snap[w].status \in Open
    /\ \A w \in Workers : pc[w] \in Early => job[KeyAt(w)] \notin Finished

\* nor before the receipt.
ReceiptInv ==
    \A a \in Actions \ Direct : outbox[a] = "active" =>
        jobAction[KeyOf[a]] = a /\ job[KeyOf[a]] \notin Finished \cup {"absent"}

FinalInv == AttemptInv /\ WriterInv /\ EarlyInv /\ ReceiptInv

\* A step that gives no key a new writer and finishes no job under one.
FinalQuiet ==
    /\ jobAction' = jobAction
    /\ \A k \in Keys : job'[k] = "absent" \/ leased'[k] => attempt'[k] = 1
    /\ \A w \in Workers : snap'[w].leased => snap'[w].attempt = 1
    /\ \A w \in Workers : pc'[w] = "mock" => snap'[w].status \in Open
    /\ \A w \in Workers : pc'[w] \in PastInsert => pc[w] \in PastInsert /\ cur'[w] = cur[w]
    /\ \A w \in Workers : pc'[w] = "record" => pc[w] \in PastInsert \cup {"record"} /\ cur'[w] = cur[w]
    /\ \A w \in Workers : pc'[w] \in Early =>
          pc[w] \in Early /\ (job'[KeyAt(w)] \in Finished => job[KeyAt(w)] \in Finished)
    /\ \A a \in Actions \ Direct : outbox'[a] = "active" =>
          /\ outbox[a] = "active"
          /\ job'[KeyOf[a]] \in Finished \cup {"absent"} => job[KeyOf[a]] \in Finished \cup {"absent"}

\* A quiet step keeps the invariant.
LEMMA FinalFrame == TypeOK /\ FinalInv /\ FinalQuiet => FinalInv'
  <1> SUFFICES ASSUME TypeOK, FinalInv, FinalQuiet PROVE FinalInv'
    OBVIOUS
  <1>1. \A w \in Workers : pc'[w] \in PastInsert => KeyAt(w)' = KeyAt(w)
    BY Zenon DEF FinalQuiet, KeyAt
  <1>2. Early \subseteq PastInsert
    BY Zenon DEF Early, PastInsert
  <1>3. AttemptInv'
    BY Zenon DEF FinalQuiet, AttemptInv
  <1>4. WriterInv'
    <2>1. \A w \in Workers : /\ pc'[w] \in PastInsert => pc[w] \in PastInsert /\ cur'[w] = cur[w]
                             /\ pc'[w] = "record" => /\ pc[w] \in PastInsert \cup {"record"}
                                                     /\ cur'[w] = cur[w]
      BY Zenon DEF FinalQuiet
    <2>2. jobAction' = jobAction
      BY Zenon DEF FinalQuiet
    <2>3. \A w \in Workers : pc'[w] \in PastInsert \cup {"record"} => cur'[w] \in Direct
      BY <2>1, Zenon DEF FinalInv, WriterInv
    <2>4. \A w \in Workers : pc'[w] \in PastInsert => jobAction'[KeyAt(w)'] = cur'[w]
      BY <1>1, <2>1, <2>2, Zenon DEF FinalInv, WriterInv
    <2>5. \A w, v \in Workers :
            (pc'[w] \in PastInsert /\ pc'[v] \in PastInsert /\ KeyAt(w)' = KeyAt(v)') => w = v
      BY <1>1, <2>1, Zenon DEF FinalInv, WriterInv
    <2> QED
      BY <2>3, <2>4, <2>5, Zenon DEF WriterInv
  <1>5. EarlyInv'
    <2>1. \A w \in Workers : pc'[w] \in Early =>
            pc[w] \in Early /\ (job'[KeyAt(w)] \in Finished => job[KeyAt(w)] \in Finished)
      BY Zenon DEF FinalQuiet
    <2>2. \A w \in Workers : pc'[w] = "mock" => snap'[w].status \in Open
      BY Zenon DEF FinalQuiet
    <2> QED
      BY <1>1, <1>2, <2>1, <2>2, Zenon DEF FinalInv, EarlyInv
  <1>6. ReceiptInv'
    <2>1. jobAction' = jobAction
          /\ \A a \in Actions \ Direct : outbox'[a] = "active" =>
                /\ outbox[a] = "active"
                /\ job'[KeyOf[a]] \in Finished \cup {"absent"} => job[KeyOf[a]] \in Finished \cup {"absent"}
      BY Zenon DEF FinalQuiet
    <2> QED
      BY <2>1, Zenon DEF FinalInv, ReceiptInv
  <1> QED
    BY <1>3, <1>4, <1>5, <1>6, Zenon DEF FinalInv

\* A step that leaves the jobs alone and moves no worker into the work on one.
LEMMA FinalAside ==
  ASSUME TypeOK, FinalInv,
         UNCHANGED <<job, jobAction, leased, attempt>>,
         \A a \in Actions \ Direct : outbox'[a] = "active" => outbox[a] = "active",
         \A w \in Workers : snap'[w] = snap[w] \/ (snap'[w].leased => snap'[w].attempt = 1),
         \A w \in Workers :
            \/ pc'[w] \notin PastInsert \cup {"record"}
            \/ /\ cur'[w] = cur[w]
               /\ pc'[w] \in PastInsert => pc[w] \in PastInsert
               /\ pc'[w] = "record" => pc[w] \in PastInsert \cup {"record"}
               /\ pc'[w] \in Early => pc[w] \in Early
               /\ pc'[w] = "mock" => \/ pc[w] = "mock" /\ snap'[w] = snap[w]
                                     \/ snap'[w].status \in Open
  PROVE  FinalInv'
  <1>1. /\ \A k \in Keys : job'[k] = "absent" \/ leased'[k] => attempt'[k] = 1
        /\ \A w \in Workers : snap'[w].leased => snap'[w].attempt = 1
    BY Zenon DEF FinalInv, AttemptInv
  <1>2. "mock" \in PastInsert /\ Early \subseteq PastInsert
    BY Zenon DEF Early, PastInsert
  <1>3. \A w \in Workers : pc'[w] = "mock" => snap'[w].status \in Open
    BY <1>2, Zenon DEF FinalInv, EarlyInv
  <1>4. \A w \in Workers :
          /\ pc'[w] \in PastInsert => pc[w] \in PastInsert /\ cur'[w] = cur[w]
          /\ pc'[w] = "record" => pc[w] \in PastInsert \cup {"record"} /\ cur'[w] = cur[w]
          /\ pc'[w] \in Early => pc[w] \in Early
    BY <1>2, Zenon
  <1>5. FinalQuiet
    BY <1>1, <1>3, <1>4, Zenon DEF FinalQuiet
  <1> QED
    BY <1>5, FinalFrame, Zenon

\* The compare-and-set of the worker that holds the key.
LEMMA FinalCas ==
  ASSUME TypeOK, OnceInv, FinalInv, NEW w \in Workers, pc[w] \in {"cas", "mock"}, NEW to,
         CasJob(w, to), to = "absent" => snap[w].status = "absent",
         pc' = [pc EXCEPT ![w] = "final"] \/ pc' = [pc EXCEPT ![w] = "settle"],
         UNCHANGED <<jobAction, outbox, cur, snap>>
  PROVE  /\ FinalInv'
         /\ \A k \in Keys : job[k] \in Finished => job'[k] = job[k]
  <1>1. /\ KeyAt(w) \in Keys /\ job[KeyAt(w)] # "absent" /\ pc[w] \in PastInsert
        /\ DOMAIN job = Keys /\ DOMAIN leased = Keys /\ DOMAIN attempt = Keys /\ DOMAIN pc = Workers
        /\ \A v \in Workers : KeyAt(v)' = KeyAt(v)
    BY ActionConstants, Zenon DEF ActionConstants, TypeOK, KeyAt, OnceInv, PastInsert
  <1>2. \/ UNCHANGED <<job, leased, attempt>>
        \/ /\ job[KeyAt(w)] = snap[w].status /\ job' = [job EXCEPT ![KeyAt(w)] = to]
           /\ leased' = [leased EXCEPT ![KeyAt(w)] = snap[w].leased]
           /\ attempt' = [attempt EXCEPT ![KeyAt(w)] = snap[w].attempt]
    BY Zenon DEF CasJob, KeyAt
  <1>3. job[KeyAt(w)] = snap[w].status => job[KeyAt(w)] \notin Finished
    BY Zenon DEF FinalInv, EarlyInv, Early, Open, Finished
  <1>4. \A a \in Actions \ Direct : outbox[a] = "active" => KeyOf[a] # KeyAt(w)
    BY <1>1 DEF FinalInv, WriterInv, ReceiptInv
  <1>5. \A v \in Workers : pc'[v] \in Early => pc[v] \in Early /\ KeyAt(v) # KeyAt(w)
    <2>1. \A v \in Workers : pc'[v] \in Early => v # w /\ pc[v] \in Early /\ pc[v] \in PastInsert
      BY <1>1, Zenon DEF Early, PastInsert
    <2> QED
      BY <1>1, <2>1, Zenon DEF FinalInv, WriterInv
  <1>6. /\ \A v \in Workers : pc'[v] \in PastInsert => pc[v] \in PastInsert
        /\ \A v \in Workers : pc'[v] \in {"mock", "record"} => pc'[v] = pc[v]
    BY <1>1, Zenon DEF PastInsert
  <1>7. \A k \in Keys : job'[k] = "absent" \/ leased'[k] => attempt'[k] = 1
    BY <1>1, <1>2, ZenonT(30) DEF FinalInv, AttemptInv
  <1>8. \A k \in Keys : k # KeyAt(w) => job'[k] = job[k]
    BY <1>1, <1>2, Zenon
  <1>9. \A a \in Actions : KeyOf[a] \in Keys
    BY ActionConstants, Zenon
  <1>10. \A v \in Workers : KeyAt(v) \in Keys
    BY ActionConstants, Zenon DEF TypeOK, KeyAt
  <1>11. FinalQuiet
    <2>1. \A v \in Workers : /\ pc'[v] = "mock" => snap'[v].status \in Open
                             /\ snap'[v].leased => snap'[v].attempt = 1
      BY <1>6, Zenon DEF FinalInv, EarlyInv, AttemptInv
    <2>2. \A v \in Workers : pc'[v] \in Early => pc[v] \in Early /\ job'[KeyAt(v)] = job[KeyAt(v)]
      BY <1>5, <1>8, <1>10, Zenon
    <2>3. \A a \in Actions \ Direct : outbox[a] = "active" => job'[KeyOf[a]] = job[KeyOf[a]]
      BY <1>4, <1>8, <1>9, Zenon
    <2> QED
      BY <1>6, <1>7, <2>1, <2>2, <2>3, Zenon DEF FinalQuiet
  <1>12. \A k \in Keys : job[k] \in Finished => job'[k] = job[k]
    BY <1>1, <1>2, <1>3, Zenon
  <1> QED
    BY <1>11, <1>12, FinalFrame, Zenon

\* The insert makes the worker, or the command, the one writer of the key.
LEMMA FinalInsert ==
  ASSUME TypeOK, OnceInv, FinalInv, NEW w \in Workers, InsertJob(w)
  PROVE  /\ FinalInv'
         /\ \A k \in Keys : job[k] \in Finished => job'[k] = job[k]
  <1> DEFINE a == cur[w]
             k == KeyOf[cur[w]]
  <1>1. /\ a \in Actions /\ k \in Keys /\ KeyAt(w) = k
        /\ DOMAIN job = Keys /\ DOMAIN leased = Keys /\ DOMAIN jobAction = Keys
        /\ DOMAIN pc = Workers /\ DOMAIN outbox = Actions
        /\ \A v \in Workers : KeyAt(v) \in Keys
        /\ \A b \in Actions : KeyOf[b] \in Keys
    BY ActionConstants, Zenon DEF ActionConstants, TypeOK, KeyAt
  <1>2. /\ job[k] = "absent" /\ pc[w] = "claimed" /\ job' = [job EXCEPT ![k] = "running"]
        /\ jobAction' = [jobAction EXCEPT ![k] = a]
        /\ leased' = [leased EXCEPT ![k] = TRUE]
        /\ UNCHANGED <<attempt, cur, snap>>
    BY Zenon DEF InsertJob
  <1>3. \/ /\ a \in Direct /\ pc' = [pc EXCEPT ![w] = "call"] /\ outbox' = outbox
        \/ /\ a \notin Direct /\ pc' = [pc EXCEPT ![w] = "idle"]
           /\ outbox' = [outbox EXCEPT ![a] = "active"]
    BY Zenon DEF InsertJob, Goto
  <1>4. /\ \A v \in Workers : pc[v] \in PastInsert => KeyAt(v) # k
        /\ \A b \in Actions \ Direct : outbox[b] = "active" => KeyOf[b] # k
        /\ \A v \in Workers : KeyAt(v)' = KeyAt(v)
    BY <1>2, Zenon DEF OnceInv, FinalInv, ReceiptInv, KeyAt
  <1> HIDE DEF a, k
  <1>5. \A v \in Workers :
          \/ v # w /\ pc'[v] = pc[v]
          \/ v = w /\ a \in Direct /\ pc'[v] = "call" /\ cur[v] = a /\ KeyAt(v) = k
          \/ v = w /\ pc'[v] = "idle"
    BY <1>1, <1>3, Zenon DEF a
  <1>6. \A v \in Workers : pc'[v] \in PastInsert => cur[v] \in Direct /\ jobAction'[KeyAt(v)] = cur[v]
    BY <1>1, <1>2, <1>4, <1>5, Zenon DEF FinalInv, WriterInv, PastInsert
  <1>7. \A u, v \in Workers :
          (pc'[u] \in PastInsert /\ pc'[v] \in PastInsert /\ KeyAt(u) = KeyAt(v)) => u = v
    BY <1>4, <1>5 DEF FinalInv, WriterInv, PastInsert
  <1>8. \A v \in Workers : pc'[v] \in Early => job'[KeyAt(v)] \notin Finished
    BY <1>1, <1>2, <1>5, Zenon DEF FinalInv, EarlyInv, Early, Finished
  <1>9. \A b \in Actions \ Direct : outbox'[b] = "active" =>
          jobAction'[KeyOf[b]] = b /\ job'[KeyOf[b]] \notin Finished \cup {"absent"}
    <2>1. KeyOf[a] = k
      BY Zenon DEF a, k
    <2>2. jobAction'[k] = a /\ job'[k] = "running"
          /\ \A j \in Keys \ {k} : jobAction'[j] = jobAction[j] /\ job'[j] = job[j]
      BY <1>1, <1>2, Zenon
    <2>3. \A b \in Actions \ Direct : outbox'[b] = "active" => b = a \/ outbox[b] = "active"
      BY <1>1, <1>3, Zenon
    <2> QED
      BY <1>1, <1>4, <2>1, <2>2, <2>3 DEF FinalInv, ReceiptInv, Finished
  <1>10. \A j \in Keys : job'[j] = "absent" \/ leased'[j] => attempt'[j] = 1
    BY <1>1, <1>2, Zenon DEF FinalInv, AttemptInv
  <1>11. \A v \in Workers : /\ pc'[v] = "mock" => snap'[v].status \in Open
                            /\ pc'[v] = "record" => cur[v] \in Direct
                            /\ snap'[v].leased => snap'[v].attempt = 1
    BY <1>2, <1>5, Zenon DEF FinalInv, AttemptInv, EarlyInv, WriterInv
  <1>12. cur' = cur
    BY <1>2, Zenon
  <1>13. FinalInv'
    <2>1. AttemptInv' /\ ReceiptInv'
      BY <1>9, <1>10, <1>11, Zenon DEF AttemptInv, ReceiptInv
    <2>2. WriterInv'
      BY <1>4, <1>6, <1>7, <1>11, <1>12 DEF WriterInv
    <2>3. EarlyInv'
      BY <1>4, <1>8, <1>11, Zenon DEF EarlyInv
    <2> QED
      BY <2>1, <2>2, <2>3, Zenon DEF FinalInv
  <1> QED
    BY <1>1, <1>2, <1>13, Zenon DEF Finished

\* The receipt of a managed command finds its own job unfinished.
LEMMA FinalReceipt ==
  ASSUME TypeOK, FinalInv, NEW a \in Actions, NEW s \in Done \cup {"accepted", "unknown"}, Receipt(a, s)
  PROVE  /\ FinalInv'
         /\ \A k \in Keys : job[k] \in Finished => job'[k] = job[k]
  <1> DEFINE k == KeyOf[a]
  <1>1. /\ k \in Keys /\ DOMAIN job = Keys /\ DOMAIN outbox = Actions
        /\ \A b \in Actions : KeyOf[b] \in Keys
        /\ \A v \in Workers : KeyAt(v) \in Keys
    BY ActionConstants, Zenon DEF ActionConstants, TypeOK, KeyAt
  <1>2. /\ outbox[a] = "active"
        /\ outbox' = [outbox EXCEPT ![a] = IF s = "unknown" THEN "active" ELSE "settled"]
        /\ UNCHANGED <<jobAction, leased, attempt, pc, cur, snap>>
        /\ \/ job' = job
           \/ a \notin Direct /\ job' = [job EXCEPT ![k] = s]
    BY Zenon DEF Receipt, procVars
  <1>3. CASE job' = job
    <2>1. \A b \in Actions \ Direct : outbox'[b] = "active" => outbox[b] = "active"
      BY <1>1, <1>2, Zenon
    <2>2. FinalInv'
      BY <1>2, <1>3, <2>1, FinalAside, Zenon
    <2> QED
      BY <1>3, <2>2, Zenon
  <1>4. CASE a \notin Direct /\ job' = [job EXCEPT ![k] = s]
    <2>1. jobAction[k] = a /\ job[k] \notin Finished \cup {"absent"}
      BY <1>2, <1>4, Zenon DEF FinalInv, ReceiptInv
    <2>2. \A v \in Workers : pc[v] \in PastInsert => KeyAt(v) # k
      BY <1>4, <2>1, ZenonT(30) DEF FinalInv, WriterInv
    <2>3. \A b \in Actions \ Direct : outbox[b] = "active" /\ b # a => KeyOf[b] # k
      BY <2>1, Zenon DEF FinalInv, ReceiptInv
    <2>4. s # "absent" /\ (outbox'[a] = "active" => s \notin Finished)
      BY <1>1, <1>2, Zenon DEF Done, Finished
    <2>5. \A b \in Actions \ Direct : outbox'[b] = "active" =>
             /\ outbox[b] = "active"
             /\ job'[KeyOf[b]] \in Finished \cup {"absent"} => job[KeyOf[b]] \in Finished \cup {"absent"}
      BY <1>1, <1>2, <1>4, <2>3, <2>4, Zenon
    <2>6. \A v \in Workers : pc'[v] \in Early => job'[KeyAt(v)] = job[KeyAt(v)]
      BY <1>1, <1>2, <1>4, <2>2, Zenon DEF Early, PastInsert
    <2>7. \A j \in Keys : job'[j] = "absent" \/ leased'[j] => attempt'[j] = 1
      BY <1>1, <1>2, <1>4, <2>4, Zenon DEF FinalInv, AttemptInv
    <2>8. FinalQuiet
      BY <1>2, <2>5, <2>6, <2>7, Zenon DEF FinalInv, AttemptInv, EarlyInv, FinalQuiet
    <2> QED
      BY <1>1, <1>4, <2>1, <2>8, FinalFrame, Zenon
  <1> QED
    BY <1>2, <1>3, <1>4, Zenon

\* With more than one attempt the reclaim times no job out: the lease it would
\* take away is gone since the first one.
LEMMA FinalReconcile ==
  ASSUME TypeOK, FinalInv, MaxAttempts > 1, NEW stale \in SUBSET Actions, Reconcile(stale)
  PROVE  /\ FinalInv'
         /\ \A k \in Keys : job[k] \in Finished => job'[k] = job[k]
  <1>1. /\ job' = [k \in Keys |-> JobReclaimed(k)]
        /\ leased' = [k \in Keys |-> leased[k] /\ k \notin Reclaimed]
        /\ attempt' = [k \in Keys |-> AttemptReclaimed(k)]
        /\ UNCHANGED <<jobAction, outbox, pc, cur, snap>>
    BY Zenon DEF Reconcile, procVars
  <1>2. TimedOut = {}
    <2>1. \A k \in Keys : leased[k] => attempt[k] = 1
      BY Zenon DEF FinalInv, AttemptInv
    <2> QED
      BY <2>1, ActionConstants DEF TimedOut, Reclaimed
  <1>3. \A k \in Keys : \/ k \in Reclaimed /\ job[k] \in Open /\ job'[k] = "queued" /\ ~leased'[k]
                        \/ k \notin Reclaimed /\ job'[k] = job[k] /\ attempt'[k] = attempt[k]
                           /\ (leased'[k] => leased[k])
    <2>1. \A k \in Keys : /\ k \in Reclaimed => job[k] \in Open /\ JobReclaimed(k) = "queued"
                          /\ k \notin Reclaimed => JobReclaimed(k) = job[k] /\ AttemptReclaimed(k) = attempt[k]
      BY <1>2, Zenon DEF Reclaimed, JobReclaimed, AttemptReclaimed
    <2> QED
      BY <1>1, <2>1, Zenon
  <1>4. /\ \A a \in Actions : KeyOf[a] \in Keys
        /\ \A v \in Workers : KeyAt(v) \in Keys
    BY ActionConstants, Zenon DEF ActionConstants, TypeOK, KeyAt
  <1>5. \A k \in Keys : /\ job'[k] = "absent" \/ leased'[k] => attempt'[k] = 1
                        /\ job'[k] \in Finished \cup {"absent"} => job'[k] = job[k]
                        /\ job[k] \in Finished => job'[k] = job[k]
    BY <1>3, Zenon DEF FinalInv, AttemptInv, Finished, Open
  <1>6. FinalQuiet
    BY <1>1, <1>4, <1>5, Zenon DEF FinalInv, AttemptInv, EarlyInv, FinalQuiet
  <1> QED
    BY <1>5, <1>6, FinalFrame, Zenon

\* Every step keeps the invariant and no step changes a finished job.
LEMMA FinalNext ==
  ASSUME TypeOK, OnceInv, FinalInv, MaxAttempts > 1, [Next]_vars
  PROVE  /\ FinalInv'
         /\ \A k \in Keys : job[k] \in Finished => job'[k] = job[k]
  <1> DEFINE Goal == FinalInv' /\ \A k \in Keys : job[k] \in Finished => job'[k] = job[k]
  <1>0. DOMAIN pc = Workers /\ DOMAIN snap = Workers /\ DOMAIN outbox = Actions /\ DOMAIN cur = Workers
    BY Zenon DEF TypeOK
  <1>1. ASSUME NEW w \in Workers, InsertJob(w) PROVE Goal
    BY <1>1, FinalInsert, Zenon
  <1>2. ASSUME NEW w \in Workers, WriteJob(w) PROVE Goal
    <2>1. /\ pc[w] = "cas" /\ CasJob(w, JobStatusOf(res[w], snap[w].status))
          /\ pc' = [pc EXCEPT ![w] = "final"] /\ UNCHANGED <<jobAction, outbox, cur, snap>>
      BY <1>2, Zenon DEF WriteJob, Goto
    <2>2. JobStatusOf(res[w], snap[w].status) = "absent" => snap[w].status = "absent"
      BY Zenon DEF JobStatusOf
    <2> QED
      BY <2>1, <2>2, FinalCas, Zenon
  <1>3. ASSUME NEW w \in Workers, NEW to \in {"success", "partial_success", "failed", "unknown"},
               MockFinalize(w, to)
        PROVE  Goal
    <2>1. /\ pc[w] = "mock" /\ CasJob(w, to) /\ pc' = [pc EXCEPT ![w] = "settle"]
          /\ UNCHANGED <<jobAction, outbox, cur, snap>>
      BY <1>3, Zenon DEF MockFinalize, Goto
    <2> QED
      BY <2>1, FinalCas, Zenon
  <1>4. ASSUME NEW w \in Workers, ReadJob(w) PROVE Goal
    <2>1. /\ UNCHANGED <<job, jobAction, leased, attempt, outbox, cur>>
          /\ snap' = [snap EXCEPT ![w] = [status |-> job[KeyAt(w)], leased |-> leased[KeyAt(w)],
                                          attempt |-> attempt[KeyAt(w)]]]
      BY <1>4, Zenon DEF ReadJob, dbVars, KeyAt
    <2>2. \/ pc[w] = "store" /\ pc' = [pc EXCEPT ![w] = "cas"]
          \/ pc[w] = "final" /\ job[KeyAt(w)] \in Open /\ pc' = [pc EXCEPT ![w] = "mock"]
          \/ pc[w] = "final" /\ pc' = [pc EXCEPT ![w] = "settle"]
      <3>1. CASE pc[w] = "store"
        BY <1>4, <3>1, Zenon DEF ReadJob, Goto
      <3>2. CASE pc[w] # "store" /\ job[KeyAt(w)] \in Open /\ Mock
        BY <1>4, <3>2, Zenon DEF ReadJob, Goto, KeyAt
      <3>3. CASE pc[w] # "store" /\ ~(job[KeyAt(w)] \in Open /\ Mock)
        BY <1>4, <3>3, Zenon DEF ReadJob, Goto, KeyAt
      <3> QED
        BY <3>1, <3>2, <3>3, Zenon
    <2>3. KeyAt(w) \in Keys
      BY ActionConstants, Zenon DEF ActionConstants, TypeOK, KeyAt
    <2>4. \A v \in Workers : \/ v # w /\ snap'[v] = snap[v] /\ pc'[v] = pc[v]
                             \/ /\ v = w /\ pc[v] \in PastInsert
                                /\ snap'[v].leased => snap'[v].attempt = 1
                                /\ pc'[v] \in Early => pc[v] \in Early
                                /\ pc'[v] = "mock" => snap'[v].status \in Open
                                /\ pc'[v] # "record"
      <3>1. \A v \in Workers \ {w} : snap'[v] = snap[v] /\ pc'[v] = pc[v]
        BY <1>0, <2>1, <2>2, Zenon
      <3>2. /\ snap'[w].status = job[KeyAt(w)] /\ snap'[w].leased = leased[KeyAt(w)]
            /\ snap'[w].attempt = attempt[KeyAt(w)]
        BY <1>0, <2>1, Zenon
      <3>3. snap'[w].leased => snap'[w].attempt = 1
        BY <2>3, <3>2, Zenon DEF FinalInv, AttemptInv
      <3>4. /\ pc[w] \in PastInsert /\ pc'[w] # "record" /\ (pc'[w] \in Early => pc[w] \in Early)
            /\ pc'[w] = "mock" => job[KeyAt(w)] \in Open
        BY <1>0, <2>2, Zenon DEF Early, PastInsert
      <3> QED
        BY <3>1, <3>2, <3>3, <3>4, Zenon
    <2>5. FinalInv'
      BY <2>1, <2>4, FinalAside, Zenon
    <2> QED
      BY <2>1, <2>5, Zenon
  <1>5. ASSUME NEW w \in Workers,
               \/ /\ pc' = [pc EXCEPT ![w] = "final"] \/ pc' = [pc EXCEPT ![w] = "store"]
                  /\ pc[w] = "call" /\ UNCHANGED <<outbox, cur>>
               \/ /\ pc' = [pc EXCEPT ![w] = "record"] /\ pc[w] = "settle" /\ UNCHANGED <<outbox, cur>>
               \/ /\ \E l \in {"idle", "fail", "claimed"} : pc' = [pc EXCEPT ![w] = l]
                  /\ \A v \in Workers \ {w} : cur'[v] = cur[v]
                  /\ \/ outbox' = outbox
                     \/ pc[w] = "record" /\ outbox' = [outbox EXCEPT ![cur[w]] = "active"],
               UNCHANGED <<job, jobAction, leased, attempt, snap>>
        PROVE  Goal
    <2>1. \A a \in Actions \ Direct : outbox'[a] = "active" => outbox[a] = "active"
      BY <1>0, <1>5, Zenon DEF FinalInv, WriterInv
    <2>2. \A v \in Workers :
            \/ pc'[v] \notin PastInsert \cup {"record"}
            \/ /\ cur'[v] = cur[v]
               /\ pc'[v] \in PastInsert => pc[v] \in PastInsert
               /\ pc'[v] = "record" => pc[v] \in PastInsert \cup {"record"}
               /\ pc'[v] \in Early => pc[v] \in Early
               /\ pc'[v] = "mock" => pc[v] = "mock"
      BY <1>0, <1>5, Zenon DEF PastInsert, Early
    <2>3. FinalInv'
      BY <1>5, <2>1, <2>2, FinalAside, Zenon
    <2> QED
      BY <1>5, <2>3, Zenon
  <1>6. ASSUME NEW w \in Workers, CallRefused(w) \/ \E r \in Results, done \in BOOLEAN : CallTool(w, r, done)
        PROVE  Goal
    <2>1. /\ pc[w] = "call" /\ UNCHANGED <<job, jobAction, leased, attempt, snap, outbox, cur>>
          /\ pc' = [pc EXCEPT ![w] = "final"] \/ pc' = [pc EXCEPT ![w] = "store"]
      BY <1>6, Zenon DEF CallRefused, CallTool, dbVars, Goto
    <2> QED
      BY <1>5, <2>1, Zenon
  <1>7. ASSUME NEW w \in Workers, Settle(w) PROVE Goal
    <2>1. /\ pc[w] = "settle" /\ UNCHANGED <<job, jobAction, leased, attempt, snap, outbox, cur>>
          /\ \/ pc' = [pc EXCEPT ![w] = "record"] \/ pc' = [pc EXCEPT ![w] = "idle"]
             \/ pc' = [pc EXCEPT ![w] = "fail"]
      BY <1>7, Zenon DEF Settle, Goto
    <2> QED
      BY <1>5, <2>1, Zenon
  <1>8. ASSUME NEW w \in Workers,
               \/ \E a \in Actions : Claim(w, a)
               \/ Attach(w) \/ Record(w) \/ Raise(w) \/ FailExecuting(w) \/ Crash(w)
        PROVE  Goal
    <2>1. /\ \E l \in {"idle", "fail", "claimed"} : pc' = [pc EXCEPT ![w] = l]
          /\ UNCHANGED <<job, jobAction, leased, attempt, snap>>
          /\ \/ outbox' = outbox
             \/ pc[w] = "record" /\ outbox' = [outbox EXCEPT ![cur[w]] = "active"]
          /\ cur' = cur \/ \E a : cur' = [cur EXCEPT ![w] = a]
      BY <1>8, Zenon DEF Claim, Attach, Record, Raise, FailExecuting, Crash, dbVars, Goto
    <2>2. \A v \in Workers \ {w} : cur'[v] = cur[v]
      BY <1>0, <2>1, Zenon
    <2> QED
      BY <1>5, <2>1, <2>2, Zenon
  <1>9. ASSUME \/ \E a \in Actions : \E to \in Done : ResolveUnknown(a, to)
               \/ \E k \in Keys : LeaseExpires(k)
               \/ UNCHANGED vars
        PROVE  Goal
    <2>1. UNCHANGED <<job, jobAction, leased, attempt, outbox, snap, pc, cur>>
      BY <1>9, Zenon DEF ResolveUnknown, LeaseExpires, vars, dbVars, procVars
    <2>2. FinalInv'
      BY <2>1, FinalAside, Zenon
    <2> QED
      BY <2>1, <2>2, Zenon
  <1>10. ASSUME NEW a \in Actions, NEW s \in Done \cup {"accepted", "unknown"}, Receipt(a, s) PROVE Goal
    BY <1>10, FinalReceipt, Zenon
  <1>11. ASSUME NEW stale \in SUBSET Actions, Reconcile(stale) PROVE Goal
    BY <1>11, FinalReconcile, Zenon
  <1> HIDE DEF Goal
  <1>12. ASSUME NEW w \in Workers, WorkerStep(w) \/ Raise(w) \/ Crash(w) PROVE Goal
    BY <1>1, <1>2, <1>3, <1>4, <1>6, <1>7, <1>8, <1>12, Zenon DEF WorkerStep
  <1>13. Goal
    BY <1>9, <1>10, <1>11, <1>12, Zenon DEF Next
  <1> QED
    BY <1>13, Zenon DEF Goal

\* A finished job keeps its status whichever workers, receipts and reclaims come
\* late, when a job is allowed more than one attempt: cas_update_job would let a
\* worker that read a finished job write over it, and none ever reads one before
\* it writes (_cas_writeback_job, _finalize_mock_direct_tool_job,
\* _reclaim_stale_job_row, _apply_receipt_execution_projection).
THEOREM FinishedStays == MaxAttempts > 1 => (Spec => FinishedJobIsFinal)
  <1> SUFFICES ASSUME MaxAttempts > 1 PROVE Spec => FinishedJobIsFinal
    OBVIOUS
  <1>1. Init => FinalInv
    <2> SUFFICES ASSUME Init PROVE FinalInv
      OBVIOUS
    <2>1. /\ \A k \in Keys : attempt[k] = 1
          /\ \A w \in Workers : pc[w] = "idle" /\ snap[w].attempt = 1
          /\ \A a \in Actions : outbox[a] = "none"
      BY Zenon DEF Init
    <2> QED
      BY <2>1, Zenon DEF FinalInv, AttemptInv, WriterInv, EarlyInv, ReceiptInv, PastInsert, Early
  <1>2. TypeOK /\ OnceInv /\ FinalInv /\ [Next]_vars =>
          FinalInv' /\ [\A k \in Keys : job[k] \in Finished => job'[k] = job[k]]_vars
    BY FinalNext, Zenon
  <1> QED
    BY <1>1, <1>2, ActionTypes, OnceInit, OnceNext, PTL DEF Spec, FinishedJobIsFinal

=============================================================================
