--------------------------- MODULE RollbackProofs ---------------------------
(***************************************************************************)
(* Theorems about Rollback, for any number of graph runs, approvers,       *)
(* repairing workers and deaths.                                           *)
(***************************************************************************)
EXTENDS Rollback, TLAPS

-----------------------------------------------------------------------------
(* The inductive invariant                                                 *)

Jobs == {"absent", "running", "queued"} \cup JobEnds

\* The values the rows and the processes can hold
Shape ==
    /\ pc \in [Procs -> Steps] /\ result \in [Procs -> JobEnds]
    /\ DOMAIN seenRb = Procs
    /\ job \in Jobs /\ calls \in Nat
    /\ comp \in Nat /\ confirmed \in Nat /\ missing \in [Procs -> BOOLEAN]
    /\ orig \in {"success", "rolled_back"}

\* The job of the rollback's key is the right to call the tool: nobody calls
\* before it is there, and the process that inserted it calls alone.
OnceInv ==
    /\ calls <= 1
    /\ job = "absent" => calls = 0
    /\ \A p \in Procs : pc[p] = "call" =>
        /\ calls = 0 /\ job # "absent"
        /\ \A q \in Procs : pc[q] = "call" => q = p

\* The effect is gone, or a human says so.
Gone == undone \/ human

\* Success means the effect is gone wherever it is written down: the answer of
\* the tool, the job, the rollback action, the row a process holds.  What is about
\* to be marked ROLLED_BACK passed the readback.
EarnInv ==
    /\ job = "success" => undone
    /\ rb = "success" => Gone
    /\ \A p \in Procs :
          /\ (pc[p] = "store" /\ result[p] = "success") => undone
          /\ (pc[p] = "verify" /\ seenRb[p] = "success") => Gone
          /\ pc[p] = "cas" => undone \/ (~HasReadback /\ human)
    /\ RolledBackIsReal

\* A released saga stays compensated: records are added, not taken away.
SagaInv == Shape /\ OnceInv /\ EarnInv /\ ReleasedIsCompensated

-----------------------------------------------------------------------------
(* One step of the saga                                                    *)

\* Every step keeps the job the right to one call and success earned: a tool's
\* success is truthful, what is verified was read back, and the effect does not
\* come back.
LEMMA SagaStep == SagaInv /\ [Next]_vars => SagaInv'
<1> SUFFICES ASSUME SagaInv, [Next]_vars PROVE SagaInv'
  OBVIOUS
<1> USE DEF SagaInv, Shape, OnceInv, EarnInv, Gone, RolledBackIsReal,
            ReleasedIsCompensated, Jobs, JobEnds, Steps
<1>1. ASSUME NEW p \in Procs, RollbackAction(p) PROVE SagaInv'
  BY <1>1 DEF RollbackAction, Continue, Rollbackable, Goto, histVars
<1>2. ASSUME NEW p \in Procs, Register(p) PROVE SagaInv'
  BY <1>2 DEF Register, Goto, memVars, histVars
<1>3. ASSUME NEW p \in Procs, NEW to \in {"approved", "rejected"}, Decide(p, to)
      PROVE SagaInv'
  BY <1>3 DEF Decide, Goto, memVars, histVars
<1>4. ASSUME NEW p \in Procs, ReplayDecision(p) PROVE SagaInv'
  BY <1>4 DEF ReplayDecision, Goto, rowVars, memVars, histVars
<1>5. ASSUME NEW p \in Procs, Load(p) PROVE SagaInv'
  BY <1>5 DEF Load, Goto, rowVars, histVars
<1>6. ASSUME NEW p \in Procs, Claim(p) PROVE SagaInv'
  BY <1>6 DEF Claim, Goto, memVars, histVars
<1>7. ASSUME NEW p \in Procs, SyncSubstate(p) PROVE SagaInv'
  BY <1>7 DEF SyncSubstate, Goto, rowVars, memVars, histVars
<1>8. ASSUME NEW p \in Procs, Job(p) PROVE SagaInv'
  BY <1>8 DEF Job, Goto, memVars, histVars
<1>9. ASSUME NEW p \in Procs, NEW a \in JobEnds, NEW d \in BOOLEAN,
             CallTool(p, a, d)
      PROVE SagaInv'
  <2>1. Shape' /\ OnceInv' /\ ReleasedIsCompensated'
    BY <1>9 DEF CallTool, Goto, rowVars
  <2>2. EarnInv'
    BY <1>9 DEF CallTool, Goto, rowVars
  <2> QED
    BY <2>1, <2>2
<1>10. ASSUME NEW p \in Procs, StoreResult(p) PROVE SagaInv'
  BY <1>10 DEF StoreResult, Goto, memVars, histVars
<1>11. ASSUME NEW p \in Procs, Settle(p) PROVE SagaInv'
  BY <1>11 DEF Settle, Goto, memVars, histVars
<1>12. ASSUME NEW p \in Procs, Reload(p) PROVE SagaInv'
  BY <1>12 DEF Reload, Goto, rowVars, histVars
<1>13. ASSUME NEW p \in Procs, MarkFailed(p) PROVE SagaInv'
  BY <1>13 DEF MarkFailed, Goto, memVars, histVars
<1>14. ASSUME NEW p \in Procs, NEW ok \in BOOLEAN, Verify(p, ok)
      PROVE SagaInv'
  BY <1>14 DEF Verify, Verifies, Goto, rowVars, memVars, histVars
<1>15. ASSUME NEW p \in Procs, Demote(p) PROVE SagaInv'
  BY <1>15 DEF Demote, Goto, memVars, histVars
<1>16. ASSUME NEW p \in Procs, Cas(p) PROVE SagaInv'
  BY <1>16 DEF Cas, Goto, memVars, histVars
<1>17. ASSUME NEW p \in Procs, CompRead(p) PROVE SagaInv'
  BY <1>17 DEF CompRead, Goto, rowVars, histVars
<1>18. ASSUME NEW p \in Procs, CompWrite(p) PROVE SagaInv'
  BY <1>18 DEF CompWrite, NewRecords, Goto, memVars, histVars
<1>19. ASSUME NEW p \in Procs, Repair(p) PROVE SagaInv'
  BY <1>19 DEF Repair, Goto, rowVars, memVars, histVars
<1>20. ASSUME NEW p \in Procs, Crash(p) PROVE SagaInv'
  BY <1>20 DEF Crash, Goto, rowVars, memVars
<1>21. CASE ReclaimStale
  BY <1>21 DEF ReclaimStale, memVars, histVars
<1>22. ASSUME NEW to \in {"success", "failed"}, ResolveUnknown(to)
      PROVE SagaInv'
  BY <1>22 DEF ResolveUnknown, memVars
<1>23. CASE Confirm
  BY <1>23 DEF Confirm, memVars, histVars
<1>24. CASE Release
  BY <1>24 DEF Release, SagaResolved, memVars, histVars
<1>25. CASE UNCHANGED vars
  BY <1>25 DEF vars, rowVars, memVars, histVars
<1> HIDE DEF SagaInv
<1> QED
  BY <1>1, <1>2, <1>3, <1>4, <1>5, <1>6, <1>7, <1>8, <1>9, <1>10, <1>11, <1>12, <1>13,
     <1>14, <1>15, <1>16, <1>17, <1>18, <1>19, <1>20, <1>21, <1>22, <1>23, <1>24, <1>25
  DEF Next, Advance

-----------------------------------------------------------------------------
(* Theorems about the saga                                                 *)

\* No rollback has begun: nothing is called, undone or released.
LEMMA SagaInit == Init => SagaInv
BY DEF Init, SagaInv, Shape, OnceInv, EarnInv, RolledBackIsReal,
       ReleasedIsCompensated, Jobs, JobEnds, Steps

\* EffectOnce: whatever dies and whoever continues the rollback, a graph run, an
\* approval or its replay, the rollback tool is called at most once.
THEOREM ToolCalledOnce == Spec => []EffectOnce
<1>1. SagaInv => EffectOnce
  BY DEF SagaInv, OnceInv, EffectOnce
<1> QED
  BY <1>1, SagaInit, SagaStep, PTL DEF Spec

\* RolledBackIsReal: the original is ROLLED_BACK only when its effect is gone, or,
\* where no readback exists, a human said so.
THEOREM RolledBackEarned == Spec => []RolledBackIsReal
<1>1. SagaInv => RolledBackIsReal
  BY DEF SagaInv, EarnInv
<1> QED
  BY <1>1, SagaInit, SagaStep, PTL DEF Spec

\* ReleasedIsCompensated: a saga whose hold was lifted has its original rolled
\* back and its compensation confirmed, and keeps them.
THEOREM ReleasedCompensated == Spec => []ReleasedIsCompensated
<1>1. SagaInv => ReleasedIsCompensated
  BY DEF SagaInv
<1> QED
  BY <1>1, SagaInit, SagaStep, PTL DEF Spec

=============================================================================
