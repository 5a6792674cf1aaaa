--------------------------- MODULE StateProjection ---------------------------
(***************************************************************************)
(* What StateMachineService.transition does after its commit, for one      *)
(* event: project the new status and the transition onto the event context *)
(* and, if a step of that fails, leave a marker among the degraded flags   *)
(* (services/degraded_flag_service.py) from which a scheduled job or an     *)
(* administrator repairs the projection out of the audit log.              *)
(*                                                                         *)
(* The projection of one event is serialised by a lock of the service      *)
(* instance; every Celery task builds its own instance.                    *)
(***************************************************************************)
EXTENDS Naturals, Sequences, Functions

CONSTANTS Callers,    \* tasks that transition the event
          Jobs,       \* tasks of the scheduled repair
          Admins,     \* requests of the repair endpoint
          Flaggers,   \* tasks that set another degraded flag
          Instances, Home,   \* Home[t]: the service instance of task t
          AuditIds,   \* identities the audit log may hand out, in increasing order
          MaxFaults, MaxFlagFaults, MaxOthers, MaxCrashes,   \* bounds
          MaxAttempts, \* _PROJECTION_REPAIR_MAX_ATTEMPTS
          NoOne

Repairers == Jobs \cup Admins
Tasks == Callers \cup Repairers \cup Flaggers

ASSUME ProjectionConstants ==
    /\ Home \in [Tasks -> Instances] /\ NoOne \notin Tasks /\ Callers \cap Repairers = {}
    /\ AuditIds \subseteq Nat \ {0}
    /\ {MaxFaults, MaxFlagFaults, MaxOthers, MaxCrashes} \subseteq Nat /\ MaxAttempts \in Nat \ {0}

VARIABLES audits,    \* identities of the committed transitions, in order
          summary,   \* context field event: the number of transitions its row had seen
          history,   \* context field state_history
          flags,     \* security_event.degraded_flags: [proj, other], proj = 0: no marker
          lock,      \* _projection_locks
          pc, row, gen,   \* task: place, transitions its row has seen, identity it projects
          read,      \* task: state_history as read (transition), audit log as read (repair)
          seen,      \* task: degraded_flags as read
          failed,    \* task: a step of this projection failed
          attempt, faults, flagFaults, others, crashes

taskVars == <<lock, pc, row, gen, read, seen, failed, attempt>>
vars == <<audits, summary, history, flags, taskVars, faults, flagFaults, others, crashes>>

Flags == [proj : AuditIds \cup {0}, other : BOOLEAN]
NoFlags == [proj |-> 0, other |-> FALSE]

Init ==
    /\ audits = <<>> /\ summary = 0 /\ history = <<>> /\ flags = NoFlags
    /\ lock = [i \in Instances |-> NoOne] /\ pc = [t \in Tasks |-> "idle"]
    /\ row = [t \in Tasks |-> 0] /\ gen = [t \in Tasks |-> 0]
    /\ read = [t \in Tasks |-> <<>>] /\ seen = [t \in Tasks |-> NoFlags]
    /\ failed = [t \in Tasks |-> FALSE] /\ attempt = [t \in Tasks |-> 0]
    /\ faults = 0 /\ flagFaults = 0 /\ others = 0 /\ crashes = 0

Go(t, place) == pc' = [pc EXCEPT ![t] = place]
Release(t) == lock' = [lock EXCEPT ![Home[t]] = NoOne]

\* A store call: it writes, or raises and writes nothing, or writes the journal
\* and reports that Redis is down.
Outcomes == {"ok", "raised", "degraded"}
Call(t, o) ==
    /\ o = "ok" \/ faults < MaxFaults
    /\ faults' = IF o = "ok" THEN faults ELSE faults + 1
    /\ failed' = [failed EXCEPT ![t] = @ \/ o # "ok"]

-----------------------------------------------------------------------------
(* transition                                                              *)

\* The transaction: status and audit entry.
Commit(t) ==
    /\ pc[t] = "idle"
    /\ \E id \in AuditIds :
        /\ \A i \in 1..Len(audits) : audits[i] < id
        /\ audits' = Append(audits, id) /\ gen' = [gen EXCEPT ![t] = id]
    /\ row' = [row EXCEPT ![t] = Len(audits) + 1] /\ Go(t, "lock")
    /\ UNCHANGED <<summary, history, flags, lock, read, seen, failed, attempt,
                   faults, flagFaults, others, crashes>>

\* Mutant: the projection does not take the lock.
AcquireNoLock(t) ==
    /\ pc[t] = "lock" /\ failed' = [failed EXCEPT ![t] = FALSE] /\ Go(t, "summary")
    /\ UNCHANGED <<audits, summary, history, flags, lock, row, gen, read, seen, attempt,
                   faults, flagFaults, others, crashes>>

\* async with self._projection_lock
Acquire(t) ==
    /\ pc[t] = "lock" /\ lock[Home[t]] = NoOne /\ lock' = [lock EXCEPT ![Home[t]] = t]
    /\ failed' = [failed EXCEPT ![t] = FALSE] /\ Go(t, "summary")
    /\ UNCHANGED <<audits, summary, history, flags, row, gen, read, seen, attempt,
                   faults, flagFaults, others, crashes>>

\* project_set("summary"): the row as the transaction left it.
SetSummary(t, o) ==
    /\ pc[t] = "summary" /\ Call(t, o)
    /\ summary' = IF o = "raised" THEN summary ELSE row[t]
    /\ Go(t, IF t \in Callers THEN "read" ELSE "replace")
    /\ UNCHANGED <<audits, history, flags, lock, row, gen, read, seen, attempt,
                   flagFaults, others, crashes>>

\* store.get("state_history"); an unreadable history is not overwritten.
ReadHistory(t, o) ==
    /\ pc[t] = "read" /\ o \in {"ok", "raised"} /\ Call(t, o)
    /\ read' = [read EXCEPT ![t] = history]
    /\ Go(t, IF o = "raised" \/ gen[t] \in Range(history) THEN "sync" ELSE "append")
    /\ UNCHANGED <<audits, summary, history, flags, lock, row, gen, seen, attempt,
                   flagFaults, others, crashes>>

\* project_set("history"): the list as read with the entry of this transition.
AppendHistory(t, o) ==
    /\ pc[t] = "append" /\ Call(t, o) /\ Go(t, "sync")
    /\ history' = IF o = "raised" THEN history ELSE Append(read[t], gen[t])
    /\ UNCHANGED <<audits, summary, flags, lock, row, gen, read, seen, attempt,
                   flagFaults, others, crashes>>

\* The end of _sync_context_after_transition_locked.
Synced(t) ==
    /\ pc[t] = "sync"
    /\ IF failed[t] THEN Go(t, "mark") /\ UNCHANGED lock
       ELSE IF t \in Repairers THEN Go(t, "check") /\ UNCHANGED lock
       ELSE Go(t, "idle") /\ Release(t)
    /\ UNCHANGED <<audits, summary, history, flags, row, gen, read, seen, failed, attempt,
                   faults, flagFaults, others, crashes>>

-----------------------------------------------------------------------------
(* Degraded flags: set_flag reads the list and writes it back, unlocked     *)

AfterMark(t) == IF t \in Callers \/ attempt[t] = MaxAttempts THEN "idle" ELSE "again"

\* _mark_projection_degraded; a failing set_flag is logged and nothing more.
MarkRead(t) ==
    /\ pc[t] = "mark" /\ seen' = [seen EXCEPT ![t] = flags] /\ Go(t, "markWrite")
    /\ UNCHANGED <<audits, summary, history, flags, lock, row, gen, read, failed, attempt,
                   faults, flagFaults, others, crashes>>

MarkWrite(t) ==
    /\ pc[t] = "markWrite"
    /\ flags' = IF seen[t].proj = gen[t] THEN flags ELSE [seen[t] EXCEPT !.proj = gen[t]]
    /\ Go(t, AfterMark(t)) /\ IF AfterMark(t) = "idle" THEN Release(t) ELSE UNCHANGED lock
    /\ UNCHANGED <<audits, summary, history, row, gen, read, seen, failed, attempt,
                   faults, flagFaults, others, crashes>>

MarkFails(t) ==
    /\ pc[t] = "mark" /\ flagFaults < MaxFlagFaults /\ flagFaults' = flagFaults + 1
    /\ Go(t, AfterMark(t)) /\ IF AfterMark(t) = "idle" THEN Release(t) ELSE UNCHANGED lock
    /\ UNCHANGED <<audits, summary, history, flags, row, gen, read, seen, failed, attempt,
                   faults, others, crashes>>

\* Any other service setting a flag of its own.
OtherRead(t) ==
    /\ pc[t] = "idle" /\ others < MaxOthers /\ others' = others + 1
    /\ seen' = [seen EXCEPT ![t] = flags] /\ Go(t, "other")
    /\ UNCHANGED <<audits, summary, history, flags, lock, row, gen, read, failed, attempt,
                   faults, flagFaults, crashes>>

OtherWrite(t) ==
    /\ pc[t] = "other" /\ Go(t, "idle")
    /\ flags' = IF seen[t].other THEN flags ELSE [seen[t] EXCEPT !.other = TRUE]
    /\ UNCHANGED <<audits, summary, history, lock, row, gen, read, seen, failed, attempt,
                   faults, flagFaults, others, crashes>>

-----------------------------------------------------------------------------
(* Repair                                                                  *)

\* Mutant: the scheduled job looks for the other flag.
StartRepairByOther(t) ==
    /\ pc[t] = "idle" /\ audits # <<>> /\ (t \in Admins \/ flags.other)
    /\ lock[Home[t]] = NoOne /\ lock' = [lock EXCEPT ![Home[t]] = t]
    /\ row' = [row EXCEPT ![t] = Len(audits)]
    /\ attempt' = [attempt EXCEPT ![t] = 1] /\ failed' = [failed EXCEPT ![t] = FALSE]
    /\ Go(t, "source")
    /\ UNCHANGED <<audits, summary, history, flags, gen, read, seen, faults, flagFaults, others, crashes>>

\* The scheduled job repairs marked events, the endpoint any event (here: any
\* that has been transitioned, so that there is an audit log to repair from).
StartRepair(t) ==
    /\ pc[t] = "idle" /\ audits # <<>> /\ (t \in Admins \/ flags.proj # 0)
    /\ lock[Home[t]] = NoOne /\ lock' = [lock EXCEPT ![Home[t]] = t]
    /\ row' = [row EXCEPT ![t] = Len(audits)]
    /\ attempt' = [attempt EXCEPT ![t] = 1] /\ failed' = [failed EXCEPT ![t] = FALSE]
    /\ Go(t, "source")
    /\ UNCHANGED <<audits, summary, history, flags, gen, read, seen, faults, flagFaults, others, crashes>>

\* _load_projection_repair_source, its second statement: the audit log.
LoadSource(t) ==
    /\ pc[t] = "source" /\ read' = [read EXCEPT ![t] = audits]
    /\ Go(t, "summary") /\ gen' = [gen EXCEPT ![t] = audits[Len(audits)]]
    /\ UNCHANGED <<audits, summary, history, flags, lock, row, seen, failed, attempt,
                   faults, flagFaults, others, crashes>>

ReplaceHistory(t, o) ==
    /\ pc[t] = "replace" /\ Call(t, o) /\ Go(t, "sync")
    /\ history' = IF o = "raised" THEN history ELSE read[t]
    /\ UNCHANGED <<audits, summary, flags, lock, row, gen, read, seen, attempt,
                   flagFaults, others, crashes>>

\* The next of the bounded attempts, from the same source.
Again(t) ==
    /\ pc[t] = "again" /\ Go(t, "summary")
    /\ attempt' = [attempt EXCEPT ![t] = @ + 1] /\ failed' = [failed EXCEPT ![t] = FALSE]
    /\ UNCHANGED <<audits, summary, history, flags, lock, row, gen, read, seen,
                   faults, flagFaults, others, crashes>>

\* `f"proj=audit:{gen}" in marker`: the decimal digits of gen begin those of the
\* marker.  10^4 bounds the identities.
TokenIn(g, mark) == \E k \in 0..4 : mark \div 10^k = g

\* The read of _clear_projection_degraded.
CheckMarker(t) ==
    /\ pc[t] = "check"
    /\ IF flags.proj # 0 /\ TokenIn(gen[t], flags.proj) THEN Go(t, "clear") /\ UNCHANGED lock
       ELSE Go(t, "idle") /\ Release(t)
    /\ UNCHANGED <<audits, summary, history, flags, row, gen, read, seen, failed, attempt,
                   faults, flagFaults, others, crashes>>

ClearRead(t) ==
    /\ pc[t] = "clear" /\ seen' = [seen EXCEPT ![t] = flags] /\ Go(t, "clearWrite")
    /\ UNCHANGED <<audits, summary, history, flags, lock, row, gen, read, failed, attempt,
                   faults, flagFaults, others, crashes>>

ClearWrite(t) ==
    /\ pc[t] = "clearWrite" /\ Go(t, "idle") /\ Release(t)
    /\ flags' = IF seen[t].proj = 0 THEN flags ELSE [seen[t] EXCEPT !.proj = 0]
    /\ UNCHANGED <<audits, summary, history, row, gen, read, seen, failed, attempt,
                   faults, flagFaults, others, crashes>>

\* A failing clear counts as a failed attempt.
ClearFails(t) ==
    /\ pc[t] \in {"check", "clear"} /\ flagFaults < MaxFlagFaults /\ flagFaults' = flagFaults + 1
    /\ IF attempt[t] < MaxAttempts THEN Go(t, "again") /\ UNCHANGED lock
       ELSE Go(t, "idle") /\ Release(t)
    /\ UNCHANGED <<audits, summary, history, flags, row, gen, read, seen, failed, attempt,
                   faults, others, crashes>>

-----------------------------------------------------------------------------

\* The process of an instance dies.
Crash(i) ==
    /\ crashes < MaxCrashes /\ crashes' = crashes + 1
    /\ \E t \in Tasks : Home[t] = i /\ pc[t] # "idle"
    /\ pc' = [t \in Tasks |-> IF Home[t] = i THEN "idle" ELSE pc[t]]
    /\ lock' = [lock EXCEPT ![i] = NoOne]
    /\ UNCHANGED <<audits, summary, history, flags, row, gen, read, seen, failed, attempt,
                   faults, flagFaults, others>>

Project(t) ==
    \/ Acquire(t)
    \/ \E o \in Outcomes : SetSummary(t, o) \/ ReadHistory(t, o) \/ AppendHistory(t, o)
    \/ Synced(t) \/ MarkRead(t) \/ MarkWrite(t) \/ MarkFails(t)

Repair(t) ==
    \/ LoadSource(t) \/ Again(t)
    \/ \E o \in Outcomes : ReplaceHistory(t, o)
    \/ CheckMarker(t) \/ ClearRead(t) \/ ClearWrite(t) \/ ClearFails(t)

Next ==
    \/ \E t \in Callers : Commit(t)
    \/ \E t \in Repairers : StartRepair(t)
    \/ \E t \in Tasks : Project(t) \/ Repair(t)
    \/ \E t \in Flaggers : OtherRead(t) \/ OtherWrite(t)
    \/ \E i \in Instances : Crash(i)

Spec == Init /\ [][Next]_vars

\* A task that has begun goes on, and the beat schedule starts the repair job.
FairSpec ==
    /\ Spec
    /\ \A t \in Tasks : WF_vars(Project(t) \/ Repair(t))
    /\ \A t \in Jobs : WF_vars(StartRepair(t))

-----------------------------------------------------------------------------
(* Properties                                                              *)

\* Identities are known ones and a repair stays within its attempts.
TypeOK ==
    /\ Range(audits) \subseteq AuditIds /\ summary \in 0..Len(audits)
    /\ Range(history) \subseteq Range(audits) /\ flags \in Flags
    /\ lock \in [Instances -> Tasks \cup {NoOne}]
    /\ pc \in [Tasks -> {"idle", "lock", "summary", "read", "append", "replace", "sync", "mark",
                         "markWrite", "other", "source", "again", "check", "clear", "clearWrite"}]
    /\ row \in [Tasks -> 0..Len(audits)] /\ gen \in [Tasks -> AuditIds \cup {0}]
    /\ seen \in [Tasks -> Flags] /\ failed \in [Tasks -> BOOLEAN]
    /\ \A t \in Tasks : Range(read[t]) \subseteq Range(audits)
    /\ attempt \in [Tasks -> 0..MaxAttempts]
    /\ faults \in 0..MaxFaults /\ flagFaults \in 0..MaxFlagFaults
    /\ others \in 0..MaxOthers /\ crashes \in 0..MaxCrashes

Quiet == \A t \in Tasks : pc[t] = "idle"
HistoryFull == /\ IsInjective(history)
               /\ Range(history) = Range(audits)

\* Once the projections have ended, an event without a marker has every committed
\* transition in its history, once each ("append once using a stable audit
\* identity"), whatever steps of the projections failed.  A death, a failing
\* set_flag or another service's unlocked set_flag may lose the marker itself.
UnmarkedIsComplete ==
    (Quiet /\ flags.proj = 0 /\ others = 0 /\ flagFaults = 0 /\ crashes = 0) => HistoryFull

\* The projected summary of an event without a marker is the one of its newest
\* committed status.
\* The code does not keep this (README, disagreements).
SummaryIsCurrent == Quiet /\ flags.proj = 0 => summary = Len(audits)

\* A service that sets a flag of its own keeps the marker: only the clear of a
\* repair takes it away ("other flags preserved").
\* The code does not keep this (README, disagreements).
OtherFlagsPreserved ==
    [][flags.proj # 0 /\ flags'.proj = 0 => \E t \in Repairers : pc[t] = "clearWrite"]_vars

\* A repair takes away the marker of the generation it rebuilt and no newer one
\* ("Clear only this repair generation's marker").
\* The code does not keep this (README, disagreements).
ClearsOwnMarker ==
    [][\A t \in Repairers : pc[t] = "clearWrite" /\ pc'[t] = "idle" /\ flags.proj # flags'.proj
         => gen[t] = flags.proj]_vars

\* The check in front of the clear lets a repair through only for a marker of its
\* own generation, not for one whose identity begins with the same digits.
\* The code does not keep this (README, disagreements).
TokenIsExact ==
    [][\A t \in Repairers : pc[t] = "check" /\ pc'[t] = "clear" => gen[t] = flags.proj]_vars

\* An event whose projection is marked is repaired: its history gets complete or
\* the marker goes, once store calls stop failing.
MarkedIsRepaired == flags.proj # 0 ~> (flags.proj = 0 \/ HistoryFull)

\* A marker does not stay for ever (a repaired event leaves the list the scheduled
\* job works on).
\* The code does not keep this (README, disagreements).
MarkerGoes == flags.proj # 0 ~> flags.proj = 0

=============================================================================
