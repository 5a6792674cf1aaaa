-------------------------- MODULE DispositionOutbox --------------------------
(***************************************************************************)
(* Delivery of approved disposition commands to the source system          *)
(* (services/disposition_sync_service.py): the outbox rows of one event,   *)
(* the worker processes that claim, submit and reconcile them, the         *)
(* operator and recovery entry points that touch the same rows, and the    *)
(* source system itself.                                                   *)
(*                                                                         *)
(* A row is one DispositionOutbox record together with the action it is    *)
(* bound to.  Rows in Terminal are EVENT_STATUS_UPDATE commands of one     *)
(* (event, closure_cycle, logical_slot); the others are entity commands.   *)
(* Every database transaction is one step, except the delivery             *)
(* transaction, which calls the source system while it holds its row       *)
(* locks: it is split into the call and the commit so that a process may   *)
(* die in between.                                                         *)
(***************************************************************************)
EXTENDS Workflow, Naturals

CONSTANTS
    Rows,                \* outbox rows
    Terminal,            \* the rows whose intent is EVENT_STATUS_UPDATE
    Workers,             \* processes that run an OutboxWorker or activate
    Ids,                 \* worker_id strings
    WorkerId,            \* the worker_id each process was constructed with
    SupportsLookup,      \* adapter capability supports_lookup_by_idempotency
    SupportsStatusQuery, \* adapter capability supports_status_query
    SupportsIdempotency, \* adapter capability supports_idempotency
    Answers,             \* statuses the source system answers with
    EntryPoints,         \* callers besides the worker that are in play
    MaxSubmits,          \* bound on the submissions of one row
    MaxCrashes           \* bound on the process deaths

ASSUME ConstantsOK ==
    /\ Terminal \subseteq Rows
    /\ WorkerId \in [Workers -> Ids]
    /\ Ids \cap Workers = {}
    /\ None \notin Ids \cup Workers \cup Rows
    /\ {SupportsLookup, SupportsStatusQuery, SupportsIdempotency} \subseteq BOOLEAN
    /\ Answers \subseteq {"accepted", "confirmed", "partial", "failed"}
    /\ EntryPoints \subseteq {"retry", "resolve", "recovery", "action"}
    /\ MaxSubmits \in Nat /\ MaxCrashes \in Nat

VARIABLES
    delivery,      \* delivery_status, "absent" before the row is inserted
    latest,        \* latest_writeback_status
    lockedBy,      \* locked_by: a worker_id (lease) or a process (its token)
    leaseLive,     \* lease_expires_at is set and in the future
    supersededBy,  \* superseded_by_disposition_id
    rejected,      \* last_error_code is a deterministic adapter rejection
    receipt,       \* status of the newest DispositionReceipt of the row
    action,        \* status of the bound action
    mirror,        \* writeback_status mirrored onto the bound action
    pc, batch, cur, res, sync,  \* where each process is in run_once
    recovery,      \* status a recovery lookup returned and has not yet applied
    wire,          \* requests still travelling to the source system
    pstatus,       \* status the source system has recorded for the command
    effects,       \* how many times the source system executed the command
    submits,       \* how many times adapter.submit was called for the row
    cleared,       \* a lookup cleared the row for another submission
    manual,        \* a human adjudicated the row
    crashes        \* process deaths so far

rowVars == <<delivery, latest, lockedBy, leaseLive, supersededBy, rejected,
             receipt>>
actVars == <<action, mirror>>
workVars == <<pc, batch, cur, res, sync>>
provVars == <<wire, pstatus, effects>>
histVars == <<submits, cleared, manual, crashes>>
vars == <<rowVars, actVars, workVars, recovery, provVars, histVars>>

ActionStatus == {"approved", "executing", "success", "partial_success",
                 "failed", "unknown"}
Kinds == {"guardrail", "conflict", "rejection", "ambiguous"}
Outcomes == {"degraded", "not_found"} \cup WritebackStatus
PCs == {"idle", "lookup", "apply", "claim", "deliver", "commit", "mark"}

\* Mutant: idempotency is taken for granted.
AllowsSafeRetry_LookupOnly == SupportsLookup

\* BaseDispositionAdapter.allows_safe_retry
AllowsSafeRetry == SupportsIdempotency /\ SupportsLookup

\* FOR UPDATE row lock of an open delivery transaction.
Locked(o) == \E w \in Workers : pc[w] = "commit" /\ cur[w] = o

\* The delivery transaction also holds the event row.
EventLocked == \E w \in Workers : pc[w] = "commit"

ActiveHeads == {p \in Terminal : delivery[p] # "absent" /\ supersededBy[p] = None}

\* Mutant: only a running action is updated.
Mirror_Executing(S, s) ==
    mirror' = [p \in Rows |-> IF p \in S \cap Terminal /\ action[p] = "executing"
                              THEN s ELSE mirror[p]]

\* _mirror_writeback_status_to_action, for the rows of a set
Mirror(S, s) == mirror' = [p \in Rows |-> IF p \in S \cap Terminal THEN s ELSE mirror[p]]

\* _apply_action_terminal_from_receipt
ActionAfter(a, s) ==
    IF a # "executing" THEN a
    ELSE CASE s = "accepted"  -> a
           [] s = "confirmed" -> "success"
           [] s = "partial"   -> "partial_success"
           [] s = "unknown"   -> "unknown"
           [] OTHER           -> "failed"

Project(o, s) == action' = [action EXCEPT ![o] = ActionAfter(@, s)]

\* _action_still_approved_for_delivery
StillApproved(o) == action[o] \in {"approved", "executing", "success", "partial_success"}

Default(s, d) == IF s = None THEN d ELSE s

TypeOK ==
    /\ delivery \in [Rows -> OutboxDeliveryStatus \cup {"absent"}]
    /\ latest \in [Rows -> WritebackStatus \cup {None}]
    /\ lockedBy \in [Rows -> Ids \cup Workers \cup {None}]
    /\ leaseLive \in [Rows -> BOOLEAN]
    /\ supersededBy \in [Rows -> Terminal \cup {None}]
    /\ rejected \in [Rows -> BOOLEAN]
    /\ receipt \in [Rows -> WritebackStatus \cup {None}]
    /\ action \in [Rows -> ActionStatus]
    /\ mirror \in [Rows -> WritebackStatus \cup {None}]
    /\ pc \in [Workers -> PCs]
    /\ batch \in [Workers -> SUBSET Rows]
    /\ cur \in [Workers -> Rows \cup {None}]
    /\ res \in [Workers -> Outcomes \cup Kinds \cup {None}]
    /\ sync \in [Workers -> BOOLEAN]
    /\ recovery \in [Rows -> WritebackStatus \cup {None}]
    /\ wire \in [Rows -> Nat]
    /\ pstatus \in [Rows -> WritebackStatus \cup {None}]
    /\ effects \in [Rows -> Nat]
    /\ submits \in [Rows -> Nat]
    /\ cleared \in [Rows -> BOOLEAN]
    /\ manual \in [Rows -> BOOLEAN]
    /\ crashes \in Nat

Init ==
    /\ delivery = [o \in Rows |-> "absent"]
    /\ latest = [o \in Rows |-> None]
    /\ lockedBy = [o \in Rows |-> None]
    /\ leaseLive = [o \in Rows |-> FALSE]
    /\ supersededBy = [o \in Rows |-> None]
    /\ rejected = [o \in Rows |-> FALSE]
    /\ receipt = [o \in Rows |-> None]
    /\ action = [o \in Rows |-> "executing"]
    /\ mirror = [o \in Rows |-> None]
    /\ pc = [w \in Workers |-> "idle"]
    /\ batch = [w \in Workers |-> {}]
    /\ cur = [w \in Workers |-> None]
    /\ res = [w \in Workers |-> None]
    /\ sync = [w \in Workers |-> FALSE]
    /\ recovery = [o \in Rows |-> None]
    /\ wire = [o \in Rows |-> 0]
    /\ pstatus = [o \in Rows |-> None]
    /\ effects = [o \in Rows |-> 0]
    /\ submits = [o \in Rows |-> 0]
    /\ cleared = [o \in Rows |-> FALSE]
    /\ manual = [o \in Rows |-> FALSE]
    /\ crashes = 0
-----------------------------------------------------------------------------
(* Creating rows                                                           *)

\* enqueue_command for an entity command (ActionExecutionService)
EnqueueEntity(o) ==
    /\ o \in Rows \ Terminal /\ delivery[o] = "absent" /\ ~EventLocked
    /\ delivery' = [delivery EXCEPT ![o] = "ready"]
    /\ UNCHANGED <<latest, lockedBy, leaseLive, supersededBy, rejected, receipt,
                   actVars, workVars, recovery, provVars, histVars>>

\* Mutant: a head that was already delivered stays active.
Lineage_Undelivered(o) ==
    [p \in Rows |-> IF p \in ActiveHeads /\ delivery[p] # "delivered"
                    THEN o ELSE supersededBy[p]]

\* superseded_by_disposition_id once o is the head
Lineage(o) == [p \in Rows |-> IF p \in ActiveHeads THEN o ELSE supersededBy[p]]

\* Mutant: only a queued head is stopped.
StoppedHeads_Ready == {p \in ActiveHeads : delivery[p] = "ready"}

\* _finalize_superseded_head: a head that is not settled is dead-lettered
StoppedHeads == {p \in ActiveHeads : delivery[p] \notin {"delivered", "dead_letter"}}

\* EventDispositionService.activate_and_submit: enqueue_command supersedes the
\* active head (_finalize_superseded_head) and inserts the new one in the same
\* transaction; the same process then calls deliver_outbox on it.
ActivateAndSubmit(w, o) ==
    /\ o \in Terminal /\ delivery[o] = "absent" /\ pc[w] = "idle" /\ ~EventLocked
    /\ supersededBy' = Lineage(o)
    /\ delivery' = [p \in Rows |-> IF p = o THEN "ready"
                                   ELSE IF p \in StoppedHeads THEN "dead_letter"
                                   ELSE delivery[p]]
    /\ lockedBy' = [p \in Rows |-> IF p \in StoppedHeads THEN None ELSE lockedBy[p]]
    /\ leaseLive' = [p \in Rows |-> leaseLive[p] /\ p \notin StoppedHeads]
    /\ rejected' = [p \in Rows |-> rejected[p] /\ p \notin StoppedHeads]
    /\ pc' = [pc EXCEPT ![w] = "deliver"]
    /\ batch' = [batch EXCEPT ![w] = {o}]
    /\ sync' = [sync EXCEPT ![w] = TRUE]
    /\ UNCHANGED <<latest, receipt, actVars, cur, res, recovery, provVars, histVars>>

-----------------------------------------------------------------------------
(* OutboxWorker.run_once: reconcile paused rows, claim a batch, deliver it *)

\* What a provider lookup of the row may return: lookup_submission, else
\* get_status with the provider job id of the newest receipt.
LookupOutcomes(o) ==
    {"degraded"} \cup
    (IF pstatus[o] # None /\ (SupportsLookup \/ (SupportsStatusQuery /\ receipt[o] # None))
     THEN {pstatus[o]}
     ELSE IF SupportsLookup THEN {"not_found"} ELSE {})

\* _claim_paused_outboxes: a reconciliation token with a 30 s lease per row
ClaimPaused(w) ==
    LET S == {o \in Rows : /\ delivery[o] = "paused" /\ supersededBy[o] = None
                           /\ lockedBy[o] = None \/ ~leaseLive[o]}
    IN  /\ pc[w] = "idle"
        /\ lockedBy' = [o \in Rows |-> IF o \in S THEN w ELSE lockedBy[o]]
        /\ leaseLive' = [o \in Rows |-> leaseLive[o] \/ o \in S]
        /\ Mirror(S, "unknown")
        /\ batch' = [batch EXCEPT ![w] = S]
        /\ pc' = [pc EXCEPT ![w] = IF S = {} THEN "claim" ELSE "lookup"]
        /\ sync' = [sync EXCEPT ![w] = FALSE]
        /\ UNCHANGED <<delivery, latest, supersededBy, rejected, receipt, action,
                       cur, res, recovery, provVars, histVars>>

\* _lookup_paused_outbox, outside any transaction
LookupPaused(w, o) ==
    /\ pc[w] = "lookup" /\ o \in batch[w]
    /\ \E r \in LookupOutcomes(o) : res' = [res EXCEPT ![w] = r]
    /\ cur' = [cur EXCEPT ![w] = o]
    /\ batch' = [batch EXCEPT ![w] = @ \ {o}]
    /\ pc' = [pc EXCEPT ![w] = "apply"]
    /\ UNCHANGED <<rowVars, actVars, sync, recovery, provVars, histVars>>

\* The row still carries this process's token (_apply_paused_lookup_outcome).
Fenced(w, o) == delivery[o] = "paused" /\ lockedBy[o] = w /\ supersededBy[o] = None

AfterApply(w) ==
    /\ pc' = [pc EXCEPT ![w] = IF batch[w] = {} THEN "claim" ELSE "lookup"]
    /\ cur' = [cur EXCEPT ![w] = None]
    /\ res' = [res EXCEPT ![w] = None]
    /\ UNCHANGED <<batch, sync, supersededBy, recovery, provVars, submits, manual,
                   crashes>>

Unlock(o) ==
    /\ lockedBy' = [lockedBy EXCEPT ![o] = None]
    /\ leaseLive' = [leaseLive EXCEPT ![o] = FALSE]

\* Token lost: the outcome is dropped.
ApplyStale(w) ==
    /\ pc[w] = "apply" /\ ~Fenced(w, cur[w]) /\ AfterApply(w)
    /\ UNCHANGED <<delivery, latest, lockedBy, leaseLive, rejected, receipt,
                   actVars, cleared>>

\* DEGRADED, FOUND with UNKNOWN, or NOT_FOUND without safe retry: stays paused
ApplyInconclusive(w) ==
    LET o == cur[w]
    IN  /\ pc[w] = "apply" /\ Fenced(w, o)
        /\ \/ res[w] \in {"degraded", "unknown"}
           \/ res[w] = "not_found" /\ ~rejected[o] /\ ~AllowsSafeRetry
        /\ latest' = [latest EXCEPT ![o] = "unknown"]
        /\ rejected' = [rejected EXCEPT ![o] = FALSE]
        /\ Unlock(o) /\ Mirror({o}, "unknown") /\ AfterApply(w)
        /\ UNCHANGED <<delivery, receipt, action, cleared>>

\* NOT_FOUND for a row whose last error is a deterministic rejection
ApplyRejected(w) ==
    LET o == cur[w]
    IN  /\ pc[w] = "apply" /\ Fenced(w, o) /\ res[w] = "not_found" /\ rejected[o]
        /\ delivery' = [delivery EXCEPT ![o] = "dead_letter"]
        /\ latest' = [latest EXCEPT ![o] = "failed"]
        /\ receipt' = [receipt EXCEPT ![o] = "failed"]
        /\ Unlock(o) /\ Mirror({o}, "failed") /\ Project(o, "failed") /\ AfterApply(w)
        /\ UNCHANGED <<rejected, cleared>>

\* NOT_FOUND: the source never accepted it, the row goes back to the queue
ApplyNeverAccepted(w) ==
    LET o == cur[w]
    IN  /\ pc[w] = "apply" /\ Fenced(w, o) /\ res[w] = "not_found"
        /\ ~rejected[o] /\ AllowsSafeRetry
        /\ ValidWriteback(Default(latest[o], "unknown"), "pending",
                          {"lookup_never_accepted", "adapter_allows_safe_retry"})
        /\ delivery' = [delivery EXCEPT ![o] = "ready"]
        /\ latest' = [latest EXCEPT ![o] = "pending"]
        /\ cleared' = [cleared EXCEPT ![o] = TRUE]
        /\ Unlock(o) /\ Mirror({o}, "pending") /\ AfterApply(w)
        /\ UNCHANGED <<rejected, receipt, action>>

\* FOUND: the source has it, its status is recorded without a second egress
ApplyFound(w) ==
    LET o == cur[w]
        s == res[w]
    IN  /\ pc[w] = "apply" /\ Fenced(w, o) /\ s \in WritebackStatus \ {"unknown"}
        /\ ValidWriteback(Default(latest[o], "unknown"), s, {"evidence_adjudication"})
        /\ delivery' = [delivery EXCEPT ![o] = "delivered"]
        /\ latest' = [latest EXCEPT ![o] = s]
        /\ receipt' = [receipt EXCEPT ![o] = s]
        /\ rejected' = [rejected EXCEPT ![o] = FALSE]
        /\ Unlock(o) /\ Mirror({o}, s) /\ Project(o, s) /\ AfterApply(w)
        /\ UNCHANGED cleared

\* The status transition is illegal, the transaction rolls back and
\* _release_paused_lookup_claim gives the token up.
ApplyIllegal(w) ==
    LET o == cur[w]
        from == Default(latest[o], "unknown")
    IN  /\ pc[w] = "apply" /\ Fenced(w, o)
        /\ \/ /\ res[w] = "not_found" /\ ~rejected[o] /\ AllowsSafeRetry
              /\ ~ValidWriteback(from, "pending",
                                 {"lookup_never_accepted", "adapter_allows_safe_retry"})
           \/ /\ res[w] \in WritebackStatus \ {"unknown"}
              /\ ~ValidWriteback(from, res[w], {"evidence_adjudication"})
        /\ rejected' = [rejected EXCEPT ![o] = FALSE]
        /\ Unlock(o) /\ AfterApply(w)
        /\ UNCHANGED <<delivery, latest, receipt, actVars, cleared>>

Claimable(o) == supersededBy[o] = None /\ ~Locked(o)

\* Mutant: an expired lease is simply taken over.
DueRows_TakeOver ==
    {o \in Rows : Claimable(o) /\ delivery[o] \in {"ready", "leased"}
                  /\ (delivery[o] = "leased" => ~leaseLive[o])}

DueRows == {o \in Rows : Claimable(o) /\ delivery[o] = "ready"}

\* Mutant: expired leases are left to their owner.
ExpiredRows_None == {}

ExpiredRows == {o \in Rows : Claimable(o) /\ delivery[o] = "leased" /\ ~leaseLive[o]}

\* _claim_batch: lease the due rows; a row whose lease ran out is paused for
\* lookup (_release_leased_outbox_after_lease_expiry), never leased again.
ClaimBatch(w) ==
    LET due     == DueRows
        expired == ExpiredRows \ due
    IN  /\ pc[w] = "claim"
        /\ delivery' = [o \in Rows |-> IF o \in due THEN "leased"
                                       ELSE IF o \in expired THEN "paused"
                                       ELSE delivery[o]]
        /\ lockedBy' = [o \in Rows |-> IF o \in due THEN WorkerId[w]
                                       ELSE IF o \in expired THEN None
                                       ELSE lockedBy[o]]
        /\ leaseLive' = [o \in Rows |-> leaseLive[o] \/ o \in due]
        /\ latest' = [o \in Rows |-> IF o \in expired THEN "unknown" ELSE latest[o]]
        /\ rejected' = [o \in Rows |-> rejected[o] /\ o \notin expired]
        /\ Mirror(expired, "unknown")
        /\ batch' = [batch EXCEPT ![w] = due]
        /\ pc' = [pc EXCEPT ![w] = IF due = {} THEN "idle" ELSE "deliver"]
        /\ UNCHANGED <<supersededBy, receipt, action, cur, res, sync, recovery,
                       provVars, histVars>>

-----------------------------------------------------------------------------
(* _deliver_outbox                                                         *)

Delivering(w, o) == pc[w] = "deliver" /\ o \in batch[w] /\ ~EventLocked /\ ~Locked(o)

\* The row may still be delivered by this process.
Deliverable(w, o) ==
    /\ supersededBy[o] = None
    /\ \/ delivery[o] = "ready"
       \/ delivery[o] = "leased" /\ lockedBy[o] = WorkerId[w] /\ leaseLive[o]

\* Done with the row in hand: next row of the batch, or end of run_once.
Advance(w, rest) ==
    /\ batch' = [batch EXCEPT ![w] = rest]
    /\ pc' = [pc EXCEPT ![w] = IF rest = {} THEN "idle" ELSE "deliver"]
    /\ cur' = [cur EXCEPT ![w] = None]
    /\ res' = [res EXCEPT ![w] = None]
    /\ UNCHANGED sync

\* _release_leased_outbox_to_dead_letter, _block_superseded_outbox and
\* _block_outbox_for_writeback_fence: only a lease is released.
Block(o) ==
    /\ delivery' = [delivery EXCEPT ![o] = "dead_letter"]
    /\ rejected' = [rejected EXCEPT ![o] = FALSE]
    /\ lockedBy' = [lockedBy EXCEPT ![o] = IF delivery[o] = "leased" THEN None ELSE @]
    /\ leaseLive' = [leaseLive EXCEPT ![o] = @ /\ delivery[o] # "leased"]

\* Superseded head; DELIVERED -> DEAD_LETTER is illegal and rolls back.
DeliverSuperseded(w, o) ==
    /\ Delivering(w, o) /\ supersededBy[o] # None
    /\ IF delivery[o] = "delivered"
       THEN UNCHANGED <<delivery, rejected, lockedBy, leaseLive>>
       ELSE Block(o)
    /\ Advance(w, batch[w] \ {o})
    /\ UNCHANGED <<latest, supersededBy, receipt, actVars, recovery, provVars, histVars>>

\* Wrong delivery_status, someone else's lease, or a result already on file
DeliverSkip(w, o) ==
    /\ Delivering(w, o) /\ supersededBy[o] = None
    /\ \/ delivery[o] \notin {"ready", "leased"}
       \/ delivery[o] = "leased" /\ lockedBy[o] # WorkerId[w]
       \/ /\ Deliverable(w, o) /\ StillApproved(o)
          /\ \/ latest[o] \in {"accepted", "confirmed", "failed", "conflict", "unknown"}
             \/ receipt[o] # None
    /\ Advance(w, batch[w] \ {o})
    /\ UNCHANGED <<rowVars, actVars, recovery, provVars, histVars>>

\* Own lease ran out before delivery started
DeliverExpired(w, o) ==
    /\ Delivering(w, o) /\ supersededBy[o] = None
    /\ delivery[o] = "leased" /\ lockedBy[o] = WorkerId[w] /\ ~leaseLive[o]
    /\ delivery' = [delivery EXCEPT ![o] = "paused"]
    /\ latest' = [latest EXCEPT ![o] = "unknown"]
    /\ rejected' = [rejected EXCEPT ![o] = FALSE]
    /\ Unlock(o) /\ Advance(w, batch[w] \ {o})
    /\ UNCHANGED <<supersededBy, receipt, actVars, recovery, provVars, histVars>>

\* The bound action is no longer approved, or the write-back fence is closed
DeliverFenced(w, o) ==
    /\ Delivering(w, o) /\ Deliverable(w, o)
    /\ Block(o) /\ Advance(w, batch[w] \ {o})
    /\ UNCHANGED <<latest, supersededBy, receipt, actVars, recovery, provVars, histVars>>

\* An exception leaves _deliver_outbox and its transaction rolls back.
\* run_once classifies it; activate_and_submit swallows it.
FailDelivery(w, o, kind) ==
    IF sync[w]
    THEN Advance(w, batch[w] \ {o})
    ELSE /\ pc' = [pc EXCEPT ![w] = "mark"]
         /\ cur' = [cur EXCEPT ![w] = o]
         /\ res' = [res EXCEPT ![w] = kind]
         /\ batch' = [batch EXCEPT ![w] = @ \ {o}]
         /\ UNCHANGED sync

\* The outbound guard, adapter resolution or validate_command raises.
DeliverInvalid(w, o) ==
    /\ Delivering(w, o) /\ Deliverable(w, o) /\ StillApproved(o)
    /\ \E kind \in Kinds \ {"conflict"} : FailDelivery(w, o, kind)
    /\ UNCHANGED <<rowVars, actVars, recovery, provVars, histVars>>

\* Mutant: the idempotency key is not honoured.
ProviderExecute_Again(o, s) ==
    /\ pstatus' = [pstatus EXCEPT ![o] = s]
    /\ effects' = [effects EXCEPT ![o] = IF s = "failed" THEN @ ELSE @ + 1]

\* The source system executes a command; a repeated idempotency key returns
\* the recorded status and has no second effect.
ProviderExecute(o, s) ==
    IF SupportsIdempotency /\ pstatus[o] # None
    THEN s = pstatus[o] /\ UNCHANGED <<pstatus, effects>>
    ELSE /\ pstatus' = [pstatus EXCEPT ![o] = s]
         /\ effects' = [effects EXCEPT ![o] = IF s = "failed" THEN @ ELSE @ + 1]

Submits(w, o) ==
    /\ Delivering(w, o) /\ Deliverable(w, o) /\ StillApproved(o)
    /\ latest[o] \in {None, "pending", "sending", "partial"} /\ receipt[o] = None
    /\ submits[o] < MaxSubmits
    /\ submits' = [submits EXCEPT ![o] = @ + 1]
    /\ cleared' = [cleared EXCEPT ![o] = FALSE]
    /\ UNCHANGED <<rowVars, actVars, recovery, manual, crashes>>

\* The receipt is in hand and the transaction still open.
Receive(w, o, s) ==
    /\ pc' = [pc EXCEPT ![w] = "commit"]
    /\ cur' = [cur EXCEPT ![w] = o]
    /\ res' = [res EXCEPT ![w] = s]
    /\ batch' = [batch EXCEPT ![w] = @ \ {o}]
    /\ UNCHANGED sync

\* adapter.submit answered (for a terminal command, after confirm_readback)
SubmitAnswered(w, o) ==
    /\ Submits(w, o)
    /\ \E s \in Answers : ProviderExecute(o, s) /\ Receive(w, o, s)
    /\ UNCHANGED wire

\* The answer is lost, or the request is still on the wire: the adapter
\* returns an UNKNOWN receipt or raises.
SubmitLost(w, o) ==
    /\ Submits(w, o)
    /\ \/ \E s \in Answers : ProviderExecute(o, s) /\ UNCHANGED wire
       \/ wire' = [wire EXCEPT ![o] = @ + 1] /\ UNCHANGED <<pstatus, effects>>
    /\ Receive(w, o, "unknown") \/ FailDelivery(w, o, "ambiguous")

\* The source system refuses the command (409, or a deterministic 4xx).
SubmitRefused(w, o) ==
    /\ Submits(w, o)
    /\ \E kind \in {"conflict", "rejection"} : FailDelivery(w, o, kind)
    /\ UNCHANGED provVars

\* A definite receipt: DELIVERED; the lease columns are left as they are.
CommitDelivered(w) ==
    LET o == cur[w]
        s == res[w]
    IN  /\ pc[w] = "commit" /\ s # "unknown"
        /\ delivery' = [delivery EXCEPT ![o] = "delivered"]
        /\ latest' = [latest EXCEPT ![o] = s]
        /\ receipt' = [receipt EXCEPT ![o] = s]
        /\ Mirror({o}, s) /\ Project(o, s) /\ Advance(w, batch[w])
        /\ UNCHANGED <<lockedBy, leaseLive, supersededBy, rejected, recovery,
                       provVars, histVars>>

\* An UNKNOWN receipt pauses the row (_pause_outbox_after_unknown_submission).
CommitUnknown(w) ==
    LET o == cur[w]
    IN  /\ pc[w] = "commit" /\ res[w] = "unknown"
        /\ ValidDelivery(delivery[o], "paused", {})
        /\ delivery' = [delivery EXCEPT ![o] = "paused"]
        /\ latest' = [latest EXCEPT ![o] = "unknown"]
        /\ receipt' = [receipt EXCEPT ![o] = "unknown"]
        /\ rejected' = [rejected EXCEPT ![o] = FALSE]
        /\ Unlock(o) /\ Mirror({o}, "unknown") /\ Project(o, "unknown")
        /\ Advance(w, batch[w])
        /\ UNCHANGED <<supersededBy, recovery, provVars, histVars>>

\* The commit fails, or READY -> PAUSED raises: the transaction rolls back.
CommitRollsBack(w) ==
    /\ pc[w] = "commit"
    /\ FailDelivery(w, cur[w], "ambiguous")
    /\ UNCHANGED <<rowVars, actVars, recovery, provVars, histVars>>

\* The row as left by the _mark_delivery_* handlers
MarkedDelivery(kind) ==
    CASE kind = "ambiguous" -> "paused"
      [] kind = "conflict"  -> "delivered"
      [] OTHER              -> "dead_letter"

\* Mutant: the error kind is stored as it is.
MarkedStatus_Raw(kind) == kind

\* Mutant: no answer is taken for acceptance.
MarkedStatus_Optimistic(kind) == IF kind = "ambiguous" THEN "accepted" ELSE "failed"

MarkedStatus(kind) ==
    CASE kind = "ambiguous" -> "unknown"
      [] kind = "conflict"  -> "conflict"
      [] OTHER              -> "failed"

\* _mark_delivery_dead_letter (guardrail), _mark_delivery_conflict,
\* _mark_delivery_deterministic_rejection, _mark_delivery_paused_unknown:
\* a new transaction that acts on any LEASED row, whoever owns the lease.
Mark(w) ==
    LET o == cur[w]
        s == MarkedStatus(res[w])
    IN  /\ pc[w] = "mark" /\ ~Locked(o) /\ delivery[o] = "leased"
        /\ delivery' = [delivery EXCEPT ![o] = MarkedDelivery(res[w])]
        /\ rejected' = [rejected EXCEPT ![o] = res[w] = "rejection"]
        /\ Unlock(o)
        /\ IF res[w] = "guardrail"
           THEN UNCHANGED <<latest, receipt, actVars>>
           ELSE /\ latest' = [latest EXCEPT ![o] = s]
                /\ receipt' = [receipt EXCEPT ![o] = s]
                /\ Mirror({o}, s)
                /\ IF s = "unknown" THEN UNCHANGED action ELSE Project(o, s)
        /\ Advance(w, batch[w])
        /\ UNCHANGED <<supersededBy, recovery, provVars, histVars>>

MarkStale(w) ==
    /\ pc[w] = "mark" /\ ~Locked(cur[w]) /\ delivery[cur[w]] # "leased"
    /\ Advance(w, batch[w])
    /\ UNCHANGED <<rowVars, actVars, recovery, provVars, histVars>>

-----------------------------------------------------------------------------
(* Operator retry (retry_writeback; activate_deferred_disposition calls it *)
(* for the newest terminal row)                                            *)

\* Past the early raises, and past READY, which only records an audit entry
Retryable(o) ==
    /\ ~Locked(o) /\ supersededBy[o] = None
    /\ delivery[o] \in {"dead_letter", "delivered", "paused"}
    /\ ~(latest[o] = "unknown" /\ delivery[o] = "delivered")
    /\ EligibleForRetryPause(delivery[o], latest[o])

\* The lookup outcomes _evaluate_operator_retry_lookup may act on; any other
\* outcome, and a row last refused by the adapter, blocks the retry.
RetryLookups(o) ==
    IF rejected[o] \/ ~(SupportsLookup \/ SupportsStatusQuery) THEN {} ELSE LookupOutcomes(o)

\* Blocked after the pause gate: the row is left PAUSED
RetryBlocked(o) ==
    /\ Retryable(o)
    /\ delivery' = [delivery EXCEPT ![o] = "paused"]
    /\ IF delivery[o] = "paused" THEN UNCHANGED <<lockedBy, leaseLive>> ELSE Unlock(o)
    /\ UNCHANGED <<latest, supersededBy, rejected, receipt, actVars, workVars,
                   recovery, provVars, histVars>>

\* The source already has the command: record its status, no second egress
RetryReconcile(o) ==
    /\ Retryable(o)
    /\ \E s \in RetryLookups(o) \cap TerminalSuccess :
          /\ latest' = [latest EXCEPT ![o] = s]
          /\ receipt' = [receipt EXCEPT ![o] = s]
          /\ Mirror({o}, s)
    /\ delivery' = [delivery EXCEPT ![o] = "delivered"]
    /\ IF delivery[o] = "paused" THEN UNCHANGED <<lockedBy, leaseLive>> ELSE Unlock(o)
    /\ UNCHANGED <<supersededBy, rejected, action, workVars, recovery, provVars,
                   histVars>>

\* Never accepted, or failed at the source: back to READY on the same row
RetryReenqueue(o) ==
    /\ Retryable(o) /\ AllowsSafeRetry
    /\ \E r \in RetryLookups(o) \cap {"failed", "partial", "not_found"} :
          ValidWriteback(Default(latest[o], "failed"), "pending",
                         {"adapter_allows_safe_retry"} \cup
                         (IF r = "not_found" THEN {"lookup_never_accepted"} ELSE {}))
    /\ delivery' = [delivery EXCEPT ![o] = "ready"]
    /\ latest' = [latest EXCEPT ![o] = "pending"]
    /\ cleared' = [cleared EXCEPT ![o] = TRUE]
    /\ Unlock(o) /\ Mirror({o}, "pending")
    /\ UNCHANGED <<supersededBy, rejected, receipt, action, workVars, recovery,
                   provVars, submits, manual, crashes>>

-----------------------------------------------------------------------------
(* Human adjudication and the recovery handler's lookup                    *)

\* resolve_writeback: manual_confirmed, or mark_failed / abandon
ResolveWriteback(o, target) ==
    LET from == Default(latest[o], "unknown")
    IN  /\ delivery[o] # "absent" /\ ~Locked(o) /\ from # target
        /\ ValidWriteback(from, target, {"evidence_adjudication"})
        /\ delivery' = [delivery EXCEPT ![o] = "delivered"]
        /\ latest' = [latest EXCEPT ![o] = target]
        /\ receipt' = [receipt EXCEPT ![o] = target]
        /\ manual' = [manual EXCEPT ![o] = TRUE]
        /\ Mirror({o}, target)
        /\ UNCHANGED <<lockedBy, leaseLive, supersededBy, rejected, action, workVars,
                       recovery, provVars, submits, cleared, crashes>>

\* lookup_writeback_status: the provider's status, or the cached one when the
\* provider has none
RecoveryAnswers(o) ==
    LET found == LookupOutcomes(o) \cap WritebackStatus
    IN  IF found = {} THEN {latest[o]} \ {None} ELSE found

\* WritebackRecoveryHandler asks; UNKNOWN leaves the row to a human.
RecoveryLookup(o) ==
    /\ delivery[o] # "absent" /\ recovery[o] = None
    /\ \E s \in RecoveryAnswers(o) \ {"unknown"} :
          recovery' = [recovery EXCEPT ![o] = s]
    /\ UNCHANGED <<rowVars, actVars, workVars, provVars, histVars>>

\* update_writeback_status_from_lookup, in a later transaction; an illegal
\* transition raises and changes nothing.
RecoveryApply(o) ==
    LET s == recovery[o]
    IN  /\ s # None /\ ~Locked(o)
        /\ recovery' = [recovery EXCEPT ![o] = None]
        /\ IF ValidWriteback(Default(latest[o], "pending"), s, {"evidence_adjudication"})
           THEN /\ latest' = [latest EXCEPT ![o] = s]
                /\ Mirror({o}, s)
                /\ IF s \in TerminalSuccess /\ delivery[o] \in {"ready", "paused", "leased"}
                   THEN delivery' = [delivery EXCEPT ![o] = "delivered"] /\ Unlock(o)
                   ELSE UNCHANGED <<delivery, lockedBy, leaseLive>>
           ELSE UNCHANGED <<delivery, latest, lockedBy, leaseLive, mirror>>
        /\ UNCHANGED <<supersededBy, rejected, receipt, action, workVars, provVars,
                       histVars>>

-----------------------------------------------------------------------------
(* The bound action, moved by other services                               *)

SetAction(o, from, to) ==
    /\ delivery[o] # "absent" /\ ~Locked(o) /\ action[o] = from
    /\ action' = [action EXCEPT ![o] = to]
    /\ UNCHANGED <<rowVars, mirror, workVars, recovery, provVars, histVars>>

\* _reclaim_stale_executing_action / _reclaim_stale_job_row: an EXECUTING
\* entity action without an active outbox is released or failed.
ReclaimAction(o) ==
    /\ o \notin Terminal /\ delivery[o] \notin {"ready", "leased", "paused"}
    /\ \E to \in {"approved", "failed"} : SetAction(o, "executing", to)

\* _claim_action and _attach_existing_job: a released action runs into the job
\* it already has, and needs a human.
ReattachAction(o) == SetAction(o, "approved", "unknown")

\* _reconcile_entity_effect_for_outbox: a read-back that verifies the effect of
\* an accepted entity command completes its running action, not the row.
CompleteEffect(o) ==
    /\ o \notin Terminal /\ receipt[o] = "accepted" /\ effects[o] > 0
    /\ SetAction(o, "executing", "success")

\* resolve_unknown
ResolveUnknown(o) ==
    \E to \in {"success", "partial_success", "failed"} : SetAction(o, "unknown", to)

-----------------------------------------------------------------------------
(* Time, crashes and the source system                                     *)

\* The 30 s lease of the row, or of its reconciliation token, runs out.
LeaseExpires(o) ==
    /\ leaseLive[o]
    /\ leaseLive' = [leaseLive EXCEPT ![o] = FALSE]
    /\ UNCHANGED <<delivery, latest, lockedBy, supersededBy, rejected, receipt,
                   actVars, workVars, recovery, provVars, histVars>>

\* A process dies; its open transaction rolls back.
Crash(w) ==
    /\ pc[w] # "idle" /\ crashes < MaxCrashes
    /\ crashes' = crashes + 1
    /\ pc' = [pc EXCEPT ![w] = "idle"]
    /\ batch' = [batch EXCEPT ![w] = {}]
    /\ cur' = [cur EXCEPT ![w] = None]
    /\ res' = [res EXCEPT ![w] = None]
    /\ UNCHANGED <<rowVars, actVars, sync, recovery, provVars, submits, cleared, manual>>

\* A delayed request reaches the source system, or never does.
WireDelivers(o) ==
    /\ wire[o] > 0
    /\ wire' = [wire EXCEPT ![o] = @ - 1]
    /\ \/ \E s \in Answers : ProviderExecute(o, s)
       \/ UNCHANGED <<pstatus, effects>>
    /\ UNCHANGED <<rowVars, actVars, workVars, recovery, histVars>>

\* An accepted command completes at the source system.
ProviderProgress(o) ==
    /\ pstatus[o] = "accepted"
    /\ \E s \in Answers \ {"accepted"} : pstatus' = [pstatus EXCEPT ![o] = s]
    /\ UNCHANGED <<rowVars, actVars, workVars, recovery, wire, effects, histVars>>

-----------------------------------------------------------------------------
DeliverStep(w) ==
    \/ \E o \in Rows : \/ DeliverSuperseded(w, o) \/ DeliverSkip(w, o)
                       \/ DeliverExpired(w, o) \/ DeliverFenced(w, o)
                       \/ DeliverInvalid(w, o) \/ SubmitAnswered(w, o)
                       \/ SubmitLost(w, o) \/ SubmitRefused(w, o)
    \/ CommitDelivered(w) \/ CommitUnknown(w) \/ CommitRollsBack(w)
    \/ Mark(w) \/ MarkStale(w)

ReconcileStep(w) ==
    \/ ClaimPaused(w)
    \/ \E o \in Rows : LookupPaused(w, o)
    \/ ApplyStale(w) \/ ApplyInconclusive(w) \/ ApplyRejected(w)
    \/ ApplyNeverAccepted(w) \/ ApplyFound(w) \/ ApplyIllegal(w)

WorkerStep(w) == ReconcileStep(w) \/ ClaimBatch(w) \/ DeliverStep(w)

OperatorStep(o) ==
    \/ "retry" \in EntryPoints
       /\ (RetryBlocked(o) \/ RetryReconcile(o) \/ RetryReenqueue(o))
    \/ "resolve" \in EntryPoints
       /\ \E target \in {"confirmed", "failed"} : ResolveWriteback(o, target)
    \/ "recovery" \in EntryPoints /\ (RecoveryLookup(o) \/ RecoveryApply(o))

ActionStep(o) ==
    /\ "action" \in EntryPoints
    /\ \/ ReclaimAction(o) \/ ReattachAction(o)
       \/ CompleteEffect(o) \/ ResolveUnknown(o)

Next ==
    \/ \E w \in Workers :
          WorkerStep(w) \/ Crash(w) \/ \E o \in Rows : ActivateAndSubmit(w, o)
    \/ \E o \in Rows :
          \/ EnqueueEntity(o) \/ OperatorStep(o) \/ ActionStep(o)
          \/ LeaseExpires(o) \/ WireDelivers(o) \/ ProviderProgress(o)

Spec == Init /\ [][Next]_vars

\* Every process keeps running run_once (the beat schedule re-enters it) and
\* clocks advance; crashes are finite.
FairSpec ==
    /\ Spec
    /\ \A w \in Workers : WF_vars(WorkerStep(w))
    /\ \A o \in Rows : WF_vars(LeaseExpires(o))

-----------------------------------------------------------------------------
(* Properties                                                              *)

\* The source system executes a command at most once, whatever crashes, late
\* requests, lookups, operator retries and re-deliveries happen in between.
AtMostOnceEffect == \A o \in Rows : effects[o] <= 1

\* An adapter that does not declare a safe retry is never asked twice: each
\* entity row reaches adapter.submit at most once in its life, even when processes
\* share a worker_id, die after the call, or come back to an old batch.
AtMostOnceSubmit ==
    ~(SupportsIdempotency /\ SupportsLookup) => \A o \in Rows \ Terminal : submits[o] <= 1

\* A success status on a row was earned: the source system executed the
\* command, or a human adjudicated it (resolve_writeback).
SuccessIsReal ==
    \A o \in Rows : latest[o] \in TerminalSuccess => effects[o] > 0 \/ manual[o]

\* CONFIRMED is terminal: no reconcile, expiry, retry, recovery or late commit
\* takes it back, and the row never becomes deliverable again.
ConfirmedIsFinal ==
    [][\A o \in Rows : latest[o] = "confirmed" =>
          latest'[o] = "confirmed" /\ delivery'[o] \notin {"ready", "leased", "paused"}]_vars

\* One (event, closure_cycle, logical_slot) has at most one active terminal
\* head (the partial unique index on disposition_outbox).
SingleActiveHead == \A p, q \in ActiveHeads : p = q

\* A superseded head can never egress again: it is settled from the commit
\* that superseded it, and every entry point leaves it settled.
SupersededIsFenced ==
    \A o \in Rows : supersededBy[o] # None => delivery[o] \in {"delivered", "dead_letter"}

\* Once a terminal command is DELIVERED, the write-back status on its action
\* (read by the close gate) is the status of the row, whoever wrote last.
MirrorOfSettled ==
    \A o \in Terminal : delivery[o] = "delivered" => mirror[o] = latest[o]

\* A row that left an ambiguous result behind is never sent again without a
\* lookup that cleared it in between.
NoBlindResubmit ==
    [][\A o \in Rows : submits'[o] > submits[o] /\ submits[o] > 0 => cleared[o]]_vars

\* A command the adapter refused for good never returns to the queue.
\* The code does not keep this (README, disagreements).
RejectedIsNotRequeued == [](\A o \in Rows : rejected[o] => [](delivery[o] # "ready"))

\* A leased row is always released, although its owner may die holding it.
LeaseIsReleased == \A o \in Rows : delivery[o] = "leased" ~> delivery[o] # "leased"

\* A worker that reaches a row a lookup re-enqueued sends it, fails it or
\* settles it; it does not walk past it.
\* The code does not keep this (README, disagreements).
ClearedIsSent ==
    [][\A w \in Workers, o \in Rows :
          /\ pc[w] = "deliver" /\ o \in batch[w] /\ Deliverable(w, o) /\ cleared[o]
          /\ o \notin batch'[w] /\ pc'[w] # "mark"
          => ~cleared'[o] \/ delivery'[o] = "dead_letter"]_vars

\* A provider lookup that proves success fences a row that is not delivered
\* yet, so that a re-enqueued row cannot egress again.
\* The code does not keep this (README, disagreements).
RecoveryFences ==
    [][\A o \in Rows :
          recovery[o] \in TerminalSuccess /\ recovery'[o] = None
          /\ delivery[o] \in {"ready", "leased", "paused"}
          => delivery'[o] = "delivered"]_vars
=============================================================================
