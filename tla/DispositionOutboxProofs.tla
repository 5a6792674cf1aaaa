---------------------- MODULE DispositionOutboxProofs ----------------------
(***************************************************************************)
(* Theorems about DispositionOutbox, for every set of rows and processes,  *)
(* every assignment of worker ids, every adapter capability profile and    *)
(* every number of submissions and crashes.                                *)
(***************************************************************************)
EXTENDS OutboxDelivery, TLAPS

\* What a process has in hand matches where it is in run_once.
InHand ==
    \A w \in Workers :
       /\ pc[w] \in {"apply", "commit", "mark"} => cur[w] \in Rows
       /\ pc[w] = "commit" => res[w] \in Answers \cup {"unknown"}
       /\ pc[w] = "mark" => res[w] \in Kinds

TypeInv == TypeOK /\ InHand

\* The part of TypeInv about the worker variables
WorkInv ==
    /\ pc \in [Workers -> PCs]
    /\ batch \in [Workers -> SUBSET Rows]
    /\ cur \in [Workers -> Rows \cup {None}]
    /\ res \in [Workers -> Outcomes \cup Kinds \cup {None}]
    /\ sync \in [Workers -> BOOLEAN]
    /\ InHand

-----------------------------------------------------------------------------
\* What a process is doing, in its types
LEMMA WorkerTypes ==
  ASSUME TypeInv
  PROVE  /\ pc \in [Workers -> PCs]
         /\ batch \in [Workers -> SUBSET Rows]
         /\ cur \in [Workers -> Rows \cup {None}]
         /\ res \in [Workers -> Outcomes \cup Kinds \cup {None}]
         /\ \A w \in Workers : pc[w] \in {"apply", "commit", "mark"} => cur[w] \in Rows
  BY Zenon DEF TypeInv, TypeOK, InHand

\* The source system and the count of submissions, in their types
LEMMA ProviderTypes ==
  ASSUME TypeInv
  PROVE  /\ pstatus \in [Rows -> WritebackStatus \cup {None}]
         /\ effects \in [Rows -> Nat]
         /\ wire \in [Rows -> Nat]
         /\ submits \in [Rows -> Nat]
  BY Zenon DEF TypeInv, TypeOK

\* The status columns of a row, in their types
LEMMA StatusTypes ==
  ASSUME TypeInv
  PROVE  /\ delivery \in [Rows -> OutboxDeliveryStatus \cup {"absent"}]
         /\ latest \in [Rows -> WritebackStatus \cup {None}]
         /\ mirror \in [Rows -> WritebackStatus \cup {None}]
         /\ recovery \in [Rows -> WritebackStatus \cup {None}]
  BY Zenon DEF TypeInv, TypeOK

-----------------------------------------------------------------------------
\* No row is inserted and every process is idle: all variables in their domains.
LEMMA TypeInit == Init => TypeInv
  BY ConstantsOK DEF Init, TypeInv, TypeOK, InHand, PCs, ActionStatus, ConstantsOK

\* Advance, FailDelivery and Receive keep the worker variables well formed.
LEMMA TypeAdvance ==
  ASSUME TypeInv, NEW w \in Workers, NEW rest \in SUBSET Rows, Advance(w, rest)
  PROVE  WorkInv'
  BY Zenon DEF TypeInv, TypeOK, InHand, WorkInv, Advance, PCs

\* Leaving a delivery with an error keeps the process variables typed.
LEMMA TypeFailDelivery ==
  ASSUME TypeInv, NEW w \in Workers, NEW o \in Rows, NEW kind \in Kinds,
         FailDelivery(w, o, kind)
  PROVE  WorkInv'
  <1>1. CASE sync[w]
    <2>1. Advance(w, batch[w] \ {o})
      BY <1>1, Zenon DEF FailDelivery
    <2>2. batch[w] \ {o} \in SUBSET Rows
      BY Zenon DEF TypeInv, TypeOK
    <2> QED
      BY <2>1, <2>2, TypeAdvance, Zenon
  <1>2. CASE ~sync[w]
    <2>1. /\ pc' = [pc EXCEPT ![w] = "mark"]
          /\ cur' = [cur EXCEPT ![w] = o]
          /\ res' = [res EXCEPT ![w] = kind]
          /\ batch' = [batch EXCEPT ![w] = @ \ {o}]
          /\ sync' = sync
      BY <1>2, Zenon DEF FailDelivery
    <2> QED
      BY <2>1, Zenon DEF TypeInv, TypeOK, InHand, WorkInv, PCs
  <1> QED
    BY <1>1, <1>2, Zenon

\* Taking the source system's answer keeps the process variables typed.
LEMMA TypeReceive ==
  ASSUME TypeInv, NEW w \in Workers, NEW o \in Rows,
         NEW s \in Answers \cup {"unknown"}, Receive(w, o, s)
  PROVE  WorkInv'
  BY ConstantsOK, ZenonT(30) DEF TypeInv, TypeOK, InHand, WorkInv, Receive, PCs, Outcomes,
     WritebackStatus, ConstantsOK

\* Releasing a lease or a token, mirroring a status and projecting it onto the
\* action keep those columns well formed.
LEMMA TypeUnlock ==
  ASSUME TypeInv, NEW o \in Rows, Unlock(o) \/ UNCHANGED <<lockedBy, leaseLive>>
  PROVE  /\ lockedBy' \in [Rows -> Ids \cup Workers \cup {None}]
         /\ leaseLive' \in [Rows -> BOOLEAN]
  <1>1. CASE Unlock(o)
    BY <1>1, Zenon DEF Unlock, TypeInv, TypeOK
  <1>2. CASE UNCHANGED <<lockedBy, leaseLive>>
    BY <1>2, Zenon DEF TypeInv, TypeOK
  <1> QED
    BY <1>1, <1>2, Zenon

\* The mirrored write-back status is a write-back status.
LEMMA TypeMirror ==
  ASSUME TypeInv, NEW S, NEW s \in WritebackStatus, Mirror(S, s)
  PROVE  mirror' \in [Rows -> WritebackStatus \cup {None}]
  BY Zenon DEF Mirror, TypeInv, TypeOK

\* The action status projected from a receipt is an action status.
LEMMA TypeProject ==
  ASSUME TypeInv, NEW o \in Rows, NEW s, Project(o, s)
  PROVE  action' \in [Rows -> ActionStatus]
  BY Zenon DEF Project, ActionAfter, TypeInv, TypeOK, ActionStatus

\* A submission touches only its own counters besides the worker and provider.
LEMMA TypeSubmits ==
  ASSUME TypeInv, NEW w \in Workers, NEW o \in Rows, Submits(w, o)
  PROVE  /\ submits' \in [Rows -> Nat]
         /\ cleared' \in [Rows -> BOOLEAN]
         /\ UNCHANGED <<delivery, latest, lockedBy, leaseLive, supersededBy, rejected,
                        receipt, action, mirror, recovery, manual, crashes>>
  BY DEF Submits, TypeInv, TypeOK, rowVars, actVars

\* What the source system records is a write-back status.
LEMMA TypeProviderExecute ==
  ASSUME TypeInv, NEW o \in Rows, NEW s \in Answers, ProviderExecute(o, s)
  PROVE  /\ pstatus' \in [Rows -> WritebackStatus \cup {None}]
         /\ effects' \in [Rows -> Nat]
  <1>1. CASE SupportsIdempotency /\ pstatus[o] # None
    BY <1>1, Zenon DEF TypeInv, TypeOK, ProviderExecute
  <1>2. CASE ~(SupportsIdempotency /\ pstatus[o] # None)
    <2>1. /\ pstatus' = [pstatus EXCEPT ![o] = s]
          /\ effects' = [effects EXCEPT ![o] = IF s = "failed" THEN @ ELSE @ + 1]
      BY <1>2, Zenon DEF ProviderExecute
    <2> QED
      BY <2>1, ConstantsOK DEF TypeInv, TypeOK, WritebackStatus, ConstantsOK
  <1> QED
    BY <1>1, <1>2, Zenon

\* enqueue of an entity command keeps the types.
LEMMA TypeEnqueueEntity ==
  ASSUME TypeInv, NEW o \in Rows,
         EnqueueEntity(o)
  PROVE  TypeInv'
  BY ConstantsOK, Zenon DEF EnqueueEntity, TypeInv, TypeOK, InHand, ConstantsOK,
                     actVars, workVars, provVars, histVars, OutboxDeliveryStatus

\* activate_and_submit, with the supersession of the head, keeps the types.
LEMMA TypeActivateAndSubmit ==
  ASSUME TypeInv, NEW w \in Workers, NEW o \in Rows,
         ActivateAndSubmit(w, o)
  PROVE  TypeInv'
  BY ConstantsOK DEF ActivateAndSubmit, TypeInv, TypeOK, InHand, ConstantsOK,
                     actVars, provVars, histVars, OutboxDeliveryStatus, PCs,
                     Lineage, StoppedHeads

\* Claiming a paused row for reconcile keeps the types.
LEMMA TypeClaimPaused ==
  ASSUME TypeInv, NEW w \in Workers,
         ClaimPaused(w)
  PROVE  TypeInv'
  BY ConstantsOK, ZenonT(30) DEF ClaimPaused, TypeInv, TypeOK, InHand, ConstantsOK,
                     provVars, histVars, Mirror, PCs, WritebackStatus

\* The lookup of a paused row returns an outcome or a status.
LEMMA TypeLookupPaused ==
  ASSUME TypeInv, NEW w \in Workers, NEW o \in Rows,
         LookupPaused(w, o)
  PROVE  TypeInv'
  BY ConstantsOK DEF LookupPaused, TypeInv, TypeOK, InHand, ConstantsOK,
                     rowVars, actVars, provVars, histVars, LookupOutcomes,
                     Outcomes, PCs

\* Dropping an outcome whose token is gone keeps the types.
LEMMA TypeApplyStale ==
  ASSUME TypeInv, NEW w \in Workers,
         ApplyStale(w)
  PROVE  TypeInv'
  BY ConstantsOK, ZenonT(30) DEF ApplyStale, TypeInv, TypeOK, InHand, ConstantsOK, actVars,
                     provVars, AfterApply, PCs

\* Applying a degraded lookup keeps the types.
LEMMA TypeApplyInconclusive ==
  ASSUME TypeInv, NEW w \in Workers,
         ApplyInconclusive(w)
  PROVE  TypeInv'
  BY ConstantsOK DEF ApplyInconclusive, TypeInv, TypeOK, InHand, ConstantsOK,
                     provVars, AfterApply, Fenced, Unlock, Mirror, PCs,
                     WritebackStatus

\* Settling a rejected row keeps the types.
LEMMA TypeApplyRejected ==
  ASSUME TypeInv, NEW w \in Workers,
         ApplyRejected(w)
  PROVE  TypeInv'
  BY ConstantsOK DEF ApplyRejected, TypeInv, TypeOK, InHand, ConstantsOK,
                     provVars, AfterApply, Fenced, Unlock, Mirror, Project,
                     ActionAfter, PCs, WritebackStatus, ActionStatus,
                     OutboxDeliveryStatus

\* Re-enqueueing or holding a row the lookup did not find keeps the types.
LEMMA TypeApplyNeverAccepted ==
  ASSUME TypeInv, NEW w \in Workers,
         ApplyNeverAccepted(w)
  PROVE  TypeInv'
  BY ConstantsOK DEF ApplyNeverAccepted, TypeInv, TypeOK, InHand, ConstantsOK,
                     provVars, AfterApply, Fenced, Unlock, Mirror, PCs,
                     WritebackStatus, OutboxDeliveryStatus

\* Storing the status a lookup found keeps the types.
LEMMA TypeApplyFound ==
  ASSUME TypeInv, NEW w \in Workers,
         ApplyFound(w)
  PROVE  TypeInv'
  BY ConstantsOK DEF ApplyFound, TypeInv, TypeOK, InHand, ConstantsOK, provVars,
                     AfterApply, Fenced, Unlock, Mirror, Project, ActionAfter,
                     PCs, ActionStatus, OutboxDeliveryStatus

\* A lookup outcome refused by the transition table keeps the types.
LEMMA TypeApplyIllegal ==
  ASSUME TypeInv, NEW w \in Workers,
         ApplyIllegal(w)
  PROVE  TypeInv'
  BY ConstantsOK DEF ApplyIllegal, TypeInv, TypeOK, InHand, ConstantsOK,
                     actVars, provVars, AfterApply, Fenced, Unlock, PCs

\* Leasing due rows and pausing expired ones keeps the types.
LEMMA TypeClaimBatch ==
  ASSUME TypeInv, NEW w \in Workers,
         ClaimBatch(w)
  PROVE  TypeInv'
  <1> DEFINE due     == DueRows
             expired == ExpiredRows \ due
  <1>1. WorkInv'
    BY Zenon DEF ClaimBatch, DueRows, TypeInv, TypeOK, InHand, WorkInv, PCs
  <1>2. mirror' \in [Rows -> WritebackStatus \cup {None}]
    BY TypeMirror, Zenon DEF ClaimBatch, WritebackStatus
  <1>3. /\ delivery' \in [Rows -> OutboxDeliveryStatus \cup {"absent"}]
        /\ latest' \in [Rows -> WritebackStatus \cup {None}]
    <2>1. /\ delivery' = [o \in Rows |-> IF o \in due THEN "leased"
                                         ELSE IF o \in expired THEN "paused"
                                         ELSE delivery[o]]
          /\ latest' = [o \in Rows |-> IF o \in expired THEN "unknown" ELSE latest[o]]
      BY Zenon DEF ClaimBatch
    <2> HIDE DEF due, expired
    <2> QED
      BY <2>1, Zenon DEF TypeInv, TypeOK, OutboxDeliveryStatus, WritebackStatus
  <1>4. /\ lockedBy' \in [Rows -> Ids \cup Workers \cup {None}]
        /\ leaseLive' \in [Rows -> BOOLEAN]
        /\ rejected' \in [Rows -> BOOLEAN]
    <2>1. /\ lockedBy' = [o \in Rows |-> IF o \in due THEN WorkerId[w]
                                         ELSE IF o \in expired THEN None
                                         ELSE lockedBy[o]]
          /\ leaseLive' = [o \in Rows |-> leaseLive[o] \/ o \in due]
          /\ rejected' = [o \in Rows |-> rejected[o] /\ o \notin expired]
      BY Zenon DEF ClaimBatch
    <2>2. WorkerId[w] \in Ids
      BY ConstantsOK, Zenon DEF ConstantsOK
    <2> HIDE DEF due, expired
    <2> QED
      BY <2>1, <2>2, Zenon DEF TypeInv, TypeOK
  <1>5. UNCHANGED <<supersededBy, receipt, action, recovery, provVars, histVars>>
    BY Zenon DEF ClaimBatch
  <1> QED
    BY <1>1, <1>2, <1>3, <1>4, <1>5, Zenon DEF TypeInv, TypeOK, InHand, WorkInv, provVars,
       histVars

\* Reaching a superseded row of the batch keeps the types.
LEMMA TypeDeliverSuperseded ==
  ASSUME TypeInv, NEW w \in Workers, NEW o \in Rows,
         DeliverSuperseded(w, o)
  PROVE  TypeInv'
  <1>1. WorkInv'
    BY TypeAdvance, Zenon DEF DeliverSuperseded, TypeInv, TypeOK
  <1>2. UNCHANGED <<latest, supersededBy, receipt, actVars, recovery, provVars, histVars>>
    BY Zenon DEF DeliverSuperseded
  <1>3. CASE UNCHANGED <<delivery, rejected, lockedBy, leaseLive>>
    BY <1>1, <1>2, <1>3, Zenon DEF TypeInv, TypeOK, InHand, WorkInv, actVars, provVars, histVars
  <1>4. CASE Block(o)
    BY <1>1, <1>2, <1>4, Zenon DEF Block, TypeInv, TypeOK, InHand, WorkInv, actVars, provVars,
       histVars, OutboxDeliveryStatus
  <1> QED
    BY <1>3, <1>4, Zenon DEF DeliverSuperseded

\* The early returns of a delivery keep the types.
LEMMA TypeDeliverSkip ==
  ASSUME TypeInv, NEW w \in Workers, NEW o \in Rows,
         DeliverSkip(w, o)
  PROVE  TypeInv'
  BY ConstantsOK, ZenonT(30) DEF DeliverSkip, TypeInv, TypeOK, InHand, ConstantsOK, rowVars,
                     actVars, provVars, histVars, Delivering, Advance, PCs

\* Pausing a row whose own lease has expired keeps the types.
LEMMA TypeDeliverExpired ==
  ASSUME TypeInv, NEW w \in Workers, NEW o \in Rows,
         DeliverExpired(w, o)
  PROVE  TypeInv'
  BY ConstantsOK DEF DeliverExpired, TypeInv, TypeOK, InHand, ConstantsOK,
                     actVars, provVars, histVars, Delivering, Unlock, Advance,
                     PCs, WritebackStatus, OutboxDeliveryStatus

\* Blocking a row whose approval is gone keeps the types.
LEMMA TypeDeliverFenced ==
  ASSUME TypeInv, NEW w \in Workers, NEW o \in Rows,
         DeliverFenced(w, o)
  PROVE  TypeInv'
  BY ConstantsOK, ZenonT(30) DEF DeliverFenced, TypeInv, TypeOK, InHand, ConstantsOK,
                     actVars, provVars, histVars, Delivering, Block, Advance,
                     PCs, OutboxDeliveryStatus

\* A command refused before submission keeps the types.
LEMMA TypeDeliverInvalid ==
  ASSUME TypeInv, NEW w \in Workers, NEW o \in Rows,
         DeliverInvalid(w, o)
  PROVE  TypeInv'
  <1>1. WorkInv'
    BY TypeFailDelivery, Zenon DEF DeliverInvalid
  <1> QED
    BY <1>1, Zenon DEF DeliverInvalid, TypeInv, TypeOK, InHand, WorkInv, rowVars, actVars,
       provVars, histVars

\* A submission that is answered keeps the types.
LEMMA TypeSubmitAnswered ==
  ASSUME TypeInv, NEW w \in Workers, NEW o \in Rows,
         SubmitAnswered(w, o)
  PROVE  TypeInv'
  <1>1. PICK s \in Answers : ProviderExecute(o, s) /\ Receive(w, o, s)
    BY Zenon DEF SubmitAnswered
  <1>2. WorkInv'
    BY <1>1, TypeReceive, Zenon
  <1>3. pstatus' \in [Rows -> WritebackStatus \cup {None}] /\ effects' \in [Rows -> Nat]
    BY <1>1, TypeProviderExecute, Zenon
  <1>4. Submits(w, o) /\ wire' = wire
    BY Zenon DEF SubmitAnswered
  <1> QED
    BY <1>2, <1>3, <1>4, TypeSubmits, ZenonT(30) DEF TypeInv, TypeOK, InHand, WorkInv

\* A submission whose answer is lost keeps the types.
LEMMA TypeSubmitLost ==
  ASSUME TypeInv, NEW w \in Workers, NEW o \in Rows,
         SubmitLost(w, o)
  PROVE  TypeInv'
  <1>1. WorkInv'
    <2>1. CASE Receive(w, o, "unknown")
      BY <2>1, TypeReceive, Zenon
    <2>2. CASE FailDelivery(w, o, "ambiguous")
      BY <2>2, TypeFailDelivery, Zenon DEF Kinds
    <2> QED
      BY <2>1, <2>2, Zenon DEF SubmitLost
  <1>2. /\ pstatus' \in [Rows -> WritebackStatus \cup {None}]
        /\ effects' \in [Rows -> Nat]
        /\ wire' \in [Rows -> Nat]
    <2>1. CASE \E s \in Answers : ProviderExecute(o, s) /\ UNCHANGED wire
      BY <2>1, TypeProviderExecute, Zenon DEF TypeInv, TypeOK
    <2>2. CASE wire' = [wire EXCEPT ![o] = @ + 1] /\ UNCHANGED <<pstatus, effects>>
      BY <2>2 DEF TypeInv, TypeOK
    <2> QED
      BY <2>1, <2>2, Zenon DEF SubmitLost
  <1>3. Submits(w, o)
    BY Zenon DEF SubmitLost
  <1> QED
    BY <1>1, <1>2, <1>3, TypeSubmits, ZenonT(30) DEF TypeInv, TypeOK, InHand, WorkInv

\* A submission the adapter refuses keeps the types.
LEMMA TypeSubmitRefused ==
  ASSUME TypeInv, NEW w \in Workers, NEW o \in Rows,
         SubmitRefused(w, o)
  PROVE  TypeInv'
  <1>1. WorkInv'
    BY TypeFailDelivery, Zenon DEF SubmitRefused, Kinds
  <1> QED
    BY <1>1 DEF SubmitRefused, Submits, TypeInv, TypeOK, InHand, WorkInv, rowVars,
       actVars, provVars

\* The commit of a definite receipt keeps the types.
LEMMA TypeCommitDelivered ==
  ASSUME TypeInv, NEW w \in Workers,
         CommitDelivered(w)
  PROVE  TypeInv'
  BY ConstantsOK, ZenonT(30) DEF CommitDelivered, TypeInv, TypeOK, InHand, ConstantsOK,
                     provVars, histVars, Mirror, Project, ActionAfter, Advance,
                     PCs, ActionStatus, OutboxDeliveryStatus, WritebackStatus

\* The commit of an UNKNOWN receipt keeps the types.
LEMMA TypeCommitUnknown ==
  ASSUME TypeInv, NEW w \in Workers,
         CommitUnknown(w)
  PROVE  TypeInv'
  BY ConstantsOK DEF CommitUnknown, TypeInv, TypeOK, InHand, ConstantsOK,
                     provVars, histVars, Mirror, Project, ActionAfter, Unlock,
                     Advance, PCs, WritebackStatus, ActionStatus,
                     OutboxDeliveryStatus

\* A delivery transaction that rolls back keeps the types.
LEMMA TypeCommitRollsBack ==
  ASSUME TypeInv, NEW w \in Workers,
         CommitRollsBack(w)
  PROVE  TypeInv'
  <1>1. WorkInv'
    BY TypeFailDelivery, Zenon DEF CommitRollsBack, TypeInv, InHand, Kinds
  <1> QED
    BY <1>1, Zenon DEF CommitRollsBack, TypeInv, TypeOK, InHand, WorkInv, rowVars, actVars,
       provVars, histVars

\* The mark handlers keep the types, whatever the kind of error.
LEMMA TypeMark ==
  ASSUME TypeInv, NEW w \in Workers,
         Mark(w)
  PROVE  TypeInv'
  <1> DEFINE o == cur[w]
             s == MarkedStatus(res[w])
  <1>1. o \in Rows /\ s \in WritebackStatus \cap {"unknown", "conflict", "failed"}
    BY Zenon DEF Mark, TypeInv, InHand, MarkedStatus, WritebackStatus
  <1>2. WorkInv'
    BY TypeAdvance, Zenon DEF Mark, TypeInv, TypeOK
  <1>3. /\ delivery' \in [Rows -> OutboxDeliveryStatus \cup {"absent"}]
        /\ rejected' \in [Rows -> BOOLEAN]
        /\ lockedBy' \in [Rows -> Ids \cup Workers \cup {None}]
        /\ leaseLive' \in [Rows -> BOOLEAN]
    <2>1. MarkedDelivery(res[w]) \in OutboxDeliveryStatus
      BY Zenon DEF MarkedDelivery, OutboxDeliveryStatus
    <2>2. /\ delivery' = [delivery EXCEPT ![o] = MarkedDelivery(res[w])]
          /\ rejected' = [rejected EXCEPT ![o] = (res[w] = "rejection")]
          /\ Unlock(o)
      BY Zenon DEF Mark
    <2> QED
      BY <1>1, <2>1, <2>2, TypeUnlock, Zenon DEF TypeInv, TypeOK
  <1>4. CASE res[w] = "guardrail"
    <2>1. UNCHANGED <<latest, receipt, actVars>>
      BY <1>4, Zenon DEF Mark
    <2> QED
      BY <1>2, <1>3, <2>1, Zenon DEF Mark, TypeInv, TypeOK, InHand, WorkInv, actVars,
         provVars, histVars
  <1>5. CASE res[w] # "guardrail"
    <2>1. /\ latest' = [latest EXCEPT ![o] = s]
          /\ receipt' = [receipt EXCEPT ![o] = s]
          /\ Mirror({o}, s)
          /\ action' = action \/ Project(o, s)
      BY <1>5, Zenon DEF Mark
    <2>2. action' \in [Rows -> ActionStatus]
      BY <1>1, <2>1, TypeProject, Zenon DEF TypeInv, TypeOK
    <2>3. mirror' \in [Rows -> WritebackStatus \cup {None}]
      BY <1>1, <2>1, TypeMirror, Zenon
    <2>4. /\ latest' \in [Rows -> WritebackStatus \cup {None}]
          /\ receipt' \in [Rows -> WritebackStatus \cup {None}]
      BY <1>1, <2>1, Zenon DEF TypeInv, TypeOK
    <2> QED
      BY <1>2, <1>3, <2>2, <2>3, <2>4, Zenon DEF Mark, TypeInv, TypeOK, InHand, WorkInv,
         provVars, histVars
  <1> QED
    BY <1>4, <1>5, Zenon

\* A mark handler that finds the row no longer LEASED keeps the types.
LEMMA TypeMarkStale ==
  ASSUME TypeInv, NEW w \in Workers,
         MarkStale(w)
  PROVE  TypeInv'
  <1>1. WorkInv'
    BY TypeAdvance, Zenon DEF MarkStale, TypeInv, TypeOK
  <1> QED
    BY <1>1, Zenon DEF MarkStale, TypeInv, TypeOK, InHand, WorkInv, rowVars, actVars,
       provVars, histVars

\* An operator retry that is held for lookup keeps the types.
LEMMA TypeRetryBlocked ==
  ASSUME TypeInv, NEW o \in Rows,
         RetryBlocked(o)
  PROVE  TypeInv'
  <1>1. /\ lockedBy' \in [Rows -> Ids \cup Workers \cup {None}]
        /\ leaseLive' \in [Rows -> BOOLEAN]
    BY TypeUnlock, Zenon DEF RetryBlocked
  <1>2. /\ delivery' = [delivery EXCEPT ![o] = "paused"]
        /\ UNCHANGED <<latest, supersededBy, rejected, receipt, actVars, workVars,
                       recovery, provVars, histVars>>
    BY Zenon DEF RetryBlocked
  <1> QED
    BY <1>1, <1>2, Zenon DEF TypeInv, TypeOK, InHand, actVars, workVars, provVars, histVars,
       OutboxDeliveryStatus

\* An operator retry settled by its lookup keeps the types.
LEMMA TypeRetryReconcile ==
  ASSUME TypeInv, NEW o \in Rows,
         RetryReconcile(o)
  PROVE  TypeInv'
  <1>1. PICK s \in TerminalSuccess :
           /\ latest' = [latest EXCEPT ![o] = s]
           /\ receipt' = [receipt EXCEPT ![o] = s]
           /\ Mirror({o}, s)
    BY Zenon DEF RetryReconcile
  <1>2. /\ lockedBy' \in [Rows -> Ids \cup Workers \cup {None}]
        /\ leaseLive' \in [Rows -> BOOLEAN]
    BY TypeUnlock, Zenon DEF RetryReconcile
  <1>3. /\ latest' \in [Rows -> WritebackStatus \cup {None}]
        /\ receipt' \in [Rows -> WritebackStatus \cup {None}]
        /\ mirror' \in [Rows -> WritebackStatus \cup {None}]
    BY <1>1, Zenon DEF Mirror, TypeInv, TypeOK, TerminalSuccess, WritebackStatus
  <1>4. /\ delivery' = [delivery EXCEPT ![o] = "delivered"]
        /\ UNCHANGED <<supersededBy, rejected, action, workVars, recovery, provVars,
                       histVars>>
    BY Zenon DEF RetryReconcile
  <1> QED
    BY <1>2, <1>3, <1>4, Zenon DEF TypeInv, TypeOK, InHand, workVars, provVars, histVars,
       OutboxDeliveryStatus

\* An operator retry that re-enqueues the row keeps the types.
LEMMA TypeRetryReenqueue ==
  ASSUME TypeInv, NEW o \in Rows,
         RetryReenqueue(o)
  PROVE  TypeInv'
  BY ConstantsOK, Zenon DEF RetryReenqueue, TypeInv, TypeOK, InHand, ConstantsOK,
                     workVars, provVars, Mirror, Unlock, WritebackStatus,
                     OutboxDeliveryStatus

\* A manual resolution keeps the types.
LEMMA TypeResolveWriteback ==
  ASSUME TypeInv, NEW o \in Rows, NEW target \in {"confirmed", "failed"},
         ResolveWriteback(o, target)
  PROVE  TypeInv'
  BY ConstantsOK, Zenon DEF ResolveWriteback, TypeInv, TypeOK, InHand, ConstantsOK,
                     workVars, provVars, Mirror, WritebackStatus,
                     OutboxDeliveryStatus

\* A recovery lookup returns a write-back status.
LEMMA TypeRecoveryLookup ==
  ASSUME TypeInv, NEW o \in Rows,
         RecoveryLookup(o)
  PROVE  TypeInv'
  <1>1. RecoveryAnswers(o) \subseteq WritebackStatus
    BY DEF RecoveryAnswers, TypeInv, TypeOK
  <1>2. /\ \E s \in RecoveryAnswers(o) : recovery' = [recovery EXCEPT ![o] = s]
        /\ UNCHANGED <<rowVars, actVars, workVars, provVars, histVars>>
    BY Zenon DEF RecoveryLookup
  <1> QED
    BY <1>1, <1>2, ZenonT(30) DEF TypeInv, TypeOK, InHand, rowVars, actVars, workVars, provVars,
       histVars

\* Applying a recovery lookup keeps the types.
LEMMA TypeRecoveryApply ==
  ASSUME TypeInv, NEW o \in Rows,
         RecoveryApply(o)
  PROVE  TypeInv'
  <1>1. /\ latest' \in [Rows -> WritebackStatus \cup {None}]
        /\ mirror' \in [Rows -> WritebackStatus \cup {None}]
    <2>0. recovery[o] \in WritebackStatus
      BY Zenon DEF RecoveryApply, TypeInv, TypeOK
    <2>1. \/ latest' = [latest EXCEPT ![o] = recovery[o]] /\ Mirror({o}, recovery[o])
          \/ UNCHANGED <<latest, mirror>>
      BY Zenon DEF RecoveryApply
    <2> QED
      BY <2>0, <2>1, TypeMirror, Zenon DEF TypeInv, TypeOK
  <1>2. /\ delivery' \in [Rows -> OutboxDeliveryStatus \cup {"absent"}]
        /\ lockedBy' \in [Rows -> Ids \cup Workers \cup {None}]
        /\ leaseLive' \in [Rows -> BOOLEAN]
    <2>1. \/ delivery' = [delivery EXCEPT ![o] = "delivered"] /\ Unlock(o)
          \/ UNCHANGED <<delivery, lockedBy, leaseLive>>
      BY Zenon DEF RecoveryApply
    <2>2. delivery' \in [Rows -> OutboxDeliveryStatus \cup {"absent"}]
      BY <2>1, Zenon DEF TypeInv, TypeOK, OutboxDeliveryStatus
    <2> QED
      BY <2>1, <2>2, TypeUnlock, Zenon
  <1>3. /\ recovery' = [recovery EXCEPT ![o] = None]
        /\ UNCHANGED <<supersededBy, rejected, receipt, action, workVars, provVars,
                       histVars>>
    BY Zenon DEF RecoveryApply
  <1> QED
    BY <1>1, <1>2, <1>3, Zenon DEF TypeInv, TypeOK, InHand, workVars, provVars, histVars

\* Reclaiming a stale executing action keeps the types.
LEMMA TypeReclaimAction ==
  ASSUME TypeInv, NEW o \in Rows,
         ReclaimAction(o)
  PROVE  TypeInv'
  BY ConstantsOK DEF ReclaimAction, TypeInv, TypeOK, InHand, ConstantsOK,
                     rowVars, workVars, provVars, histVars, SetAction,
                     ActionStatus

\* Attaching to an existing job keeps the types.
LEMMA TypeReattachAction ==
  ASSUME TypeInv, NEW o \in Rows,
         ReattachAction(o)
  PROVE  TypeInv'
  BY ConstantsOK, Zenon DEF ReattachAction, TypeInv, TypeOK, InHand, ConstantsOK,
                     rowVars, workVars, provVars, histVars, SetAction,
                     ActionStatus

\* Completing an action from the entity read-back keeps the types.
LEMMA TypeCompleteEffect ==
  ASSUME TypeInv, NEW o \in Rows,
         CompleteEffect(o)
  PROVE  TypeInv'
  BY ConstantsOK, ZenonT(30) DEF CompleteEffect, TypeInv, TypeOK, InHand, ConstantsOK,
                     rowVars, workVars, provVars, histVars, SetAction,
                     ActionStatus

\* resolve_unknown keeps the types.
LEMMA TypeResolveUnknown ==
  ASSUME TypeInv, NEW o \in Rows,
         ResolveUnknown(o)
  PROVE  TypeInv'
  BY ConstantsOK DEF ResolveUnknown, TypeInv, TypeOK, InHand, ConstantsOK,
                     rowVars, workVars, provVars, histVars, SetAction,
                     ActionStatus

\* The passing of a lease keeps the types.
LEMMA TypeLeaseExpires ==
  ASSUME TypeInv, NEW o \in Rows,
         LeaseExpires(o)
  PROVE  TypeInv'
  BY ConstantsOK, ZenonT(30) DEF LeaseExpires, TypeInv, TypeOK, InHand, ConstantsOK,
                     actVars, workVars, provVars, histVars

\* A process death keeps the types.
LEMMA TypeCrash ==
  ASSUME TypeInv, NEW w \in Workers,
         Crash(w)
  PROVE  TypeInv'
  BY ConstantsOK DEF Crash, TypeInv, TypeOK, InHand, ConstantsOK, rowVars,
                     actVars, provVars, PCs

\* A late request that arrives keeps the types.
LEMMA TypeWireDelivers ==
  ASSUME TypeInv, NEW o \in Rows,
         WireDelivers(o)
  PROVE  TypeInv'
  <1>1. pstatus' \in [Rows -> WritebackStatus \cup {None}] /\ effects' \in [Rows -> Nat]
    <2>1. CASE \E s \in Answers : ProviderExecute(o, s)
      BY <2>1, TypeProviderExecute, Zenon
    <2>2. CASE UNCHANGED <<pstatus, effects>>
      BY <2>2, Zenon DEF TypeInv, TypeOK
    <2> QED
      BY <2>1, <2>2, Zenon DEF WireDelivers
  <1>2. /\ wire' = [wire EXCEPT ![o] = @ - 1] /\ wire[o] > 0
        /\ UNCHANGED <<rowVars, actVars, workVars, recovery, histVars>>
    BY Zenon DEF WireDelivers
  <1>3. wire' \in [Rows -> Nat]
    BY <1>2 DEF TypeInv, TypeOK
  <1> QED
    BY <1>1, <1>2, <1>3, Zenon DEF TypeInv, TypeOK, InHand, rowVars, actVars, workVars, histVars

\* Asynchronous completion at the source system keeps the types.
LEMMA TypeProviderProgress ==
  ASSUME TypeInv, NEW o \in Rows,
         ProviderProgress(o)
  PROVE  TypeInv'
  BY ConstantsOK DEF ProviderProgress, TypeInv, TypeOK, InHand, ConstantsOK,
                     rowVars, actVars, workVars, histVars, WritebackStatus

\* Every step keeps the strengthened type invariant.
LEMMA TypeNext == TypeInv /\ [Next]_vars => TypeInv'
  <1> SUFFICES ASSUME TypeInv, [Next]_vars PROVE TypeInv'
    OBVIOUS
  <1>1. ASSUME NEW w \in Workers, ReconcileStep(w) \/ ClaimBatch(w) PROVE TypeInv'
    BY <1>1, TypeClaimPaused, TypeLookupPaused, TypeApplyStale,
       TypeApplyInconclusive, TypeApplyRejected, TypeApplyNeverAccepted,
       TypeApplyFound, TypeApplyIllegal, TypeClaimBatch, Zenon
    DEF ReconcileStep
  <1>2. ASSUME NEW w \in Workers, DeliverStep(w) PROVE TypeInv'
    BY <1>2, TypeDeliverSuperseded, TypeDeliverSkip, TypeDeliverExpired,
       TypeDeliverFenced, TypeDeliverInvalid, TypeSubmitAnswered,
       TypeSubmitLost, TypeSubmitRefused, TypeCommitDelivered,
       TypeCommitUnknown, TypeCommitRollsBack, TypeMark, TypeMarkStale, Zenon
    DEF DeliverStep
  <1>3. ASSUME NEW o \in Rows, OperatorStep(o) \/ ActionStep(o) PROVE TypeInv'
    BY <1>3, TypeRetryBlocked, TypeRetryReconcile, TypeRetryReenqueue,
       TypeResolveWriteback, TypeRecoveryLookup, TypeRecoveryApply,
       TypeReclaimAction, TypeReattachAction, TypeCompleteEffect, TypeResolveUnknown, Zenon
    DEF OperatorStep, ActionStep
  <1>4. CASE UNCHANGED vars
    BY <1>4, Zenon DEF vars, TypeInv, TypeOK, InHand, rowVars, actVars, workVars, provVars,
       histVars
  <1> QED
    BY <1>1, <1>2, <1>3, <1>4, TypeEnqueueEntity, TypeActivateAndSubmit, TypeCrash,
       TypeLeaseExpires, TypeWireDelivers, TypeProviderProgress, Zenon
    DEF Next, WorkerStep

\* The outbox columns, the worker registers and the counters always hold values
\* of their domains: no handler of disposition_sync_service.py stores an error
\* kind or a lookup outcome where a WritebackStatus belongs.
THEOREM TypeCorrect == Spec => []TypeOK
  <1>1. Spec => []TypeInv
    BY TypeInit, TypeNext, PTL DEF Spec
  <1>2. TypeInv => TypeOK
    BY Zenon DEF TypeInv
  <1> QED
    BY <1>1, <1>2, PTL

-----------------------------------------------------------------------------
(* Heads and settled rows                                                  *)
(*                                                                         *)
(* A delivery decides on a row it read and writes it after the source      *)
(* system answered.  It may, because the row is locked from the one to the *)
(* other: what the delivery found of the row still holds at its commit.    *)

Settled == {"delivered", "dead_letter"}
Unsettled == {"absent", "ready", "leased", "paused"}

\* Of the rows
RowInv ==
    /\ SingleActiveHead /\ SupersededIsFenced /\ MirrorOfSettled
    /\ \A o \in Rows : delivery[o] = "absent" => supersededBy[o] = None /\ recovery[o] = None
    /\ \A o \in Rows : latest[o] = "confirmed" => delivery[o] \notin Unsettled

\* Of the processes: what they work on has been inserted, at most one has a
\* delivery transaction open, and the row in it is an unconfirmed head.
LockInv ==
    /\ \A w \in Workers : \A o \in batch[w] : delivery[o] # "absent"
    /\ \A w \in Workers : pc[w] \in {"apply", "commit", "mark"} => delivery[cur[w]] # "absent"
    /\ \A v, w \in Workers : pc[v] = "commit" /\ pc[w] = "commit" => v = w
    /\ \A w \in Workers : pc[w] = "commit" =>
          /\ supersededBy[cur[w]] = None /\ latest[cur[w]] # "confirmed"
          /\ delivery[cur[w]] \in {"ready", "leased"}

HeadInv == TypeInv /\ RowInv /\ LockInv

\* No row is inserted.
LEMMA HeadInit == Init => HeadInv
  <1>1. Init => RowInv /\ LockInv
    BY ConstantsOK DEF ConstantsOK, Init, RowInv, LockInv, SingleActiveHead, ActiveHeads,
       SupersededIsFenced, MirrorOfSettled, None
  <1> QED
    BY <1>1, TypeInit, Zenon DEF HeadInv

-----------------------------------------------------------------------------
(* What a step may do to a row                                             *)

\* The row keeps its place in the lineage, and is written as RowInv needs it.
Kept(p) ==
    /\ supersededBy'[p] = supersededBy[p]
    /\ delivery[p] = "absent" <=> delivery'[p] = "absent"
    /\ delivery[p] = "absent" => recovery'[p] = None
    /\ supersededBy[p] # None /\ delivery[p] \in Settled => delivery'[p] \in Settled
    /\ latest[p] = "confirmed" => latest'[p] = "confirmed"
    /\ latest'[p] = "confirmed" => delivery'[p] \notin Unsettled
    /\ p \in Terminal /\ delivery'[p] = "delivered" => mirror'[p] = latest'[p]

\* Steps that keep every row keep the row part of the invariant.
LEMMA KeptRows ==
  ASSUME RowInv, \A p \in Rows : Kept(p)
  PROVE  RowInv'
  <1>1. Terminal \subseteq Rows
    BY ConstantsOK, Zenon DEF ConstantsOK
  <1>2. ActiveHeads' = ActiveHeads
    BY <1>1, Zenon DEF ActiveHeads, Kept
  <1> QED
    BY <1>1, <1>2, Zenon DEF RowInv, Kept, SingleActiveHead, SupersededIsFenced, MirrorOfSettled,
       Settled

\* A row no column of which is written
LEMMA Untouched ==
  ASSUME RowInv, NEW p \in Rows, supersededBy'[p] = supersededBy[p],
         delivery'[p] = delivery[p], latest'[p] = latest[p], mirror'[p] = mirror[p],
         recovery'[p] = recovery[p]
  PROVE  Kept(p)
  BY Zenon DEF RowInv, Kept, SupersededIsFenced, MirrorOfSettled, Settled, Unsettled

-----------------------------------------------------------------------------
(* What a step may do to a process                                         *)

\* No process takes a row from outside its batch or opens a transaction.
HandKept ==
    \A v \in Workers :
       /\ batch'[v] \subseteq batch[v]
       /\ pc'[v] \in {"apply", "commit", "mark"} =>
             \/ pc[v] \in {"apply", "commit", "mark"} /\ cur'[v] = cur[v]
             \/ cur'[v] \in batch[v]
       /\ pc'[v] = "commit" => pc[v] = "commit" /\ cur'[v] = cur[v]

\* Nobody else writes the row of a delivery transaction that stays open.
LockedKept ==
    \A v \in Workers : pc[v] = "commit" /\ pc'[v] = "commit" =>
       latest'[cur[v]] = latest[cur[v]] /\ delivery'[cur[v]] = delivery[cur[v]]

\* Steps that keep rows, hands and locked rows keep the process part.
LEMMA KeptLocks ==
  ASSUME HeadInv, \A p \in Rows : Kept(p), HandKept, LockedKept
  PROVE  LockInv'
  <1>1. \A v \in Workers : batch[v] \subseteq Rows
    BY Zenon DEF HeadInv, TypeInv, TypeOK
  <1>2. \A v \in Workers : pc[v] \in {"apply", "commit", "mark"} => cur[v] \in Rows
    BY Zenon DEF HeadInv, TypeInv, InHand
  <1>3. \A v \in Workers : \A o \in batch'[v] : delivery'[o] # "absent"
    BY <1>1 DEF HeadInv, LockInv, Kept, HandKept
  <1>4. \A v \in Workers : pc'[v] \in {"apply", "commit", "mark"} =>
           delivery'[cur'[v]] # "absent"
    BY <1>1, <1>2 DEF HeadInv, LockInv, Kept, HandKept
  <1>5. \A v, w \in Workers : pc'[v] = "commit" /\ pc'[w] = "commit" => v = w
    BY Zenon DEF HeadInv, LockInv, HandKept
  <1>6. \A w \in Workers : pc'[w] = "commit" =>
           /\ supersededBy'[cur'[w]] = None /\ latest'[cur'[w]] # "confirmed"
           /\ delivery'[cur'[w]] \in {"ready", "leased"}
    BY <1>2 DEF HeadInv, LockInv, Kept, HandKept, LockedKept
  <1> QED
    BY <1>3, <1>4, <1>5, <1>6, Zenon DEF LockInv

\* Going on to the next row takes no other row in hand.
LEMMA HandAdvance ==
  ASSUME TypeInv, NEW w \in Workers, NEW rest \in SUBSET batch[w], Advance(w, rest)
  PROVE  HandKept /\ pc'[w] # "commit"
  BY Zenon DEF TypeInv, TypeOK, Advance, HandKept

\* Nor does leaving a delivery with an error.
LEMMA HandFail ==
  ASSUME TypeInv, NEW w \in Workers, NEW o, NEW kind, FailDelivery(w, o, kind),
         o \in batch[w] \/ (pc[w] = "commit" /\ cur[w] = o)
  PROVE  HandKept /\ pc'[w] # "commit"
  <1>1. CASE sync[w]
    BY <1>1, HandAdvance, Zenon DEF FailDelivery
  <1>2. CASE ~sync[w]
    <2>1. /\ pc' = [pc EXCEPT ![w] = "mark"]
          /\ cur' = [cur EXCEPT ![w] = o]
          /\ batch' = [batch EXCEPT ![w] = @ \ {o}]
      BY <1>2, Zenon DEF FailDelivery
    <2> QED
      BY <2>1, Zenon DEF TypeInv, TypeOK, HandKept
  <1> QED
    BY <1>1, <1>2, Zenon

\* Nor does finishing the application of a lookup.
LEMMA HandApply ==
  ASSUME TypeInv, NEW w \in Workers, AfterApply(w)
  PROVE  HandKept /\ supersededBy' = supersededBy /\ recovery' = recovery
  BY Zenon DEF TypeInv, TypeOK, AfterApply, HandKept

\* Steps outside the processes
LEMMA HandIdle ==
  ASSUME UNCHANGED workVars
  PROVE  HandKept
  BY Zenon DEF workVars, HandKept

-----------------------------------------------------------------------------
(* The actions                                                             *)

\* What all but the inserting, claiming and answered steps amount to
Quiet == (\A p \in Rows : Kept(p)) /\ HandKept /\ LockedKept

\* Quiet steps keep the invariant.
LEMMA QuietKeepsHeads ==
  ASSUME HeadInv, Quiet
  PROVE  RowInv' /\ LockInv'
  BY KeptRows, KeptLocks, Zenon DEF Quiet, HeadInv

\* A step that writes no row
LEMMA QuietRows ==
  ASSUME HeadInv, HandKept, UNCHANGED <<supersededBy, delivery, latest, mirror, recovery>>
  PROVE  Quiet
  BY Untouched, Zenon DEF Quiet, HeadInv, LockedKept

\* A step that writes one row, which no transaction that stays open has locked
LEMMA QuietRow ==
  ASSUME HeadInv, HandKept, NEW o \in Rows, Kept(o), supersededBy' = supersededBy,
         \A p \in Rows \ {o} : /\ delivery'[p] = delivery[p] /\ latest'[p] = latest[p]
                                /\ mirror'[p] = mirror[p] /\ recovery'[p] = recovery[p],
         \A v \in Workers : pc[v] = "commit" /\ pc'[v] = "commit" => cur[v] # o
  PROVE  Quiet
  <1>1. \A p \in Rows : Kept(p)
    BY Untouched, Zenon DEF HeadInv
  <1>2. \A v \in Workers : pc[v] = "commit" => cur[v] \in Rows
    BY Zenon DEF HeadInv, TypeInv, InHand
  <1> QED
    BY <1>1, <1>2, Zenon DEF Quiet, LockedKept

\* The mirrored status of one row
LEMMA MirrorRow ==
  ASSUME TypeInv, NEW o \in Rows, NEW s, Mirror({o}, s)
  PROVE  /\ \A p \in Rows \ {o} : mirror'[p] = mirror[p]
         /\ o \in Terminal => mirror'[o] = s
  BY Zenon DEF TypeInv, TypeOK, Mirror

\* The status columns of a row, its mirror and its delivery status are written.
Writes(o, s, d) ==
    /\ latest' = [latest EXCEPT ![o] = s] /\ Mirror({o}, s)
    /\ delivery' = [delivery EXCEPT ![o] = d]
    /\ supersededBy' = supersededBy

\* Only the delivery status is written.
Moves(o, d) ==
    /\ delivery' = [delivery EXCEPT ![o] = d]
    /\ UNCHANGED <<latest, mirror, supersededBy>>

Free(o) == \A v \in Workers : pc[v] = "commit" /\ pc'[v] = "commit" => cur[v] # o

\* A status write keeps the invariant if it takes no confirmation back, settles
\* what it confirms and leaves a superseded head settled.
LEMMA QuietWrite ==
  ASSUME HeadInv, HandKept, NEW o \in Rows, NEW s, NEW d, Writes(o, s, d), Free(o),
         delivery[o] # "absent", d # "absent", recovery' = recovery,
         supersededBy[o] # None => d \in Settled,
         latest[o] = "confirmed" => s = "confirmed", s = "confirmed" => d \in Settled
  PROVE  Quiet
  <1>1. TypeOK /\ TypeInv
    BY Zenon DEF HeadInv, TypeInv
  <1>2. /\ delivery'[o] = d /\ latest'[o] = s
        /\ \A p \in Rows \ {o} : delivery'[p] = delivery[p] /\ latest'[p] = latest[p]
    BY <1>1, Zenon DEF TypeOK, Writes
  <1>3. /\ \A p \in Rows \ {o} : mirror'[p] = mirror[p]
        /\ o \in Terminal => mirror'[o] = s
    BY <1>1, MirrorRow, Zenon DEF Writes
  <1>4. Kept(o)
    BY <1>2, <1>3, Zenon DEF Writes, Kept, Settled, Unsettled
  <1> QED
    BY <1>2, <1>3, <1>4, QuietRow, Zenon DEF Writes, Free

\* A delivery status alone may be moved if the row is not reported delivered and
\* a superseded or confirmed row stays settled.
LEMMA QuietMove ==
  ASSUME HeadInv, HandKept, NEW o \in Rows, NEW d, Moves(o, d), Free(o),
         delivery[o] # "absent", d \notin {"absent", "delivered"}, recovery' = recovery,
         supersededBy[o] # None => d \in Settled, latest[o] = "confirmed" => d \in Settled
  PROVE  Quiet
  <1>1. TypeOK
    BY Zenon DEF HeadInv, TypeInv
  <1>2. /\ delivery'[o] = d
        /\ \A p \in Rows \ {o} : delivery'[p] = delivery[p]
    BY <1>1, Zenon DEF TypeOK, Moves
  <1>3. Kept(o)
    BY <1>2, Zenon DEF Moves, Kept, Settled, Unsettled
  <1> QED
    BY <1>2, <1>3, QuietRow, Zenon DEF Moves, Free

\* A process with a token or a lookup in hand has a paused row in front of it,
\* which is not the row of an open delivery transaction.
LEMMA FencedIsFree ==
  ASSUME HeadInv, NEW w \in Workers, NEW o \in Rows, Fenced(w, o)
  PROVE  /\ Free(o) /\ delivery[o] = "paused"
         /\ supersededBy[o] = None /\ latest[o] # "confirmed"
  BY Zenon DEF HeadInv, RowInv, LockInv, Fenced, Settled, Unsettled, Free

\* The paused reconcile
LEMMA HeadApply ==
  ASSUME HeadInv, NEW w \in Workers,
         \/ ApplyStale(w) \/ ApplyInconclusive(w) \/ ApplyRejected(w)
         \/ ApplyNeverAccepted(w) \/ ApplyFound(w) \/ ApplyIllegal(w)
  PROVE  Quiet
  <1> DEFINE o == cur[w]
  <1>1. pc[w] = "apply" /\ AfterApply(w)
    BY Zenon DEF ApplyStale, ApplyInconclusive, ApplyRejected, ApplyNeverAccepted,
       ApplyFound, ApplyIllegal
  <1>2. o \in Rows /\ TypeInv /\ TypeOK
    BY <1>1, Zenon DEF HeadInv, TypeInv, InHand
  <1>3. HandKept /\ supersededBy' = supersededBy /\ recovery' = recovery
    BY <1>1, <1>2, HandApply, Zenon
  <1>4. CASE ApplyStale(w) \/ ApplyIllegal(w)
    BY <1>3, <1>4, QuietRows, Zenon DEF ApplyStale, ApplyIllegal, actVars
  <1>5. CASE \/ ApplyInconclusive(w) \/ ApplyRejected(w) \/ ApplyNeverAccepted(w)
             \/ ApplyFound(w)
    <2>1. Fenced(w, o)
      BY <1>5, Zenon DEF ApplyInconclusive, ApplyRejected, ApplyNeverAccepted, ApplyFound
    <2>2. delivery = [delivery EXCEPT ![o] = "paused"]
      BY <1>2, <2>1, FencedIsFree, Zenon DEF TypeOK
    <2>3. \/ Writes(o, "unknown", "paused") \/ Writes(o, "failed", "dead_letter")
          \/ Writes(o, "pending", "ready") \/ Writes(o, res[w], "delivered")
      BY <1>3, <1>5, <2>2, Zenon DEF Writes, ApplyInconclusive, ApplyRejected,
         ApplyNeverAccepted, ApplyFound
    <2> QED
      BY <1>2, <1>3, <2>1, <2>3, FencedIsFree, QuietWrite, Zenon DEF Settled, Unsettled
  <1> QED
    BY <1>4, <1>5, Zenon

\* The delivery steps before the source system is called: the event row is not
\* locked, so no transaction is open.
LEMMA HeadDeliver ==
  ASSUME HeadInv, NEW w \in Workers, NEW o \in Rows,
         \/ DeliverSuperseded(w, o) \/ DeliverSkip(w, o) \/ DeliverExpired(w, o)
         \/ DeliverFenced(w, o) \/ DeliverInvalid(w, o)
  PROVE  Quiet
  <1>1. Delivering(w, o)
    BY Zenon DEF DeliverSuperseded, DeliverSkip, DeliverExpired, DeliverFenced,
       DeliverInvalid
  <1>2. Free(o) /\ o \in batch[w] /\ delivery[o] # "absent" /\ TypeInv /\ TypeOK
    BY <1>1, Zenon DEF Delivering, EventLocked, Free, HeadInv, LockInv, TypeInv
  <1>3. Advance(w, batch[w] \ {o}) => HandKept
    BY <1>2, HandAdvance, Zenon
  <1>4. CASE DeliverSkip(w, o) \/ (DeliverSuperseded(w, o) /\ delivery[o] = "delivered")
    <2>1. UNCHANGED <<supersededBy, delivery, latest, mirror, recovery>>
      BY <1>4, Zenon DEF DeliverSkip, DeliverSuperseded, rowVars, actVars
    <2>2. HandKept
      BY <1>3, <1>4, Zenon DEF DeliverSkip, DeliverSuperseded
    <2> QED
      BY <2>1, <2>2, QuietRows, Zenon
  <1>5. CASE DeliverFenced(w, o) \/ (DeliverSuperseded(w, o) /\ delivery[o] # "delivered")
    <2>1. Moves(o, "dead_letter") /\ recovery' = recovery
      BY <1>5, Zenon DEF DeliverFenced, DeliverSuperseded, Block, Moves, actVars
    <2>2. HandKept
      BY <1>3, <1>5, Zenon DEF DeliverFenced, DeliverSuperseded
    <2> QED
      BY <1>2, <2>1, <2>2, QuietMove, Zenon DEF Settled, Unsettled
  <1>6. CASE DeliverExpired(w, o)
    <2>1. /\ supersededBy[o] = None /\ latest[o] # "confirmed"
          /\ recovery' = recovery /\ supersededBy' = supersededBy /\ mirror' = mirror
      <3>1. /\ supersededBy[o] = None /\ delivery[o] = "leased"
            /\ recovery' = recovery /\ supersededBy' = supersededBy /\ mirror' = mirror
        BY <1>6, Zenon DEF DeliverExpired, actVars
      <3> QED
        BY <3>1, <1>2, Zenon DEF HeadInv, RowInv, Unsettled
    <2>2. HandKept
      BY <1>3, <1>6, Zenon DEF DeliverExpired
    <2>3. /\ delivery'[o] = "paused" /\ latest'[o] = "unknown"
          /\ \A p \in Rows \ {o} : delivery'[p] = delivery[p] /\ latest'[p] = latest[p]
      BY <1>2, <1>6, Zenon DEF DeliverExpired, TypeOK
    <2>4. Kept(o)
      BY <1>2, <2>1, <2>3, Zenon DEF Kept
    <2> QED
      BY <1>2, <2>1, <2>2, <2>3, <2>4, QuietRow, Zenon DEF Free
  <1>7. CASE DeliverInvalid(w, o)
    <2>1. UNCHANGED <<supersededBy, delivery, latest, mirror, recovery>>
      BY <1>7, Zenon DEF DeliverInvalid, rowVars, actVars
    <2>2. PICK kind : FailDelivery(w, o, kind)
      BY <1>7, Zenon DEF DeliverInvalid
    <2>3. HandKept
      BY <1>2, <2>2, HandFail, Zenon
    <2> QED
      BY <2>1, <2>3, QuietRows, Zenon
  <1> QED
    BY <1>4, <1>5, <1>6, <1>7, Zenon

\* A delivery transaction commits or rolls back: it was the only one open.
LEMMA HeadCommit ==
  ASSUME HeadInv, NEW w \in Workers,
         CommitDelivered(w) \/ CommitUnknown(w) \/ CommitRollsBack(w)
  PROVE  Quiet
  <1> DEFINE o == cur[w]
  <1>1. pc[w] = "commit"
    BY Zenon DEF CommitDelivered, CommitUnknown, CommitRollsBack
  <1>2. o \in Rows /\ TypeInv /\ TypeOK
    BY <1>1, Zenon DEF HeadInv, TypeInv, InHand
  <1>3. /\ supersededBy[o] = None /\ latest[o] # "confirmed" /\ delivery[o] # "absent"
        /\ pc'[w] # "commit" => Free(o)
    BY <1>1, Zenon DEF HeadInv, LockInv, Free
  <1>4. Advance(w, batch[w]) => HandKept /\ Free(o)
    BY <1>2, <1>3, HandAdvance, Zenon
  <1>5. CASE CommitDelivered(w) \/ CommitUnknown(w)
    <2>1. HandKept /\ Free(o) /\ recovery' = recovery
      BY <1>4, <1>5, Zenon DEF CommitDelivered, CommitUnknown
    <2>2. Writes(o, res[w], "delivered") \/ Writes(o, "unknown", "paused")
      BY <1>5, Zenon DEF CommitDelivered, CommitUnknown, Writes
    <2> QED
      BY <1>2, <1>3, <2>1, <2>2, QuietWrite, Zenon DEF Settled, Unsettled
  <1>6. CASE CommitRollsBack(w)
    <2>1. UNCHANGED <<supersededBy, delivery, latest, mirror, recovery>>
      BY <1>6, Zenon DEF CommitRollsBack, rowVars, actVars
    <2>2. HandKept
      BY <1>1, <1>2, <1>6, HandFail, Zenon DEF CommitRollsBack
    <2> QED
      BY <2>1, <2>2, QuietRows, Zenon
  <1> QED
    BY <1>5, <1>6, Zenon

\* The error handlers act on leased rows that no transaction has locked.
LEMMA HeadMark ==
  ASSUME HeadInv, NEW w \in Workers, Mark(w) \/ MarkStale(w)
  PROVE  Quiet
  <1> DEFINE o == cur[w]
  <1>1. pc[w] = "mark" /\ ~Locked(o) /\ Advance(w, batch[w]) /\ recovery' = recovery
    BY Zenon DEF Mark, MarkStale
  <1>2. o \in Rows /\ TypeInv /\ TypeOK /\ Free(o)
    BY <1>1, Zenon DEF HeadInv, TypeInv, InHand, Locked, Free
  <1>3. HandKept
    BY <1>1, <1>2, HandAdvance, Zenon
  <1>4. CASE MarkStale(w)
    <2>1. UNCHANGED <<supersededBy, delivery, latest, mirror, recovery>>
      BY <1>4, Zenon DEF MarkStale, rowVars, actVars
    <2> QED
      BY <1>3, <2>1, QuietRows, Zenon
  <1>5. CASE Mark(w)
    <2>1. delivery[o] = "leased"
      BY <1>5, Zenon DEF Mark
    <2>2. supersededBy[o] = None /\ latest[o] # "confirmed"
      BY <1>2, <2>1, Zenon DEF HeadInv, RowInv, SupersededIsFenced, Settled, Unsettled
    <2>3. CASE res[w] = "guardrail"
      <3>1. Moves(o, "dead_letter")
        BY <1>5, <2>3, Zenon DEF Mark, Moves, MarkedDelivery, actVars
      <3> QED
        BY <1>1, <1>2, <1>3, <2>1, <2>2, <3>1, QuietMove, Zenon DEF Settled, Unsettled
    <2>4. CASE res[w] # "guardrail"
      <3>1. Writes(o, MarkedStatus(res[w]), MarkedDelivery(res[w]))
        BY <1>5, <2>4, Zenon DEF Mark, Writes
      <3>2. MarkedStatus(res[w]) # "confirmed" /\ MarkedDelivery(res[w]) # "absent"
        BY Zenon DEF MarkedStatus, MarkedDelivery
      <3> QED
        BY <1>1, <1>2, <1>3, <2>1, <2>2, <3>1, <3>2, QuietWrite, Zenon
    <2> QED
      BY <2>3, <2>4, Zenon
  <1> QED
    BY <1>4, <1>5, Zenon

\* The operator and recovery entry points, on a row no transaction has locked
LEMMA HeadOperator ==
  ASSUME HeadInv, NEW o \in Rows, OperatorStep(o)
  PROVE  Quiet
  <1>0. TypeInv /\ TypeOK
    BY Zenon DEF HeadInv, TypeInv
  <1>1. UNCHANGED workVars
    BY Zenon DEF OperatorStep, RetryBlocked, RetryReconcile, RetryReenqueue,
       ResolveWriteback, RecoveryLookup, RecoveryApply
  <1>2. HandKept /\ (~Locked(o) => Free(o))
    BY <1>1, HandIdle, Zenon DEF Locked, Free
  <1>3. Retryable(o) => /\ Free(o) /\ delivery[o] # "absent"
                        /\ supersededBy[o] = None /\ latest[o] # "confirmed"
    BY <1>2, Zenon DEF Retryable, EligibleForRetryPause
  <1>4. CASE RetryBlocked(o)
    <2>1. Retryable(o) /\ Moves(o, "paused") /\ recovery' = recovery
      BY <1>4, Zenon DEF RetryBlocked, Moves, actVars
    <2> QED
      BY <1>2, <1>3, <2>1, QuietMove, Zenon
  <1>5. CASE RetryReconcile(o) \/ RetryReenqueue(o)
    <2>1. Retryable(o) /\ recovery' = recovery
      BY <1>5, Zenon DEF RetryReconcile, RetryReenqueue
    <2>2. \E s : Writes(o, s, "delivered") \/ Writes(o, "pending", "ready")
      BY <1>5, Zenon DEF RetryReconcile, RetryReenqueue, Writes
    <2> QED
      BY <1>2, <1>3, <2>1, <2>2, QuietWrite, Zenon DEF Settled, Unsettled
  <1>6. ASSUME NEW target, ResolveWriteback(o, target) PROVE Quiet
    <2>1. /\ delivery[o] # "absent" /\ ~Locked(o) /\ recovery' = recovery
          /\ Writes(o, target, "delivered")
          /\ ValidWriteback(Default(latest[o], "unknown"), target, {"evidence_adjudication"})
      BY <1>6, Zenon DEF ResolveWriteback, Writes
    <2>2. latest[o] # "confirmed"
      BY <2>1, Zenon DEF Default, None, ValidWriteback, WRITEBACK_STATUS_TRANSITIONS, WritebackStatus
    <2> QED
      BY <1>2, <2>1, <2>2, QuietWrite, Zenon DEF Settled, Unsettled
  <1>7. CASE RecoveryLookup(o)
    <2>1. delivery[o] # "absent" /\ UNCHANGED <<supersededBy, delivery, latest, mirror>>
      BY <1>7, Zenon DEF RecoveryLookup, rowVars, actVars
    <2>2. \A p \in Rows \ {o} : recovery'[p] = recovery[p]
      BY <1>0, <1>7, Zenon DEF RecoveryLookup, TypeOK
    <2>3. Kept(o)
      BY <2>1, Zenon DEF Kept, HeadInv, RowInv, SupersededIsFenced, MirrorOfSettled
    <2>4. \A p \in Rows \ {o} : Kept(p)
      BY <2>1, <2>2, Untouched, Zenon DEF HeadInv
    <2> QED
      BY <1>2, <2>1, <2>3, <2>4, Zenon DEF Quiet, LockedKept
  <1>8. CASE RecoveryApply(o)
    <2> DEFINE s == recovery[o]
               valid == ValidWriteback(Default(latest[o], "pending"), s,
                                       {"evidence_adjudication"})
               fences == s \in TerminalSuccess /\ delivery[o] \in {"ready", "paused", "leased"}
    <2>1. /\ s # None /\ ~Locked(o) /\ recovery' = [recovery EXCEPT ![o] = None]
          /\ supersededBy' = supersededBy
      BY <1>8, Zenon DEF RecoveryApply
    <2>2. delivery[o] # "absent"
      BY <2>1, Zenon DEF HeadInv, RowInv
    <2>3. /\ recovery'[o] = None
          /\ \A p \in Rows \ {o} : recovery'[p] = recovery[p]
      BY <1>0, <2>1, Zenon DEF TypeOK
    <2>4. CASE ~valid
      <3>1. UNCHANGED <<delivery, latest, mirror>>
        BY <1>8, <2>4, Zenon DEF RecoveryApply
      <3>2. Kept(o)
        BY <2>1, <2>2, <3>1, Zenon DEF Kept, HeadInv, RowInv, SupersededIsFenced, MirrorOfSettled
      <3> QED
        BY <1>2, <2>1, <2>3, <3>1, <3>2, QuietRow, Zenon DEF Free
    <2>5. CASE valid
      <3>1. latest[o] # "confirmed"
        BY <2>5, Zenon DEF Default, None, ValidWriteback, WRITEBACK_STATUS_TRANSITIONS,
           WritebackStatus
      <3>2. /\ latest' = [latest EXCEPT ![o] = s] /\ Mirror({o}, s)
            /\ delivery' = IF fences THEN [delivery EXCEPT ![o] = "delivered"] ELSE delivery
        BY <1>8, <2>5, Zenon DEF RecoveryApply
      <3>3. /\ latest'[o] = s /\ delivery'[o] = IF fences THEN "delivered" ELSE delivery[o]
            /\ \A p \in Rows \ {o} : delivery'[p] = delivery[p] /\ latest'[p] = latest[p]
        BY <1>0, <3>2, StatusTypes, Zenon
      <3>4. /\ \A p \in Rows \ {o} : mirror'[p] = mirror[p]
            /\ o \in Terminal => mirror'[o] = s
        BY <1>0, <3>2, MirrorRow, Zenon
      <3>5. Kept(o)
        BY <2>1, <2>2, <3>1, <3>3, <3>4, Zenon DEF Kept, Settled, Unsettled, TerminalSuccess
      <3> QED
        BY <1>2, <2>1, <2>3, <3>3, <3>4, <3>5, QuietRow, Zenon DEF Free
    <2> QED
      BY <2>4, <2>5, Zenon
  <1> QED
    BY <1>4, <1>5, <1>6, <1>7, <1>8, Zenon DEF OperatorStep

\* The steps that write no row: lookups, crashes, clocks, the bound action, the
\* source system
LEMMA HeadAside ==
  ASSUME HeadInv,
         \/ \E w \in Workers : Crash(w) \/ \E o \in Rows : LookupPaused(w, o)
         \/ \E o \in Rows : \/ ActionStep(o) \/ LeaseExpires(o) \/ WireDelivers(o)
                            \/ ProviderProgress(o)
         \/ UNCHANGED vars
  PROVE  Quiet
  <1>0. TypeInv /\ TypeOK
    BY Zenon DEF HeadInv, TypeInv
  <1>1. UNCHANGED <<supersededBy, delivery, latest, mirror, recovery>>
    BY Zenon DEF Crash, LookupPaused, ActionStep, ReclaimAction, ReattachAction,
       CompleteEffect, ResolveUnknown, SetAction, LeaseExpires, WireDelivers,
       ProviderProgress, rowVars, actVars, vars
  <1>2. ASSUME NEW w \in Workers, Crash(w) PROVE HandKept
    BY <1>0, <1>2, Zenon DEF Crash, HandKept, TypeOK
  <1>3. ASSUME NEW w \in Workers, NEW o \in Rows, LookupPaused(w, o) PROVE HandKept
    <2>1. /\ o \in batch[w] /\ cur' = [cur EXCEPT ![w] = o]
          /\ batch' = [batch EXCEPT ![w] = @ \ {o}]
          /\ pc' = [pc EXCEPT ![w] = "apply"]
      BY <1>3, Zenon DEF LookupPaused
    <2> QED
      BY <1>0, <2>1, Zenon DEF HandKept, TypeOK
  <1>4. ASSUME UNCHANGED workVars PROVE HandKept
    BY <1>4, HandIdle, Zenon
  <1>5. HandKept
    BY <1>2, <1>3, <1>4, Zenon DEF ActionStep, ReclaimAction, ReattachAction,
       CompleteEffect, ResolveUnknown, SetAction, LeaseExpires, WireDelivers,
       ProviderProgress, vars
  <1> QED
    BY <1>1, <1>5, QuietRows, Zenon

-----------------------------------------------------------------------------
(* The steps that insert a row, hand rows out or open a transaction        *)

\* An entity row is no head.
LEMMA HeadEnqueue ==
  ASSUME HeadInv, NEW o \in Rows, EnqueueEntity(o)
  PROVE  RowInv' /\ LockInv'
  <1>1. /\ o \notin Terminal /\ delivery[o] = "absent" /\ ~EventLocked
        /\ UNCHANGED <<latest, supersededBy, mirror, recovery, pc, batch, cur>>
    BY Zenon DEF EnqueueEntity, actVars, workVars
  <1>2. /\ delivery'[o] = "ready"
        /\ \A p \in Rows \ {o} : delivery'[p] = delivery[p]
    BY Zenon DEF EnqueueEntity, HeadInv, TypeInv, TypeOK
  <1>3. Terminal \subseteq Rows
    BY ConstantsOK, Zenon DEF ConstantsOK
  <1>4. ActiveHeads' = ActiveHeads
    BY <1>1, <1>2, <1>3, Zenon DEF ActiveHeads
  <1>5. RowInv'
    BY <1>1, <1>2, <1>3, <1>4, Zenon DEF HeadInv, RowInv, SingleActiveHead, SupersededIsFenced,
       MirrorOfSettled, Unsettled
  <1>6. /\ \A w \in Workers : batch[w] \subseteq Rows
        /\ \A w \in Workers : pc[w] \in {"apply", "commit", "mark"} => cur[w] \in Rows
    BY Zenon DEF HeadInv, TypeInv, TypeOK, InHand
  <1>7. LockInv'
    BY <1>1, <1>2, <1>6, Zenon DEF HeadInv, LockInv, EventLocked
  <1> QED
    BY <1>5, <1>7, Zenon

\* The new head is the only one; the old one is settled in the same commit.
LEMMA HeadActivate ==
  ASSUME HeadInv, NEW w \in Workers, NEW o \in Rows, ActivateAndSubmit(w, o)
  PROVE  RowInv' /\ LockInv'
  <1>1. /\ o \in Terminal /\ delivery[o] = "absent" /\ ~EventLocked
        /\ UNCHANGED <<latest, mirror, recovery, cur>>
        /\ supersededBy' = Lineage(o)
        /\ pc' = [pc EXCEPT ![w] = "deliver"] /\ batch' = [batch EXCEPT ![w] = {o}]
    BY Zenon DEF ActivateAndSubmit, actVars
  <1>2. \A p \in Rows :
           /\ supersededBy'[p] = IF p \in ActiveHeads THEN o ELSE supersededBy[p]
           /\ delivery'[p] = IF p = o THEN "ready"
                             ELSE IF p \in StoppedHeads THEN "dead_letter" ELSE delivery[p]
    BY <1>1, Zenon DEF ActivateAndSubmit, Lineage
  <1>3. Terminal \subseteq Rows /\ o # None
    BY ConstantsOK, Zenon DEF ConstantsOK
  <1>4. \A p \in Terminal : p \in ActiveHeads <=> delivery[p] # "absent" /\ supersededBy[p] = None
    BY Zenon DEF ActiveHeads
  <1>5. \A p \in Rows : p \in StoppedHeads <=> p \in ActiveHeads /\ delivery[p] \notin Settled
    BY Zenon DEF StoppedHeads, Settled
  <1>6. \A p \in Rows : delivery[p] = "absent" => supersededBy[p] = None /\ recovery[p] = None
    BY Zenon DEF HeadInv, RowInv
  <1>7. supersededBy \in [Rows -> Terminal \cup {None}]
    BY Zenon DEF HeadInv, TypeInv, TypeOK
  <1>8. SingleActiveHead'
    <2>1. \A p \in Terminal \ {o} : delivery'[p] # "absent" => supersededBy'[p] # None
      BY <1>2, <1>3, <1>4, <1>5, Zenon
    <2>2. \A p \in ActiveHeads' : p = o
      BY <2>1, Zenon DEF ActiveHeads
    <2> QED
      BY <2>2, Zenon DEF SingleActiveHead
  <1>9. SupersededIsFenced'
    <2>1. supersededBy'[o] = None
      BY <1>1, <1>2, <1>4, <1>6, Zenon
    <2>2. \A p \in Rows \ {o} : supersededBy'[p] # None => delivery'[p] \in Settled
      BY <1>2, <1>5, Zenon DEF HeadInv, RowInv, SupersededIsFenced, Settled
    <2> QED
      BY <2>1, <2>2, Zenon DEF SupersededIsFenced, Settled
  <1>10. MirrorOfSettled'
    BY <1>1, <1>2, <1>3, Zenon DEF HeadInv, RowInv, MirrorOfSettled
  <1>11. \A p \in Rows : delivery'[p] = "absent" => supersededBy'[p] = None /\ recovery'[p] = None
    <2>1. \A p \in Rows : delivery'[p] = "absent" => delivery[p] = "absent"
      BY <1>2, Zenon
    <2>2. \A p \in ActiveHeads : delivery[p] # "absent"
      BY Zenon DEF ActiveHeads
    <2> QED
      BY <1>1, <1>2, <1>6, <2>1, <2>2, Zenon
  <1>12. \A p \in Rows : latest'[p] = "confirmed" => delivery'[p] \notin Unsettled
    BY <1>1, <1>2, Zenon DEF HeadInv, RowInv, Unsettled
  <1>13. LockInv'
    <2>1. \A v \in Workers : /\ pc'[v] = IF v = w THEN "deliver" ELSE pc[v]
                             /\ batch'[v] = IF v = w THEN {o} ELSE batch[v]
      BY <1>1, Zenon DEF HeadInv, TypeInv, TypeOK
    <2>2. \A p \in Rows : delivery[p] # "absent" => delivery'[p] # "absent"
      BY <1>2, Zenon
    <2>3. /\ \A v \in Workers : batch[v] \subseteq Rows
          /\ \A v \in Workers : pc[v] \in {"apply", "commit", "mark"} => cur[v] \in Rows
      BY Zenon DEF HeadInv, TypeInv, TypeOK, InHand
    <2>4. \A v \in Workers : pc'[v] # "commit"
      BY <1>1, <2>1 DEF EventLocked
    <2> QED
      BY <1>1, <1>2, <2>1, <2>2, <2>3, <2>4 DEF HeadInv, LockInv
  <1> QED
    BY <1>8, <1>9, <1>10, <1>11, <1>12, <1>13, Zenon DEF RowInv

\* A process takes paused heads for reconcile.
LEMMA HeadClaimPaused ==
  ASSUME HeadInv, NEW w \in Workers, ClaimPaused(w)
  PROVE  RowInv' /\ LockInv'
  <1> DEFINE S == {o \in Rows : /\ delivery[o] = "paused" /\ supersededBy[o] = None
                                /\ lockedBy[o] = None \/ ~leaseLive[o]}
  <1>1. /\ UNCHANGED <<delivery, latest, supersededBy, recovery, cur>>
        /\ Mirror(S, "unknown") /\ batch' = [batch EXCEPT ![w] = S]
        /\ pc' = [pc EXCEPT ![w] = IF S = {} THEN "claim" ELSE "lookup"]
    BY Zenon DEF ClaimPaused
  <1>2. \A p \in Rows : delivery[p] # "paused" => mirror'[p] = mirror[p]
    BY <1>1, Zenon DEF Mirror
  <1>3. \A p \in Rows : Kept(p)
    <2>1. TAKE p \in Rows
    <2>2. CASE delivery[p] # "paused"
      BY <1>1, <1>2, <2>2, Untouched, Zenon DEF HeadInv
    <2>3. CASE delivery[p] = "paused"
      <3>1. latest[p] # "confirmed"
        BY <2>3, Zenon DEF HeadInv, RowInv, Unsettled
      <3> QED
        BY <1>1, <2>3, <3>1, Zenon DEF Kept, Settled
    <2> QED
      BY <2>2, <2>3, Zenon
  <1>4. \A v \in Workers : /\ pc'[v] = "commit" => pc[v] = "commit"
                           /\ pc'[v] \in {"apply", "commit", "mark"} => pc'[v] = pc[v]
                           /\ batch'[v] = batch[v] \/ batch'[v] = S
    BY <1>1, WorkerTypes, ZenonT(30) DEF HeadInv
  <1>5. LockInv'
    BY <1>1, <1>4 DEF HeadInv, LockInv
  <1> QED
    BY <1>3, <1>5, KeptRows, Zenon DEF HeadInv

\* Neither a superseded head nor the row of an open transaction is leased or
\* paused by a claim.
LEMMA HeadClaimBatch ==
  ASSUME HeadInv, NEW w \in Workers, ClaimBatch(w)
  PROVE  RowInv' /\ LockInv'
  <1>1. /\ UNCHANGED <<supersededBy, recovery, cur>>
        /\ batch' = [batch EXCEPT ![w] = DueRows]
        /\ pc' = [pc EXCEPT ![w] = IF DueRows = {} THEN "idle" ELSE "deliver"]
        /\ Mirror(ExpiredRows \ DueRows, "unknown")
    BY Zenon DEF ClaimBatch
  <1>2. \A p \in Rows :
           /\ delivery'[p] = IF p \in DueRows THEN "leased"
                             ELSE IF p \in ExpiredRows \ DueRows THEN "paused" ELSE delivery[p]
           /\ latest'[p] = IF p \in ExpiredRows \ DueRows THEN "unknown" ELSE latest[p]
    BY Zenon DEF ClaimBatch
  <1>3. \A p \in Rows : p \notin ExpiredRows => mirror'[p] = mirror[p]
    BY <1>1, Zenon DEF Mirror
  <1>4. \A p \in DueRows \cup ExpiredRows :
           p \in Rows /\ supersededBy[p] = None /\ ~Locked(p) /\ delivery[p] \in {"ready", "leased"}
    BY Zenon DEF DueRows, ExpiredRows, Claimable
  <1>5. \A p \in Rows : Kept(p)
    <2>1. TAKE p \in Rows
    <2>2. CASE p \in DueRows \cup ExpiredRows
      <3>1. delivery'[p] \in {"leased", "paused"} /\ latest[p] # "confirmed"
        BY <1>2, <1>4, <2>2, Zenon DEF HeadInv, RowInv, Unsettled
      <3> QED
        BY <1>1, <1>2, <1>4, <2>2, <3>1, Zenon DEF Kept
    <2>3. CASE p \notin DueRows \cup ExpiredRows
      BY <1>1, <1>2, <1>3, <2>3, Untouched, Zenon DEF HeadInv
    <2> QED
      BY <2>2, <2>3, Zenon
  <1>6. \A v \in Workers : /\ pc'[v] = "commit" => pc[v] = "commit"
                           /\ pc'[v] \in {"apply", "commit", "mark"} => pc'[v] = pc[v]
                           /\ batch'[v] = batch[v] \/ batch'[v] = DueRows
    BY <1>1, WorkerTypes, Zenon DEF HeadInv
  <1>7. /\ \A v \in Workers : batch[v] \subseteq Rows
        /\ \A v \in Workers : pc[v] \in {"apply", "commit", "mark"} => cur[v] \in Rows
    BY WorkerTypes, Zenon DEF HeadInv
  <1>8. \A v \in Workers : pc[v] = "commit" =>
           latest'[cur[v]] = latest[cur[v]] /\ delivery'[cur[v]] = delivery[cur[v]]
    BY <1>2, <1>4, <1>7, Zenon DEF Locked
  <1>9. LockInv'
    <2>1. \A p \in Rows : delivery[p] # "absent" => delivery'[p] # "absent"
      BY <1>5, Zenon DEF Kept
    <2>2. \A v \in Workers : \A p \in batch'[v] : delivery'[p] # "absent"
      BY <1>4, <1>6, <1>7, <2>1 DEF HeadInv, LockInv
    <2>3. \A v \in Workers : pc'[v] \in {"apply", "commit", "mark"} => delivery'[cur'[v]] # "absent"
      BY <1>1, <1>6, <1>7, <2>1, Zenon DEF HeadInv, LockInv
    <2>4. \A u, v \in Workers : pc'[u] = "commit" /\ pc'[v] = "commit" => u = v
      BY <1>6, Zenon DEF HeadInv, LockInv
    <2>5. \A v \in Workers : pc'[v] = "commit" =>
             /\ supersededBy'[cur'[v]] = None /\ latest'[cur'[v]] # "confirmed"
             /\ delivery'[cur'[v]] \in {"ready", "leased"}
      BY <1>1, <1>6, <1>8, ZenonT(30) DEF HeadInv, LockInv
    <2> QED
      BY <2>2, <2>3, <2>4, <2>5, Zenon DEF LockInv
  <1> QED
    BY <1>5, <1>9, KeptRows, Zenon DEF HeadInv

\* The source system is called for an unconfirmed head while no other
\* transaction is open.
LEMMA HeadSubmit ==
  ASSUME HeadInv, NEW w \in Workers, NEW o \in Rows,
         SubmitAnswered(w, o) \/ SubmitLost(w, o) \/ SubmitRefused(w, o)
  PROVE  RowInv' /\ LockInv'
  <1>1. Submits(w, o)
    BY Zenon DEF SubmitAnswered, SubmitLost, SubmitRefused
  <1>2. /\ ~EventLocked /\ o \in batch[w] /\ supersededBy[o] = None
        /\ delivery[o] \in {"ready", "leased"} /\ latest[o] # "confirmed"
        /\ UNCHANGED <<supersededBy, delivery, latest, mirror, recovery>>
    BY <1>1, Zenon DEF Submits, Delivering, Deliverable, rowVars, actVars, None
  <1>3. CASE \E kind : FailDelivery(w, o, kind)
    <2>1. HandKept
      BY <1>2, <1>3, HandFail, Zenon DEF HeadInv
    <2> QED
      BY <1>2, <2>1, QuietRows, QuietKeepsHeads, Zenon
  <1>4. CASE \E s : Receive(w, o, s)
    <2>1. /\ pc' = [pc EXCEPT ![w] = "commit"] /\ cur' = [cur EXCEPT ![w] = o]
          /\ batch' = [batch EXCEPT ![w] = @ \ {o}]
      BY <1>4, Zenon DEF Receive
    <2>2. \A v \in Workers : /\ pc'[v] = IF v = w THEN "commit" ELSE pc[v]
                             /\ cur'[v] = IF v = w THEN o ELSE cur[v]
                             /\ batch'[v] \subseteq batch[v]
      BY <2>1, WorkerTypes, Zenon DEF HeadInv
    <2>3. LockInv'
      BY <1>2, <2>2, ZenonT(30) DEF HeadInv, LockInv, EventLocked
    <2>4. RowInv'
      BY <1>2, Untouched, KeptRows, Zenon DEF HeadInv
    <2> QED
      BY <2>3, <2>4, Zenon
  <1> QED
    BY <1>3, <1>4, Zenon DEF SubmitAnswered, SubmitLost, SubmitRefused

-----------------------------------------------------------------------------
\* Every step is quiet, or inserts a row, hands rows out or opens a transaction.
LEMMA QuietOrNot ==
  ASSUME HeadInv, [Next]_vars
  PROVE  \/ Quiet
         \/ \E o \in Rows : EnqueueEntity(o)
         \/ \E w \in Workers : ClaimPaused(w) \/ ClaimBatch(w)
         \/ \E w \in Workers, o \in Rows :
               \/ ActivateAndSubmit(w, o)
               \/ SubmitAnswered(w, o) \/ SubmitLost(w, o) \/ SubmitRefused(w, o)
  <1>1. ASSUME NEW w \in Workers, ReconcileStep(w) PROVE Quiet \/ ClaimPaused(w)
    BY <1>1, HeadApply, HeadAside, Zenon DEF ReconcileStep
  <1>2. ASSUME NEW w \in Workers, DeliverStep(w)
        PROVE  Quiet \/ \E o \in Rows : \/ SubmitAnswered(w, o) \/ SubmitLost(w, o)
                                         \/ SubmitRefused(w, o)
    BY <1>2, HeadDeliver, HeadCommit, HeadMark, Zenon DEF DeliverStep
  <1>3. ASSUME NEW w \in Workers, Crash(w) PROVE Quiet
    BY <1>3, HeadAside, Zenon
  <1>4. ASSUME NEW o \in Rows, OperatorStep(o) PROVE Quiet
    BY <1>4, HeadOperator, Zenon
  <1>5. ASSUME NEW o \in Rows,
               ActionStep(o) \/ LeaseExpires(o) \/ WireDelivers(o) \/ ProviderProgress(o)
        PROVE  Quiet
    BY <1>5, HeadAside, Zenon
  <1>6. CASE UNCHANGED vars
    BY <1>6, HeadAside, Zenon
  <1> QED
    BY <1>1, <1>2, <1>3, <1>4, <1>5, <1>6, Zenon DEF Next, WorkerStep

\* Every step keeps the invariant.
LEMMA HeadNext == HeadInv /\ [Next]_vars => HeadInv'
  <1> SUFFICES ASSUME HeadInv, [Next]_vars PROVE HeadInv'
    OBVIOUS
  <1>1. RowInv' /\ LockInv'
    BY QuietOrNot, QuietKeepsHeads, HeadEnqueue, HeadActivate, HeadClaimPaused,
       HeadClaimBatch, HeadSubmit, Zenon
  <1> QED
    BY <1>1, TypeNext, Zenon DEF HeadInv

\* No step takes CONFIRMED back.
LEMMA ConfirmedKept ==
  ASSUME HeadInv, [Next]_vars, NEW o \in Rows, latest[o] = "confirmed"
  PROVE  latest'[o] = "confirmed"
  <1>1. CASE Quiet
    BY <1>1, Zenon DEF Quiet, Kept
  <1>2. ASSUME NEW p \in Rows, EnqueueEntity(p) PROVE latest' = latest
    BY <1>2, Zenon DEF EnqueueEntity
  <1>3. ASSUME NEW w \in Workers, ClaimPaused(w) PROVE latest' = latest
    BY <1>3, Zenon DEF ClaimPaused
  <1>4. ASSUME NEW w \in Workers, NEW p \in Rows, ActivateAndSubmit(w, p)
        PROVE  latest' = latest
    BY <1>4, Zenon DEF ActivateAndSubmit
  <1>5. ASSUME NEW w \in Workers, NEW p \in Rows,
               SubmitAnswered(w, p) \/ SubmitLost(w, p) \/ SubmitRefused(w, p)
        PROVE  latest' = latest
    BY <1>5, Zenon DEF SubmitAnswered, SubmitLost, SubmitRefused, Submits, rowVars
  <1>6. ASSUME NEW w \in Workers, ClaimBatch(w) PROVE latest'[o] = latest[o]
    BY <1>6, Zenon DEF ClaimBatch, ExpiredRows, HeadInv, RowInv, Unsettled
  <1> QED
    BY <1>1, <1>2, <1>3, <1>4, <1>5, <1>6, QuietOrNot, Zenon

\* SingleActiveHead: a slot has one active head, whatever activations, deliveries,
\* retries and crashes interleave.
THEOREM OneHead == Spec => []SingleActiveHead
  <1>1. HeadInv => SingleActiveHead
    BY Zenon DEF HeadInv, RowInv
  <1> QED
    BY <1>1, HeadInit, HeadNext, PTL DEF Spec

\* SupersededIsFenced: a head that activate_and_submit superseded is settled from
\* that commit on: neither a late commit, a stale batch, an operator nor the
\* recovery handler makes it deliverable again.
THEOREM HeadsFenced == Spec => []SupersededIsFenced
  <1>1. HeadInv => SupersededIsFenced
    BY Zenon DEF HeadInv, RowInv
  <1> QED
    BY <1>1, HeadInit, HeadNext, PTL DEF Spec

\* The close gate reads the write-back status off the action; once the terminal
\* row is DELIVERED that is the status of the row, whichever writer
\* of the two columns wrote last.
THEOREM MirrorAgrees == Spec => []MirrorOfSettled
  <1>1. HeadInv => MirrorOfSettled
    BY Zenon DEF HeadInv, RowInv
  <1> QED
    BY <1>1, HeadInit, HeadNext, PTL DEF Spec

\* A CONFIRMED row keeps its status and never returns to the queue: reconcile,
\* lease expiry, operator retry, adjudication, recovery updates and the commits of
\* other processes all leave it.
THEOREM ConfirmedStays == Spec => ConfirmedIsFinal
  <1>1. HeadInv /\ [Next]_vars =>
           [\A o \in Rows : latest[o] = "confirmed" =>
               latest'[o] = "confirmed" /\ delivery'[o] \notin {"ready", "leased", "paused"}]_vars
    BY HeadNext, ConfirmedKept, Zenon DEF HeadInv, RowInv, Unsettled
  <1> QED
    BY <1>1, HeadInit, HeadNext, PTL DEF Spec, ConfirmedIsFinal

-----------------------------------------------------------------------------
(* At most one submission.  A row is in the hands of at most one delivering *)
(* process, it is handed out only while READY, and it is READY only before  *)
(* its first submission, because the two ways back to READY need a safe     *)
(* retry.                                                                   *)

\* Process w has the row in its delivery batch and has not reached it yet.
Holds(w, o) == pc[w] \in {"deliver", "commit", "mark"} /\ o \in batch[w]

\* The inductive invariant
OnceInv ==
    \A o \in Rows \ Terminal :
       /\ submits[o] <= 1
       /\ delivery[o] \in {"absent", "ready"} =>
             submits[o] = 0 /\ \A w \in Workers : ~Holds(w, o)
       /\ \A w \in Workers : Holds(w, o) =>
             submits[o] = 0 /\ \A v \in Workers : Holds(v, o) => v = w

\* What every step but a claim or a submission does to entity rows: it submits
\* nothing, hands no row out, and brings none back to the queue.
NoNewHolder == \A v \in Workers, p \in Rows \ Terminal : Holds(v, p)' => Holds(v, p)

NotRequeued ==
    \A p \in Rows \ Terminal :
       delivery'[p] \in {"absent", "ready"} => delivery[p] \in {"absent", "ready"}

\* Steps that hand out no row and re-enqueue none keep the invariant.
LEMMA QuietKeepsOnce ==
  ASSUME OnceInv, submits' = submits, NoNewHolder, NotRequeued
  PROVE  OnceInv'
  BY Zenon DEF OnceInv, NoNewHolder, NotRequeued

-----------------------------------------------------------------------------
(* What the helpers do to holders                                          *)

\* A process that goes on keeps at most the rest of its batch.
LEMMA HoldersAdvance ==
  ASSUME TypeInv, NEW w \in Workers, pc[w] \in {"deliver", "commit", "mark"},
         NEW rest \in SUBSET batch[w], Advance(w, rest)
  PROVE  NoNewHolder /\ \A p \in Rows : Holds(w, p)' => p \in rest
  BY Zenon DEF TypeInv, TypeOK, Advance, NoNewHolder, Holds

\* A process that leaves a delivery with an error takes no new row.
LEMMA HoldersFail ==
  ASSUME TypeInv, NEW w \in Workers, pc[w] \in {"deliver", "commit", "mark"},
         NEW o, NEW kind, FailDelivery(w, o, kind)
  PROVE  NoNewHolder /\ ~Holds(w, o)'
  <1>1. CASE sync[w]
    <2>1. Advance(w, batch[w] \ {o})
      BY <1>1, Zenon DEF FailDelivery
    <2>2. batch'[w] = batch[w] \ {o}
      BY <2>1, Zenon DEF Advance, TypeInv, TypeOK
    <2> QED
      BY <2>1, <2>2, HoldersAdvance, Zenon DEF Holds
  <1>2. CASE ~sync[w]
    <2>1. /\ pc' = [pc EXCEPT ![w] = "mark"]
          /\ batch' = [batch EXCEPT ![w] = @ \ {o}]
      BY <1>2, Zenon DEF FailDelivery
    <2> QED
      BY <2>1, Zenon DEF TypeInv, TypeOK, NoNewHolder, Holds
  <1> QED
    BY <1>1, <1>2, Zenon

\* A process that is answered takes no new row.
LEMMA HoldersReceive ==
  ASSUME TypeInv, NEW w \in Workers, pc[w] = "deliver", NEW o, NEW s, Receive(w, o, s)
  PROVE  NoNewHolder /\ ~Holds(w, o)'
  BY Zenon DEF TypeInv, TypeOK, Receive, NoNewHolder, Holds

\* A process that finishes applying a lookup takes no new row.
LEMMA HoldersAfterApply ==
  ASSUME TypeInv, NEW w \in Workers, pc[w] = "apply", AfterApply(w)
  PROVE  NoNewHolder
  BY Zenon DEF TypeInv, TypeOK, AfterApply, NoNewHolder, Holds

\* Steps that leave the processes alone hand out no row.
LEMMA HoldersIdle ==
  ASSUME UNCHANGED <<pc, batch>>
  PROVE  NoNewHolder
  BY Zenon DEF NoNewHolder, Holds

-----------------------------------------------------------------------------
(* One lemma per group of steps                                            *)

\* Reconciliation of paused rows: only a safe retry would requeue one.
LEMMA OnceReconcile ==
  ASSUME TypeInv, OnceInv, ~AllowsSafeRetry, NEW w \in Workers, ReconcileStep(w)
  PROVE  OnceInv'
  <1>1. CASE ClaimPaused(w)
    <2>1. NoNewHolder
      BY <1>1, Zenon DEF ClaimPaused, TypeInv, TypeOK, NoNewHolder, Holds
    <2> QED
      BY <1>1, <2>1, QuietKeepsOnce, Zenon DEF ClaimPaused, NotRequeued, histVars
  <1>2. ASSUME NEW o \in Rows, LookupPaused(w, o) PROVE OnceInv'
    <2>1. NoNewHolder
      BY <1>2, Zenon DEF LookupPaused, TypeInv, TypeOK, NoNewHolder, Holds
    <2> QED
      BY <1>2, <2>1, QuietKeepsOnce, Zenon DEF LookupPaused, NotRequeued, rowVars, histVars
  <1>3. ASSUME AfterApply(w), pc[w] = "apply", cur[w] \in Rows,
               \/ delivery' = delivery
               \/ \E d \in {"dead_letter", "delivered"} :
                     delivery' = [delivery EXCEPT ![cur[w]] = d]
        PROVE  OnceInv'
    <2>1. NotRequeued
      BY <1>3, Zenon DEF NotRequeued, TypeInv, TypeOK
    <2>2. submits' = submits
      BY <1>3, Zenon DEF AfterApply
    <2> QED
      BY <1>3, <2>1, <2>2, HoldersAfterApply, QuietKeepsOnce, Zenon
  <1>4. pc[w] = "apply" => cur[w] \in Rows
    BY Zenon DEF TypeInv, InHand
  <1>5. CASE ApplyStale(w)
    BY <1>3, <1>4, <1>5, Zenon DEF ApplyStale
  <1>6. CASE ApplyInconclusive(w)
    BY <1>3, <1>4, <1>6, Zenon DEF ApplyInconclusive
  <1>7. CASE ApplyRejected(w)
    BY <1>3, <1>4, <1>7, Zenon DEF ApplyRejected
  <1>8. CASE ApplyNeverAccepted(w)
    BY <1>8, Zenon DEF ApplyNeverAccepted
  <1>9. CASE ApplyFound(w)
    BY <1>3, <1>4, <1>9, Zenon DEF ApplyFound
  <1>10. CASE ApplyIllegal(w)
    BY <1>3, <1>4, <1>10, Zenon DEF ApplyIllegal
  <1> QED
    BY <1>1, <1>2, <1>5, <1>6, <1>7, <1>8, <1>9, <1>10, Zenon DEF ReconcileStep

\* _claim_batch hands out READY rows only, and a READY row has no holder.
LEMMA OnceClaimBatch ==
  ASSUME TypeInv, OnceInv, NEW w \in Workers, ClaimBatch(w)
  PROVE  OnceInv'
  <1> DEFINE due == DueRows
  <1>1. \A o \in due : o \in Rows /\ delivery[o] = "ready"
    BY Zenon DEF DueRows
  <1>2. /\ pc[w] = "claim"
        /\ pc' = [pc EXCEPT ![w] = IF due = {} THEN "idle" ELSE "deliver"]
        /\ batch' = [batch EXCEPT ![w] = due]
        /\ submits' = submits
    BY Zenon DEF ClaimBatch, histVars
  <1>3. \A o \in Rows : /\ o \in due => delivery'[o] = "leased"
                        /\ o \notin due => delivery'[o] \in {delivery[o], "paused"}
    BY Zenon DEF ClaimBatch
  <1> HIDE DEF due
  <1>4. \A p \in Rows \ Terminal, v \in Workers :
           Holds(v, p)' => Holds(v, p) \/ (v = w /\ p \in due)
    BY <1>2, Zenon DEF TypeInv, TypeOK, Holds
  <1>5. SUFFICES ASSUME NEW o \in Rows \ Terminal
                 PROVE  /\ submits[o] <= 1
                        /\ delivery'[o] \in {"absent", "ready"} =>
                              submits[o] = 0 /\ \A v \in Workers : ~Holds(v, o)'
                        /\ \A v \in Workers : Holds(v, o)' =>
                              submits[o] = 0 /\ \A u \in Workers : Holds(u, o)' => u = v
    BY <1>2, Zenon DEF OnceInv
  <1>6. CASE o \in due
    <2>1. submits[o] = 0 /\ \A v \in Workers : ~Holds(v, o)
      BY <1>1, <1>6, Zenon DEF OnceInv
    <2> QED
      BY <1>3, <1>4, <1>6, <2>1
  <1>7. CASE o \notin due
    <2>1. \A v \in Workers : Holds(v, o)' => Holds(v, o)
      BY <1>4, <1>7, Zenon
    <2>2. delivery'[o] \in {"absent", "ready"} => delivery[o] \in {"absent", "ready"}
      BY <1>3, <1>7, Zenon
    <2> QED
      BY <2>1, <2>2, Zenon DEF OnceInv
  <1> QED
    BY <1>6, <1>7, Zenon

\* A delivery step without a submission lets go of the row or keeps it.
LEMMA OnceDeliverQuiet ==
  ASSUME TypeInv, OnceInv, NEW w \in Workers, NEW o \in Rows,
         \/ DeliverSuperseded(w, o) \/ DeliverSkip(w, o) \/ DeliverExpired(w, o)
         \/ DeliverFenced(w, o) \/ DeliverInvalid(w, o)
  PROVE  OnceInv'
  <1>1. pc[w] = "deliver" /\ batch[w] \ {o} \in SUBSET batch[w]
    BY Zenon DEF DeliverSuperseded, DeliverSkip, DeliverExpired, DeliverFenced, DeliverInvalid,
       Delivering
  <1>2. submits' = submits
    BY Zenon DEF DeliverSuperseded, DeliverSkip, DeliverExpired, DeliverFenced, DeliverInvalid,
       histVars
  <1>3. \/ delivery' = delivery
        \/ \E d \in {"dead_letter", "paused"} : delivery' = [delivery EXCEPT ![o] = d]
    BY Zenon DEF DeliverSuperseded, DeliverSkip, DeliverExpired, DeliverFenced,
       DeliverInvalid, Block, rowVars
  <1>4. NotRequeued
    BY <1>3, Zenon DEF NotRequeued, TypeInv, TypeOK
  <1>5. Advance(w, batch[w] \ {o}) \/ \E kind \in Kinds : FailDelivery(w, o, kind)
    BY Zenon DEF DeliverSuperseded, DeliverSkip, DeliverExpired, DeliverFenced, DeliverInvalid
  <1>6. NoNewHolder
    BY <1>1, <1>5, HoldersAdvance, HoldersFail, Zenon
  <1> QED
    BY <1>2, <1>4, <1>6, QuietKeepsOnce, Zenon

\* A submission takes the row out of the only batch that holds it.
LEMMA OnceSubmits ==
  ASSUME TypeInv, OnceInv, NEW w \in Workers, NEW o \in Rows, Submits(w, o),
         NoNewHolder, ~Holds(w, o)'
  PROVE  OnceInv'
  <1>1. Holds(w, o)
    BY Zenon DEF Submits, Delivering, Holds
  <1>2. /\ submits' = [submits EXCEPT ![o] = @ + 1]
        /\ delivery' = delivery
    BY Zenon DEF Submits, rowVars
  <1>3. SUFFICES ASSUME NEW p \in Rows \ Terminal
                 PROVE  /\ submits'[p] <= 1
                        /\ delivery[p] \in {"absent", "ready"} =>
                              submits'[p] = 0 /\ \A v \in Workers : ~Holds(v, p)'
                        /\ \A v \in Workers : Holds(v, p)' =>
                              submits'[p] = 0 /\ \A u \in Workers : Holds(u, p)' => u = v
    BY <1>2, Zenon DEF OnceInv
  <1>4. CASE p = o
    <2>1. submits[o] = 0 /\ submits'[o] = 1
      BY <1>1, <1>2, <1>4 DEF OnceInv, TypeInv, TypeOK
    <2>2. \A v \in Workers : ~Holds(v, o)'
      BY <1>1, <1>4, Zenon DEF OnceInv, NoNewHolder
    <2>3. delivery[o] \notin {"absent", "ready"}
      BY <1>1, <1>4, Zenon DEF OnceInv
    <2> QED
      BY <1>4, <2>1, <2>2, <2>3
  <1>5. CASE p # o
    <2>1. submits'[p] = submits[p]
      BY <1>2, <1>5, Zenon DEF TypeInv, TypeOK
    <2> QED
      BY <2>1, Zenon DEF OnceInv, NoNewHolder
  <1> QED
    BY <1>4, <1>5, Zenon

\* A submission is the row's first and ends its being held.
LEMMA OnceSubmit ==
  ASSUME TypeInv, OnceInv, NEW w \in Workers, NEW o \in Rows,
         SubmitAnswered(w, o) \/ SubmitLost(w, o) \/ SubmitRefused(w, o)
  PROVE  OnceInv'
  <1>1. Submits(w, o)
    BY Zenon DEF SubmitAnswered, SubmitLost, SubmitRefused
  <1>2. pc[w] = "deliver"
    BY <1>1, Zenon DEF Submits, Delivering
  <1>3. (\E s : Receive(w, o, s)) \/ \E kind : FailDelivery(w, o, kind)
    BY Zenon DEF SubmitAnswered, SubmitLost, SubmitRefused
  <1>4. NoNewHolder /\ ~Holds(w, o)'
    BY <1>2, <1>3, HoldersReceive, HoldersFail, Zenon
  <1> QED
    BY <1>1, <1>4, OnceSubmits, Zenon

\* The commit of the delivery transaction, and the error handlers after it
LEMMA OnceCommit ==
  ASSUME TypeInv, OnceInv, NEW w \in Workers,
         \/ CommitDelivered(w) \/ CommitUnknown(w) \/ CommitRollsBack(w)
         \/ Mark(w) \/ MarkStale(w)
  PROVE  OnceInv'
  <1>1. pc[w] \in {"commit", "mark"} /\ cur[w] \in Rows
    BY Zenon DEF CommitDelivered, CommitUnknown, CommitRollsBack, Mark, MarkStale,
       TypeInv, InHand
  <1>2. submits' = submits
    BY Zenon DEF CommitDelivered, CommitUnknown, CommitRollsBack, Mark, MarkStale, histVars
  <1>3. \/ delivery' = delivery
        \/ \E d \in {"dead_letter", "paused", "delivered"} :
              delivery' = [delivery EXCEPT ![cur[w]] = d]
    BY Zenon DEF CommitDelivered, CommitUnknown, CommitRollsBack, Mark, MarkStale,
       MarkedDelivery, rowVars
  <1>4. NotRequeued
    BY <1>1, <1>3, ZenonT(30) DEF NotRequeued, TypeInv, TypeOK
  <1>5. Advance(w, batch[w]) \/ FailDelivery(w, cur[w], "ambiguous")
    BY Zenon DEF CommitDelivered, CommitUnknown, CommitRollsBack, Mark, MarkStale
  <1>6. NoNewHolder
    BY <1>1, <1>5, HoldersAdvance, HoldersFail, Zenon
  <1> QED
    BY <1>2, <1>4, <1>6, QuietKeepsOnce, Zenon

\* Operator retry, adjudication and recovery: only a safe retry would requeue.
LEMMA OnceOperator ==
  ASSUME TypeInv, OnceInv, ~AllowsSafeRetry, NEW o \in Rows,
         OperatorStep(o) \/ ActionStep(o)
  PROVE  OnceInv'
  <1>1. ~RetryReenqueue(o)
    BY Zenon DEF RetryReenqueue
  <1>2. submits' = submits /\ UNCHANGED <<pc, batch>>
    BY <1>1, Zenon DEF OperatorStep, ActionStep, RetryBlocked, RetryReconcile,
       ResolveWriteback, RecoveryLookup, RecoveryApply, ReclaimAction, ReattachAction,
       CompleteEffect, ResolveUnknown, SetAction, workVars, histVars
  <1>3. \/ delivery' = delivery
        \/ \E d \in {"paused", "delivered"} : delivery' = [delivery EXCEPT ![o] = d]
    BY <1>1, Zenon DEF OperatorStep, ActionStep, RetryBlocked, RetryReconcile,
       ResolveWriteback, RecoveryLookup, RecoveryApply, ReclaimAction, ReattachAction,
       CompleteEffect, ResolveUnknown, SetAction, rowVars
  <1>4. NotRequeued
    BY <1>3, Zenon DEF NotRequeued, TypeInv, TypeOK
  <1> QED
    BY <1>2, <1>4, HoldersIdle, QuietKeepsOnce, Zenon

\* Enqueueing, time, crashes and the source system
LEMMA OnceOther ==
  ASSUME TypeInv, OnceInv, NEW o \in Rows,
         \/ EnqueueEntity(o) \/ LeaseExpires(o) \/ WireDelivers(o) \/ ProviderProgress(o)
         \/ \E w \in Workers : ActivateAndSubmit(w, o)
  PROVE  OnceInv'
  <1>1. CASE EnqueueEntity(o) \/ LeaseExpires(o) \/ WireDelivers(o) \/ ProviderProgress(o)
    <2>1. submits' = submits /\ UNCHANGED <<pc, batch>>
      BY <1>1, Zenon DEF EnqueueEntity, LeaseExpires, WireDelivers, ProviderProgress,
         workVars, histVars
    <2>2. \/ delivery' = delivery
          \/ delivery[o] = "absent" /\ delivery' = [delivery EXCEPT ![o] = "ready"]
      BY <1>1, Zenon DEF EnqueueEntity, LeaseExpires, WireDelivers, ProviderProgress, rowVars
    <2>3. NotRequeued
      BY <2>2, Zenon DEF NotRequeued, TypeInv, TypeOK
    <2> QED
      BY <2>1, <2>3, HoldersIdle, QuietKeepsOnce, Zenon
  <1>2. ASSUME NEW w \in Workers, ActivateAndSubmit(w, o) PROVE OnceInv'
    <2>1. NoNewHolder
      BY <1>2, ZenonT(30) DEF ActivateAndSubmit, NoNewHolder, Holds, TypeInv, TypeOK
    <2>2. NotRequeued
      BY <1>2, ZenonT(30) DEF ActivateAndSubmit, NotRequeued, StoppedHeads, ActiveHeads, TypeInv, TypeOK
    <2> QED
      BY <1>2, <2>1, <2>2, QuietKeepsOnce, ZenonT(30) DEF ActivateAndSubmit, histVars
  <1> QED
    BY <1>1, <1>2, Zenon

\* No row exists, none is held, nothing was submitted.
LEMMA OnceInit == Init => OnceInv
  BY DEF Init, OnceInv, Holds

\* Without a safe retry every step keeps the invariant.
LEMMA OnceNext ==
  ASSUME ~AllowsSafeRetry, TypeInv, OnceInv, [Next]_vars
  PROVE  OnceInv'
  <1>1. ASSUME NEW w \in Workers, WorkerStep(w) PROVE OnceInv'
    BY <1>1, OnceReconcile, OnceClaimBatch, OnceDeliverQuiet, OnceSubmit, OnceCommit, Zenon
    DEF WorkerStep, DeliverStep
  <1>2. ASSUME NEW o \in Rows,
               \/ EnqueueEntity(o) \/ OperatorStep(o) \/ ActionStep(o)
               \/ LeaseExpires(o) \/ WireDelivers(o) \/ ProviderProgress(o)
        PROVE  OnceInv'
    BY <1>2, OnceOperator, OnceOther, Zenon
  <1>3. ASSUME NEW w \in Workers, Crash(w) PROVE OnceInv'
    <2>1. NoNewHolder
      BY <1>3, Zenon DEF Crash, NoNewHolder, Holds, TypeInv, TypeOK
    <2> QED
      BY <1>3, <2>1, QuietKeepsOnce, Zenon DEF Crash, NotRequeued, rowVars
  <1>4. CASE UNCHANGED vars
    BY <1>4, HoldersIdle, QuietKeepsOnce, Zenon DEF vars, rowVars, workVars, histVars, NotRequeued
  <1> QED
    BY <1>1, <1>2, <1>3, <1>4, OnceOther, Zenon DEF Next

\* An entity command is handed to adapter.submit at most once in its life when
\* the adapter does not declare a safe retry: no shared worker_id, crash, late
\* batch, expired lease, operator retry or recovery lookup leads to a second call.
THEOREM SubmitOnce == Spec => []AtMostOnceSubmit
  <1>1. CASE AllowsSafeRetry
    <2>1. AtMostOnceSubmit
      BY <1>1, Zenon DEF AllowsSafeRetry, AtMostOnceSubmit
    <2> QED
      BY <2>1, PTL
  <1>2. CASE ~AllowsSafeRetry
    <2>1. TypeInv /\ OnceInv /\ [Next]_vars => (TypeInv /\ OnceInv)'
      BY <1>2, TypeNext, OnceNext, Zenon
    <2>2. OnceInv => AtMostOnceSubmit
      BY Zenon DEF OnceInv, AtMostOnceSubmit
    <2> QED
      BY <2>1, <2>2, TypeInit, OnceInit, PTL DEF Spec
  <1> QED
    BY <1>1, <1>2, Zenon

-----------------------------------------------------------------------------
(* At most one effect, and no success that was not earned                   *)

\* With idempotency the recorded status guards the effect; without it every
\* effect, done or still on the wire, is paid for by a submission.
EffectInv ==
    \A o \in Rows :
       /\ SupportsIdempotency => effects[o] <= 1 /\ (pstatus[o] = None => effects[o] = 0)
       /\ ~SupportsIdempotency => effects[o] + wire[o] <= submits[o]

\* Nothing has been submitted or executed.
LEMMA EffectInit == Init => EffectInv
  BY DEF Init, EffectInv

\* Every step but a submission and the source system's own leaves these alone.
LEMMA EffectFrame ==
  ASSUME EffectInv, UNCHANGED <<provVars, submits>>
  PROVE  EffectInv'
  BY Zenon DEF EffectInv, provVars

\* One execution of the command, paid for by a submission or a wire message
LEMMA EffectExecute ==
  ASSUME TypeInv, EffectInv, NEW o \in Rows, NEW s \in Answers, ProviderExecute(o, s)
  PROVE  /\ \A p \in Rows \ {o} : pstatus'[p] = pstatus[p] /\ effects'[p] = effects[p]
         /\ pstatus'[o] # None
         /\ effects'[o] \in {effects[o], effects[o] + 1}
         /\ SupportsIdempotency => effects'[o] <= 1
  <1>1. CASE SupportsIdempotency /\ pstatus[o] # None
    BY <1>1, Zenon DEF ProviderExecute, EffectInv
  <1>2. CASE ~(SupportsIdempotency /\ pstatus[o] # None)
    <2>1. /\ pstatus' = [pstatus EXCEPT ![o] = s]
          /\ effects' = [effects EXCEPT ![o] = IF s = "failed" THEN @ ELSE @ + 1]
      BY <1>2, Zenon DEF ProviderExecute
    <2>2. s # None
      BY ConstantsOK, Zenon DEF ConstantsOK, None
    <2> QED
      BY <1>2, <2>1, <2>2, ProviderTypes DEF EffectInv
  <1> QED
    BY <1>1, <1>2, Zenon

\* A submission, answered or lost, pays for the effect or the message it makes.
LEMMA EffectSubmit ==
  ASSUME TypeInv, EffectInv, NEW w \in Workers, NEW o \in Rows,
         SubmitAnswered(w, o) \/ SubmitLost(w, o) \/ SubmitRefused(w, o)
  PROVE  EffectInv'
  <1>1. submits' = [submits EXCEPT ![o] = @ + 1]
    BY Zenon DEF SubmitAnswered, SubmitLost, SubmitRefused, Submits
  <1>2. CASE UNCHANGED provVars
    BY <1>1, <1>2, ProviderTypes DEF EffectInv, provVars
  <1>3. CASE \E s \in Answers : ProviderExecute(o, s) /\ UNCHANGED wire
    <2>1. /\ \A p \in Rows \ {o} : pstatus'[p] = pstatus[p] /\ effects'[p] = effects[p]
          /\ pstatus'[o] # None /\ effects'[o] \in {effects[o], effects[o] + 1}
          /\ SupportsIdempotency => effects'[o] <= 1
      BY <1>3, EffectExecute, Zenon
    <2> QED
      BY <1>1, <1>3, <2>1, ProviderTypes DEF EffectInv
  <1>4. CASE wire' = [wire EXCEPT ![o] = @ + 1] /\ UNCHANGED <<pstatus, effects>>
    BY <1>1, <1>4, ProviderTypes DEF EffectInv
  <1> QED
    BY <1>2, <1>3, <1>4, Zenon DEF SubmitAnswered, SubmitLost, SubmitRefused

\* A late request turns a wire message into at most one effect.
LEMMA EffectWire ==
  ASSUME TypeInv, EffectInv, NEW o \in Rows, WireDelivers(o)
  PROVE  EffectInv'
  <1>1. wire[o] > 0 /\ wire' = [wire EXCEPT ![o] = @ - 1] /\ submits' = submits
    BY Zenon DEF WireDelivers, histVars
  <1>2. CASE \E s \in Answers : ProviderExecute(o, s)
    <2>1. /\ \A p \in Rows \ {o} : pstatus'[p] = pstatus[p] /\ effects'[p] = effects[p]
          /\ pstatus'[o] # None /\ effects'[o] \in {effects[o], effects[o] + 1}
          /\ SupportsIdempotency => effects'[o] <= 1
      BY <1>2, EffectExecute, Zenon
    <2> QED
      BY <1>1, <2>1, ProviderTypes DEF EffectInv
  <1>3. CASE UNCHANGED <<pstatus, effects>>
    BY <1>1, <1>3, ProviderTypes DEF EffectInv
  <1> QED
    BY <1>2, <1>3, Zenon DEF WireDelivers

\* Asynchronous completion executes nothing again.
LEMMA EffectProgress ==
  ASSUME TypeInv, EffectInv, NEW o \in Rows, ProviderProgress(o)
  PROVE  EffectInv'
  BY ConstantsOK DEF ProviderProgress, EffectInv, TypeInv, TypeOK, histVars, ConstantsOK, None

\* The steps that do not reach the source system
LEMMA ProviderFrame ==
  ASSUME [Next]_vars
  PROVE  \/ UNCHANGED <<provVars, submits>>
         \/ \E w \in Workers, o \in Rows :
               SubmitAnswered(w, o) \/ SubmitLost(w, o) \/ SubmitRefused(w, o)
         \/ \E o \in Rows : WireDelivers(o) \/ ProviderProgress(o)
  <1>1. ASSUME NEW w \in Workers, ReconcileStep(w) PROVE UNCHANGED <<provVars, submits>>
    BY <1>1, Zenon DEF ReconcileStep, ClaimPaused, LookupPaused, ApplyStale,
       ApplyInconclusive, ApplyRejected, ApplyNeverAccepted, ApplyFound, ApplyIllegal,
       AfterApply, histVars
  <1>2. ASSUME NEW w \in Workers, ClaimBatch(w) \/ Crash(w)
        PROVE  UNCHANGED <<provVars, submits>>
    BY <1>2, Zenon DEF ClaimBatch, Crash, histVars
  <1>3. ASSUME NEW w \in Workers, NEW o \in Rows,
               \/ DeliverSuperseded(w, o) \/ DeliverSkip(w, o) \/ DeliverExpired(w, o)
               \/ DeliverFenced(w, o) \/ DeliverInvalid(w, o) \/ ActivateAndSubmit(w, o)
        PROVE  UNCHANGED <<provVars, submits>>
    BY <1>3, Zenon DEF DeliverSuperseded, DeliverSkip, DeliverExpired, DeliverFenced,
       DeliverInvalid, ActivateAndSubmit, histVars
  <1>4. ASSUME NEW w \in Workers,
               \/ CommitDelivered(w) \/ CommitUnknown(w) \/ CommitRollsBack(w)
               \/ Mark(w) \/ MarkStale(w)
        PROVE  UNCHANGED <<provVars, submits>>
    BY <1>4, Zenon DEF CommitDelivered, CommitUnknown, CommitRollsBack, Mark, MarkStale,
       histVars
  <1>5. ASSUME NEW o \in Rows, OperatorStep(o) \/ ActionStep(o)
        PROVE  UNCHANGED <<provVars, submits>>
    BY <1>5, Zenon DEF OperatorStep, ActionStep, RetryBlocked, RetryReconcile,
       RetryReenqueue, ResolveWriteback, RecoveryLookup, RecoveryApply, ReclaimAction,
       ReattachAction, CompleteEffect, ResolveUnknown, SetAction, histVars
  <1>6. ASSUME NEW o \in Rows, EnqueueEntity(o) \/ LeaseExpires(o)
        PROVE  UNCHANGED <<provVars, submits>>
    BY <1>6, Zenon DEF EnqueueEntity, LeaseExpires, histVars
  <1>7. CASE UNCHANGED vars
    BY <1>7, Zenon DEF vars, histVars
  <1> QED
    BY <1>1, <1>2, <1>3, <1>4, <1>5, <1>6, <1>7, ZenonT(30) DEF Next, WorkerStep, DeliverStep

\* Every step keeps the account of effects.
LEMMA EffectNext ==
  ASSUME TypeInv, EffectInv, [Next]_vars
  PROVE  EffectInv'
  BY ProviderFrame, EffectFrame, EffectSubmit, EffectWire, EffectProgress, Zenon

\* A command is executed at most once at the source system, through crashes
\* between the call and its commit, requests that arrive late, lookups, retries
\* and shared worker ids: for every command when the adapter is idempotent, and,
\* when every command is an entity command, whatever the adapter declares.
THEOREM EffectOnce == SupportsIdempotency \/ Terminal = {} => (Spec => []AtMostOnceEffect)
  <1>1. CASE SupportsIdempotency
    <2>1. EffectInv => AtMostOnceEffect
      BY <1>1, Zenon DEF EffectInv, AtMostOnceEffect
    <2>2. TypeInv /\ EffectInv /\ [Next]_vars => (TypeInv /\ EffectInv)'
      BY TypeNext, EffectNext, Zenon
    <2> QED
      BY <2>1, <2>2, TypeInit, EffectInit, PTL DEF Spec
  <1>2. CASE ~SupportsIdempotency /\ Terminal = {}
    <2>1. TypeInv /\ OnceInv /\ EffectInv => AtMostOnceEffect
      BY <1>2, ProviderTypes DEF OnceInv, EffectInv, AtMostOnceEffect
    <2>2. ~AllowsSafeRetry
      BY <1>2, Zenon DEF AllowsSafeRetry
    <2>3. TypeInv /\ OnceInv /\ EffectInv /\ [Next]_vars => (TypeInv /\ OnceInv /\ EffectInv)'
      BY <2>2, TypeNext, OnceNext, EffectNext, Zenon
    <2> QED
      BY <2>1, <2>3, TypeInit, OnceInit, EffectInit, PTL DEF Spec
  <1> QED
    BY <1>1, <1>2, Zenon

-----------------------------------------------------------------------------
(* Success statuses                                                        *)

\* A success in flight (recorded by the source system, held by a process or by
\* a recovery lookup, or stored on the row) has an effect or a human behind it.
Earned(o) == effects[o] > 0 \/ manual[o]

RealInv ==
    /\ \A o \in Rows : pstatus[o] \in TerminalSuccess => effects[o] > 0
    /\ \A o \in Rows : latest[o] \in TerminalSuccess => Earned(o)
    /\ \A o \in Rows : recovery[o] \in TerminalSuccess => Earned(o)
    /\ \A w \in Workers : pc[w] \in {"apply", "commit"} /\ res[w] \in TerminalSuccess =>
          effects[cur[w]] > 0

\* No step takes back an effect or an adjudication.
LEMMA EffectsGrow ==
  ASSUME TypeInv, EffectInv, [Next]_vars
  PROVE  \A o \in Rows : effects'[o] >= effects[o]
  <1>1. ASSUME NEW o \in Rows, NEW s \in Answers, ProviderExecute(o, s)
        PROVE  \A p \in Rows : effects'[p] >= effects[p]
    <2>1. /\ \A p \in Rows \ {o} : effects'[p] = effects[p]
          /\ effects'[o] \in {effects[o], effects[o] + 1}
      BY <1>1, EffectExecute, Zenon
    <2> QED
      BY <2>1, ProviderTypes
  <1>2. CASE UNCHANGED effects
    BY <1>2, ProviderTypes
  <1>3. UNCHANGED effects \/ \E o \in Rows, s \in Answers : ProviderExecute(o, s)
    BY ProviderFrame, Zenon DEF SubmitAnswered, SubmitLost, SubmitRefused, WireDelivers,
       ProviderProgress, provVars
  <1> QED
    BY <1>1, <1>2, <1>3, Zenon

\* Only an adjudication is recorded as one.
LEMMA ManualFrame ==
  ASSUME [Next]_vars
  PROVE  \/ manual' = manual
         \/ \E o \in Rows, target \in {"confirmed", "failed"} : ResolveWriteback(o, target)
  <1>1. ASSUME NEW w \in Workers, ReconcileStep(w) PROVE manual' = manual
    BY <1>1, Zenon DEF ReconcileStep, ClaimPaused, LookupPaused, ApplyStale,
       ApplyInconclusive, ApplyRejected, ApplyNeverAccepted, ApplyFound, ApplyIllegal,
       AfterApply, histVars
  <1>2. ASSUME NEW w \in Workers, ClaimBatch(w) \/ Crash(w) PROVE manual' = manual
    BY <1>2, Zenon DEF ClaimBatch, Crash, histVars
  <1>3. ASSUME NEW w \in Workers, NEW o \in Rows, ActivateAndSubmit(w, o)
        PROVE  manual' = manual
    BY <1>3, Zenon DEF ActivateAndSubmit, histVars
  <1>4. ASSUME NEW w \in Workers, DeliverStep(w) PROVE manual' = manual
    BY <1>4, ZenonT(30) DEF DeliverStep, DeliverSuperseded, DeliverSkip, DeliverExpired,
       DeliverFenced, DeliverInvalid, SubmitAnswered, SubmitLost, SubmitRefused, Submits,
       CommitDelivered, CommitUnknown, CommitRollsBack, Mark, MarkStale, histVars
  <1>5. ASSUME NEW o \in Rows, OperatorStep(o) \/ ActionStep(o)
        PROVE  \/ manual' = manual
               \/ \E target \in {"confirmed", "failed"} : ResolveWriteback(o, target)
    BY <1>5, Zenon DEF OperatorStep, ActionStep, RetryBlocked, RetryReconcile,
       RetryReenqueue, RecoveryLookup, RecoveryApply, ReclaimAction,
       ReattachAction, CompleteEffect, ResolveUnknown, SetAction, histVars
  <1>6. ASSUME NEW o \in Rows, EnqueueEntity(o) \/ LeaseExpires(o) \/ WireDelivers(o)
                               \/ ProviderProgress(o)
        PROVE  manual' = manual
    BY <1>6, Zenon DEF EnqueueEntity, LeaseExpires, WireDelivers, ProviderProgress, histVars
  <1>7. CASE UNCHANGED vars
    BY <1>7, Zenon DEF vars, histVars
  <1> QED
    BY <1>1, <1>2, <1>3, <1>4, <1>5, <1>6, <1>7, ZenonT(30) DEF Next, WorkerStep

\* No step forgets that a human adjudicated a row.
LEMMA ManualGrows ==
  ASSUME TypeInv, [Next]_vars
  PROVE  \A o \in Rows : manual[o] => manual'[o]
  <1>1. ASSUME NEW o \in Rows, NEW target, ResolveWriteback(o, target)
        PROVE  \A p \in Rows : manual[p] => manual'[p]
    BY <1>1, Zenon DEF ResolveWriteback, TypeInv, TypeOK
  <1> QED
    BY <1>1, ManualFrame, Zenon

\* No step takes back what a success status rests on.
LEMMA EarnedGrows ==
  ASSUME TypeInv, EffectInv, [Next]_vars
  PROVE  \A o \in Rows : /\ effects[o] > 0 => effects'[o] > 0
                         /\ Earned(o) => Earned(o)'
  <1>1. effects \in [Rows -> Nat] /\ effects' \in [Rows -> Nat]
    BY TypeNext, ZenonT(30) DEF TypeInv, TypeOK
  <1>2. \A o \in Rows : effects[o] > 0 => effects'[o] > 0
    BY <1>1, EffectsGrow
  <1> QED
    BY <1>2, ManualGrows, Zenon DEF Earned

\* What a lookup of the row reports as success was executed.
LEMMA LookupIsReal ==
  ASSUME RealInv, NEW o \in Rows, NEW r \in LookupOutcomes(o), r \in TerminalSuccess
  PROVE  effects[o] > 0
  BY Zenon DEF RealInv, LookupOutcomes, TerminalSuccess

\* No status anywhere is a success.
LEMMA RealInit == Init => RealInv
  BY Zenon DEF Init, RealInv, TerminalSuccess, None

\* What the source system has just executed
LEMMA ExecuteIsReal ==
  ASSUME TypeInv, RealInv, NEW o \in Rows, NEW s \in Answers, ProviderExecute(o, s)
  PROVE  /\ pstatus'[o] = s
         /\ s \in TerminalSuccess => effects'[o] > 0
         /\ \A p \in Rows \ {o} : pstatus'[p] = pstatus[p]
  <1>1. CASE SupportsIdempotency /\ pstatus[o] # None
    BY <1>1, ZenonT(30) DEF ProviderExecute, RealInv
  <1>2. CASE ~(SupportsIdempotency /\ pstatus[o] # None)
    <2>1. /\ pstatus' = [pstatus EXCEPT ![o] = s]
          /\ effects' = [effects EXCEPT ![o] = IF s = "failed" THEN @ ELSE @ + 1]
      BY <1>2, Zenon DEF ProviderExecute
    <2> QED
      BY <2>1 DEF TerminalSuccess, TypeInv, TypeOK
  <1> QED
    BY <1>1, <1>2, Zenon

\* A success the source system records after a step has an effect behind it.
LEMMA RealProvider ==
  ASSUME TypeInv, EffectInv, RealInv, [Next]_vars
  PROVE  \A o \in Rows : pstatus'[o] \in TerminalSuccess => effects'[o] > 0
  <1>1. \A o \in Rows : effects[o] > 0 => effects'[o] > 0
    BY EarnedGrows, Zenon
  <1>2. CASE UNCHANGED pstatus
    BY <1>1, <1>2, ZenonT(30) DEF RealInv
  <1>3. ASSUME NEW o \in Rows, NEW s \in Answers, ProviderExecute(o, s)
        PROVE  \A p \in Rows : pstatus'[p] \in TerminalSuccess => effects'[p] > 0
    BY <1>1, <1>3, ExecuteIsReal DEF RealInv
  <1>4. ASSUME NEW o \in Rows, ProviderProgress(o)
        PROVE  \A p \in Rows : pstatus'[p] \in TerminalSuccess => effects'[p] > 0
    <2>1. effects'[o] > 0
      BY <1>1, <1>4, Zenon DEF ProviderProgress, RealInv, TerminalSuccess
    <2>2. \A p \in Rows \ {o} : pstatus'[p] = pstatus[p]
      BY <1>4, ZenonT(30) DEF ProviderProgress, TypeInv, TypeOK
    <2> QED
      BY <1>1, <2>1, <2>2, Zenon DEF RealInv
  <1>5. \/ UNCHANGED pstatus
        \/ \E o \in Rows, s \in Answers : ProviderExecute(o, s)
        \/ \E o \in Rows : ProviderProgress(o)
    BY ProviderFrame, Zenon DEF SubmitAnswered, SubmitLost, SubmitRefused, WireDelivers,
       provVars
  <1> QED
    BY <1>2, <1>3, <1>4, <1>5, Zenon

\* A step that writes latest_writeback_status writes no success, or one a
\* process or a lookup brought from the source system, or a human's.
StatusWrite ==
    \/ latest' = latest
    \/ \E o \in Rows, s \in WritebackStatus :
          /\ latest' = [latest EXCEPT ![o] = s]
          /\ s \in TerminalSuccess => Earned(o) \/ manual'[o]
    \/ \E S \in SUBSET Rows :
          latest' = [o \in Rows |-> IF o \in S THEN "unknown" ELSE latest[o]]

\* The paused reconcile writes only statuses its lookup returned, or no success.
LEMMA StatusReconcile ==
  ASSUME TypeInv, RealInv, NEW w \in Workers, ReconcileStep(w)
  PROVE  StatusWrite
  <1>1. CASE \/ ClaimPaused(w) \/ (\E o \in Rows : LookupPaused(w, o)) \/ ApplyStale(w)
             \/ ApplyIllegal(w)
    BY <1>1, Zenon DEF ClaimPaused, LookupPaused, ApplyStale, ApplyIllegal, rowVars,
       StatusWrite
  <1>2. CASE ApplyInconclusive(w) \/ ApplyRejected(w) \/ ApplyNeverAccepted(w)
    <2>1. cur[w] \in Rows
      BY <1>2, Zenon DEF ApplyInconclusive, ApplyRejected, ApplyNeverAccepted, TypeInv,
         InHand
    <2>2. \E s \in {"unknown", "failed", "pending"} :
             latest' = [latest EXCEPT ![cur[w]] = s]
      BY <1>2, Zenon DEF ApplyInconclusive, ApplyRejected, ApplyNeverAccepted
    <2> QED
      BY <2>1, <2>2, Zenon DEF StatusWrite, WritebackStatus, TerminalSuccess
  <1>3. CASE ApplyFound(w)
    <2>1. /\ cur[w] \in Rows /\ pc[w] = "apply" /\ res[w] \in WritebackStatus
          /\ latest' = [latest EXCEPT ![cur[w]] = res[w]]
      BY <1>3, WorkerTypes, Zenon DEF ApplyFound
    <2> QED
      BY <2>1, Zenon DEF StatusWrite, RealInv, Earned
  <1> QED
    BY <1>1, <1>2, <1>3, Zenon DEF ReconcileStep

\* A delivery writes only statuses its process was answered, or no success.
LEMMA StatusDeliver ==
  ASSUME TypeInv, RealInv, NEW w \in Workers, DeliverStep(w)
  PROVE  StatusWrite
  <1>1. CASE \/ \E o \in Rows :
                   \/ DeliverSuperseded(w, o) \/ DeliverSkip(w, o) \/ DeliverFenced(w, o)
                   \/ DeliverInvalid(w, o) \/ SubmitAnswered(w, o) \/ SubmitLost(w, o)
                   \/ SubmitRefused(w, o)
             \/ CommitRollsBack(w) \/ MarkStale(w)
    BY <1>1, ZenonT(30) DEF DeliverSuperseded, DeliverSkip, DeliverFenced, DeliverInvalid,
       SubmitAnswered, SubmitLost, SubmitRefused, Submits, CommitRollsBack, MarkStale,
       rowVars, StatusWrite
  <1>2. ASSUME NEW o \in Rows, DeliverExpired(w, o) PROVE StatusWrite
    BY <1>2, Zenon DEF DeliverExpired, StatusWrite, WritebackStatus, TerminalSuccess
  <1>3. CASE CommitUnknown(w)
    <2>1. cur[w] \in Rows /\ latest' = [latest EXCEPT ![cur[w]] = "unknown"]
      BY <1>3, Zenon DEF CommitUnknown, TypeInv, InHand
    <2> QED
      BY <2>1, Zenon DEF StatusWrite, WritebackStatus, TerminalSuccess
  <1>4. CASE CommitDelivered(w)
    <2>1. /\ cur[w] \in Rows /\ pc[w] = "commit" /\ res[w] \in Answers \cup {"unknown"}
          /\ latest' = [latest EXCEPT ![cur[w]] = res[w]]
      BY <1>4, Zenon DEF CommitDelivered, TypeInv, InHand
    <2>2. res[w] \in WritebackStatus
      BY <2>1, ConstantsOK, Zenon DEF ConstantsOK, WritebackStatus
    <2> QED
      BY <2>1, <2>2, Zenon DEF StatusWrite, RealInv, Earned
  <1>5. CASE Mark(w)
    <2>1. cur[w] \in Rows
      BY <1>5, Zenon DEF Mark, TypeInv, InHand
    <2>2. \/ latest' = latest
          \/ latest' = [latest EXCEPT ![cur[w]] = MarkedStatus(res[w])]
      BY <1>5, Zenon DEF Mark
    <2>3. MarkedStatus(res[w]) \in WritebackStatus \ TerminalSuccess
      BY Zenon DEF MarkedStatus, WritebackStatus, TerminalSuccess
    <2> QED
      BY <2>1, <2>2, <2>3, Zenon DEF StatusWrite
  <1> QED
    BY <1>1, <1>2, <1>3, <1>4, <1>5, ZenonT(30) DEF DeliverStep

\* The other entry points write only looked-up or adjudicated successes.
LEMMA StatusOther ==
  ASSUME TypeInv, RealInv, NEW o \in Rows, OperatorStep(o) \/ ActionStep(o)
  PROVE  StatusWrite
  <1>1. CASE RetryBlocked(o) \/ RecoveryLookup(o) \/ ActionStep(o)
    BY <1>1, Zenon DEF RetryBlocked, RecoveryLookup, ActionStep, ReclaimAction,
       ReattachAction, CompleteEffect, ResolveUnknown, SetAction, rowVars, StatusWrite
  <1>2. CASE RetryReconcile(o)
    <2>1. PICK s \in RetryLookups(o) \cap TerminalSuccess :
             latest' = [latest EXCEPT ![o] = s]
      BY <1>2, Zenon DEF RetryReconcile
    <2>2. s \in LookupOutcomes(o)
      BY Zenon DEF RetryLookups
    <2> QED
      BY <2>1, <2>2, LookupIsReal, Zenon DEF StatusWrite, Earned, TerminalSuccess, WritebackStatus
  <1>3. CASE RetryReenqueue(o)
    BY <1>3, Zenon DEF RetryReenqueue, StatusWrite, WritebackStatus, TerminalSuccess
  <1>4. ASSUME NEW target \in {"confirmed", "failed"}, ResolveWriteback(o, target)
        PROVE  StatusWrite
    BY <1>4, ZenonT(30) DEF ResolveWriteback, StatusWrite, WritebackStatus, TypeInv, TypeOK
  <1>5. CASE RecoveryApply(o)
    <2>1. latest' = latest \/ latest' = [latest EXCEPT ![o] = recovery[o]]
      BY <1>5, Zenon DEF RecoveryApply
    <2>2. recovery[o] \in WritebackStatus
      BY <1>5, ZenonT(30) DEF RecoveryApply, TypeInv, TypeOK
    <2> QED
      BY <2>1, <2>2, Zenon DEF StatusWrite, RealInv, Earned
  <1> QED
    BY <1>1, <1>2, <1>3, <1>4, <1>5, Zenon DEF OperatorStep

\* Every step accounts for the success statuses it writes on rows.
LEMMA StatusNext ==
  ASSUME TypeInv, RealInv, [Next]_vars
  PROVE  StatusWrite
  <1>1. ASSUME NEW w \in Workers, ClaimBatch(w) PROVE StatusWrite
    <2>1. latest' = [o \in Rows |-> IF o \in ExpiredRows \ DueRows THEN "unknown"
                                    ELSE latest[o]]
      BY <1>1, Zenon DEF ClaimBatch
    <2>2. ExpiredRows \ DueRows \in SUBSET Rows
      BY Zenon DEF ExpiredRows
    <2> QED
      BY <2>1, <2>2, Zenon DEF StatusWrite
  <1>2. ASSUME NEW w \in Workers, NEW o \in Rows, ActivateAndSubmit(w, o)
        PROVE  StatusWrite
    BY <1>2, Zenon DEF ActivateAndSubmit, StatusWrite
  <1>3. ASSUME NEW o \in Rows, EnqueueEntity(o) \/ LeaseExpires(o) \/ WireDelivers(o)
                               \/ ProviderProgress(o)
        PROVE  StatusWrite
    BY <1>3, Zenon DEF EnqueueEntity, LeaseExpires, WireDelivers, ProviderProgress,
       rowVars, StatusWrite
  <1>4. ASSUME NEW w \in Workers, Crash(w) PROVE StatusWrite
    BY <1>4, Zenon DEF Crash, rowVars, StatusWrite
  <1>5. CASE UNCHANGED vars
    BY <1>5, Zenon DEF vars, rowVars, StatusWrite
  <1> QED
    BY <1>1, <1>2, <1>3, <1>4, <1>5, StatusReconcile, StatusDeliver, StatusOther, ZenonT(30)
    DEF Next, WorkerStep

\* A success on a row after a step is earned.
LEMMA RealStatus ==
  ASSUME TypeInv, EffectInv, RealInv, [Next]_vars
  PROVE  \A o \in Rows : latest'[o] \in TerminalSuccess => Earned(o)'
  <1>1. \A o \in Rows : Earned(o) => Earned(o)'
    BY EarnedGrows, Zenon
  <1>2. \A o \in Rows : manual'[o] => Earned(o)'
    BY Zenon DEF Earned
  <1>3. CASE latest' = latest
    BY <1>1, <1>3, Zenon DEF RealInv
  <1>4. ASSUME NEW o \in Rows, NEW s \in WritebackStatus,
               latest' = [latest EXCEPT ![o] = s],
               s \in TerminalSuccess => Earned(o) \/ manual'[o]
        PROVE  \A p \in Rows : latest'[p] \in TerminalSuccess => Earned(p)'
    BY <1>1, <1>2, <1>4, StatusTypes, Zenon DEF RealInv
  <1>5. ASSUME NEW S \in SUBSET Rows,
               latest' = [o \in Rows |-> IF o \in S THEN "unknown" ELSE latest[o]]
        PROVE  \A p \in Rows : latest'[p] \in TerminalSuccess => Earned(p)'
    BY <1>1, <1>5, Zenon DEF RealInv, TerminalSuccess
  <1> QED
    BY <1>3, <1>4, <1>5, StatusNext, Zenon DEF StatusWrite

\* recovery is written by the two recovery steps only.
LEMMA RecoveryFrame ==
  ASSUME [Next]_vars
  PROVE  recovery' = recovery \/ \E o \in Rows : RecoveryLookup(o) \/ RecoveryApply(o)
  <1>1. ASSUME NEW w \in Workers, ReconcileStep(w) \/ ClaimBatch(w) \/ Crash(w)
        PROVE  recovery' = recovery
    BY <1>1, ZenonT(30) DEF ReconcileStep, ClaimPaused, LookupPaused, ApplyStale,
       ApplyInconclusive, ApplyRejected, ApplyNeverAccepted, ApplyFound, ApplyIllegal,
       AfterApply, ClaimBatch, Crash
  <1>2. ASSUME NEW w \in Workers, DeliverStep(w) PROVE recovery' = recovery
    BY <1>2, ZenonT(30) DEF DeliverStep, DeliverSuperseded, DeliverSkip, DeliverExpired,
       DeliverFenced, DeliverInvalid, SubmitAnswered, SubmitLost, SubmitRefused, Submits,
       CommitDelivered, CommitUnknown, CommitRollsBack, Mark, MarkStale
  <1>3. ASSUME NEW o \in Rows, OperatorStep(o) \/ ActionStep(o)
        PROVE  recovery' = recovery \/ RecoveryLookup(o) \/ RecoveryApply(o)
    BY <1>3, Zenon DEF OperatorStep, ActionStep, RetryBlocked, RetryReconcile,
       RetryReenqueue, ResolveWriteback, ReclaimAction, ReattachAction, CompleteEffect, ResolveUnknown,
       SetAction
  <1>4. ASSUME NEW o \in Rows, EnqueueEntity(o) \/ LeaseExpires(o) \/ WireDelivers(o)
                               \/ ProviderProgress(o)
        PROVE  recovery' = recovery
    BY <1>4, Zenon DEF EnqueueEntity, LeaseExpires, WireDelivers, ProviderProgress
  <1>5. ASSUME NEW w \in Workers, NEW o \in Rows, ActivateAndSubmit(w, o)
        PROVE  recovery' = recovery
    BY <1>5, Zenon DEF ActivateAndSubmit
  <1>6. CASE UNCHANGED vars
    BY <1>6, Zenon DEF vars
  <1> QED
    BY <1>1, <1>2, <1>3, <1>4, <1>5, <1>6, ZenonT(30) DEF Next, WorkerStep

\* A success a recovery lookup holds after a step is earned.
LEMMA RealRecovery ==
  ASSUME TypeInv, EffectInv, RealInv, [Next]_vars
  PROVE  \A o \in Rows : recovery'[o] \in TerminalSuccess => Earned(o)'
  <1>1. \A o \in Rows : Earned(o) => Earned(o)'
    BY EarnedGrows, Zenon
  <1>2. ASSUME NEW o \in Rows, RecoveryLookup(o)
        PROVE  \A p \in Rows : recovery'[p] \in TerminalSuccess => Earned(p)'
    <2>0. RecoveryAnswers(o) \subseteq LookupOutcomes(o) \cup {latest[o]}
      BY Zenon DEF RecoveryAnswers
    <2>1. PICK s \in LookupOutcomes(o) \cup {latest[o]} :
             recovery' = [recovery EXCEPT ![o] = s]
      BY <1>2, <2>0, Zenon DEF RecoveryLookup
    <2>2. s \in TerminalSuccess => Earned(o)
      BY <2>1, LookupIsReal, ZenonT(30) DEF RealInv, Earned
    <2> QED
      BY <1>1, <2>1, <2>2, ZenonT(30) DEF RealInv, TypeInv, TypeOK
  <1>3. ASSUME NEW o \in Rows, RecoveryApply(o)
        PROVE  \A p \in Rows : recovery'[p] \in TerminalSuccess => Earned(p)'
    <2>1. recovery' = [recovery EXCEPT ![o] = None]
      BY <1>3, Zenon DEF RecoveryApply
    <2> QED
      BY <1>1, <2>1 DEF RealInv, TypeInv, TypeOK, TerminalSuccess, None
  <1>4. CASE recovery' = recovery
    BY <1>1, <1>4, ZenonT(30) DEF RealInv
  <1> QED
    BY <1>2, <1>3, <1>4, RecoveryFrame, ZenonT(30)

\* A result a process holds is the one it held, or it has just been executed.
RegisterWrite ==
    \A v \in Workers : pc'[v] \in {"apply", "commit"} /\ res'[v] \in TerminalSuccess =>
       \/ pc[v] \in {"apply", "commit"} /\ res'[v] = res[v] /\ cur'[v] = cur[v]
       \/ cur'[v] \in Rows /\ effects'[cur'[v]] > 0

\* Going on to the next row takes up no answer.
LEMMA RegisterAdvance ==
  ASSUME TypeInv, NEW w \in Workers, NEW rest, Advance(w, rest)
  PROVE  RegisterWrite
  BY Zenon DEF Advance, TypeInv, TypeOK, RegisterWrite

\* Leaving a delivery with an error takes up no success.
LEMMA RegisterFail ==
  ASSUME TypeInv, NEW w \in Workers, NEW o, NEW kind, FailDelivery(w, o, kind)
  PROVE  RegisterWrite
  <1>1. CASE Advance(w, batch[w] \ {o})
    BY <1>1, RegisterAdvance, Zenon
  <1>2. CASE /\ pc' = [pc EXCEPT ![w] = "mark"]
             /\ cur' = [cur EXCEPT ![w] = o]
             /\ res' = [res EXCEPT ![w] = kind]
    BY <1>2, WorkerTypes, Zenon DEF RegisterWrite
  <1> QED
    BY <1>1, <1>2, Zenon DEF FailDelivery

\* Only the process that submitted takes up the answer.
LEMMA RegisterReceive ==
  ASSUME TypeInv, NEW w \in Workers, NEW o \in Rows, NEW s, Receive(w, o, s),
         s \in TerminalSuccess => effects'[o] > 0
  PROVE  RegisterWrite
  BY ZenonT(30) DEF Receive, TypeInv, TypeOK, RegisterWrite

\* Finishing the application of a lookup takes up no answer.
LEMMA RegisterApply ==
  ASSUME TypeInv, NEW w \in Workers, AfterApply(w)
  PROVE  RegisterWrite
  BY Zenon DEF AfterApply, TypeInv, TypeOK, RegisterWrite

\* A step that leaves the processes alone takes up no answer.
LEMMA RegisterIdle ==
  ASSUME UNCHANGED <<pc, cur, res>>
  PROVE  RegisterWrite
  BY Zenon DEF RegisterWrite

\* Every step accounts for the answers processes hold.
LEMMA RegisterNext ==
  ASSUME TypeInv, EffectInv, RealInv, [Next]_vars
  PROVE  RegisterWrite
  <1>1. ASSUME NEW w \in Workers, ReconcileStep(w) PROVE RegisterWrite
    <2>1. CASE ClaimPaused(w)
      <3>1. /\ UNCHANGED <<cur, res>>
            /\ \E x \in {"claim", "lookup"} : pc' = [pc EXCEPT ![w] = x]
        BY <2>1, Zenon DEF ClaimPaused
      <3> QED
        BY <3>1, WorkerTypes, Zenon DEF RegisterWrite
    <2>2. ASSUME NEW o \in Rows, LookupPaused(w, o) PROVE RegisterWrite
      <3>1. PICK r \in LookupOutcomes(o) : res' = [res EXCEPT ![w] = r]
        BY <2>2, Zenon DEF LookupPaused
      <3>2. r \in TerminalSuccess => effects'[o] > 0
        BY <2>2, LookupIsReal, Zenon DEF LookupPaused, provVars
      <3>3. pc' = [pc EXCEPT ![w] = "apply"] /\ cur' = [cur EXCEPT ![w] = o]
        BY <2>2, Zenon DEF LookupPaused
      <3> QED
        BY <3>1, <3>2, <3>3, WorkerTypes, Zenon DEF RegisterWrite
    <2>3. CASE AfterApply(w)
      BY <2>3, RegisterApply, Zenon
    <2> QED
      BY <1>1, <2>1, <2>2, <2>3, ZenonT(30) DEF ReconcileStep, ApplyStale, ApplyInconclusive,
         ApplyRejected, ApplyNeverAccepted, ApplyFound, ApplyIllegal
  <1>2. ASSUME NEW w \in Workers, ClaimBatch(w) PROVE RegisterWrite
    <2>1. /\ pc' = [pc EXCEPT ![w] = IF DueRows = {} THEN "idle" ELSE "deliver"]
          /\ UNCHANGED <<cur, res>>
      BY <1>2, Zenon DEF ClaimBatch
    <2> QED
      BY <2>1, WorkerTypes, Zenon DEF RegisterWrite
  <1>3. ASSUME NEW w \in Workers, DeliverStep(w) PROVE RegisterWrite
    <2>1. ASSUME NEW o \in Rows, SubmitAnswered(w, o) PROVE RegisterWrite
      <3>1. PICK s \in Answers : ProviderExecute(o, s) /\ Receive(w, o, s)
        BY <2>1, Zenon DEF SubmitAnswered
      <3> QED
        BY <3>1, ExecuteIsReal, RegisterReceive, Zenon
    <2>2. ASSUME NEW o \in Rows, Receive(w, o, "unknown") PROVE RegisterWrite
      BY <2>2, RegisterReceive, Zenon DEF TerminalSuccess
    <2>3. ASSUME NEW o, NEW kind, FailDelivery(w, o, kind) PROVE RegisterWrite
      BY <2>3, RegisterFail, Zenon
    <2>4. ASSUME NEW rest, Advance(w, rest) PROVE RegisterWrite
      BY <2>4, RegisterAdvance, Zenon
    <2> QED
      BY <1>3, <2>1, <2>2, <2>3, <2>4, ZenonT(30) DEF DeliverStep, DeliverSuperseded,
         DeliverSkip, DeliverExpired, DeliverFenced, DeliverInvalid, SubmitLost,
         SubmitRefused, CommitDelivered, CommitUnknown, CommitRollsBack, Mark, MarkStale
  <1>4. ASSUME NEW w \in Workers, Crash(w) PROVE RegisterWrite
    <2>1. /\ pc' = [pc EXCEPT ![w] = "idle"] /\ cur' = [cur EXCEPT ![w] = None]
          /\ res' = [res EXCEPT ![w] = None]
      BY <1>4, Zenon DEF Crash
    <2> QED
      BY <2>1, WorkerTypes, Zenon DEF RegisterWrite
  <1>5. ASSUME NEW w \in Workers, NEW o \in Rows, ActivateAndSubmit(w, o)
        PROVE  RegisterWrite
    <2>1. pc' = [pc EXCEPT ![w] = "deliver"] /\ UNCHANGED <<cur, res>>
      BY <1>5, Zenon DEF ActivateAndSubmit
    <2> QED
      BY <2>1, ZenonT(30) DEF TypeInv, TypeOK, RegisterWrite
  <1>6. ASSUME NEW o \in Rows,
               \/ EnqueueEntity(o) \/ OperatorStep(o) \/ ActionStep(o)
               \/ LeaseExpires(o) \/ WireDelivers(o) \/ ProviderProgress(o)
        PROVE  RegisterWrite
    <2>1. UNCHANGED <<pc, cur, res>>
      BY <1>6, ZenonT(30) DEF EnqueueEntity, OperatorStep, ActionStep, RetryBlocked,
         RetryReconcile, RetryReenqueue, ResolveWriteback, RecoveryLookup, RecoveryApply,
         ReclaimAction, ReattachAction, CompleteEffect, ResolveUnknown, SetAction, LeaseExpires,
         WireDelivers, ProviderProgress, workVars
    <2> QED
      BY <2>1, RegisterIdle, Zenon
  <1>7. CASE UNCHANGED vars
    BY <1>7, RegisterIdle, ZenonT(30) DEF vars, workVars
  <1> QED
    BY <1>1, <1>2, <1>3, <1>4, <1>5, <1>6, <1>7, ZenonT(30) DEF Next, WorkerStep

\* Every step keeps all successes earned.
LEMMA RealNext ==
  ASSUME TypeInv, EffectInv, RealInv, [Next]_vars
  PROVE  RealInv'
  <1>1. \A v \in Workers : pc'[v] \in {"apply", "commit"} /\ res'[v] \in TerminalSuccess =>
           effects'[cur'[v]] > 0
    <2>1. \A v \in Workers : pc[v] \in {"apply", "commit"} => cur[v] \in Rows
      BY Zenon DEF TypeInv, InHand
    <2>2. \A o \in Rows : effects[o] > 0 => effects'[o] > 0
      BY EarnedGrows, Zenon
    <2>3. ASSUME NEW v \in Workers, pc'[v] \in {"apply", "commit"}, res'[v] \in TerminalSuccess
          PROVE  effects'[cur'[v]] > 0
      <3>1. CASE pc[v] \in {"apply", "commit"} /\ res'[v] = res[v] /\ cur'[v] = cur[v]
        BY <2>1, <2>2, <2>3, <3>1, Zenon DEF RealInv
      <3>2. CASE effects'[cur'[v]] > 0
        BY <3>2
      <3> QED
        BY <2>3, <3>1, <3>2, RegisterNext, Zenon DEF RegisterWrite
    <2> QED
      BY <2>3, Zenon
  <1>2. \A o \in Rows : pstatus'[o] \in TerminalSuccess => effects'[o] > 0
    BY RealProvider, Zenon
  <1>3. \A o \in Rows : latest'[o] \in TerminalSuccess => Earned(o)'
    BY RealStatus, Zenon
  <1>4. \A o \in Rows : recovery'[o] \in TerminalSuccess => Earned(o)'
    BY RealRecovery, Zenon
  <1> QED
    BY <1>1, <1>2, <1>3, <1>4, Zenon DEF RealInv

\* A row is ACCEPTED or CONFIRMED only if the source system executed its command
\* or a human adjudicated it: no error handler, lookup, stale result or recovery
\* update invents a success.
THEOREM SuccessEarned == Spec => []SuccessIsReal
  <1>1. TypeInv /\ EffectInv /\ RealInv /\ [Next]_vars => (TypeInv /\ EffectInv /\ RealInv)'
    BY TypeNext, EffectNext, RealNext, Zenon
  <1>2. RealInv => SuccessIsReal
    BY Zenon DEF RealInv, SuccessIsReal, Earned
  <1> QED
    BY <1>1, <1>2, TypeInit, EffectInit, RealInit, PTL DEF Spec

-----------------------------------------------------------------------------
(* The promised delivery.  Every step is, for each row, a step of          *)
(* CommandDelivery.  The hard part is that an accepted command is never    *)
(* reported open again: the writers that make a row UNKNOWN or PENDING act *)
(* on rows of the queue, and an accepted row has left it.                  *)

\* SENDING is written nowhere, and a recovery lookup hands on no UNKNOWN.
SendInv ==
    /\ \A o \in Rows : latest[o] # "sending" /\ pstatus[o] # "sending"
    /\ \A o \in Rows : recovery[o] \notin {"sending", "unknown"}
    /\ \A w \in Workers : res[w] # "sending"

\* A row that is not inserted says nothing; an UNKNOWN row waits for a lookup and
\* an ACCEPTED one is delivered, unless another head took its place.
Reported(o) ==
    /\ delivery[o] = "absent" => latest[o] = None
    /\ latest[o] = "unknown" => delivery[o] = "paused" \/ supersededBy[o] # None
    /\ latest[o] = "accepted" => delivery[o] = "delivered" \/ supersededBy[o] # None

WireInv == \A o \in Rows : delivery[o] = "absent" => wire[o] = 0

ReportInv == HeadInv /\ SendInv /\ WireInv /\ \A o \in Rows : Reported(o)

\* Nothing is inserted, looked up or sent.
LEMMA ReportInit == Init => ReportInv
  <1>1. Init => SendInv
    BY Zenon DEF Init, SendInv, None
  <1>2. Init => WireInv /\ \A o \in Rows : Reported(o)
    BY DEF Init, WireInv, Reported, None
  <1> QED
    BY <1>1, <1>2, HeadInit, Zenon DEF ReportInv

-----------------------------------------------------------------------------
\* What the source system records is one of its answers.
LEMMA SendProvider ==
  ASSUME TypeInv, SendInv, [Next]_vars
  PROVE  \A o \in Rows : pstatus'[o] # "sending"
  <1>1. "sending" \notin Answers
    BY ConstantsOK, Zenon DEF ConstantsOK
  <1>2. CASE UNCHANGED pstatus
    BY <1>2, Zenon DEF SendInv
  <1>3. ASSUME NEW o \in Rows, NEW s \in Answers, pstatus' = [pstatus EXCEPT ![o] = s]
        PROVE  \A p \in Rows : pstatus'[p] # "sending"
    BY <1>1, <1>3, ProviderTypes, Zenon DEF SendInv
  <1>4. \/ UNCHANGED pstatus
        \/ \E o \in Rows, s \in Answers : pstatus' = [pstatus EXCEPT ![o] = s]
    <2>1. ASSUME NEW o \in Rows, NEW s \in Answers, ProviderExecute(o, s)
          PROVE  UNCHANGED pstatus \/ pstatus' = [pstatus EXCEPT ![o] = s]
      BY <2>1, Zenon DEF ProviderExecute
    <2>2. ASSUME NEW w \in Workers, NEW o \in Rows,
                 SubmitAnswered(w, o) \/ SubmitLost(w, o) \/ SubmitRefused(w, o)
          PROVE  UNCHANGED pstatus \/ \E s \in Answers : ProviderExecute(o, s)
      BY <2>2, Zenon DEF SubmitAnswered, SubmitLost, SubmitRefused, provVars
    <2>3. ASSUME NEW o \in Rows, WireDelivers(o)
          PROVE  UNCHANGED pstatus \/ \E s \in Answers : ProviderExecute(o, s)
      BY <2>3, Zenon DEF WireDelivers
    <2>4. ASSUME NEW o \in Rows, ProviderProgress(o)
          PROVE  \E s \in Answers : pstatus' = [pstatus EXCEPT ![o] = s]
      BY <2>4, Zenon DEF ProviderProgress
    <2> QED
      BY <2>1, <2>2, <2>3, <2>4, ProviderFrame, Zenon DEF provVars
  <1> QED
    BY <1>2, <1>3, <1>4, Zenon

\* A recovery lookup hands on what the source system or the row says.
LEMMA SendRecovery ==
  ASSUME TypeInv, SendInv, [Next]_vars
  PROVE  \A o \in Rows : recovery'[o] \notin {"sending", "unknown"}
  <1>1. CASE recovery' = recovery
    BY <1>1, Zenon DEF SendInv
  <1>2. ASSUME NEW o \in Rows, NEW s, recovery' = [recovery EXCEPT ![o] = s],
               s \notin {"sending", "unknown"}
        PROVE  \A p \in Rows : recovery'[p] \notin {"sending", "unknown"}
    BY <1>2, StatusTypes, Zenon DEF SendInv
  <1>3. ASSUME NEW o \in Rows, RecoveryLookup(o)
        PROVE  \E s : recovery' = [recovery EXCEPT ![o] = s] /\ s \notin {"sending", "unknown"}
    <2>1. PICK s \in RecoveryAnswers(o) \ {"unknown"} : recovery' = [recovery EXCEPT ![o] = s]
      BY <1>3, Zenon DEF RecoveryLookup
    <2>2. \A r \in LookupOutcomes(o) : r \in {"degraded", "not_found", pstatus[o]}
      BY Zenon DEF LookupOutcomes
    <2>3. \A r \in RecoveryAnswers(o) : r \in LookupOutcomes(o) \/ r = latest[o]
      BY Zenon DEF RecoveryAnswers
    <2>4. s # "sending"
      BY <2>2, <2>3, Zenon DEF SendInv
    <2> QED
      BY <2>1, <2>4, Zenon
  <1>4. ASSUME NEW o \in Rows, RecoveryApply(o)
        PROVE  recovery' = [recovery EXCEPT ![o] = None]
    BY <1>4, Zenon DEF RecoveryApply
  <1> QED
    BY <1>1, <1>2, <1>3, <1>4, RecoveryFrame, Zenon DEF None

\* A process has in hand an answer, the outcome of a lookup or an error.
LEMMA SendResult ==
  ASSUME TypeInv, SendInv, [Next]_vars
  PROVE  \A v \in Workers : res'[v] # "sending"
  <1> DEFINE Sends == \E v \in Workers : res'[v] = "sending"
  <1>0. None # "sending"
    BY DEF None
  <1>1. "sending" \notin Answers \cup Kinds
    BY ConstantsOK, Zenon DEF ConstantsOK, Kinds
  <1>2. \A o \in Rows : \A r \in LookupOutcomes(o) : r # "sending"
    BY Zenon DEF LookupOutcomes, SendInv
  <1>a. ASSUME UNCHANGED res PROVE ~Sends
    BY <1>a, Zenon DEF SendInv
  <1>b. ASSUME NEW w \in Workers, NEW r, res' = [res EXCEPT ![w] = r], r # "sending"
        PROVE  ~Sends
    BY <1>b, WorkerTypes, Zenon DEF SendInv
  <1>3. ASSUME NEW w \in Workers, NEW rest, Advance(w, rest) PROVE ~Sends
    <2>1. res' = [res EXCEPT ![w] = None]
      BY <1>3, Zenon DEF Advance
    <2> QED
      BY <1>0, <1>b, <2>1, Zenon
  <1>4. ASSUME NEW w \in Workers, NEW o, NEW kind, FailDelivery(w, o, kind), kind \in Kinds
        PROVE  ~Sends
    <2>1. CASE sync[w]
      BY <1>3, <1>4, <2>1, Zenon DEF FailDelivery
    <2>2. CASE ~sync[w]
      <3>1. res' = [res EXCEPT ![w] = kind]
        BY <1>4, <2>2, Zenon DEF FailDelivery
      <3> QED
        BY <1>1, <1>4, <1>b, <3>1, Zenon
    <2> QED
      BY <2>1, <2>2, Zenon
  <1>5. ASSUME NEW w \in Workers, ReconcileStep(w) PROVE ~Sends
    <2>1. ASSUME ClaimPaused(w) PROVE ~Sends
      BY <1>a, <2>1, Zenon DEF ClaimPaused
    <2>2. ASSUME NEW o \in Rows, LookupPaused(w, o) PROVE ~Sends
      BY <1>2, <1>b, <2>2, ZenonT(30) DEF LookupPaused
    <2>3. ASSUME AfterApply(w) PROVE ~Sends
      <3>1. res' = [res EXCEPT ![w] = None]
        BY <2>3, Zenon DEF AfterApply
      <3> QED
        BY <1>0, <1>b, <3>1, Zenon
    <2> QED
      BY <1>5, <2>1, <2>2, <2>3, ZenonT(30) DEF ReconcileStep, ApplyStale, ApplyInconclusive,
         ApplyRejected, ApplyNeverAccepted, ApplyFound, ApplyIllegal
  <1>6. ASSUME NEW w \in Workers, DeliverStep(w) PROVE ~Sends
    <2>1. ASSUME NEW o \in Rows, NEW s, Receive(w, o, s), s # "sending" PROVE ~Sends
      <3>1. res' = [res EXCEPT ![w] = s]
        BY <2>1, Zenon DEF Receive
      <3> QED
        BY <1>b, <2>1, <3>1, Zenon
    <2>2. ASSUME NEW o \in Rows, \/ DeliverSuperseded(w, o) \/ DeliverSkip(w, o)
                                 \/ DeliverExpired(w, o) \/ DeliverFenced(w, o)
          PROVE  ~Sends
      BY <1>3, <2>2, Zenon DEF DeliverSuperseded, DeliverSkip, DeliverExpired, DeliverFenced
    <2>3. ASSUME NEW o \in Rows, DeliverInvalid(w, o) \/ SubmitRefused(w, o) PROVE ~Sends
      BY <1>4, <2>3, Zenon DEF DeliverInvalid, SubmitRefused, Kinds
    <2>4. ASSUME NEW o \in Rows, SubmitAnswered(w, o) PROVE ~Sends
      BY <1>1, <2>1, <2>4, Zenon DEF SubmitAnswered
    <2>5. ASSUME NEW o \in Rows, SubmitLost(w, o) PROVE ~Sends
      BY <1>4, <2>1, <2>5, ZenonT(30) DEF SubmitLost, Kinds
    <2>6. CASE CommitDelivered(w) \/ CommitUnknown(w) \/ Mark(w) \/ MarkStale(w)
      BY <1>3, <2>6, Zenon DEF CommitDelivered, CommitUnknown, Mark, MarkStale
    <2>7. CASE CommitRollsBack(w)
      BY <1>4, <2>7, ZenonT(30) DEF CommitRollsBack, Kinds
    <2> QED
      BY <1>6, <2>2, <2>3, <2>4, <2>5, <2>6, <2>7, ZenonT(30) DEF DeliverStep
  <1>7. ASSUME NEW w \in Workers, Crash(w) PROVE ~Sends
    <2>1. res' = [res EXCEPT ![w] = None]
      BY <1>7, Zenon DEF Crash
    <2> QED
      BY <1>0, <1>b, <2>1, Zenon
  <1>8. ASSUME NEW w \in Workers, ClaimBatch(w) \/ \E o \in Rows : ActivateAndSubmit(w, o)
        PROVE  UNCHANGED res
    BY <1>8, Zenon DEF ClaimBatch, ActivateAndSubmit
  <1>9. ASSUME NEW o \in Rows, OperatorStep(o) \/ ActionStep(o) PROVE UNCHANGED res
    BY <1>9, ZenonT(30) DEF OperatorStep, ActionStep, RetryBlocked, RetryReconcile,
       RetryReenqueue, ResolveWriteback, RecoveryLookup, RecoveryApply, ReclaimAction,
       ReattachAction, CompleteEffect, ResolveUnknown, SetAction, workVars
  <1>10. ASSUME NEW o \in Rows,
                EnqueueEntity(o) \/ LeaseExpires(o) \/ WireDelivers(o) \/ ProviderProgress(o)
         PROVE  UNCHANGED res
    BY <1>10, Zenon DEF EnqueueEntity, LeaseExpires, WireDelivers, ProviderProgress, workVars
  <1>11. ASSUME UNCHANGED vars PROVE UNCHANGED res
    BY <1>11, Zenon DEF vars, workVars
  <1>12. ~Sends
    BY <1>a, <1>5, <1>6, <1>7, <1>8, <1>9, <1>10, <1>11, ZenonT(30) DEF Next, WorkerStep
  <1> QED
    BY <1>12, Zenon

-----------------------------------------------------------------------------
\* What a step does to the report of a row: it keeps Reported, an accepted command
\* is not opened again, no row is removed, and only an inserted row is written.
ReportStep(o) ==
    /\ Reported(o)' /\ latest'[o] # "sending"
    /\ latest[o] = "accepted" => latest'[o] \notin {None, "pending", "unknown"}
    /\ delivery[o] = "absent" => latest'[o] = None
    /\ delivery[o] # "absent" => delivery'[o] # "absent"

\* A step that writes neither status column
LEMMA ReportFrame ==
  ASSUME SendInv, NEW o \in Rows, Reported(o), delivery'[o] = delivery[o],
         latest'[o] = latest[o], supersededBy'[o] = supersededBy[o]
  PROVE  ReportStep(o)
  BY Zenon DEF SendInv, Reported, ReportStep, None

\* A status write of one row
LEMMA ReportWrite ==
  ASSUME ReportInv, NEW o \in Rows, NEW s, NEW d,
         latest' = [latest EXCEPT ![o] = s], delivery' = [delivery EXCEPT ![o] = d],
         supersededBy' = supersededBy, delivery[o] # "absent", d # "absent", s # "sending",
         s = "unknown" => d = "paused" \/ supersededBy[o] # None,
         s = "accepted" => d = "delivered" \/ supersededBy[o] # None,
         latest[o] = "accepted" => s \notin {None, "pending", "unknown"}
  PROVE  \A p \in Rows : ReportStep(p)
  <1>1. /\ delivery'[o] = d /\ latest'[o] = s
        /\ \A p \in Rows \ {o} : delivery'[p] = delivery[p] /\ latest'[p] = latest[p]
    BY StatusTypes, Zenon DEF ReportInv, HeadInv
  <1>2. ReportStep(o)
    BY <1>1, Zenon DEF ReportStep, Reported
  <1> QED
    BY <1>1, <1>2, ReportFrame, Zenon DEF ReportInv

\* A move of one row in the queue: the row waits in it, or stays settled.
LEMMA ReportMove ==
  ASSUME ReportInv, NEW o \in Rows, NEW d, delivery' = [delivery EXCEPT ![o] = d],
         latest' = latest, supersededBy' = supersededBy, delivery[o] # "absent", d # "absent",
         latest[o] = "unknown" => d = "paused" \/ supersededBy[o] # None,
         latest[o] = "accepted" => d = "delivered" \/ supersededBy[o] # None
  PROVE  \A p \in Rows : ReportStep(p)
  <1>1. /\ delivery'[o] = d
        /\ \A p \in Rows \ {o} : delivery'[p] = delivery[p]
    BY StatusTypes, Zenon DEF ReportInv, HeadInv
  <1>2. ReportStep(o)
    BY <1>1, Zenon DEF ReportStep, Reported, ReportInv, SendInv, None
  <1> QED
    BY <1>1, <1>2, ReportFrame, Zenon DEF ReportInv

\* A row of the queue that is not superseded is neither accepted nor, unless it is
\* paused, unknown.
LEMMA QueuedReport ==
  ASSUME ReportInv, NEW o \in Rows, supersededBy[o] = None
  PROVE  /\ delivery[o] \in {"ready", "leased", "paused"} => latest[o] # "accepted"
         /\ delivery[o] \in {"ready", "leased"} => latest[o] # "unknown"
  BY Zenon DEF ReportInv, Reported

\* The paused reconcile
LEMMA ReportReconcile ==
  ASSUME ReportInv, NEW w \in Workers, ReconcileStep(w)
  PROVE  \A p \in Rows : ReportStep(p)
  <1> DEFINE o == cur[w]
  <1>1. CASE UNCHANGED <<delivery, latest, supersededBy>>
    BY <1>1, ReportFrame, Zenon DEF ReportInv
  <1>2. CASE \/ ClaimPaused(w) \/ (\E p \in Rows : LookupPaused(w, p)) \/ ApplyStale(w)
             \/ ApplyIllegal(w)
    BY <1>1, <1>2, Zenon DEF ClaimPaused, LookupPaused, ApplyStale, ApplyIllegal, AfterApply,
       rowVars
  <1>3. CASE \/ ApplyInconclusive(w) \/ ApplyRejected(w) \/ ApplyNeverAccepted(w)
             \/ ApplyFound(w)
    <2>1. pc[w] = "apply" /\ Fenced(w, o) /\ AfterApply(w)
      BY <1>3, Zenon DEF ApplyInconclusive, ApplyRejected, ApplyNeverAccepted, ApplyFound
    <2>2. /\ o \in Rows /\ delivery[o] = "paused" /\ supersededBy[o] = None
          /\ supersededBy' = supersededBy
      BY <2>1, WorkerTypes, Zenon DEF ReportInv, HeadInv, Fenced, AfterApply
    <2>3. latest[o] # "accepted"
      BY <2>2, QueuedReport, Zenon
    <2>4. CASE ApplyInconclusive(w)
      <3>1. latest' = [latest EXCEPT ![o] = "unknown"] /\ delivery' = delivery
        BY <2>4, Zenon DEF ApplyInconclusive
      <3>2. delivery' = [delivery EXCEPT ![o] = "paused"]
        BY <2>2, <3>1, StatusTypes, Zenon DEF ReportInv, HeadInv
      <3> QED
        BY <2>2, <2>3, <3>1, <3>2, ReportWrite, Zenon
    <2>5. CASE ApplyRejected(w)
      <3>1. /\ latest' = [latest EXCEPT ![o] = "failed"]
            /\ delivery' = [delivery EXCEPT ![o] = "dead_letter"]
        BY <2>5, Zenon DEF ApplyRejected
      <3> QED
        BY <2>2, <2>3, <3>1, ReportWrite, Zenon
    <2>6. CASE ApplyNeverAccepted(w)
      <3>1. /\ latest' = [latest EXCEPT ![o] = "pending"]
            /\ delivery' = [delivery EXCEPT ![o] = "ready"]
        BY <2>6, Zenon DEF ApplyNeverAccepted
      <3> QED
        BY <2>2, <2>3, <3>1, ReportWrite, Zenon
    <2>7. CASE ApplyFound(w)
      <3>1. /\ latest' = [latest EXCEPT ![o] = res[w]] /\ res[w] # "unknown"
            /\ delivery' = [delivery EXCEPT ![o] = "delivered"]
        BY <2>7, Zenon DEF ApplyFound
      <3>2. res[w] # "sending"
        BY Zenon DEF ReportInv, SendInv
      <3> QED
        BY <2>2, <2>3, <3>1, <3>2, ReportWrite, Zenon
    <2> QED
      BY <1>3, <2>4, <2>5, <2>6, <2>7, ZenonT(30)
  <1> QED
    BY <1>2, <1>3, Zenon DEF ReconcileStep

\* A claim leases rows that wait and pauses rows whose lease ran out.
LEMMA ReportClaim ==
  ASSUME ReportInv, NEW w \in Workers, ClaimBatch(w)
  PROVE  \A p \in Rows : ReportStep(p)
  <1>1. supersededBy' = supersededBy
    BY Zenon DEF ClaimBatch
  <1>2. \A p \in Rows :
           /\ delivery'[p] = IF p \in DueRows THEN "leased"
                             ELSE IF p \in ExpiredRows \ DueRows THEN "paused" ELSE delivery[p]
           /\ latest'[p] = IF p \in ExpiredRows \ DueRows THEN "unknown" ELSE latest[p]
    BY Zenon DEF ClaimBatch
  <1>3. \A p \in DueRows \cup ExpiredRows :
           p \in Rows /\ supersededBy[p] = None /\ delivery[p] \in {"ready", "leased"}
    BY Zenon DEF DueRows, ExpiredRows, Claimable
  <1>4. TAKE p \in Rows
  <1>5. CASE p \in DueRows \cup ExpiredRows
    <2>1. supersededBy[p] = None /\ delivery[p] \in {"ready", "leased"}
      BY <1>3, <1>5, Zenon
    <2>2. latest[p] \notin {"accepted", "unknown"} /\ latest[p] # "sending"
      BY <2>1, QueuedReport, Zenon DEF ReportInv, SendInv
    <2>3. \/ delivery'[p] = "leased" /\ latest'[p] = latest[p]
          \/ delivery'[p] = "paused" /\ latest'[p] = "unknown"
      BY <1>2, <1>5, Zenon
    <2> QED
      BY <2>1, <2>2, <2>3, Zenon DEF ReportStep, Reported
  <1>6. CASE p \notin DueRows \cup ExpiredRows
    BY <1>1, <1>2, <1>6, ReportFrame, ZenonT(30) DEF ReportInv
  <1> QED
    BY <1>5, <1>6, Zenon

\* The delivery of a row
LEMMA ReportDeliver ==
  ASSUME ReportInv, NEW w \in Workers, DeliverStep(w)
  PROVE  \A p \in Rows : ReportStep(p)
  <1>0. HeadInv /\ TypeInv
    BY Zenon DEF ReportInv, HeadInv
  <1>1. CASE UNCHANGED <<delivery, latest, supersededBy>>
    BY <1>1, ReportFrame, Zenon DEF ReportInv
  <1>2. ASSUME NEW o \in Rows, \/ DeliverSkip(w, o) \/ DeliverInvalid(w, o)
                               \/ SubmitAnswered(w, o) \/ SubmitLost(w, o)
                               \/ SubmitRefused(w, o)
        PROVE  UNCHANGED <<delivery, latest, supersededBy>>
    BY <1>2, Zenon DEF DeliverSkip, DeliverInvalid, SubmitAnswered, SubmitLost, SubmitRefused,
       Submits, rowVars
  <1>3. ASSUME CommitRollsBack(w) \/ MarkStale(w)
        PROVE  UNCHANGED <<delivery, latest, supersededBy>>
    BY <1>3, Zenon DEF CommitRollsBack, MarkStale, rowVars
  <1>4. ASSUME NEW o \in Rows, DeliverSuperseded(w, o)
        PROVE  \A p \in Rows : ReportStep(p)
    <2>1. /\ o \in batch[w] /\ supersededBy[o] # None
          /\ latest' = latest /\ supersededBy' = supersededBy
          /\ delivery' = delivery \/ delivery' = [delivery EXCEPT ![o] = "dead_letter"]
      BY <1>4, Zenon DEF DeliverSuperseded, Delivering, Block
    <2>2. delivery[o] # "absent"
      BY <1>0, <2>1, Zenon DEF HeadInv, LockInv
    <2> QED
      BY <1>1, <2>1, <2>2, ReportMove, ZenonT(30)
  <1>5. ASSUME NEW o \in Rows, DeliverExpired(w, o)
        PROVE  \A p \in Rows : ReportStep(p)
    <2>1. /\ supersededBy[o] = None /\ delivery[o] = "leased" /\ supersededBy' = supersededBy
          /\ latest' = [latest EXCEPT ![o] = "unknown"]
          /\ delivery' = [delivery EXCEPT ![o] = "paused"]
      BY <1>5, Zenon DEF DeliverExpired
    <2> QED
      BY <2>1, QueuedReport, ReportWrite, Zenon
  <1>6. ASSUME NEW o \in Rows, DeliverFenced(w, o)
        PROVE  \A p \in Rows : ReportStep(p)
    <2>1. /\ supersededBy[o] = None /\ delivery[o] \in {"ready", "leased"}
          /\ latest' = latest /\ supersededBy' = supersededBy
          /\ delivery' = [delivery EXCEPT ![o] = "dead_letter"]
      BY <1>6, Zenon DEF DeliverFenced, Deliverable, Block
    <2> QED
      BY <2>1, QueuedReport, ReportMove, Zenon
  <1>7. ASSUME CommitDelivered(w) \/ CommitUnknown(w)
        PROVE  \A p \in Rows : ReportStep(p)
    <2> DEFINE o == cur[w]
    <2>1. pc[w] = "commit" /\ supersededBy' = supersededBy
      BY <1>7, Zenon DEF CommitDelivered, CommitUnknown
    <2>2. /\ o \in Rows /\ supersededBy[o] = None /\ delivery[o] \in {"ready", "leased"}
          /\ res[w] # "sending"
      BY <1>0, <2>1, WorkerTypes, ZenonT(30) DEF HeadInv, LockInv, ReportInv, SendInv
    <2>3. \/ /\ latest' = [latest EXCEPT ![o] = res[w]] /\ res[w] # "unknown"
             /\ delivery' = [delivery EXCEPT ![o] = "delivered"]
          \/ /\ latest' = [latest EXCEPT ![o] = "unknown"]
             /\ delivery' = [delivery EXCEPT ![o] = "paused"]
      BY <1>7, Zenon DEF CommitDelivered, CommitUnknown
    <2>4. latest[o] # "accepted"
      BY <2>2, QueuedReport, Zenon
    <2> HIDE DEF o
    <2>5. CASE /\ latest' = [latest EXCEPT ![o] = res[w]] /\ res[w] # "unknown"
               /\ delivery' = [delivery EXCEPT ![o] = "delivered"]
      BY <2>1, <2>2, <2>4, <2>5, ReportWrite, ZenonT(30)
    <2>6. CASE /\ latest' = [latest EXCEPT ![o] = "unknown"]
               /\ delivery' = [delivery EXCEPT ![o] = "paused"]
      BY <2>1, <2>2, <2>4, <2>6, ReportWrite, ZenonT(30)
    <2> QED
      BY <2>3, <2>5, <2>6, Zenon
  <1>8. ASSUME Mark(w) PROVE \A p \in Rows : ReportStep(p)
    <2> DEFINE o == cur[w]
               s == MarkedStatus(res[w])
               d == MarkedDelivery(res[w])
    <2>1. /\ pc[w] = "mark" /\ delivery[o] = "leased" /\ supersededBy' = supersededBy
          /\ delivery' = [delivery EXCEPT ![o] = d]
          /\ \/ res[w] = "guardrail" /\ latest' = latest
             \/ latest' = [latest EXCEPT ![o] = s]
      BY <1>8, Zenon DEF Mark
    <2>2. o \in Rows /\ supersededBy[o] = None
      BY <1>0, <2>1, WorkerTypes, ZenonT(30) DEF HeadInv, RowInv, SupersededIsFenced
    <2>3. latest[o] \notin {"accepted", "unknown"}
      BY <2>1, <2>2, QueuedReport, Zenon
    <2>4. /\ d # "absent" /\ s \notin {"sending", "accepted"}
          /\ s = "unknown" => d = "paused"
      BY Zenon DEF MarkedStatus, MarkedDelivery
    <2> HIDE DEF o, s, d
    <2>5. CASE latest' = latest
      BY <2>1, <2>2, <2>3, <2>4, <2>5, ReportMove, ZenonT(30)
    <2>6. CASE latest' = [latest EXCEPT ![o] = s]
      BY <2>1, <2>2, <2>3, <2>4, <2>6, ReportWrite, ZenonT(30)
    <2> QED
      BY <2>1, <2>5, <2>6, ZenonT(30)
  <1> QED
    BY <1>1, <1>2, <1>3, <1>4, <1>5, <1>6, <1>7, <1>8, ZenonT(30) DEF DeliverStep

\* The operator and recovery entry points
LEMMA ReportOperator ==
  ASSUME ReportInv, NEW o \in Rows, OperatorStep(o)
  PROVE  \A p \in Rows : ReportStep(p)
  <1>0. HeadInv /\ TypeInv
    BY Zenon DEF ReportInv, HeadInv
  <1>1. Retryable(o) => /\ delivery[o] # "absent" /\ supersededBy[o] = None
                        /\ latest[o] # "accepted"
    <2>1. ASSUME latest[o] = "accepted", supersededBy[o] = None PROVE ~Retryable(o)
      <3>1. delivery[o] = "delivered"
        BY <2>1, Zenon DEF ReportInv, Reported
      <3> QED
        BY <2>1, <3>1, Zenon DEF Retryable, EligibleForRetryPause
    <2> QED
      BY <2>1, Zenon DEF Retryable
  <1>2. CASE RetryBlocked(o)
    <2>1. /\ Retryable(o) /\ latest' = latest /\ supersededBy' = supersededBy
          /\ delivery' = [delivery EXCEPT ![o] = "paused"]
      BY <1>2, Zenon DEF RetryBlocked
    <2> QED
      BY <1>1, <2>1, ReportMove, Zenon
  <1>3. CASE RetryReconcile(o)
    <2>1. PICK s \in TerminalSuccess : latest' = [latest EXCEPT ![o] = s]
      BY <1>3, Zenon DEF RetryReconcile
    <2>2. /\ Retryable(o) /\ supersededBy' = supersededBy
          /\ delivery' = [delivery EXCEPT ![o] = "delivered"]
      BY <1>3, Zenon DEF RetryReconcile
    <2>3. s \notin {"sending", "unknown"}
      BY Zenon DEF TerminalSuccess
    <2> QED
      BY <1>1, <2>1, <2>2, <2>3, ReportWrite, ZenonT(30)
  <1>4. CASE RetryReenqueue(o)
    <2>1. /\ Retryable(o) /\ supersededBy' = supersededBy
          /\ latest' = [latest EXCEPT ![o] = "pending"]
          /\ delivery' = [delivery EXCEPT ![o] = "ready"]
      BY <1>4, Zenon DEF RetryReenqueue
    <2> QED
      BY <1>1, <2>1, ReportWrite, Zenon
  <1>5. ASSUME NEW target \in {"confirmed", "failed"}, ResolveWriteback(o, target)
        PROVE  \A p \in Rows : ReportStep(p)
    <2>1. /\ delivery[o] # "absent" /\ supersededBy' = supersededBy
          /\ latest' = [latest EXCEPT ![o] = target]
          /\ delivery' = [delivery EXCEPT ![o] = "delivered"]
      BY <1>5, Zenon DEF ResolveWriteback
    <2>2. target \notin {None, "pending", "unknown", "sending", "accepted"}
      BY Zenon DEF None
    <2> QED
      BY <2>1, <2>2, ReportWrite, Zenon
  <1>6. CASE UNCHANGED <<delivery, latest, supersededBy>>
    BY <1>6, ReportFrame, Zenon DEF ReportInv
  <1>7. ASSUME RecoveryLookup(o) PROVE UNCHANGED <<delivery, latest, supersededBy>>
    BY <1>7, Zenon DEF RecoveryLookup, rowVars
  <1>8. CASE RecoveryApply(o)
    <2> DEFINE s == recovery[o]
               from == Default(latest[o], "pending")
               fences == s \in TerminalSuccess /\ delivery[o] \in {"ready", "paused", "leased"}
    <2>1. s # None /\ supersededBy' = supersededBy
      BY <1>8, Zenon DEF RecoveryApply
    <2>2. delivery[o] # "absent" /\ s \notin {"sending", "unknown"}
      BY <1>0, <2>1, Zenon DEF HeadInv, RowInv, ReportInv, SendInv
    <2>3. CASE ~ValidWriteback(from, s, {"evidence_adjudication"})
      BY <1>6, <1>8, <2>1, <2>3, ZenonT(30) DEF RecoveryApply
    <2>4. CASE ValidWriteback(from, s, {"evidence_adjudication"})
      <3>1. /\ latest' = [latest EXCEPT ![o] = s]
            /\ delivery' = IF fences THEN [delivery EXCEPT ![o] = "delivered"] ELSE delivery
        BY <1>8, <2>4, Zenon DEF RecoveryApply
      <3>2. from \in WritebackStatus
        BY <1>0, StatusTypes, Zenon DEF Default, WritebackStatus, None
      <3>3. s \in WRITEBACK_STATUS_TRANSITIONS[from]
        BY <2>4, Zenon DEF ValidWriteback
      <3>4. from = "accepted" => s # "pending"
        BY <3>2, <3>3, Zenon DEF WRITEBACK_STATUS_TRANSITIONS, WritebackStatus
      <3>5. s = "accepted" => from \in {"sending", "unknown"}
        BY <3>2, <3>3, Zenon DEF WRITEBACK_STATUS_TRANSITIONS, WritebackStatus
      <3>6. latest[o] = "accepted" => s \notin {None, "pending", "unknown"}
        BY <2>1, <2>2, <3>4, Zenon DEF Default, None
      <3>7. s = "accepted" => latest[o] = "unknown"
        BY <3>5, Zenon DEF Default, None, ReportInv, SendInv
      <3>8. s = "accepted" => fences \/ supersededBy[o] # None
        BY <3>7, Zenon DEF ReportInv, Reported, TerminalSuccess
      <3>9. delivery' = [delivery EXCEPT ![o] = IF fences THEN "delivered" ELSE delivery[o]]
        BY <1>0, <3>1, StatusTypes, ZenonT(30)
      <3> HIDE DEF s, fences
      <3>10. CASE fences
        BY <2>1, <2>2, <3>1, <3>6, <3>9, <3>10, ReportWrite, ZenonT(30)
      <3>11. CASE ~fences
        <4>1. delivery' = [delivery EXCEPT ![o] = delivery[o]]
          BY <3>9, <3>11, Zenon
        <4> QED
          BY <2>1, <2>2, <3>1, <3>6, <3>8, <3>11, <4>1, ReportWrite, ZenonT(30)
      <3> QED
        BY <3>10, <3>11, Zenon
    <2> QED
      BY <2>3, <2>4, Zenon
  <1> QED
    BY <1>2, <1>3, <1>4, <1>5, <1>6, <1>7, <1>8, ZenonT(30) DEF OperatorStep

\* Inserting a row, and superseding the head it replaces
LEMMA ReportInsert ==
  ASSUME ReportInv,
         \/ \E o \in Rows : EnqueueEntity(o)
         \/ \E w \in Workers, o \in Rows : ActivateAndSubmit(w, o)
  PROVE  \A p \in Rows : ReportStep(p)
  <1>1. ASSUME NEW o \in Rows, EnqueueEntity(o), NEW p \in Rows PROVE ReportStep(p)
    <2>1. /\ delivery[o] = "absent" /\ delivery' = [delivery EXCEPT ![o] = "ready"]
          /\ UNCHANGED <<latest, supersededBy>>
      BY <1>1, Zenon DEF EnqueueEntity
    <2>2. /\ delivery'[o] = "ready"
          /\ p # o => delivery'[p] = delivery[p]
      BY <2>1, StatusTypes, Zenon DEF ReportInv, HeadInv
    <2>3. latest[o] = None
      BY <2>1, Zenon DEF ReportInv, Reported
    <2>4. CASE p = o
      BY <2>1, <2>2, <2>3, <2>4, ZenonT(30) DEF ReportStep, Reported, None
    <2>5. CASE p # o
      BY <2>1, <2>2, <2>5, ReportFrame, ZenonT(30) DEF ReportInv
    <2> QED
      BY <2>4, <2>5, Zenon
  <1>2. ASSUME NEW w \in Workers, NEW o \in Rows, ActivateAndSubmit(w, o), NEW p \in Rows
        PROVE  ReportStep(p)
    <2>1. /\ delivery[o] = "absent" /\ latest' = latest
          /\ supersededBy'[p] = IF p \in ActiveHeads THEN o ELSE supersededBy[p]
          /\ delivery'[p] = IF p = o THEN "ready"
                            ELSE IF p \in StoppedHeads THEN "dead_letter" ELSE delivery[p]
      BY <1>2, Zenon DEF ActivateAndSubmit, Lineage
    <2>2. o # None
      BY ConstantsOK, Zenon DEF ConstantsOK
    <2>3. latest[o] = None
      BY <2>1, Zenon DEF ReportInv, Reported
    <2>4. StoppedHeads \subseteq ActiveHeads
      BY Zenon DEF StoppedHeads
    <2>5. Reported(p) /\ latest[p] # "sending"
      BY Zenon DEF ReportInv, SendInv
    <2>6. CASE p = o
      BY <2>1, <2>3, <2>6, Zenon DEF ReportStep, Reported, None
    <2>7. CASE p # o
      <3>1. supersededBy[p] # None => supersededBy'[p] # None
        BY <2>1, <2>2, Zenon
      <3>2. delivery'[p] = delivery[p] \/ (delivery'[p] = "dead_letter" /\ p \in ActiveHeads)
        BY <2>1, <2>4, <2>7, Zenon
      <3>3. p \in ActiveHeads => supersededBy'[p] # None /\ delivery[p] # "absent"
        BY <2>1, <2>2, Zenon DEF ActiveHeads
      <3> QED
        BY <2>1, <2>5, <3>1, <3>2, <3>3, ZenonT(30) DEF ReportStep, Reported, None
    <2> QED
      BY <2>6, <2>7, Zenon
  <1> QED
    BY <1>1, <1>2, Zenon

\* Every step
LEMMA ReportSteps ==
  ASSUME ReportInv, [Next]_vars
  PROVE  \A p \in Rows : ReportStep(p)
  <1>1. ASSUME UNCHANGED <<delivery, latest, supersededBy>>
        PROVE  \A p \in Rows : ReportStep(p)
    BY <1>1, ReportFrame, Zenon DEF ReportInv
  <1>2. ASSUME NEW o \in Rows, \/ ActionStep(o) \/ LeaseExpires(o) \/ WireDelivers(o)
                               \/ ProviderProgress(o)
        PROVE  UNCHANGED <<delivery, latest, supersededBy>>
    BY <1>2, Zenon DEF ActionStep, ReclaimAction, ReattachAction, CompleteEffect,
       ResolveUnknown, SetAction, LeaseExpires, WireDelivers, ProviderProgress, rowVars
  <1>3. ASSUME NEW w \in Workers, Crash(w) PROVE UNCHANGED <<delivery, latest, supersededBy>>
    BY <1>3, Zenon DEF Crash, rowVars
  <1>4. ASSUME UNCHANGED vars PROVE UNCHANGED <<delivery, latest, supersededBy>>
    BY <1>4, Zenon DEF vars, rowVars
  <1> QED
    BY <1>1, <1>2, <1>3, <1>4, ReportInsert, ReportClaim, ReportReconcile, ReportDeliver,
       ReportOperator, ZenonT(30) DEF Next, WorkerStep

\* A request is on the wire only for a row that a delivery took up.
LEMMA WireNext ==
  ASSUME ReportInv, [Next]_vars
  PROVE  WireInv'
  <1>0. TypeInv /\ \A o \in Rows : delivery'[o] = "absent" => delivery[o] = "absent"
    BY ReportSteps, Zenon DEF ReportInv, HeadInv, ReportStep
  <1>1. CASE wire' = wire
    BY <1>0, <1>1, ZenonT(30) DEF ReportInv, WireInv
  <1>2. ASSUME NEW w \in Workers, NEW o \in Rows, SubmitLost(w, o) PROVE WireInv'
    <2>1. delivery[o] # "absent" /\ (wire' = wire \/ wire' = [wire EXCEPT ![o] = @ + 1])
      BY <1>2, Zenon DEF SubmitLost, Submits, Deliverable
    <2>2. \A p \in Rows \ {o} : wire'[p] = wire[p]
      BY <1>0, <2>1, ProviderTypes, Zenon
    <2> QED
      BY <1>0, <2>1, <2>2, ZenonT(30) DEF ReportInv, WireInv
  <1>3. ASSUME NEW o \in Rows, WireDelivers(o) PROVE WireInv'
    <2>1. wire[o] # 0 /\ wire' = [wire EXCEPT ![o] = @ - 1]
      BY <1>0, <1>3, ProviderTypes DEF WireDelivers
    <2>2. \A p \in Rows \ {o} : wire'[p] = wire[p]
      BY <1>0, <2>1, ProviderTypes, ZenonT(30)
    <2> QED
      BY <1>0, <2>1, <2>2, ZenonT(30) DEF ReportInv, WireInv
  <1> QED
    BY <1>1, <1>2, <1>3, ProviderFrame, ZenonT(30) DEF provVars, SubmitAnswered, SubmitRefused,
       ProviderProgress

\* Every step keeps the invariant.
LEMMA ReportNext == ReportInv /\ [Next]_vars => ReportInv'
  <1> SUFFICES ASSUME ReportInv, [Next]_vars PROVE ReportInv'
    OBVIOUS
  <1>1. HeadInv /\ TypeInv /\ SendInv
    BY Zenon DEF ReportInv, HeadInv
  <1>2. HeadInv'
    BY <1>1, HeadNext, Zenon
  <1>3. \A o \in Rows : Reported(o)' /\ latest'[o] # "sending"
    BY ReportSteps, Zenon DEF ReportStep
  <1>4. SendInv'
    BY <1>1, <1>3, SendProvider, SendRecovery, SendResult, ZenonT(30) DEF SendInv
  <1> QED
    BY <1>2, <1>3, <1>4, WireNext, Zenon DEF ReportInv

-----------------------------------------------------------------------------
\* An execution writes no row and no adjudication, and is of an inserted row.
LEMMA ExecutionStep ==
  ASSUME ReportInv, EffectInv, [Next]_vars, NEW o \in Rows, effects'[o] # effects[o]
  PROVE  /\ UNCHANGED <<delivery, latest, manual>>
         /\ delivery[o] # "absent" /\ effects'[o] = effects[o] + 1
  <1>0. TypeInv
    BY Zenon DEF ReportInv, HeadInv
  <1>1. ASSUME NEW p \in Rows, NEW s \in Answers, ProviderExecute(p, s)
        PROVE  o = p /\ effects'[o] = effects[o] + 1
    BY <1>0, <1>1, EffectExecute, Zenon
  <1>2. ASSUME NEW w \in Workers, NEW p \in Rows,
               SubmitAnswered(w, p) \/ SubmitLost(w, p) \/ SubmitRefused(w, p)
        PROVE  /\ UNCHANGED <<delivery, latest, manual>> /\ delivery[p] # "absent"
               /\ effects' = effects \/ \E s \in Answers : ProviderExecute(p, s)
    <2>1. Submits(w, p)
      BY <1>2, Zenon DEF SubmitAnswered, SubmitLost, SubmitRefused
    <2>2. UNCHANGED <<delivery, latest, manual>> /\ delivery[p] # "absent"
      BY <2>1, Zenon DEF Submits, Deliverable, rowVars
    <2>3. effects' = effects \/ \E s \in Answers : ProviderExecute(p, s)
      BY <1>2, Zenon DEF SubmitAnswered, SubmitLost, SubmitRefused, provVars
    <2> QED
      BY <2>2, <2>3, Zenon
  <1>3. ASSUME NEW p \in Rows, WireDelivers(p)
        PROVE  /\ UNCHANGED <<delivery, latest, manual>> /\ delivery[p] # "absent"
               /\ effects' = effects \/ \E s \in Answers : ProviderExecute(p, s)
    <2>1. UNCHANGED <<delivery, latest, manual>>
      BY <1>3, ZenonT(30) DEF WireDelivers, rowVars, histVars
    <2>2. wire[p] # 0
      BY <1>0, <1>3, ProviderTypes DEF WireDelivers
    <2>3. delivery[p] # "absent"
      BY <2>2, Zenon DEF ReportInv, WireInv
    <2>4. effects' = effects \/ \E s \in Answers : ProviderExecute(p, s)
      BY <1>3, Zenon DEF WireDelivers
    <2> QED
      BY <2>1, <2>3, <2>4, Zenon
  <1>4. \/ \E w \in Workers, p \in Rows :
              SubmitAnswered(w, p) \/ SubmitLost(w, p) \/ SubmitRefused(w, p)
        \/ \E p \in Rows : WireDelivers(p)
    BY ProviderFrame, Zenon DEF provVars, ProviderProgress
  <1> QED
    BY <1>1, <1>2, <1>3, <1>4, ZenonT(30)

\* An adjudication is of an inserted row that is not confirmed, and settles it.
LEMMA RulingStep ==
  ASSUME ReportInv, [Next]_vars, NEW o \in Rows, manual'[o] # manual[o]
  PROVE  /\ effects' = effects /\ manual'[o] = TRUE
         /\ delivery[o] # "absent" /\ latest[o] # "confirmed"
         /\ delivery'[o] # "absent" /\ latest'[o] \in {"confirmed", "failed"}
  <1>1. PICK p \in Rows, target \in {"confirmed", "failed"} : ResolveWriteback(p, target)
    BY ManualFrame, Zenon
  <1>2. /\ delivery[p] # "absent" /\ effects' = effects
        /\ ValidWriteback(Default(latest[p], "unknown"), target, {"evidence_adjudication"})
        /\ latest' = [latest EXCEPT ![p] = target]
        /\ delivery' = [delivery EXCEPT ![p] = "delivered"]
        /\ manual' = [manual EXCEPT ![p] = TRUE]
    BY <1>1, ZenonT(30) DEF ResolveWriteback, provVars
  <1>3. manual \in [Rows -> BOOLEAN]
    BY Zenon DEF ReportInv, HeadInv, TypeInv, TypeOK
  <1>4. o = p /\ manual'[o] = TRUE
    BY <1>2, <1>3, Zenon
  <1>5. latest[o] # "confirmed"
    BY <1>2, <1>4, Zenon DEF Default, None, ValidWriteback, WRITEBACK_STATUS_TRANSITIONS,
       WritebackStatus
  <1>6. delivery'[o] = "delivered" /\ latest'[o] = target
    BY <1>2, <1>4, StatusTypes, Zenon DEF ReportInv, HeadInv
  <1> QED
    BY <1>2, <1>4, <1>5, <1>6, ZenonT(30)

\* What the report of a row says before a step
LEMMA ReportIs ==
  ASSUME NEW o \in Rows
  PROVE  /\ ReportOf(o) \in {"none", "open", "accepted", "ended", "confirmed"}
         /\ ReportOf(o) = "none" <=> delivery[o] = "absent"
         /\ ReportOf(o) = "accepted" <=> delivery[o] # "absent" /\ latest[o] = "accepted"
         /\ ReportOf(o) = "confirmed" <=> delivery[o] # "absent" /\ latest[o] = "confirmed"
  BY Zenon DEF ReportOf, TerminalSuccess

\* The same after the step, which the provers take as a statement of its own
LEMMA ReportWillBe ==
  ASSUME NEW o \in Rows
  PROVE  /\ ReportOf(o)' \in {"none", "open", "accepted", "ended", "confirmed"}
         /\ ReportOf(o)' = "none" <=> delivery'[o] = "absent"
         /\ ReportOf(o)' = "accepted" <=> delivery'[o] # "absent" /\ latest'[o] = "accepted"
         /\ ReportOf(o)' = "confirmed" <=> delivery'[o] # "absent" /\ latest'[o] = "confirmed"
         /\ delivery'[o] # "absent" /\ latest'[o] = None => ReportOf(o)' = "open"
         /\ delivery'[o] # "absent" /\ latest'[o] = "failed" => ReportOf(o)' = "ended"
  BY Zenon DEF ReportOf, TerminalSuccess, None

\* An open command has no final status on its row.
LEMMA OpenWillBe ==
  ASSUME TypeInv', NEW o \in Rows, ReportOf(o)' = "open"
  PROVE  latest'[o] \in {None, "pending", "sending", "unknown"}
  <1>1. latest'[o] \in WritebackStatus \cup {None}
    BY Zenon DEF TypeInv, TypeOK
  <1> QED
    BY <1>1, ZenonT(30) DEF ReportOf, TerminalSuccess, WritebackStatus

\* A step of CommandDelivery for one command, through the refinement mapping
RowStep(o) ==
    \/ Delivery!Request(o) \/ Delivery!Execute(o) \/ Delivery!Report(o)
    \/ Delivery!Rule(o) \/ Delivery!Idle(o)

\* All that the refinement rests on
PromiseInv == ReportInv /\ EffectInv /\ RealInv /\ AtMostOnceEffect

\* Every step is a promised one for every row.
LEMMA RowSteps ==
  ASSUME PromiseInv, PromiseInv', [Next]_vars, NEW o \in Rows
  PROVE  RowStep(o)
  <1> DEFINE report == [p \in Rows |-> ReportOf(p)]
  <1>m. report[o] = ReportOf(o) /\ report'[o] = ReportOf(o)'
    OBVIOUS
  <1>0. /\ ReportInv /\ EffectInv /\ HeadInv /\ TypeInv /\ TypeInv'
        /\ effects[o] \in Nat /\ effects'[o] \in Nat /\ effects[o] <= 1 /\ effects'[o] <= 1
    BY Zenon DEF PromiseInv, ReportInv, HeadInv, TypeInv, TypeOK, AtMostOnceEffect
  <1>1. CASE effects'[o] # effects[o]
    <2>1. /\ UNCHANGED <<delivery, latest, manual>> /\ delivery[o] # "absent"
          /\ effects'[o] = effects[o] + 1
      BY <1>0, <1>1, ExecutionStep, ZenonT(30)
    <2>2. effects[o] = 0 /\ effects'[o] = 1
      BY <1>0, <2>1
    <2>3. ReportOf(o)' = ReportOf(o) /\ ReportOf(o) # "none"
      <3>1. ReportOf(o)' = ReportOf(o)
        BY <2>1, Zenon DEF ReportOf
      <3> QED
        BY <2>1, <3>1, ReportIs, Zenon
    <2> QED
      BY <1>m, <2>1, <2>2, <2>3, ZenonT(30) DEF RowStep, Delivery!Execute
  <1>2. CASE manual'[o] # manual[o]
    <2>1. /\ effects' = effects /\ manual'[o] = TRUE
          /\ delivery[o] # "absent" /\ latest[o] # "confirmed"
          /\ delivery'[o] # "absent" /\ latest'[o] \in {"confirmed", "failed"}
      BY <1>0, <1>2, RulingStep, ZenonT(30)
    <2>2. ReportOf(o) \in {"open", "accepted", "ended"}
      BY <2>1, ReportIs, Zenon
    <2>3. ReportOf(o)' \in {"ended", "confirmed"}
      BY <2>1, ReportWillBe, Zenon
    <2> QED
      BY <1>m, <2>1, <2>2, <2>3, ZenonT(30)
      DEF RowStep, Delivery!Rule, Delivery!Reports, Delivery!Pending
  <1>3. CASE effects'[o] = effects[o] /\ manual'[o] = manual[o]
    <2>1. ReportStep(o)
      BY <1>0, ReportSteps, Zenon
    <2>2. CASE delivery[o] = "absent"
      <3>1. ReportOf(o) = "none" /\ latest'[o] = None
        BY <2>1, <2>2, ReportIs, ZenonT(30) DEF ReportStep
      <3>2. CASE delivery'[o] = "absent"
        BY <1>m, <1>3, <3>1, <3>2, ReportWillBe, ZenonT(30) DEF RowStep, Delivery!Idle
      <3>3. CASE delivery'[o] # "absent"
        BY <1>m, <1>3, <3>1, <3>3, ReportWillBe, ZenonT(30) DEF RowStep, Delivery!Request
      <3> QED
        BY <3>2, <3>3, Zenon
    <2>3. CASE delivery[o] # "absent" /\ ReportOf(o)' # ReportOf(o)
      <3>1. delivery'[o] # "absent"
        BY <2>1, <2>3, Zenon DEF ReportStep
      <3>2. ReportOf(o)' \in {"open", "accepted", "ended", "confirmed"}
        BY <3>1, ReportWillBe, Zenon
      <3>3. latest[o] # "confirmed"
        <4>1. ASSUME latest[o] = "confirmed" PROVE FALSE
          BY <1>0, <2>3, <3>1, <4>1, ConfirmedKept, ReportIs, ReportWillBe, ZenonT(30)
        <4> QED
          BY <4>1, Zenon
      <3>4. ReportOf(o) \in {"open", "accepted", "ended"}
        BY <2>3, <3>3, ReportIs, Zenon
      <3>5. ReportOf(o)' = "open" => ReportOf(o) = "ended"
        <4>1. ASSUME ReportOf(o)' = "open" PROVE ReportOf(o) # "accepted"
          <5>1. latest'[o] \in {None, "pending", "unknown"}
            BY <1>0, <2>1, <4>1, OpenWillBe, ZenonT(30) DEF ReportStep
          <5> QED
            BY <2>1, <5>1, ReportIs, ZenonT(30) DEF ReportStep
        <4> QED
          BY <2>3, <3>4, <4>1, ZenonT(30)
      <3>6. ReportOf(o)' \in {"accepted", "confirmed"} => effects[o] = 1 \/ manual[o]
        <4>1. ASSUME ReportOf(o)' \in {"accepted", "confirmed"} PROVE Earned(o)'
          <5>1. latest'[o] \in TerminalSuccess
            BY <4>1, ReportWillBe, Zenon DEF TerminalSuccess
          <5> QED
            BY <5>1, Zenon DEF PromiseInv, RealInv
        <4>2. effects[o] > 0 => effects[o] = 1
          BY <1>0
        <4> QED
          BY <1>3, <4>1, <4>2, Zenon DEF Earned
      <3> QED
        BY <1>m, <1>3, <3>2, <3>4, <3>5, <3>6, ZenonT(30)
        DEF RowStep, Delivery!Report, Delivery!Reports, Delivery!Pending
    <2>4. CASE ReportOf(o)' = ReportOf(o)
      BY <1>m, <1>3, <2>4, ZenonT(30) DEF RowStep, Delivery!Idle
    <2> QED
      BY <2>2, <2>3, <2>4, Zenon
  <1> QED
    BY <1>1, <1>2, <1>3, ZenonT(30)

\* Read through the refinement mapping, the steps of the rows are a step of
\* CommandDelivery.
LEMMA DeliveryStep ==
  ASSUME PromiseInv, PromiseInv', [Next]_vars
  PROVE  Delivery!Next
  <1> DEFINE report == [o \in Rows |-> ReportOf(o)]
  <1>2. report' \in [Rows -> Delivery!Reports \cup {"none"}]
    BY ReportWillBe, Zenon DEF Delivery!Reports, Delivery!Pending
  <1>3. effects' \in [Rows -> {0, 1}]
    <2>1. effects' \in [Rows -> Nat] /\ \A o \in Rows : effects'[o] <= 1
      BY ZenonT(30) DEF PromiseInv, ReportInv, HeadInv, TypeInv, TypeOK, AtMostOnceEffect
    <2> QED
      BY <2>1
  <1>4. manual' \in [Rows -> BOOLEAN]
    BY Zenon DEF PromiseInv, ReportInv, HeadInv, TypeInv, TypeOK
  <1>5. \A o \in Rows : RowStep(o)
    BY RowSteps, Zenon
  <1> QED
    BY <1>2, <1>3, <1>4, <1>5, ZenonT(30) DEF Delivery!Next, RowStep

\* ImplementsDelivery: for any number of rows, workers, crashes, late requests and
\* operators, every step of the outbox is for each command a step of the promised
\* delivery or none: requested before it is executed, executed at most once, and
\* once accepted never opened again, once confirmed never changed.
THEOREM DeliveryImplemented ==
  SupportsIdempotency \/ Terminal = {} => (Spec => ImplementsDelivery)
  <1> SUFFICES ASSUME SupportsIdempotency \/ Terminal = {}
               PROVE  Spec => ImplementsDelivery
    OBVIOUS
  <1>1. Init => Delivery!Init
    BY DEF Init, Delivery!Init, ReportOf
  <1>2. PromiseInv /\ PromiseInv' /\ [Next]_vars => [Delivery!Next]_(Delivery!vars)
    BY DeliveryStep, Zenon
  <1>3. Init => ReportInv /\ EffectInv /\ RealInv
    BY ReportInit, EffectInit, RealInit, Zenon
  <1>4. ReportInv /\ EffectInv /\ RealInv /\ [Next]_vars
           => (ReportInv /\ EffectInv /\ RealInv)'
    BY ReportNext, EffectNext, RealNext, Zenon DEF ReportInv, HeadInv
  <1>5. Spec => []AtMostOnceEffect
    BY EffectOnce, Zenon
  <1>6. ReportInv /\ EffectInv /\ RealInv /\ AtMostOnceEffect => PromiseInv
    BY Zenon DEF PromiseInv
  <1> QED
    BY <1>1, <1>2, <1>3, <1>4, <1>5, <1>6, PTL DEF Spec, ImplementsDelivery, Delivery!Spec

-----------------------------------------------------------------------------
(* No blind resubmission.  With one process, a row waits in a batch only    *)
(* while its lease fences it from the operator's retry, or once it has a    *)
(* receipt or CONFIRMED, with either of which it is not sent.               *)

OneProcess == \A v, w \in Workers : v = w

\* The next submission of the row is its first, or a lookup cleared it.
Fresh(o) == submits[o] = 0 \/ cleared[o]

\* The row is leased, or _deliver_outbox would not send it.
Backed(o) == receipt[o] # None \/ delivery[o] = "leased" \/ latest[o] = "confirmed"

\* The inductive invariant: of the entity rows
EntityInv ==
    \A o \in Rows \ Terminal :
       /\ Fresh(o) \/ delivery[o] \notin {"absent", "ready"}
       /\ \A w \in Workers : Holds(w, o) => Fresh(o) /\ Backed(o)

\* and of the row in hand, which has left the batch.
ApartInv == \A w \in Workers : pc[w] \in {"commit", "mark"} => cur[w] \notin batch[w]

\* What a step that neither sends nor hands out the row does to it
BlindStep(p) ==
    /\ Fresh(p) => Fresh(p)'
    /\ delivery'[p] \in {"absent", "ready"} => delivery[p] \in {"absent", "ready"} \/ Fresh(p)'
    /\ \A w \in Workers : Holds(w, p)' => Holds(w, p) /\ (Backed(p) => Backed(p)')

\* Such steps keep the invariant.
LEMMA BlindKept ==
  ASSUME EntityInv, \A p \in Rows \ Terminal : BlindStep(p)
  PROVE  EntityInv'
  BY Zenon DEF EntityInv, BlindStep

\* A step that writes one row, which is in no batch after it
LEMMA BlindRow ==
  ASSUME EntityInv, NEW o \in Rows, NoNewHolder, \A v \in Workers : ~Holds(v, o)',
         submits' = submits, \A p \in Rows : cleared[p] => cleared'[p],
         \A p \in Rows \ {o} : /\ delivery'[p] = delivery[p] /\ latest'[p] = latest[p]
                                /\ receipt'[p] = receipt[p],
         delivery'[o] \in {"absent", "ready"} =>
            delivery[o] \in {"absent", "ready"} \/ cleared'[o]
  PROVE  EntityInv'
  <1>1. \A p \in Rows : Fresh(p) => Fresh(p)'
    BY Zenon DEF Fresh
  <1>2. ASSUME NEW p \in Rows \ Terminal, p # o PROVE BlindStep(p)
    BY <1>1, <1>2, Zenon DEF BlindStep, Backed, NoNewHolder
  <1>3. ASSUME o \notin Terminal PROVE BlindStep(o)
    BY <1>1, Zenon DEF BlindStep, Fresh
  <1> QED
    BY <1>2, <1>3, BlindKept, Zenon

\* A step that writes no row
LEMMA BlindFrame ==
  ASSUME EntityInv, NoNewHolder, UNCHANGED <<delivery, latest, receipt, submits, cleared>>
  PROVE  EntityInv'
  <1>1. \A p \in Rows \ Terminal : BlindStep(p)
    BY Zenon DEF BlindStep, Fresh, Backed, NoNewHolder
  <1> QED
    BY <1>1, BlindKept, Zenon

-----------------------------------------------------------------------------
\* The row in hand has left the batch: whoever takes one in hand for a delivery
\* drops it from the batch, and the others have none.
LEMMA ApartNext ==
  ASSUME TypeInv, ApartInv, [Next]_vars
  PROVE  ApartInv'
  <1>1. ASSUME UNCHANGED <<pc, batch, cur>> PROVE ApartInv'
    BY <1>1, Zenon DEF ApartInv
  <1>2. ASSUME NEW w \in Workers, NEW k \in PCs \ {"commit", "mark"},
               pc' = [pc EXCEPT ![w] = k],
               \A v \in Workers \ {w} : cur'[v] = cur[v] /\ batch'[v] = batch[v]
        PROVE  ApartInv'
    BY <1>2, WorkerTypes, Zenon DEF ApartInv
  <1>3. ASSUME NEW w \in Workers, NEW rest, Advance(w, rest) PROVE ApartInv'
    <2>1. \A v \in Workers \ {w} : cur'[v] = cur[v] /\ batch'[v] = batch[v]
      BY <1>3, WorkerTypes, Zenon DEF Advance
    <2>2. \E k \in {"idle", "deliver"} : pc' = [pc EXCEPT ![w] = k]
      BY <1>3, Zenon DEF Advance
    <2> QED
      BY <1>2, <2>1, <2>2, Zenon DEF PCs
  <1>4. ASSUME NEW w \in Workers, NEW o, cur' = [cur EXCEPT ![w] = o],
               batch' = [batch EXCEPT ![w] = @ \ {o}], NEW k, pc' = [pc EXCEPT ![w] = k]
        PROVE  ApartInv'
    <2>1. cur'[w] = o /\ o \notin batch'[w]
      BY <1>4, WorkerTypes, Zenon
    <2>2. \A v \in Workers \ {w} : cur'[v] = cur[v] /\ batch'[v] = batch[v] /\ pc'[v] = pc[v]
      BY <1>4, WorkerTypes, Zenon
    <2> QED
      BY <2>1, <2>2, Zenon DEF ApartInv
  <1>5. ASSUME NEW w \in Workers, NEW o, NEW kind, FailDelivery(w, o, kind) PROVE ApartInv'
    BY <1>3, <1>4, <1>5, Zenon DEF FailDelivery
  <1>6. ASSUME NEW w \in Workers, NEW o, NEW s, Receive(w, o, s) PROVE ApartInv'
    BY <1>4, <1>6, Zenon DEF Receive
  <1>7. ASSUME NEW w \in Workers, AfterApply(w) PROVE ApartInv'
    <2>1. \A v \in Workers \ {w} : cur'[v] = cur[v] /\ batch'[v] = batch[v]
      BY <1>7, WorkerTypes, Zenon DEF AfterApply
    <2>2. \E k \in {"claim", "lookup"} : pc' = [pc EXCEPT ![w] = k]
      BY <1>7, Zenon DEF AfterApply
    <2> QED
      BY <1>2, <2>1, <2>2, Zenon DEF PCs
  <1>8. ASSUME NEW w \in Workers, ReconcileStep(w) PROVE ApartInv'
    <2>1. CASE ClaimPaused(w)
      <3>1. \A v \in Workers \ {w} : cur'[v] = cur[v] /\ batch'[v] = batch[v]
        BY <2>1, WorkerTypes, Zenon DEF ClaimPaused
      <3>2. \E k \in {"claim", "lookup"} : pc' = [pc EXCEPT ![w] = k]
        BY <2>1, Zenon DEF ClaimPaused
      <3> QED
        BY <1>2, <3>1, <3>2, Zenon DEF PCs
    <2>2. ASSUME NEW o \in Rows, LookupPaused(w, o) PROVE ApartInv'
      BY <1>4, <2>2, Zenon DEF LookupPaused
    <2> QED
      BY <1>7, <1>8, <2>1, <2>2, Zenon DEF ReconcileStep, ApplyStale, ApplyInconclusive,
         ApplyRejected, ApplyNeverAccepted, ApplyFound, ApplyIllegal
  <1>9. ASSUME NEW w \in Workers, ClaimBatch(w) PROVE ApartInv'
    <2>1. \A v \in Workers \ {w} : cur'[v] = cur[v] /\ batch'[v] = batch[v]
      BY <1>9, WorkerTypes, Zenon DEF ClaimBatch
    <2>2. \E k \in {"idle", "deliver"} : pc' = [pc EXCEPT ![w] = k]
      BY <1>9, Zenon DEF ClaimBatch
    <2> QED
      BY <1>2, <2>1, <2>2, Zenon DEF PCs
  <1>10. ASSUME NEW w \in Workers, DeliverStep(w) PROVE ApartInv'
    <2>1. \/ \E rest : Advance(w, rest)
          \/ \E o, kind : FailDelivery(w, o, kind)
          \/ \E o, s : Receive(w, o, s)
      BY <1>10, ZenonT(30) DEF DeliverStep, DeliverSuperseded, DeliverSkip, DeliverExpired,
         DeliverFenced, DeliverInvalid, SubmitAnswered, SubmitLost, SubmitRefused,
         CommitDelivered, CommitUnknown, CommitRollsBack, Mark, MarkStale
    <2> QED
      BY <1>3, <1>5, <1>6, <2>1, Zenon
  <1>11. ASSUME NEW w \in Workers, Crash(w) PROVE ApartInv'
    <2>1. \A v \in Workers \ {w} : cur'[v] = cur[v] /\ batch'[v] = batch[v]
      BY <1>11, WorkerTypes, Zenon DEF Crash
    <2> QED
      BY <1>2, <1>11, <2>1, Zenon DEF PCs, Crash
  <1>12. ASSUME NEW w \in Workers, NEW o \in Rows, ActivateAndSubmit(w, o) PROVE ApartInv'
    <2>1. \A v \in Workers \ {w} : cur'[v] = cur[v] /\ batch'[v] = batch[v]
      BY <1>12, WorkerTypes, Zenon DEF ActivateAndSubmit
    <2> QED
      BY <1>2, <1>12, <2>1, Zenon DEF PCs, ActivateAndSubmit
  <1>13. ASSUME NEW o \in Rows,
                \/ EnqueueEntity(o) \/ OperatorStep(o) \/ ActionStep(o)
                \/ LeaseExpires(o) \/ WireDelivers(o) \/ ProviderProgress(o)
         PROVE  UNCHANGED <<pc, batch, cur>>
    BY <1>13, ZenonT(30) DEF EnqueueEntity, OperatorStep, ActionStep, RetryBlocked,
       RetryReconcile, RetryReenqueue, ResolveWriteback, RecoveryLookup, RecoveryApply,
       ReclaimAction, ReattachAction, CompleteEffect, ResolveUnknown, SetAction,
       LeaseExpires, WireDelivers, ProviderProgress, workVars
  <1>14. CASE UNCHANGED vars
    BY <1>1, <1>14, Zenon DEF vars, workVars
  <1> QED
    BY <1>1, <1>8, <1>9, <1>10, <1>11, <1>12, <1>13, <1>14, Zenon DEF Next, WorkerStep

-----------------------------------------------------------------------------
\* The paused reconcile runs while its process has no batch to deliver.
LEMMA BlindReconcile ==
  ASSUME OneProcess, TypeInv, EntityInv, NEW w \in Workers, ReconcileStep(w)
  PROVE  EntityInv'
  <1>1. ASSUME pc[w] \in {"idle", "lookup", "apply"}, NoNewHolder
        PROVE  \A v \in Workers, p \in Rows \ Terminal : ~Holds(v, p)'
    BY <1>1, Zenon DEF OneProcess, NoNewHolder, Holds
  <1>2. CASE ClaimPaused(w)
    <2>1. NoNewHolder
      BY <1>2, Zenon DEF ClaimPaused, TypeInv, TypeOK, NoNewHolder, Holds
    <2> QED
      BY <1>2, <2>1, BlindFrame, Zenon DEF ClaimPaused, histVars
  <1>3. ASSUME NEW o \in Rows, LookupPaused(w, o) PROVE EntityInv'
    <2>1. NoNewHolder
      BY <1>3, Zenon DEF LookupPaused, TypeInv, TypeOK, NoNewHolder, Holds
    <2> QED
      BY <1>3, <2>1, BlindFrame, Zenon DEF LookupPaused, rowVars, histVars
  <1>4. ASSUME pc[w] = "apply", AfterApply(w), cur[w] \in Rows,
               \/ UNCHANGED <<delivery, cleared>>
               \/ /\ cleared' = cleared
                  /\ \E d \in {"dead_letter", "delivered"} :
                        delivery' = [delivery EXCEPT ![cur[w]] = d]
               \/ /\ cleared' = [cleared EXCEPT ![cur[w]] = TRUE]
                  /\ delivery' = [delivery EXCEPT ![cur[w]] = "ready"]
        PROVE  EntityInv'
    <2>1. \A v \in Workers, p \in Rows \ Terminal : ~Holds(v, p)'
      BY <1>1, <1>4, HoldersAfterApply, Zenon
    <2>2. submits' = submits
      BY <1>4, Zenon DEF AfterApply
    <2>3. cleared \in [Rows -> BOOLEAN]
      BY Zenon DEF TypeInv, TypeOK
    <2>4. \A p \in Rows : cleared[p] => cleared'[p]
      BY <1>4, <2>3, Zenon
    <2>5. \A p \in Rows : delivery'[p] \in {"absent", "ready"} =>
             delivery[p] \in {"absent", "ready"} \/ cleared'[p]
      BY <1>4, <2>3, StatusTypes, Zenon
    <2>6. \A p \in Rows \ Terminal : BlindStep(p)
      BY <2>1, <2>2, <2>4, <2>5, Zenon DEF BlindStep, Fresh
    <2> QED
      BY <2>6, BlindKept, Zenon
  <1>5. pc[w] = "apply" => cur[w] \in Rows
    BY WorkerTypes, Zenon
  <1>6. CASE ApplyStale(w) \/ ApplyInconclusive(w) \/ ApplyIllegal(w)
    BY <1>4, <1>5, <1>6, Zenon DEF ApplyStale, ApplyInconclusive, ApplyIllegal
  <1>7. CASE ApplyRejected(w) \/ ApplyFound(w)
    BY <1>4, <1>5, <1>7, Zenon DEF ApplyRejected, ApplyFound
  <1>8. CASE ApplyNeverAccepted(w)
    BY <1>4, <1>5, <1>8, Zenon DEF ApplyNeverAccepted
  <1> QED
    BY <1>2, <1>3, <1>6, <1>7, <1>8, Zenon DEF ReconcileStep

\* _claim_batch leases what it hands out, and hands out READY rows only.
LEMMA BlindClaimBatch ==
  ASSUME OneProcess, TypeInv, EntityInv, NEW w \in Workers, ClaimBatch(w)
  PROVE  EntityInv'
  <1> DEFINE due == DueRows
  <1>1. \A o \in due : o \in Rows /\ delivery[o] = "ready"
    BY Zenon DEF DueRows
  <1>2. /\ pc[w] = "claim" /\ batch' = [batch EXCEPT ![w] = due]
        /\ submits' = submits /\ cleared' = cleared
    BY Zenon DEF ClaimBatch, histVars
  <1>3. \A o \in Rows : /\ o \in due => delivery'[o] = "leased"
                        /\ o \notin due => delivery'[o] \in {delivery[o], "paused"}
    BY Zenon DEF ClaimBatch
  <1> HIDE DEF due
  <1>4. \A p \in Rows, v \in Workers : Holds(v, p)' => p \in due
    BY <1>2, WorkerTypes, Zenon DEF Holds, OneProcess
  <1>5. \A p \in Rows : Fresh(p)' <=> Fresh(p)
    BY <1>2, Zenon DEF Fresh
  <1>6. ASSUME NEW o \in Rows \ Terminal
        PROVE  /\ Fresh(o)' \/ delivery'[o] \notin {"absent", "ready"}
               /\ \A v \in Workers : Holds(v, o)' => Fresh(o)' /\ Backed(o)'
    <2>1. CASE o \in due
      <3>1. Fresh(o)'
        BY <1>1, <1>5, <2>1, Zenon DEF EntityInv
      <3>2. Backed(o)'
        BY <1>3, <2>1, Zenon DEF Backed
      <3> QED
        BY <3>1, <3>2, Zenon
    <2>2. CASE o \notin due
      <3>1. Fresh(o)' \/ delivery'[o] \notin {"absent", "ready"}
        BY <1>3, <1>5, <2>2, Zenon DEF EntityInv
      <3> QED
        BY <1>4, <2>2, <3>1, Zenon
    <2> QED
      BY <2>1, <2>2, Zenon
  <1> QED
    BY <1>6, Zenon DEF EntityInv

-----------------------------------------------------------------------------
\* A delivery step without a submission lets go of the row it writes.
LEMMA BlindDeliverQuiet ==
  ASSUME OneProcess, TypeInv, EntityInv, NEW w \in Workers, NEW o \in Rows,
         \/ DeliverSuperseded(w, o) \/ DeliverSkip(w, o) \/ DeliverExpired(w, o)
         \/ DeliverFenced(w, o) \/ DeliverInvalid(w, o)
  PROVE  EntityInv'
  <1>1. pc[w] = "deliver" /\ batch[w] \ {o} \in SUBSET batch[w]
    BY Zenon DEF DeliverSuperseded, DeliverSkip, DeliverExpired, DeliverFenced, DeliverInvalid,
       Delivering
  <1>2. UNCHANGED <<submits, cleared, receipt>>
    BY Zenon DEF DeliverSuperseded, DeliverSkip, DeliverExpired, DeliverFenced, DeliverInvalid,
       histVars, rowVars
  <1>3. \/ delivery' = delivery
        \/ \E d \in {"dead_letter", "paused"} : delivery' = [delivery EXCEPT ![o] = d]
    BY Zenon DEF DeliverSuperseded, DeliverSkip, DeliverExpired, DeliverFenced,
       DeliverInvalid, Block, rowVars
  <1>4. latest' = latest \/ latest' = [latest EXCEPT ![o] = "unknown"]
    BY Zenon DEF DeliverSuperseded, DeliverSkip, DeliverExpired, DeliverFenced,
       DeliverInvalid, rowVars
  <1>5. Advance(w, batch[w] \ {o}) \/ \E kind \in Kinds : FailDelivery(w, o, kind)
    BY Zenon DEF DeliverSuperseded, DeliverSkip, DeliverExpired, DeliverFenced, DeliverInvalid
  <1>6. NoNewHolder /\ ~Holds(w, o)'
    BY <1>1, <1>5, HoldersAdvance, HoldersFail, Zenon
  <1>7. \A p \in Rows \ {o} : delivery'[p] = delivery[p] /\ latest'[p] = latest[p]
    BY <1>3, <1>4, StatusTypes, Zenon
  <1>8. delivery'[o] \in {"absent", "ready"} => delivery[o] \in {"absent", "ready"}
    BY <1>3, StatusTypes, Zenon
  <1>9. \A v \in Workers : ~Holds(v, o)'
    BY <1>6, Zenon DEF OneProcess
  <1> QED
    BY <1>2, <1>6, <1>7, <1>8, <1>9, BlindRow, Zenon

\* What is sent was in the batch: it was fresh.  It was leased, and stays so.
LEMMA BlindSubmit ==
  ASSUME OneProcess, HeadInv, EntityInv, NEW w \in Workers, NEW o \in Rows,
         SubmitAnswered(w, o) \/ SubmitLost(w, o) \/ SubmitRefused(w, o)
  PROVE  EntityInv' /\ (o \notin Terminal => Fresh(o))
  <1>1. Submits(w, o) /\ TypeInv
    BY Zenon DEF SubmitAnswered, SubmitLost, SubmitRefused, HeadInv
  <1>2. Holds(w, o) /\ pc[w] = "deliver"
    BY <1>1, Zenon DEF Submits, Delivering, Holds
  <1>3. (\E s : Receive(w, o, s)) \/ \E kind : FailDelivery(w, o, kind)
    BY Zenon DEF SubmitAnswered, SubmitLost, SubmitRefused
  <1>4. NoNewHolder /\ ~Holds(w, o)'
    BY <1>1, <1>2, <1>3, HoldersReceive, HoldersFail, Zenon
  <1>5. /\ UNCHANGED <<delivery, latest, receipt>>
        /\ \A p \in Rows \ {o} : submits'[p] = submits[p] /\ cleared'[p] = cleared[p]
    BY <1>1, Zenon DEF Submits, rowVars, TypeInv, TypeOK
  <1>6. o \notin Terminal => Fresh(o) /\ Backed(o)
    BY <1>2, Zenon DEF EntityInv
  <1>7. receipt[o] = None /\ latest[o] \in {None, "pending", "sending", "partial"}
    BY <1>1, Zenon DEF Submits
  <1>8. o \notin Terminal => delivery[o] = "leased"
    BY <1>6, <1>7, Zenon DEF Backed, None
  <1>9. \A v \in Workers : ~Holds(v, o)'
    BY <1>4, Zenon DEF OneProcess
  <1>10. ASSUME NEW p \in Rows \ Terminal
         PROVE  /\ Fresh(p)' \/ delivery'[p] \notin {"absent", "ready"}
                /\ \A v \in Workers : Holds(v, p)' => Fresh(p)' /\ Backed(p)'
    <2>1. CASE p = o
      BY <1>5, <1>8, <1>9, <2>1, Zenon
    <2>2. CASE p # o
      <3>1. (Fresh(p)' <=> Fresh(p)) /\ (Backed(p)' <=> Backed(p))
        BY <1>5, <2>2, Zenon DEF Fresh, Backed
      <3> QED
        BY <1>4, <1>5, <3>1, Zenon DEF EntityInv, NoNewHolder
    <2> QED
      BY <2>1, <2>2, Zenon
  <1> QED
    BY <1>6, <1>10, Zenon DEF EntityInv

\* The commit, and the handlers after it, write the row in hand, which is in no
\* batch.
LEMMA BlindCommit ==
  ASSUME OneProcess, TypeInv, EntityInv, ApartInv, NEW w \in Workers,
         \/ CommitDelivered(w) \/ CommitUnknown(w) \/ CommitRollsBack(w)
         \/ Mark(w) \/ MarkStale(w)
  PROVE  EntityInv'
  <1>1. pc[w] \in {"commit", "mark"} /\ cur[w] \in Rows
    BY Zenon DEF CommitDelivered, CommitUnknown, CommitRollsBack, Mark, MarkStale,
       TypeInv, InHand
  <1>2. UNCHANGED <<submits, cleared>>
    BY Zenon DEF CommitDelivered, CommitUnknown, CommitRollsBack, Mark, MarkStale, histVars
  <1>3. \/ delivery' = delivery
        \/ \E d \in {"dead_letter", "paused", "delivered"} :
              delivery' = [delivery EXCEPT ![cur[w]] = d]
    BY Zenon DEF CommitDelivered, CommitUnknown, CommitRollsBack, Mark, MarkStale,
       MarkedDelivery, rowVars
  <1>4. \/ UNCHANGED <<latest, receipt>>
        \/ \E s : /\ latest' = [latest EXCEPT ![cur[w]] = s]
                  /\ receipt' = [receipt EXCEPT ![cur[w]] = s]
    BY Zenon DEF CommitDelivered, CommitUnknown, CommitRollsBack, Mark, MarkStale, rowVars
  <1>5. Advance(w, batch[w]) \/ FailDelivery(w, cur[w], "ambiguous")
    BY Zenon DEF CommitDelivered, CommitUnknown, CommitRollsBack, Mark, MarkStale
  <1>6. NoNewHolder
    BY <1>1, <1>5, HoldersAdvance, HoldersFail, Zenon
  <1>7. batch'[w] \subseteq batch[w]
    <2>1. \E rest \in SUBSET batch[w] : batch' = [batch EXCEPT ![w] = rest]
      <3>1. batch[w] \in SUBSET batch[w] /\ batch[w] \ {cur[w]} \in SUBSET batch[w]
        BY Zenon
      <3> QED
        BY <1>5, <3>1, Zenon DEF FailDelivery, Advance
    <2> QED
      BY <2>1, WorkerTypes, Zenon
  <1>8. PICK o \in Rows : o = cur[w]
    BY <1>1, Zenon
  <1>9. \A v \in Workers : ~Holds(v, o)'
    <2>1. o \notin batch'[w]
      BY <1>1, <1>7, <1>8, Zenon DEF ApartInv
    <2> QED
      BY <2>1, Zenon DEF OneProcess, Holds
  <1>10. \A p \in Rows \ {o} : /\ delivery'[p] = delivery[p] /\ latest'[p] = latest[p]
                              /\ receipt'[p] = receipt[p]
    <2>1. \A p \in Rows \ {o} : delivery'[p] = delivery[p]
      BY <1>3, <1>8, StatusTypes, Zenon
    <2>2. receipt \in [Rows -> WritebackStatus \cup {None}]
      BY Zenon DEF TypeInv, TypeOK
    <2>3. \A p \in Rows \ {o} : latest'[p] = latest[p] /\ receipt'[p] = receipt[p]
      BY <1>4, <1>8, <2>2, StatusTypes, Zenon
    <2> QED
      BY <2>1, <2>3, Zenon
  <1>11. delivery'[o] \in {"absent", "ready"} => delivery[o] \in {"absent", "ready"}
    BY <1>3, <1>8, StatusTypes, Zenon
  <1> QED
    BY <1>2, <1>6, <1>9, <1>10, <1>11, BlindRow, Zenon

-----------------------------------------------------------------------------
\* A leased row is not sent, not looked up and not settled, so the one success a
\* recovery lookup may write on it is CONFIRMED.
LEMMA LeasedSuccess ==
  ASSUME ReportInv, NEW o \in Rows, delivery[o] = "leased", NEW s \in TerminalSuccess,
         ValidWriteback(Default(latest[o], "pending"), s, {"evidence_adjudication"})
  PROVE  s = "confirmed"
  <1>1. supersededBy[o] = None
    BY Zenon DEF ReportInv, HeadInv, RowInv, SupersededIsFenced
  <1>2. latest[o] \notin {"accepted", "unknown", "sending", "confirmed"}
    BY <1>1, QueuedReport, Zenon DEF ReportInv, SendInv, HeadInv, RowInv, Unsettled
  <1>3. latest[o] \in WritebackStatus \cup {None}
    BY StatusTypes, Zenon DEF ReportInv, HeadInv
  <1>4. Default(latest[o], "pending") \in {"pending", "partial", "failed", "conflict"}
    BY <1>2, <1>3, Zenon DEF Default, WritebackStatus
  <1>5. s \in WRITEBACK_STATUS_TRANSITIONS[Default(latest[o], "pending")]
    BY Zenon DEF ValidWriteback
  <1> QED
    BY <1>4, <1>5 DEF WRITEBACK_STATUS_TRANSITIONS, WritebackStatus, TerminalSuccess

\* The operator's entry points: a retry passes by the lease, and what is not
\* leased but in a batch has a receipt.
LEMMA BlindOperator ==
  ASSUME ReportInv, EntityInv, [Next]_vars, NEW o \in Rows, OperatorStep(o)
  PROVE  EntityInv'
  <1>1. TypeInv /\ HeadInv
    BY Zenon DEF ReportInv, HeadInv
  <1>2. UNCHANGED <<pc, batch, submits>>
    BY Zenon DEF OperatorStep, RetryBlocked, RetryReconcile, RetryReenqueue,
       ResolveWriteback, RecoveryLookup, RecoveryApply, workVars, histVars
  <1>3. NoNewHolder
    BY <1>2, HoldersIdle, Zenon
  <1>4. /\ receipt \in [Rows -> WritebackStatus \cup {None}]
        /\ cleared \in [Rows -> BOOLEAN]
    BY <1>1, Zenon DEF TypeInv, TypeOK
  <1>5. ASSUME delivery' = delivery \/ \E d : delivery' = [delivery EXCEPT ![o] = d],
               latest' = latest \/ \E s : latest' = [latest EXCEPT ![o] = s],
               receipt' = receipt \/ \E s : receipt' = [receipt EXCEPT ![o] = s],
               cleared' = cleared \/ cleared' = [cleared EXCEPT ![o] = TRUE],
               delivery'[o] \in {"absent", "ready"} =>
                  delivery[o] \in {"absent", "ready"} \/ cleared'[o],
               Backed(o) => Backed(o)'
        PROVE  EntityInv'
    <2>1. \A p \in Rows : cleared[p] => cleared'[p]
      BY <1>4, <1>5, Zenon
    <2>2. \A p \in Rows : Fresh(p) => Fresh(p)'
      BY <1>2, <2>1, Zenon DEF Fresh
    <2>3. \A p \in Rows \ {o} : delivery'[p] = delivery[p]
      BY <1>1, <1>5, StatusTypes, Zenon
    <2>4. \A p \in Rows \ {o} : latest'[p] = latest[p]
      BY <1>1, <1>5, StatusTypes, Zenon
    <2>5. \A p \in Rows \ {o} : receipt'[p] = receipt[p]
      BY <1>4, <1>5, Zenon
    <2>6. ASSUME NEW p \in Rows \ Terminal PROVE BlindStep(p)
      <3>1. CASE p # o
        BY <1>3, <2>2, <2>3, <2>4, <2>5, <3>1, Zenon DEF BlindStep, Backed, NoNewHolder
      <3>2. CASE p = o
        <4>1. cleared'[p] => Fresh(p)'
          BY Zenon DEF Fresh
        <4> QED
          BY <1>3, <1>5, <2>2, <3>2, <4>1, Zenon DEF BlindStep, NoNewHolder
      <3> QED
        BY <3>1, <3>2, Zenon
    <2> QED
      BY <2>6, BlindKept, Zenon
  <1>6. ASSUME Retryable(o), Backed(o) PROVE receipt[o] # None
    BY <1>6, Zenon DEF Retryable, Backed, EligibleForRetryPause
  <1>7. CASE RetryBlocked(o)
    <2>1. /\ delivery' = [delivery EXCEPT ![o] = "paused"]
          /\ UNCHANGED <<latest, receipt, cleared>>
      BY <1>7, Zenon DEF RetryBlocked, histVars
    <2>2. Backed(o) => Backed(o)'
      BY <1>6, <1>7, <2>1, Zenon DEF RetryBlocked, Backed
    <2>3. delivery'[o] = "paused"
      BY <1>1, <2>1, StatusTypes, Zenon
    <2> QED
      BY <1>5, <2>1, <2>2, <2>3, Zenon
  <1>8. CASE RetryReconcile(o)
    <2>1. PICK s \in TerminalSuccess : /\ latest' = [latest EXCEPT ![o] = s]
                                       /\ receipt' = [receipt EXCEPT ![o] = s]
      BY <1>8, Zenon DEF RetryReconcile
    <2>2. delivery' = [delivery EXCEPT ![o] = "delivered"] /\ cleared' = cleared
      BY <1>8, Zenon DEF RetryReconcile, histVars
    <2>3. Backed(o)'
      BY <1>4, <2>1, Zenon DEF Backed, TerminalSuccess, None
    <2>4. delivery'[o] = "delivered"
      BY <1>1, <2>2, StatusTypes, Zenon
    <2> QED
      BY <1>5, <2>1, <2>2, <2>3, <2>4, Zenon
  <1>9. CASE RetryReenqueue(o)
    <2>1. /\ delivery' = [delivery EXCEPT ![o] = "ready"]
          /\ latest' = [latest EXCEPT ![o] = "pending"]
          /\ cleared' = [cleared EXCEPT ![o] = TRUE]
          /\ receipt' = receipt
      BY <1>9, Zenon DEF RetryReenqueue
    <2>2. Backed(o) => Backed(o)'
      BY <1>6, <1>9, <2>1, Zenon DEF RetryReenqueue, Backed
    <2>3. cleared'[o]
      BY <1>4, <2>1, Zenon
    <2> QED
      BY <1>5, <2>1, <2>2, <2>3, Zenon
  <1>10. ASSUME NEW target \in {"confirmed", "failed"}, ResolveWriteback(o, target)
         PROVE  EntityInv'
    <2>1. /\ delivery' = [delivery EXCEPT ![o] = "delivered"]
          /\ latest' = [latest EXCEPT ![o] = target]
          /\ receipt' = [receipt EXCEPT ![o] = target]
          /\ cleared' = cleared
      BY <1>10, Zenon DEF ResolveWriteback
    <2>2. Backed(o)'
      BY <1>4, <2>1, Zenon DEF Backed, None
    <2>3. delivery'[o] = "delivered"
      BY <1>1, <2>1, StatusTypes, Zenon
    <2> QED
      BY <1>5, <2>1, <2>2, <2>3, Zenon
  <1>11. CASE RecoveryLookup(o)
    BY <1>3, <1>11, BlindFrame, Zenon DEF RecoveryLookup, rowVars, histVars
  <1>12. CASE RecoveryApply(o)
    <2>1. UNCHANGED <<receipt, cleared>>
      BY <1>12, Zenon DEF RecoveryApply, histVars
    <2>2. latest' = latest \/ latest' = [latest EXCEPT ![o] = recovery[o]]
      BY <1>12, Zenon DEF RecoveryApply
    <2>3. \/ delivery' = delivery
          \/ /\ delivery' = [delivery EXCEPT ![o] = "delivered"]
             /\ latest' = [latest EXCEPT ![o] = recovery[o]]
             /\ recovery[o] \in TerminalSuccess
             /\ ValidWriteback(Default(latest[o], "pending"), recovery[o],
                               {"evidence_adjudication"})
      BY <1>12, Zenon DEF RecoveryApply
    <2>4. delivery'[o] \in {delivery[o], "delivered"}
      BY <1>1, <2>3, StatusTypes, Zenon
    <2>5. ASSUME delivery[o] = "leased" PROVE Backed(o)'
      <3>1. CASE delivery' = delivery
        BY <2>5, <3>1, Zenon DEF Backed
      <3>2. CASE delivery' # delivery
        <4>1. recovery[o] = "confirmed"
          BY <2>3, <2>5, <3>2, LeasedSuccess, Zenon
        <4>2. latest'[o] = "confirmed"
          BY <1>1, <2>3, <3>2, <4>1, StatusTypes, Zenon
        <4> QED
          BY <4>2, Zenon DEF Backed
      <3> QED
        BY <3>1, <3>2, Zenon
    <2>6. latest[o] = "confirmed" => latest'[o] = "confirmed"
      BY <1>1, ConfirmedKept, Zenon
    <2>7. Backed(o) => Backed(o)'
      BY <2>1, <2>5, <2>6, Zenon DEF Backed
    <2> QED
      BY <1>5, <2>1, <2>2, <2>3, <2>4, <2>7, Zenon
  <1> QED
    BY <1>7, <1>8, <1>9, <1>10, <1>11, <1>12, Zenon DEF OperatorStep

\* Enqueueing, activation, the bound action, time and the source system
LEMMA BlindOther ==
  ASSUME OneProcess, TypeInv, EntityInv, NEW o \in Rows,
         \/ EnqueueEntity(o) \/ ActionStep(o) \/ LeaseExpires(o) \/ WireDelivers(o)
         \/ ProviderProgress(o) \/ \E w \in Workers : ActivateAndSubmit(w, o)
  PROVE  EntityInv'
  <1>1. CASE ActionStep(o) \/ LeaseExpires(o) \/ WireDelivers(o) \/ ProviderProgress(o)
    <2>1. UNCHANGED <<pc, batch, delivery, latest, receipt, submits, cleared>>
      BY <1>1, Zenon DEF ActionStep, ReclaimAction, ReattachAction, CompleteEffect,
         ResolveUnknown, SetAction, LeaseExpires, WireDelivers, ProviderProgress,
         rowVars, workVars, histVars
    <2> QED
      BY <2>1, HoldersIdle, BlindFrame, Zenon
  <1>2. CASE EnqueueEntity(o)
    <2>1. /\ delivery[o] = "absent" /\ delivery' = [delivery EXCEPT ![o] = "ready"]
          /\ UNCHANGED <<pc, batch, latest, receipt, submits, cleared>>
      BY <1>2, Zenon DEF EnqueueEntity, workVars, histVars
    <2>2. \A p \in Rows : /\ delivery'[p] \in {"absent", "ready"} =>
                                delivery[p] \in {"absent", "ready"}
                          /\ delivery[p] = "leased" => delivery'[p] = "leased"
      BY <2>1, StatusTypes, Zenon
    <2>3. \A p \in Rows \ Terminal : BlindStep(p)
      BY <2>1, <2>2, Zenon DEF BlindStep, Fresh, Backed, Holds
    <2> QED
      BY <2>3, BlindKept, Zenon
  <1>3. ASSUME NEW w \in Workers, ActivateAndSubmit(w, o) PROVE EntityInv'
    <2>1. /\ o \in Terminal /\ batch' = [batch EXCEPT ![w] = {o}]
          /\ UNCHANGED <<latest, receipt, submits, cleared>>
      BY <1>3, Zenon DEF ActivateAndSubmit, histVars
    <2>2. \A v \in Workers, p \in Rows \ Terminal : ~Holds(v, p)'
      BY <2>1, WorkerTypes, Zenon DEF OneProcess, Holds
    <2>3. \A p \in Rows \ Terminal : delivery'[p] = delivery[p]
      BY <1>3, Zenon DEF ActivateAndSubmit, StoppedHeads, ActiveHeads
    <2>4. \A p \in Rows \ Terminal : BlindStep(p)
      BY <2>1, <2>2, <2>3, Zenon DEF BlindStep, Fresh
    <2> QED
      BY <2>4, BlindKept, Zenon
  <1> QED
    BY <1>1, <1>2, <1>3, Zenon

\* No row exists, nothing was submitted.
LEMMA BlindInit == Init => EntityInv /\ ApartInv
  <1>1. Init => EntityInv
    BY DEF Init, EntityInv, Fresh, Holds
  <1>2. Init => ApartInv
    BY DEF Init, ApartInv
  <1> QED
    BY <1>1, <1>2, Zenon

\* With one process every step keeps the invariant.
LEMMA BlindNext ==
  ASSUME OneProcess, ReportInv, EntityInv, ApartInv, [Next]_vars
  PROVE  EntityInv'
  <1>1. TypeInv /\ HeadInv
    BY Zenon DEF ReportInv, HeadInv
  <1>2. ASSUME NEW w \in Workers, WorkerStep(w) PROVE EntityInv'
    BY <1>1, <1>2, BlindReconcile, BlindClaimBatch, BlindDeliverQuiet, BlindSubmit,
       BlindCommit, ZenonT(30) DEF WorkerStep, DeliverStep
  <1>3. ASSUME NEW w \in Workers, Crash(w) PROVE EntityInv'
    <2>1. NoNewHolder
      BY <1>1, <1>3, Zenon DEF Crash, NoNewHolder, Holds, TypeInv, TypeOK
    <2> QED
      BY <1>3, <2>1, BlindFrame, Zenon DEF Crash, rowVars
  <1>4. CASE UNCHANGED vars
    BY <1>4, HoldersIdle, BlindFrame, Zenon DEF vars, rowVars, workVars, histVars
  <1> QED
    BY <1>1, <1>2, <1>3, <1>4, BlindOperator, BlindOther, ZenonT(30) DEF Next

\* adapter.submit is called by the three submissions only, each for its own row.
LEMMA SubmitsFrame ==
  ASSUME TypeInv, [Next]_vars, NEW p \in Rows, submits'[p] # submits[p]
  PROVE  \E w \in Workers : SubmitAnswered(w, p) \/ SubmitLost(w, p) \/ SubmitRefused(w, p)
  <1>1. \/ submits' = submits
        \/ \E w \in Workers, o \in Rows :
              SubmitAnswered(w, o) \/ SubmitLost(w, o) \/ SubmitRefused(w, o)
    <2>1. ASSUME NEW w \in Workers, ReconcileStep(w) PROVE submits' = submits
      BY <2>1, Zenon DEF ReconcileStep, ClaimPaused, LookupPaused, ApplyStale,
         ApplyInconclusive, ApplyRejected, ApplyNeverAccepted, ApplyFound, ApplyIllegal,
         AfterApply, histVars
    <2>2. ASSUME NEW w \in Workers, ClaimBatch(w) \/ Crash(w) PROVE submits' = submits
      BY <2>2, Zenon DEF ClaimBatch, Crash, histVars
    <2>3. ASSUME NEW w \in Workers, NEW o \in Rows, ActivateAndSubmit(w, o)
          PROVE  submits' = submits
      BY <2>3, Zenon DEF ActivateAndSubmit, histVars
    <2>4. ASSUME NEW w \in Workers, DeliverStep(w)
          PROVE  \/ submits' = submits
                 \/ \E o \in Rows :
                       SubmitAnswered(w, o) \/ SubmitLost(w, o) \/ SubmitRefused(w, o)
      BY <2>4, ZenonT(30) DEF DeliverStep, DeliverSuperseded, DeliverSkip, DeliverExpired,
         DeliverFenced, DeliverInvalid, CommitDelivered, CommitUnknown, CommitRollsBack,
         Mark, MarkStale, histVars
    <2>5. ASSUME NEW o \in Rows,
                 \/ OperatorStep(o) \/ ActionStep(o) \/ EnqueueEntity(o)
                 \/ LeaseExpires(o) \/ WireDelivers(o) \/ ProviderProgress(o)
          PROVE  submits' = submits
      BY <2>5, ZenonT(30) DEF OperatorStep, ActionStep, RetryBlocked, RetryReconcile,
         RetryReenqueue, ResolveWriteback, RecoveryLookup, RecoveryApply, ReclaimAction,
         ReattachAction, CompleteEffect, ResolveUnknown, SetAction, EnqueueEntity,
         LeaseExpires, WireDelivers, ProviderProgress, histVars
    <2>6. CASE UNCHANGED vars
      BY <2>6, Zenon DEF vars, histVars
    <2> QED
      BY <2>1, <2>2, <2>3, <2>4, <2>5, <2>6, ZenonT(30) DEF Next, WorkerStep
  <1>2. ASSUME NEW w \in Workers, NEW o \in Rows,
               SubmitAnswered(w, o) \/ SubmitLost(w, o) \/ SubmitRefused(w, o)
        PROVE  o = p
    <2>1. submits' = [submits EXCEPT ![o] = @ + 1]
      BY <1>2, Zenon DEF SubmitAnswered, SubmitLost, SubmitRefused, Submits
    <2> QED
      BY <2>1, ProviderTypes, Zenon
  <1> QED
    BY <1>1, <1>2, Zenon

\* NoBlindResubmit for entity commands, delivered by one process: whatever crashes,
\* lost answers, expired leases, retries, adjudications and recovery lookups come in
\* between, a row is sent again only after a lookup that cleared it.
THEOREM NotResent ==
  OneProcess =>
     (Spec => [][\A o \in Rows \ Terminal :
                    submits'[o] > submits[o] /\ submits[o] > 0 => cleared[o]]_vars)
  <1> SUFFICES ASSUME OneProcess
               PROVE  Spec => [][\A o \in Rows \ Terminal :
                                    submits'[o] > submits[o] /\ submits[o] > 0 => cleared[o]]_vars
    OBVIOUS
  <1> DEFINE Inv == ReportInv /\ EntityInv /\ ApartInv
             Looked == \A o \in Rows \ Terminal :
                          submits'[o] > submits[o] /\ submits[o] > 0 => cleared[o]
  <1>1. Init => Inv
    BY ReportInit, BlindInit, Zenon
  <1>2. Inv /\ [Next]_vars => Inv'
    BY ReportNext, BlindNext, ApartNext, Zenon DEF ReportInv, HeadInv
  <1>3. ASSUME Inv, [Next]_vars PROVE Looked
    <2>1. TypeInv /\ HeadInv
      BY <1>3, Zenon DEF ReportInv, HeadInv
    <2>2. \A o \in Rows \ Terminal : submits'[o] # submits[o] => Fresh(o)
      BY <1>3, <2>1, SubmitsFrame, BlindSubmit, ZenonT(30)
    <2>3. ASSUME NEW o \in Rows \ Terminal, submits'[o] > submits[o], submits[o] > 0
          PROVE  cleared[o]
      <3>1. submits'[o] # submits[o] /\ submits[o] # 0
        BY <2>1, <2>3, TypeNext, <1>3, ProviderTypes DEF TypeInv, TypeOK
      <3> QED
        BY <2>2, <3>1, ZenonT(30) DEF Fresh
    <2> QED
      BY <2>3, Zenon
  <1> QED
    BY <1>1, <1>2, <1>3, PTL DEF Spec

\* NoBlindResubmit as the runs check it: one process, and entity commands only.
THEOREM ResubmitLooked == OneProcess /\ Terminal = {} => (Spec => NoBlindResubmit)
  <1> SUFFICES ASSUME OneProcess, Terminal = {} PROVE Spec => NoBlindResubmit
    OBVIOUS
  <1>1. Rows \ Terminal = Rows
    BY Zenon
  <1>2. (\A o \in Rows \ Terminal : submits'[o] > submits[o] /\ submits[o] > 0 => cleared[o])
        => \A o \in Rows : submits'[o] > submits[o] /\ submits[o] > 0 => cleared[o]
    BY <1>1, Zenon
  <1> QED
    BY <1>2, NotResent, PTL DEF NoBlindResubmit
=============================================================================
