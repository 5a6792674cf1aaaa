------------------------------ MODULE Workflow ------------------------------
(***************************************************************************)
(* The transition tables and validators of backend/app/models/workflow.py  *)
(* that the other modules share.  A table is a function from a status to   *)
(* the set of statuses it may move to; a validator is the predicate that   *)
(* holds exactly when the code does not raise InvalidStateTransitionError. *)
(***************************************************************************)

None == "none"

WritebackStatus == {"pending", "sending", "accepted", "confirmed",
                    "partial", "failed", "conflict", "unknown"}

OutboxDeliveryStatus == {"ready", "leased", "waiting_retry", "delivered",
                         "paused", "dead_letter"}

-----------------------------------------------------------------------------
(* Outbox delivery                                                         *)

OUTBOX_DELIVERY_TRANSITIONS ==
    [s \in OutboxDeliveryStatus |->
        CASE s = "ready"         -> {"leased", "dead_letter", "delivered"}
          [] s = "leased"        -> {"delivered", "waiting_retry", "paused",
                                     "dead_letter"}
          [] s = "waiting_retry" -> {"leased", "dead_letter", "delivered"}
          [] s = "paused"        -> {"ready", "delivered", "dead_letter"}
          [] OTHER               -> {"paused"}]

\* Keyword flags of the call are the members of the set `flags`.
ValidDelivery(current, target, flags) ==
    /\ "operator_retry_pause" \in flags =>
          target = "paused" /\ current \in {"dead_letter", "delivered"}
    /\ "lease_expired_resend" \in flags /\ current = "leased" =>
          target \notin {"leased", "waiting_retry"}
    /\ current = "leased" /\ target = "waiting_retry" =>
          "known_pre_egress_failure" \in flags
    /\ current \in {"paused", "ready", "waiting_retry"} /\ target = "delivered" =>
          "lookup_confirmed_submission" \in flags
    /\ target \in OUTBOX_DELIVERY_TRANSITIONS[current]

-----------------------------------------------------------------------------
(* Writeback status                                                        *)

WRITEBACK_STATUS_TRANSITIONS ==
    [s \in WritebackStatus |->
        CASE s = "pending"  -> {"sending", "failed", "conflict"}
          [] s = "sending"  -> {"accepted", "confirmed", "partial", "failed",
                                "conflict", "unknown"}
          [] s = "accepted" -> {"confirmed", "partial", "failed", "conflict",
                                "unknown"}
          [] s = "unknown"  -> {"accepted", "confirmed", "partial", "failed",
                                "conflict", "pending"}
          [] s = "partial"  -> {"confirmed", "failed", "pending"}
          [] s = "failed"   -> {"confirmed", "failed", "pending"}
          [] s = "conflict" -> {"confirmed", "failed"}
          [] OTHER          -> {}]

ValidWriteback(current, target, flags) ==
    /\ target \in WRITEBACK_STATUS_TRANSITIONS[current]
    /\ current = "unknown" /\ target = "pending" =>
          "lookup_never_accepted" \in flags
    /\ current = "unknown" /\ target \in {"accepted", "partial", "conflict"} =>
          "evidence_adjudication" \in flags
    /\ current \in {"failed", "partial"} /\ target = "pending" =>
          "adapter_allows_safe_retry" \in flags
    /\ current \in {"unknown", "partial", "failed", "conflict"}
       /\ target \in {"confirmed", "failed"} =>
          "evidence_adjudication" \in flags \/ <<current, target>> = <<"failed", "failed">>

\* Lookup proved provider-side success: reconcile without a second egress.
TerminalSuccess == {"confirmed", "accepted"}

\* Mutant: the write-back status is not looked at.
EligibleForRetryPause_AnyStatus(delivery, writeback) ==
    delivery \in {"dead_letter", "delivered", "paused", "ready"}

\* Mutant: only CONFIRMED counts as settled, ACCEPTED may be retried.
EligibleForRetryPause_Accepted(delivery, writeback) ==
    /\ writeback # "confirmed"
    /\ delivery \in {"dead_letter", "delivered", "paused", "ready"}

\* delivery_status_eligible_for_operator_retry_pause
EligibleForRetryPause(delivery, writeback) ==
    /\ writeback # "confirmed"
    /\ \/ delivery = "dead_letter"
       \/ delivery = "delivered" /\ writeback \in {"failed", "partial", "unknown"}
       \/ delivery \in {"paused", "ready"}
=============================================================================
