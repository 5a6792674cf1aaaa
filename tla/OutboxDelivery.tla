--------------------------- MODULE OutboxDelivery ---------------------------
(* DispositionOutbox implements CommandDelivery: what a row says of its     *)
(* command is read off its delivery and write-back status.                 *)
EXTENDS DispositionOutbox

ReportOf(o) ==
    IF delivery[o] = "absent" THEN "none"
    ELSE IF latest[o] \in TerminalSuccess THEN latest[o]
    ELSE IF latest[o] \in {"failed", "partial", "conflict"} THEN "ended"
    ELSE "open"

Delivery == INSTANCE CommandDelivery WITH
    Commands <- Rows,
    report <- [o \in Rows |-> ReportOf(o)],
    executed <- effects,
    ruled <- manual

\* Every step of the outbox, its operators and the source system is a step of
\* the promised delivery or changes nothing of it: requested before executed,
\* executed at most once, reported as successful only after that or after a human
\* ruling (resolve_writeback), confirmed for good.
ImplementsDelivery == Delivery!Spec

=============================================================================
