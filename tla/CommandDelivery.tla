--------------------------- MODULE CommandDelivery ---------------------------
(***************************************************************************)
(* What the disposition outbox promises to the rest of the system: a       *)
(* command is requested, executed by the source system at most once, and   *)
(* reported; a success that is reported has happened or was adjudicated,   *)
(* and a confirmation is never taken back.  Commands are independent: one  *)
(* step may report on several of them, as one claim of the outbox does.    *)
(* DispositionOutbox implements this specification (see OutboxDelivery).   *)
(***************************************************************************)
EXTENDS Naturals

CONSTANT Commands

VARIABLES report,     \* what the row says of the command; "none": not requested
          executed,   \* executions by the source system
          ruled       \* a human adjudicated the command

vars == <<report, executed, ruled>>

Pending == {"open", "accepted", "ended"}
Reports == Pending \cup {"confirmed"}

Init ==
    /\ report = [c \in Commands |-> "none"]
    /\ executed = [c \in Commands |-> 0]
    /\ ruled = [c \in Commands |-> FALSE]

Request(c) ==
    /\ report[c] = "none" /\ report'[c] = "open"
    /\ executed'[c] = executed[c] /\ ruled'[c] = ruled[c]

Execute(c) ==
    /\ report[c] # "none" /\ executed[c] = 0 /\ executed'[c] = 1
    /\ report'[c] = report[c] /\ ruled'[c] = ruled[c]

\* "accepted" and "confirmed" follow the execution, unless a human has spoken;
\* only a command that ended is opened again.
Report(c) ==
    /\ report[c] \in Pending /\ report'[c] \in Reports
    /\ report'[c] \in {"accepted", "confirmed"} => executed[c] = 1 \/ ruled[c]
    /\ report'[c] = "open" => report[c] = "ended"
    /\ executed'[c] = executed[c] /\ ruled'[c] = ruled[c]

Rule(c) ==
    /\ report[c] \in Pending /\ report'[c] \in {"ended", "confirmed"}
    /\ ruled'[c] = TRUE /\ executed'[c] = executed[c]

Idle(c) ==
    report'[c] = report[c] /\ executed'[c] = executed[c] /\ ruled'[c] = ruled[c]

Next ==
    /\ report' \in [Commands -> Reports \cup {"none"}]
    /\ executed' \in [Commands -> {0, 1}]
    /\ ruled' \in [Commands -> BOOLEAN]
    /\ \A c \in Commands : Request(c) \/ Execute(c) \/ Report(c) \/ Rule(c) \/ Idle(c)

Spec == Init /\ [][Next]_vars

=============================================================================
