---------------------------- MODULE IntentProofs ----------------------------
(***************************************************************************)
(* Theorems about the durable intents: those that start an investigation   *)
(* (InvestigationIntent, for any intents, dispatchers, workers, attempts,  *)
(* deaths and faults), and those that resume a held graph                  *)
(* (GraphResumeIntent, for any intents and dispatchers).                   *)
(*                                                                         *)
(* A theorem is about one of the two specifications.  A name both declare, *)
(* such as status, stands for the one of the specification at hand.        *)
(***************************************************************************)
EXTENDS InvestigationIntent, TLAPS

CONSTANTS Manual, Plan, InProcess, MaxHolds, MaxOthers, Other, NoOne
VARIABLES gen, lapsed, hold, substate, pc, batch, cur, limited, resumed, others

Hold == INSTANCE GraphResumeIntent

-----------------------------------------------------------------------------
(* Investigations: the inductive invariant                                 *)

Ids == Intents \X Nat
Fields == {"id", "again", "resume", "first", "claimed", "defers"}
IsMessage(m) == DOMAIN m = Fields /\ m.id \in Ids

\* The functions have their domains, and what travels is a message.
RunShape ==
    /\ DOMAIN wpc = Workers /\ DOMAIN msg = Workers /\ DOMAIN mode = Workers
    /\ DOMAIN dpc = Dispatchers /\ DOMAIN snap = Dispatchers /\ DOMAIN held = Dispatchers
    /\ DOMAIN status = Intents /\ rev \in [Intents -> Nat]
    /\ \A m \in queue : IsMessage(m)
    /\ \A w \in Workers : wpc[w] # "idle" => IsMessage(msg[w])
    /\ \A d \in Dispatchers :
          /\ dpc[d] # "idle" => held[d] \in Intents
          /\ dpc[d] = "publish" => IsMessage(snap[d])
          /\ dpc[d] = "revert" => snap[d].rev \in Nat

\* A task id is published before its message is anywhere, and unless it was
\* published twice the message is in one place: the broker or one worker.
MessageInv ==
    /\ \A m \in queue : m.id \in published
    /\ \A w \in Workers : wpc[w] # "idle" => Me(w) \in published
    /\ \A m, n \in queue : m.id = n.id => m = n \/ m.id \in repeated
    /\ \A m \in queue, w \in Workers : wpc[w] # "idle" /\ Me(w) = m.id => m.id \in repeated
    /\ \A v, w \in Workers :
          wpc[v] # "idle" /\ wpc[w] # "idle" /\ Me(v) = Me(w) => v = w \/ Me(v) \in repeated

\* A run that acquired or renewed the lease holds it under its task id, unless a
\* second message under that id may have taken it.
LeaseInv ==
    /\ \A w \in Workers : wpc[w] \in {"resume", "read"} => mode[w] # "fresh"
    /\ \A w \in Workers :
          wpc[w] = "run" /\ mode[w] = "fresh" => lease = Me(w) \/ Me(w) \in repeated

-----------------------------------------------------------------------------
(* Where messages go                                                       *)

\* No message moves.
Still ==
    /\ UNCHANGED <<queue, msg, published, repeated>>
    /\ wpc' = wpc \/ \E w \in Workers : wpc[w] # "idle" /\ \E x : wpc' = [wpc EXCEPT ![w] = x]

\* Worker w acknowledges its message,
Drops(w) ==
    /\ wpc[w] # "idle" /\ UNCHANGED <<queue, published, repeated>>
    /\ wpc' = [wpc EXCEPT ![w] = "idle"] /\ msg' = [msg EXCEPT ![w] = None]

\* puts it back,
Returns(w) ==
    /\ wpc[w] # "idle" /\ UNCHANGED <<published, repeated>>
    /\ \E again, defers : PutBack(w, again, defers)

\* or is given one.
Takes(w, m) ==
    /\ wpc[w] = "idle" /\ m \in queue /\ UNCHANGED <<published, repeated>>
    /\ queue' = queue \ {m} /\ msg' = [msg EXCEPT ![w] = m]
    /\ wpc' = [wpc EXCEPT ![w] = "admit"]

\* Dispatcher d publishes one.
Sends(d) == dpc[d] = "publish" /\ Send(d) /\ UNCHANGED <<wpc, msg>>

\* A worker's step moves a message in one of these ways.
LEMMA WorkerMoves ==
  ASSUME NEW w \in Workers, WorkerStep(w)
  PROVE  /\ Still \/ Drops(w) \/ Returns(w) \/ \E m \in queue : Takes(w, m)
         /\ UNCHANGED <<dpc, held, snap>>
<1>1. ASSUME NEW m \in queue, Deliver(w, m) PROVE Takes(w, m) /\ UNCHANGED <<dpc, held, snap>>
  BY <1>1, Zenon DEF Deliver, Takes, Goto, dispatch
<1>2. CASE Admit(w) \/ Finalize(w) \/ \E b \in BOOLEAN : SoftLimit(w, b)
  <2>1. /\ wpc[w] # "idle" /\ UNCHANGED <<queue, published, repeated, dpc, held, snap>>
        /\ Ack(w) \/ \E x : Goto(w, x) /\ UNCHANGED msg
    <3>1. wpc[w] \in {"admit", "finalize", "run"}
      BY <1>2, Zenon DEF Admit, Finalize, SoftLimit
    <3> QED
      BY <1>2, <3>1, Zenon DEF Admit, Finalize, SoftLimit, dispatch
  <2> QED
    BY <2>1, Zenon DEF Ack, Drops, Still, Goto
<1>3. CASE Handoff(w) \/ HandoffNoCheckpoint(w) \/ Crash(w) \/ \E b \in BOOLEAN : RunRaises(w, b)
  <2>1. wpc[w] # "idle" /\ UNCHANGED <<published, repeated, dpc, held, snap>>
    <3>1. wpc[w] # "idle"
      <4>1. Crash(w) \/ wpc[w] \in {"handoff", "run"}
        BY <1>3, Zenon DEF Handoff, HandoffNoCheckpoint, RunRaises
      <4> QED
        BY <4>1, Zenon DEF Crash
    <3> QED
      BY <1>3, <3>1, Zenon DEF Handoff, HandoffNoCheckpoint, Crash, RunRaises, dispatch
  <2>2. \/ \E again, defers : PutBack(w, again, defers)
        \/ UNCHANGED <<queue, msg>> /\ \E x : Goto(w, x)
    BY <1>3, Zenon DEF Handoff, HandoffNoCheckpoint, Crash, RunRaises, Defer, Result, Begin
  <2> QED
    BY <2>1, <2>2, Zenon DEF Returns, Still, Goto
<1>4. CASE \/ Acquire(w) \/ Resume(w) \/ ResumeReads(w) \/ Progress(w) \/ RunEnds(w)
           \/ Renew(w) \/ LeaseLost(w) \/ \E b \in BOOLEAN : ResumeRaises(w, b)
  <2>1. wpc[w] \in {"acquire", "resume", "read", "run"}
    BY <1>4, Zenon DEF Acquire, Resume, ResumeReads, Progress, RunEnds, Renew, LeaseLost,
       ResumeRaises
  <2>2. UNCHANGED <<queue, msg, published, repeated, dpc, held, snap>>
    BY <1>4, Zenon DEF Acquire, Resume, ResumeReads, Progress, RunEnds, Renew, LeaseLost,
       ResumeRaises, dispatch, work
  <2>3. wpc' = wpc \/ \E x : Goto(w, x)
    BY <1>4, Zenon DEF Acquire, Resume, ResumeReads, Progress, RunEnds, Renew, LeaseLost,
       ResumeRaises, Result, Begin, work
  <2> QED
    BY <2>1, <2>2, <2>3, Zenon DEF Still, Goto
<1> QED
  BY <1>1, <1>2, <1>3, <1>4, Zenon DEF WorkerStep

\* A step of anyone else leaves the workers alone; only a dispatcher publishes.
LEMMA OtherMoves ==
  ASSUME [Next]_vars
  PROVE  \/ \E w \in Workers : WorkerStep(w)
         \/ /\ UNCHANGED <<wpc, msg, mode>>
            /\ \/ UNCHANGED <<queue, published, repeated>> \/ \E d \in Dispatchers : Sends(d)
            /\ \/ UNCHANGED <<dpc, held, snap>>
               \/ \E d \in Dispatchers : DispatcherStep(d)
            /\ \/ UNCHANGED lease \/ LeaseExpires
<1>1. ASSUME NEW d \in Dispatchers, DispatcherStep(d)
      PROVE  /\ UNCHANGED <<wpc, msg, mode, lease>>
             /\ \/ UNCHANGED <<queue, published, repeated>> \/ Sends(d)
  <2>1. ASSUME NEW sent \in BOOLEAN, PublishFails(d, sent)
        PROVE  UNCHANGED <<queue, published, repeated>> \/ Send(d)
    BY <2>1, Zenon DEF PublishFails
  <2> QED
    BY <1>1, <2>1, Zenon DEF DispatcherStep, Claim, CommitEnqueued, Publish, PublishFails, Revert,
       DispatcherDies, Sends, work
<1>2. CASE \/ \E i \in Intents : ClaimExpires(i) \/ Age(i) \/ ReconcileStale(i)
           \/ LeaseExpires \/ ResumeClaimExpires \/ Approve \/ UNCHANGED vars
  BY <1>2, ZenonT(30) DEF ClaimExpires, Age, ReconcileStale, LeaseExpires, ResumeClaimExpires, Approve,
     vars, work, dispatch
<1> QED
  BY <1>1, <1>2, Zenon DEF Next

\* What dispatchers hold keeps its shape.
LEMMA DispatcherHolds ==
  ASSUME RunShape, NEW d \in Dispatchers, DispatcherStep(d)
  PROVE  /\ DOMAIN dpc' = Dispatchers /\ DOMAIN snap' = Dispatchers /\ DOMAIN held' = Dispatchers
         /\ \A e \in Dispatchers :
               /\ dpc'[e] # "idle" => held'[e] \in Intents
               /\ dpc'[e] = "publish" => IsMessage(snap'[e])
               /\ dpc'[e] = "revert" => snap'[e].rev \in Nat
<1> USE DEF RunShape
<1>1. CASE Dispatched(d)
  BY <1>1, Zenon DEF Dispatched
<1>2. ASSUME NEW i \in Intents, Claim(d, i) PROVE
         dpc' = [dpc EXCEPT ![d] = "claimed"] /\ held' = [held EXCEPT ![d] = i] /\ UNCHANGED snap
  BY <1>2, Zenon DEF Claim
<1>3. CASE CommitEnqueued(d) /\ ~Dispatched(d)
  <2>1. /\ dpc[d] = "claimed" /\ dpc' = [dpc EXCEPT ![d] = "publish"] /\ UNCHANGED held
        /\ snap' = [snap EXCEPT ![d] =
                [id |-> TaskId(held[d], rev[held[d]]), again |-> FALSE, resume |-> Resumes(held[d]),
                 first |-> TRUE, claimed |-> FALSE, defers |-> 0]]
    BY <1>3, Zenon DEF CommitEnqueued
  <2>2. IsMessage([id |-> TaskId(held[d], rev[held[d]]), again |-> FALSE,
                   resume |-> Resumes(held[d]), first |-> TRUE, claimed |-> FALSE, defers |-> 0])
    <3>1. held[d] \in Intents /\ rev[held[d]] \in Nat
      BY <2>1, Zenon
    <3> QED
      BY <3>1, Zenon DEF IsMessage, Fields, Ids, TaskId
  <2> HIDE DEF RunShape
  <2> DEFINE m == [id |-> TaskId(held[d], rev[held[d]]), again |-> FALSE,
                   resume |-> Resumes(held[d]), first |-> TRUE, claimed |-> FALSE, defers |-> 0]
  <2>3. IsMessage(m) /\ snap' = [snap EXCEPT ![d] = m]
    BY <2>1, <2>2, Zenon
  <2> HIDE DEF m
  <2> QED
    BY <2>1, <2>3, Zenon DEF RunShape
<1>4. CASE (\E sent \in BOOLEAN : PublishFails(d, sent)) /\ ~Dispatched(d)
  <2>1. /\ dpc[d] = "publish" /\ dpc' = [dpc EXCEPT ![d] = "revert"] /\ UNCHANGED held
        /\ snap' = [snap EXCEPT ![d] = [attempt |-> attempt[held[d]], rev |-> rev[held[d]]]]
    BY <1>4, Zenon DEF PublishFails
  <2> QED
    BY <2>1, Zenon
<1> QED
  BY <1>1, <1>2, <1>3, <1>4 DEF DispatcherStep, Publish, DispatcherDies, Revert

\* The rows keep theirs: a revision is a number.
LEMMA RowShape ==
  ASSUME RunShape, [Next]_vars
  PROVE  DOMAIN status' = Intents /\ rev' \in [Intents -> Nat]
<1> USE DEF RunShape
<1>1. ASSUME NEW i, NEW s, NEW n, NEW r, NEW t, NEW b, Update(i, s, n, r, t, b),
             i \in Intents => r \in Nat
      PROVE  DOMAIN status' = Intents /\ rev' \in [Intents -> Nat]
  BY <1>1, Zenon DEF Update
<1>2. ASSUME NEW i, NEW s, SetStatus(i, s)
      PROVE  DOMAIN status' = Intents /\ rev' \in [Intents -> Nat]
  BY <1>1, <1>2, Zenon DEF SetStatus
<1>3. ASSUME NEW i, NEW n, Retry(i, n, rev[i])
      PROVE  DOMAIN status' = Intents /\ rev' \in [Intents -> Nat]
  <2>1. i \in Intents => rev[i] + 1 \in Nat
    OBVIOUS
  <2> HIDE DEF RunShape
  <2> QED
    BY <1>1, <1>3, <2>1, Zenon DEF Retry
<1>4. CASE UNCHANGED <<status, rev>>
  BY <1>4, Zenon
<1>5. ASSUME NEW d \in Dispatchers, DispatcherStep(d)
      PROVE  DOMAIN status' = Intents /\ rev' \in [Intents -> Nat]
  <2>1. \A i \in Intents : rev[i] \in Nat
    OBVIOUS
  <2>2. dpc[d] = "revert" => snap[d].rev + 1 \in Nat
    OBVIOUS
  <2>3. dpc[d] # "idle" => held[d] \in Intents
    OBVIOUS
  <2> HIDE DEF RunShape
  <2>4. ASSUME NEW i \in Intents, Claim(d, i)
        PROVE  DOMAIN status' = Intents /\ rev' \in [Intents -> Nat]
    BY <2>1, <2>4, <1>1, Zenon DEF Claim
  <2>5. CASE CommitEnqueued(d)
    BY <2>1, <2>5, <1>1, <1>2, <1>3, <1>4, Zenon DEF CommitEnqueued, rows
  <2>6. ASSUME NEW kind, Revert(d, kind) PROVE DOMAIN status' = Intents /\ rev' \in [Intents -> Nat]
    BY <2>1, <2>2, <2>6, <1>1, Zenon DEF Revert
  <2>7. CASE Publish(d) \/ DispatcherDies(d) \/ \E sent \in BOOLEAN : PublishFails(d, sent)
    BY <2>7, <1>4, Zenon DEF Publish, DispatcherDies, PublishFails, rows
  <2> QED
    BY <1>5, <2>4, <2>5, <2>6, <2>7, Zenon DEF DispatcherStep
<1>6. ASSUME NEW w \in Workers, WorkerStep(w)
      PROVE  DOMAIN status' = Intents /\ rev' \in [Intents -> Nat]
  <2>1. \A i \in Intents : rev[i] \in Nat
    OBVIOUS
  <2> HIDE DEF RunShape
  <2>2. CASE Admit(w)
    BY <2>1, <2>2, <1>1, <1>4, Zenon DEF Admit, rows
  <2>3. CASE Finalize(w)
    BY <2>3, <1>2, <1>3, <1>4, Zenon DEF Finalize, rows
  <2>4. ASSUME NEW b \in BOOLEAN, SoftLimit(w, b)
        PROVE  DOMAIN status' = Intents /\ rev' \in [Intents -> Nat]
    BY <2>4, <1>2, <1>3, <1>4, Zenon DEF SoftLimit, rows
  <2>5. CASE UNCHANGED rows
    BY <2>5, <1>4, Zenon DEF rows
  <2> QED
    BY <1>6, <2>2, <2>3, <2>4, <2>5, Zenon DEF WorkerStep, Handoff, HandoffNoCheckpoint, Acquire,
       Resume, ResumeReads, Progress, RunEnds, Renew, LeaseLost, Crash, Deliver, RunRaises,
       ResumeRaises
<1>7. ASSUME NEW i \in Intents, ReconcileStale(i)
      PROVE  DOMAIN status' = Intents /\ rev' \in [Intents -> Nat]
  <2>1. rev[i] + 1 \in Nat
    OBVIOUS
  <2> HIDE DEF RunShape
  <2> QED
    BY <1>7, <2>1, <1>1, <1>2, <1>3, Zenon DEF ReconcileStale
<1> HIDE DEF RunShape
<1>8. CASE \/ \E i \in Intents : ClaimExpires(i) \/ Age(i)
           \/ LeaseExpires \/ ResumeClaimExpires \/ Approve \/ UNCHANGED vars
  BY <1>8, <1>4, Zenon DEF ClaimExpires, Age, LeaseExpires, ResumeClaimExpires, Approve, vars, rows
<1> QED
  BY <1>5, <1>6, <1>7, <1>8, Zenon DEF Next

\* The message that goes back is the one the worker had, under the same id.
LEMMA PutBackMessage ==
  ASSUME NEW w, NEW again, NEW defers, IsMessage(msg[w]), PutBack(w, again, defers)
  PROVE  \E m : /\ IsMessage(m) /\ m.id = Me(w) /\ queue' = queue \cup {m}
                /\ wpc' = [wpc EXCEPT ![w] = "idle"] /\ msg' = [msg EXCEPT ![w] = None]
<1> DEFINE m == [msg[w] EXCEPT !.again = again, !.first = FALSE, !.defers = defers,
                               !.claimed = @ \/ claim = Me(w)]
<1>1. queue' = queue \cup {m} /\ Ack(w)
  BY Zenon DEF PutBack
<1>2. IsMessage(m) /\ m.id = Me(w)
  BY Zenon DEF IsMessage, Fields, Me
<1> HIDE DEF m
<1> QED
  BY <1>1, <1>2, Zenon DEF Ack, Goto

\* What the next state owes MessageInv and the shape of messages
MessageGoal ==
    /\ DOMAIN wpc' = Workers /\ DOMAIN msg' = Workers
    /\ \A m \in queue' : IsMessage(m)
    /\ \A w \in Workers : wpc'[w] # "idle" => IsMessage(msg'[w])
    /\ MessageInv'

\* Each way a message moves keeps that.
LEMMA MessageStill ==
  ASSUME RunShape, MessageInv, Still
  PROVE  MessageGoal
<1>1. /\ UNCHANGED <<queue, msg, published, repeated>> /\ DOMAIN wpc' = Workers
      /\ \A w \in Workers : wpc'[w] # "idle" => wpc[w] # "idle"
  BY Zenon DEF RunShape, Still
<1> QED
  BY <1>1, Zenon DEF RunShape, MessageInv, MessageGoal, Me

LEMMA MessageDrops ==
  ASSUME RunShape, MessageInv, NEW w \in Workers, Drops(w)
  PROVE  MessageGoal
BY Zenon DEF RunShape, MessageInv, MessageGoal, Me, Drops

LEMMA MessageReturns ==
  ASSUME RunShape, MessageInv, NEW w \in Workers, Returns(w)
  PROVE  MessageGoal
<1>1. PICK m : /\ IsMessage(m) /\ m.id = Me(w) /\ queue' = queue \cup {m}
               /\ wpc' = [wpc EXCEPT ![w] = "idle"] /\ msg' = [msg EXCEPT ![w] = None]
  <2>1. IsMessage(msg[w]) /\ \E again, defers : PutBack(w, again, defers)
    BY Zenon DEF Returns, RunShape
  <2> QED
    BY <2>1, PutBackMessage, Zenon
<1>2. wpc[w] # "idle" /\ UNCHANGED <<published, repeated>>
  BY Zenon DEF Returns
<1> QED
  BY <1>1, <1>2 DEF RunShape, MessageInv, MessageGoal, Me

LEMMA MessageTakes ==
  ASSUME RunShape, MessageInv, NEW w \in Workers, NEW m \in queue, Takes(w, m)
  PROVE  MessageGoal
BY ZenonT(30) DEF RunShape, MessageInv, MessageGoal, Me, Takes

LEMMA MessageSends ==
  ASSUME RunShape, MessageInv, NEW d \in Dispatchers, Sends(d)
  PROVE  MessageGoal
<1>1. /\ IsMessage(snap[d]) /\ queue' = queue \cup {snap[d]} /\ UNCHANGED <<wpc, msg>>
      /\ published' = published \cup {snap[d].id}
      /\ repeated' = repeated \cup (published \cap {snap[d].id})
  BY Zenon DEF Sends, Send, RunShape
<1> QED
  BY <1>1, Zenon DEF RunShape, MessageInv, MessageGoal, Me

\* Every step keeps messages in one place.
LEMMA MessageNext ==
  ASSUME RunShape, MessageInv, [Next]_vars
  PROVE  MessageGoal
<1>1. ASSUME NEW w \in Workers, WorkerStep(w) PROVE MessageGoal
  BY <1>1, WorkerMoves, MessageStill, MessageDrops, MessageReturns, MessageTakes, Zenon
<1>2. CASE UNCHANGED <<wpc, msg, queue, published, repeated>>
  BY <1>2, MessageStill, Zenon DEF Still
<1> QED
  BY <1>1, <1>2, OtherMoves, MessageSends, Zenon

-----------------------------------------------------------------------------
(* The lease                                                               *)

\* What a step of worker w does to the lease and to the runs: it takes a free
\* lease or gives back its own, and starts a run under a lease it holds.
LeaseMove(w) ==
    /\ DOMAIN mode' = Workers
    /\ \A v \in Workers \ {w} :
          wpc'[v] = wpc[v] /\ mode'[v] = mode[v] /\ msg'[v] = msg[v]
    /\ lease' = lease \/ lease \in {None, Me(w)}
    /\ wpc'[w] \in {"resume", "read"} => mode'[w] # "fresh"
    /\ wpc'[w] = "run" /\ mode'[w] = "fresh" =>
          /\ wpc[w] # "idle" /\ msg'[w] = msg[w]
          /\ lease' = Me(w) \/ (wpc[w] = "run" /\ mode[w] = "fresh" /\ lease' = lease)

\* Every step of a worker is such a move.
LEMMA WorkerLease ==
  ASSUME RunShape, LeaseInv, NEW w \in Workers, WorkerStep(w)
  PROVE  LeaseMove(w)
<1>0. /\ DOMAIN wpc = Workers /\ DOMAIN msg = Workers /\ DOMAIN mode = Workers
      /\ wpc[w] \in {"resume", "read"} => mode[w] # "fresh"
  BY Zenon DEF RunShape, LeaseInv
<1>1. ASSUME Ack(w), lease' = lease \/ lease \in {None, Me(w)}
      PROVE  LeaseMove(w)
  BY <1>0, <1>1, Zenon DEF Ack, Goto, LeaseMove
<1>2. ASSUME NEW r, Result(w, r), UNCHANGED <<msg, mode>>,
             lease' = lease \/ lease \in {None, Me(w)}
      PROVE  LeaseMove(w)
  BY <1>0, <1>2, Zenon DEF Result, Goto, LeaseMove
<1>3. ASSUME NEW x, Goto(w, x), UNCHANGED <<msg, mode>>,
             x \in {"resume", "read", "run"} => mode[w] # "fresh",
             lease' = lease \/ lease \in {None, Me(w)}
      PROVE  LeaseMove(w)
  BY <1>0, <1>3, Zenon DEF Goto, LeaseMove
<1>4. /\ Released(Me(w)) = lease \/ lease \in {None, Me(w)}
      /\ ResumeReleases(w) = lease \/ lease \in {None, Me(w)}
  BY Zenon DEF Released, ResumeReleases
<1>5. ASSUME NEW m \in queue, Deliver(w, m) PROVE LeaseMove(w)
  <2>1. /\ msg' = [msg EXCEPT ![w] = m] /\ wpc' = [wpc EXCEPT ![w] = "admit"]
        /\ UNCHANGED <<mode, lease>>
    BY <1>5, Zenon DEF Deliver, Goto
  <2> QED
    BY <1>0, <2>1, Zenon DEF LeaseMove
<1>6. CASE Admit(w)
  <2>1. Ack(w) \/ \E x \in {"handoff", "acquire"} : Goto(w, x) /\ UNCHANGED <<msg, mode>>
    BY <1>6, Zenon DEF Admit
  <2>2. UNCHANGED lease
    BY <1>6, Zenon DEF Admit
  <2>3. ASSUME NEW x \in {"handoff", "acquire"}
        PROVE  x \in {"resume", "read", "run"} => mode[w] # "fresh"
    BY <2>3, Zenon
  <2> QED
    BY <2>1, <2>2, <2>3, <1>1, <1>3, Zenon
<1>7. CASE Finalize(w) \/ Crash(w) \/ \E b \in BOOLEAN : SoftLimit(w, b)
  BY <1>7, <1>1, <1>4, Zenon DEF Finalize, Crash, SoftLimit, PutBack
<1>8. ASSUME Defer(w), lease' = lease \/ lease \in {None, Me(w)} PROVE LeaseMove(w)
  BY <1>8, <1>1, <1>2, Zenon DEF Defer, PutBack
<1>9. CASE HandoffNoCheckpoint(w)
  BY <1>9, <1>8, Zenon DEF HandoffNoCheckpoint
<1>10. CASE Handoff(w)
  <2>1. \/ /\ \E r : Result(w, r)
           /\ UNCHANGED <<msg, mode>> /\ (lease' = lease \/ lease \in {None, Me(w)})
        \/ Defer(w) /\ (lease' = lease \/ lease \in {None, Me(w)})
        \/ Begin(w, "inherit_fresh") /\ UNCHANGED msg /\ lease \in {None, Me(w)}
        \/ /\ Goto(w, "resume") /\ UNCHANGED <<msg, lease>>
           /\ mode' = [mode EXCEPT ![w] = IF lease = None THEN "resume" ELSE "inherit_resume"]
    <3>1. \/ Result(w, "skipped") /\ UNCHANGED <<msg, mode, lease>>
          \/ /\ lease \in {None, Me(w)} /\ UNCHANGED msg
             /\ \/ Result(w, "retry") /\ UNCHANGED mode
                \/ Begin(w, "inherit_fresh")
                \/ /\ Goto(w, "resume") /\ UNCHANGED lease
                   /\ mode' = [mode EXCEPT ![w] =
                                  IF lease = None THEN "resume" ELSE "inherit_resume"]
          \/ /\ Defer(w)
             /\ lease' = IF event = "new" /\ lease = None THEN Me(w) ELSE lease
      BY <1>10, Zenon DEF Handoff
    <3> QED
      BY <3>1, Zenon
  <2>2. CASE Begin(w, "inherit_fresh") /\ UNCHANGED msg /\ lease \in {None, Me(w)}
    BY <1>0, <2>2, Zenon DEF Begin, Goto, LeaseMove
  <2>3. CASE /\ Goto(w, "resume") /\ UNCHANGED <<msg, lease>>
             /\ mode' = [mode EXCEPT ![w] = IF lease = None THEN "resume" ELSE "inherit_resume"]
    BY <1>0, <2>3, Zenon DEF Goto, LeaseMove
  <2> QED
    BY <2>1, <2>2, <2>3, <1>2, <1>8, Zenon
<1>11. CASE Acquire(w)
  <2>1. CASE /\ Begin(w, "fresh") /\ lease = None /\ lease' = Me(w)
             /\ wpc[w] = "acquire" /\ UNCHANGED msg
    BY <1>0, <2>1, Zenon DEF Begin, Goto, LeaseMove
  <2> QED
    BY <1>11, <2>1, <1>2, Zenon DEF Acquire, Free
<1>12. CASE Resume(w)
  <2>1. /\ wpc[w] = "resume" /\ UNCHANGED <<msg, mode>>
        /\ Goto(w, "read") \/ \E r : Result(w, r)
        /\ lease' = lease \/ lease \in {None, Me(w)}
    BY <1>12, Zenon DEF Resume
  <2> QED
    BY <2>1, <1>0, <1>2, <1>3, Zenon DEF Resume
<1>13. CASE ResumeReads(w)
  <2>1. /\ wpc[w] = "read" /\ UNCHANGED <<msg, mode>>
        /\ Goto(w, "run") \/ \E r : Result(w, r)
        /\ lease' = lease \/ lease' = ResumeReleases(w)
    BY <1>13, Zenon DEF ResumeReads
  <2> QED
    BY <2>1, <1>0, <1>2, <1>3, <1>4, Zenon
<1>14. CASE Progress(w)
  <2>1. UNCHANGED <<wpc, msg, mode, lease>> /\ wpc[w] = "run"
    BY <1>14, Zenon DEF Progress, work
  <2> QED
    BY <1>0, <2>1, Zenon DEF LeaseMove
<1>15. CASE RunEnds(w) \/ LeaseLost(w)
  BY <1>15, <1>2, <1>4, Zenon DEF RunEnds, LeaseLost
<1>16. CASE Renew(w)
  <2>1. /\ wpc[w] = "run" /\ lease = Me(w) /\ UNCHANGED <<wpc, msg, lease>>
        /\ mode' = [mode EXCEPT ![w] = "fresh"]
    BY <1>16, Zenon DEF Renew
  <2> QED
    BY <1>0, <2>1, Zenon DEF LeaseMove
<1>17. ASSUME NEW b \in BOOLEAN, RunRaises(w, b) PROVE LeaseMove(w)
  BY <1>17, <1>1, <1>2, <1>4, Zenon DEF RunRaises, PutBack
<1>18. ASSUME NEW b \in BOOLEAN, ResumeRaises(w, b) PROVE LeaseMove(w)
  <2>1. /\ mode[w] # "fresh" /\ UNCHANGED <<msg, mode>> /\ lease' = ResumeReleases(w)
        /\ Goto(w, "resume") \/ \E r : Result(w, r)
    <3>1. ~Renews(w) /\ UNCHANGED <<msg, mode>> /\ lease' = ResumeReleases(w)
      BY <1>18, Zenon DEF ResumeRaises
    <3>2. Goto(w, "resume") \/ \E r : Result(w, r)
      BY <1>18, Zenon DEF ResumeRaises
    <3> QED
      BY <3>1, <3>2, Zenon DEF Renews
  <2> QED
    BY <2>1, <1>2, <1>3, <1>4, Zenon
<1> QED
  BY <1>5, <1>6, <1>7, <1>9, <1>10, <1>11, <1>12, <1>13, <1>14, <1>15, <1>16, <1>17, <1>18, ZenonT(30)
     DEF WorkerStep

\* A task id is a value.
LEMMA IdIsNotNone ==
  ASSUME RunShape, NEW w \in Workers, wpc[w] # "idle"
  PROVE  Me(w) # None
BY IntentConstants, Zenon DEF RunShape, IsMessage, Ids, Me

\* Every step leaves the lease with the run that holds it: another worker gives
\* back only what it holds under its own id, and the lease does not expire while
\* it is renewed.
LEMMA LeaseNext ==
  ASSUME RunShape, MessageInv, LeaseInv, [Next]_vars
  PROVE  LeaseInv' /\ DOMAIN mode' = Workers
<1>1. repeated \subseteq repeated'
  <2>1. UNCHANGED repeated \/ \E d \in Dispatchers : Send(d)
    BY WorkerMoves, OtherMoves, Zenon DEF Still, Drops, Returns, Takes, Sends
  <2> QED
    BY <2>1, Zenon DEF Send
<1>2. ASSUME NEW w \in Workers, WorkerStep(w) PROVE LeaseInv' /\ DOMAIN mode' = Workers
  <2>1. LeaseMove(w)
    BY <1>2, WorkerLease, Zenon
  <2>2. ASSUME NEW v \in Workers \ {w}, wpc[v] = "run", lease = Me(v), Me(v) \notin repeated
        PROVE  lease' = Me(v)
    <3>1. Me(v) # None
      BY <2>2, IdIsNotNone, Zenon
    <3>2. wpc[w] # "idle" => Me(w) # Me(v)
      BY <2>2, Zenon DEF MessageInv
    <3>3. wpc[w] = "idle" => lease' = lease
      <4>1. ASSUME wpc[w] = "idle" PROVE \E m \in queue : Deliver(w, m)
        BY <1>2, <4>1, Zenon DEF WorkerStep, Admit, Handoff, HandoffNoCheckpoint, Acquire, Resume,
           ResumeReads, Progress, RunEnds, Renew, LeaseLost, Finalize, Crash, RunRaises,
           ResumeRaises, SoftLimit
      <4> QED
        BY <4>1, Zenon DEF Deliver
    <3> QED
      BY <2>1, <2>2, <3>1, <3>2, <3>3, Zenon DEF LeaseMove
  <2> QED
    BY <1>1, <2>1, <2>2 DEF LeaseMove, LeaseInv, Me
<1>3. ASSUME UNCHANGED <<wpc, msg, mode>>, UNCHANGED lease \/ LeaseExpires
      PROVE  LeaseInv' /\ DOMAIN mode' = Workers
  <2>1. \A w \in Workers : wpc[w] = "run" /\ mode[w] = "fresh" /\ lease = Me(w) => lease' = lease
    BY <1>3, Zenon DEF LeaseExpires, Keeps, Me
  <2> QED
    BY <1>1, <1>3, <2>1, Zenon DEF LeaseInv, Me, RunShape
<1> QED
  BY <1>2, <1>3, OtherMoves, Zenon

-----------------------------------------------------------------------------
(* Theorems about investigations                                           *)

\* The inductive invariant
RunInv == RunShape /\ MessageInv /\ LeaseInv

\* It holds at the start: there is no message and no run.
LEMMA RunInit == Init => RunInv
<1> SUFFICES ASSUME Init PROVE RunInv
  OBVIOUS
<1> USE DEF Init
<1>1. RunShape
  BY Zenon DEF RunShape
<1>2. MessageInv /\ LeaseInv
  BY Zenon DEF MessageInv, LeaseInv
<1> QED
  BY <1>1, <1>2, Zenon DEF RunInv

\* Every step keeps it.
LEMMA RunNext == RunInv /\ [Next]_vars => RunInv'
<1> SUFFICES ASSUME RunShape, MessageInv, LeaseInv, [Next]_vars PROVE RunInv'
  BY Zenon DEF RunInv
<1>1. MessageGoal /\ LeaseInv' /\ DOMAIN mode' = Workers
  BY MessageNext, LeaseNext, Zenon
<1>2. DOMAIN status' = Intents /\ rev' \in [Intents -> Nat]
  BY RowShape, Zenon
<1>3. /\ DOMAIN dpc' = Dispatchers /\ DOMAIN snap' = Dispatchers /\ DOMAIN held' = Dispatchers
      /\ \A e \in Dispatchers :
            /\ dpc'[e] # "idle" => held'[e] \in Intents
            /\ dpc'[e] = "publish" => IsMessage(snap'[e])
            /\ dpc'[e] = "revert" => snap'[e].rev \in Nat
  <2>1. UNCHANGED <<dpc, held, snap>> \/ \E d \in Dispatchers : DispatcherStep(d)
    BY WorkerMoves, OtherMoves, Zenon
  <2>2. CASE UNCHANGED <<dpc, held, snap>>
    BY <2>2, Zenon DEF RunShape
  <2> QED
    BY <2>1, <2>2, DispatcherHolds, Zenon
<1> QED
  BY <1>1, <1>2, <1>3, Zenon DEF RunInv, RunShape, MessageGoal

\* FreshRunsExclusive: two runs of different tasks that acquired or renewed the
\* lease of the event are never under way together, unless a task id of theirs
\* was published twice (EventLease, mark_started, evaluate_redelivery_handoff).
THEOREM OneFreshRun == Spec => []FreshRunsExclusive
<1>1. RunInv => FreshRunsExclusive
  BY Zenon DEF RunInv, LeaseInv, FreshRunsExclusive, Running
<1> QED
  BY <1>1, RunInit, RunNext, PTL DEF Spec

\* A step that ends or re-arms a started row is made by the run of the task that
\* owns it, by a revert, or by the reconcile of an aged row.
LEMMA StartedKept ==
  ASSUME RunShape, [Next]_vars, NEW i \in Intents, NEW w \in Workers,
         wpc[w] = "run", Me(w) = task[i], status[i] = "started", wpc'[w] = "run", ~aged[i],
         \A d \in Dispatchers : ~(dpc[d] = "revert" /\ held[d] = i),
         \A v \in Workers \ {w} : wpc[v] # "idle" => Me(v) # task[i]
  PROVE  status'[i] = "started"
<1>0. DOMAIN status = Intents /\ DOMAIN wpc = Workers
  BY Zenon DEF RunShape
<1>1. ASSUME NEW j, NEW s, status' = [status EXCEPT ![j] = s], i = j => s = "started"
      PROVE  status'[i] = "started"
  BY <1>0, <1>1, Zenon
<1>2. CASE UNCHANGED status
  BY <1>2, Zenon
<1>3. ASSUME NEW v \in Workers, WorkerStep(v) PROVE status'[i] = "started"
  <2>1. CASE Admit(v)
    <3>1. UNCHANGED status \/ status' = [status EXCEPT ![Me(v)[1]] = "started"]
      BY <2>1, Zenon DEF Admit, Update, rows
    <3>2. CASE UNCHANGED status
      BY <3>2
    <3>3. CASE status' = [status EXCEPT ![Me(v)[1]] = "started"]
      <4> DEFINE j == Me(v)[1]
      <4>1. status' = [status EXCEPT ![j] = "started"]
        BY <3>3
      <4> HIDE DEF j
      <4> QED
        BY <4>1, <1>0, Zenon
    <3> QED
      BY <3>1, <3>2, <3>3, Zenon
  <2>2. CASE Finalize(v) \/ \E b \in BOOLEAN : SoftLimit(v, b)
    <3>1. v # w
      <4>1. wpc[v] = "finalize" \/ wpc'[v] = "idle"
        BY <2>2, <1>0, Zenon DEF Finalize, SoftLimit, Ack, Goto
      <4> QED
        BY <4>1, Zenon
    <3>2. wpc[v] # "idle"
      BY <2>2, Zenon DEF Finalize, SoftLimit
    <3>3. Me(v)[1] = i => task[Me(v)[1]] # Me(v)
      BY <3>1, <3>2, Zenon
    <3>4. \/ UNCHANGED status
          \/ \E s : status' = [status EXCEPT ![Me(v)[1]] = s] /\ task[Me(v)[1]] = Me(v)
      BY <2>2, Zenon DEF Finalize, SoftLimit, Fenced, Owns, SetStatus, Retry, Update, rows
    <3> QED
      BY <3>3, <3>4, <1>1, <1>2, ZenonT(30)
  <2> QED
    BY <1>3, <1>2, <2>1, <2>2, Zenon DEF WorkerStep, Handoff, HandoffNoCheckpoint, Acquire,
       Resume, ResumeReads, Progress, RunEnds, Renew, LeaseLost, Crash, Deliver, RunRaises,
       ResumeRaises, rows
<1>4. ASSUME NEW d \in Dispatchers, DispatcherStep(d) PROVE status'[i] = "started"
  <2>1. ASSUME NEW j \in Intents, Claim(d, j) PROVE status'[i] = "started"
    <3>1. status' = [status EXCEPT ![j] = "claimed"] /\ status[j] # "started"
      BY <2>1, Zenon DEF Claim, Update
    <3> QED
      BY <3>1, <1>1, Zenon
  <2>2. CASE CommitEnqueued(d)
    <3>1. \/ UNCHANGED status
          \/ \E s : status' = [status EXCEPT ![held[d]] = s] /\ status[held[d]] = "claimed"
      BY <2>2, Zenon DEF CommitEnqueued, SetStatus, Retry, Update, rows
    <3>2. status[held[d]] = "claimed" => held[d] # i
      OBVIOUS
    <3> QED
      BY <3>1, <3>2, <1>1, <1>2, ZenonT(30)
  <2>3. ASSUME NEW kind, Revert(d, kind) PROVE status'[i] = "started"
    <3>1. dpc[d] = "revert" /\ \E s : status' = [status EXCEPT ![held[d]] = s]
      BY <2>3, Zenon DEF Revert, Update
    <3> QED
      BY <3>1, <1>1, ZenonT(30)
  <2>4. CASE Publish(d) \/ DispatcherDies(d) \/ \E sent \in BOOLEAN : PublishFails(d, sent)
    BY <2>4, <1>2, Zenon DEF Publish, DispatcherDies, PublishFails, rows
  <2> QED
    BY <1>4, <2>1, <2>2, <2>3, <2>4, Zenon DEF DispatcherStep
<1>5. ASSUME NEW j \in Intents, ReconcileStale(j) PROVE status'[i] = "started"
  <2>1. (\E s : status' = [status EXCEPT ![j] = s]) /\ Stale(j)
    BY <1>5, Zenon DEF ReconcileStale, SetStatus, Retry, Update
  <2>2. i # j
    BY <2>1, Zenon DEF Stale
  <2> QED
    BY <2>1, <2>2, <1>1, Zenon
<1>6. CASE \/ \E j \in Intents : ClaimExpires(j) \/ Age(j)
           \/ LeaseExpires \/ ResumeClaimExpires \/ Approve \/ UNCHANGED vars
  BY <1>6, <1>2, Zenon DEF ClaimExpires, Age, LeaseExpires, ResumeClaimExpires, Approve, vars, rows
<1> QED
  BY <1>3, <1>4, <1>5, <1>6, Zenon DEF Next

\* LiveRunKeepsIntent: while the run of an intent's current task is under way, no
\* delivery of an older task ends or re-arms the intent (mark_started,
\* _transition, apply_soft_time_limit_outcome).
THEOREM LiveRunKeeps == Spec => LiveRunKeepsIntent
<1> DEFINE A == \A i \in Intents, w \in Workers :
          /\ Running(w) /\ Me(w) = task[i] /\ status[i] = "started"
          /\ wpc'[w] = "run" /\ ~aged[i]
          /\ \A d \in Dispatchers : ~(dpc[d] = "revert" /\ held[d] = i)
          /\ \A v \in Workers \ {w} : wpc[v] # "idle" => Me(v) # task[i]
          => status'[i] = "started"
<1>1. RunInv /\ [Next]_vars => [A]_vars
  BY StartedKept, Zenon DEF RunInv, Running
<1> QED
  BY <1>1, RunInit, RunNext, PTL DEF Spec, LiveRunKeepsIntent

\* OneActiveIntent: at most one intent of the event is published or started,
\* although rows are claimed before the event is locked: siblings are looked for
\* in the transaction that commits ENQUEUED (_commit_enqueued_publish_target).
THEOREM OneIntentActive == Spec => []OneActiveIntent
<1> DEFINE Act == {"enqueued", "started"}
           I == DOMAIN status = Intents /\ OneActiveIntent
<1>1. Init => I
  BY Zenon DEF Init, OneActiveIntent
<1>2. I /\ [Next]_vars => I'
  <2> SUFFICES ASSUME DOMAIN status = Intents, OneActiveIntent, [Next]_vars PROVE I'
    OBVIOUS
  <2>1. CASE UNCHANGED status
    BY <2>1, Zenon DEF OneActiveIntent
  <2>2. ASSUME NEW j, NEW s, status' = [status EXCEPT ![j] = s],
               s \in Act => status[j] \in Act \/ ~SiblingBlocks(j)
        PROVE  I'
    BY <2>2 DEF OneActiveIntent, SiblingBlocks
  <2> HIDE DEF I
  <2>3. "claimed" \notin Act /\ "skipped" \notin Act /\ "retry" \notin Act /\ "dead" \notin Act
        /\ "terminal" \notin Act
    OBVIOUS
  <2>4. ASSUME NEW w \in Workers, WorkerStep(w) PROVE I'
    <3>1. CASE Admit(w)
      <4>1. \/ UNCHANGED status
            \/ status' = [status EXCEPT ![Me(w)[1]] = "started"] /\ Accepts(Me(w)[1], Me(w))
        BY <3>1, Zenon DEF Admit, Update, rows
      <4>2. Accepts(Me(w)[1], Me(w)) => status[Me(w)[1]] \in Act
        BY Zenon DEF Accepts
      <4> QED
        BY <4>1, <4>2, <2>1, <2>2, Zenon
    <3>2. CASE Finalize(w) \/ \E b \in BOOLEAN : SoftLimit(w, b)
      <4>1. \/ UNCHANGED status
            \/ \E s \in {"terminal", "skipped", "dead", "retry"} :
                  status' = [status EXCEPT ![Me(w)[1]] = s]
        BY <3>2, Zenon DEF Finalize, SoftLimit, SetStatus, Retry, Update, rows
      <4>2. \A s \in {"terminal", "skipped", "dead", "retry"} : s \notin Act
        OBVIOUS
      <4> HIDE DEF Act
      <4> QED
        BY <4>1, <4>2, <2>1, <2>2, Zenon
    <3> QED
      BY <2>4, <2>1, <3>1, <3>2, ZenonT(30) DEF WorkerStep, Handoff, HandoffNoCheckpoint, Acquire,
         Resume, ResumeReads, Progress, RunEnds, Renew, LeaseLost, Crash, Deliver, RunRaises,
         ResumeRaises, rows
  <2>5. ASSUME NEW d \in Dispatchers, DispatcherStep(d) PROVE I'
    <3>1. ASSUME NEW j \in Intents, Claim(d, j) PROVE I'
      <4>1. status' = [status EXCEPT ![j] = "claimed"]
        BY <3>1, Zenon DEF Claim, Update
      <4> HIDE DEF Act
      <4> QED
        BY <4>1, <2>2, <2>3, Zenon
    <3>2. CASE CommitEnqueued(d)
      <4>1. \/ UNCHANGED status
            \/ \E s \in {"skipped", "retry"} : status' = [status EXCEPT ![held[d]] = s]
            \/ status' = [status EXCEPT ![held[d]] = "enqueued"] /\ ~SiblingBlocks(held[d])
        BY <3>2, Zenon DEF CommitEnqueued, SetStatus, Retry, Update, rows
      <4>2. \A s \in {"skipped", "retry"} : s \notin Act
        OBVIOUS
      <4> HIDE DEF Act
      <4> QED
        BY <4>1, <4>2, <2>1, <2>2, Zenon
    <3>3. ASSUME NEW kind, Revert(d, kind) PROVE I'
      <4>1. \E s \in {"dead", "retry"} : status' = [status EXCEPT ![held[d]] = s]
        BY <3>3, Zenon DEF Revert, Update
      <4>2. \A s \in {"dead", "retry"} : s \notin Act
        OBVIOUS
      <4> HIDE DEF Act
      <4> QED
        BY <4>1, <4>2, <2>2, Zenon
    <3>4. CASE Publish(d) \/ DispatcherDies(d) \/ \E sent \in BOOLEAN : PublishFails(d, sent)
      BY <3>4, <2>1, Zenon DEF Publish, DispatcherDies, PublishFails, rows
    <3> QED
      BY <2>5, <3>1, <3>2, <3>3, <3>4, Zenon DEF DispatcherStep
  <2>6. ASSUME NEW j \in Intents, ReconcileStale(j) PROVE I'
    <3>1. \E s \in {"terminal", "skipped", "dead", "retry"} : status' = [status EXCEPT ![j] = s]
      BY <2>6, Zenon DEF ReconcileStale, SetStatus, Retry, Update
    <3>2. \A s \in {"terminal", "skipped", "dead", "retry"} : s \notin Act
      OBVIOUS
    <3> HIDE DEF Act
    <3> QED
      BY <3>1, <3>2, <2>2, Zenon
  <2>7. CASE \/ \E j \in Intents : ClaimExpires(j) \/ Age(j)
             \/ LeaseExpires \/ ResumeClaimExpires \/ Approve \/ UNCHANGED vars
    BY <2>7, <2>1, Zenon DEF ClaimExpires, Age, LeaseExpires, ResumeClaimExpires, Approve, vars,
       rows
  <2> QED
    BY <2>4, <2>5, <2>6, <2>7, Zenon DEF Next
<1> QED
  BY <1>1, <1>2, PTL DEF Spec

-----------------------------------------------------------------------------
(* Resume intents                                                          *)

\* A dispatcher that goes on to mark its intent TERMINAL has resumed it.
ResumeInv ==
    /\ DOMAIN status = Hold!Intents
    /\ DOMAIN pc = Dispatchers /\ DOMAIN cur = Dispatchers /\ DOMAIN res = Dispatchers
    /\ \A d \in Dispatchers :
          /\ pc[d] \in {"check", "clear"} => res[d] = "ok"
          /\ pc[d] \in {"check", "clear", "mark"} /\ res[d] = "ok" => cur[d] \in resumed
    /\ Hold!TerminalWasResumed

\* No intent is there at the start.
LEMMA ResumeInit == Hold!Init => ResumeInv
BY Zenon DEF Hold!Init, ResumeInv, Hold!TerminalWasResumed

\* A step that marks nothing TERMINAL and touches no dispatcher keeps this,
LEMMA ResumeRows ==
  ASSUME ResumeInv, UNCHANGED <<Hold!dsp, resumed>>,
         \/ UNCHANGED status
         \/ \E i \in Hold!Intents, s \in {"pending", "dead", "retry"} :
               status' = [status EXCEPT ![i] = s]
  PROVE  ResumeInv'
<1>1. UNCHANGED <<pc, cur, res, resumed>>
  BY Zenon DEF Hold!dsp
<1>2. /\ DOMAIN status' = Hold!Intents
      /\ \A i \in Hold!Intents : status'[i] = "terminal" => status[i] = "terminal"
  BY Zenon DEF ResumeInv
<1> QED
  BY <1>1, <1>2, Zenon DEF ResumeInv, Hold!TerminalWasResumed

\* and so does a step of a dispatcher.
LEMMA ResumeStep ==
  ASSUME ResumeInv, NEW d \in Dispatchers,
         \/ Hold!ClaimBatch(d) \/ Hold!Step(d) \/ Hold!GraphClears(d) \/ Hold!GraphHolds(d)
         \/ Hold!SoftLimit(d) \/ Hold!Crash(d)
  PROVE  ResumeInv'
<1> USE DEF ResumeInv, Hold!TerminalWasResumed
<1>1. CASE Hold!ClaimBatch(d)
  <2>1. /\ status' = [i \in Hold!Intents |-> IF i \in Hold!Claimable THEN "claimed" ELSE status[i]]
        /\ pc' = [pc EXCEPT ![d] = "batch"] /\ UNCHANGED <<cur, res, resumed>>
    BY <1>1, Zenon DEF Hold!ClaimBatch, Hold!Goto, Hold!hist
  <2> QED
    BY <2>1, Zenon
<1>2. ASSUME NEW i \in Hold!Intents, Hold!Start(d, i) PROVE ResumeInv'
  <2>1. \/ /\ status' = [status EXCEPT ![i] = "started"] /\ cur' = [cur EXCEPT ![d] = i]
           /\ pc' = [pc EXCEPT ![d] = "resume"] /\ UNCHANGED <<res, resumed>>
        \/ /\ status' = [status EXCEPT ![i] = IF @ = "claimed" THEN "skipped" ELSE @]
           /\ UNCHANGED <<pc, cur, res, resumed>>
    BY <1>2, Zenon DEF Hold!Start, Hold!Goto, Hold!hist
  <2> QED
    BY <2>1, Zenon
<1>3. CASE Hold!BatchDone(d) \/ Hold!GraphClears(d) \/ Hold!GraphHolds(d)
  <2>1. /\ UNCHANGED <<status, cur, res, resumed>>
        /\ UNCHANGED pc \/ pc' = [pc EXCEPT ![d] = "idle"]
    BY <1>3, Zenon DEF Hold!BatchDone, Hold!GraphClears, Hold!GraphHolds, Hold!Goto, Hold!row,
       Hold!dsp, Hold!hist
  <2> QED
    BY <2>1, Zenon
<1>4. CASE Hold!Acquire(d)
  <2>1. /\ UNCHANGED <<status, cur, resumed>>
        /\ \/ pc' = [pc EXCEPT ![d] = "graph"] /\ UNCHANGED res
           \/ pc' = [pc EXCEPT ![d] = "mark"] /\ res' = [res EXCEPT ![d] = "deferred"]
    BY <1>4, Zenon DEF Hold!Acquire, Hold!Goto, Hold!row, Hold!hist
  <2> QED
    BY <2>1, Zenon
<1>5. ASSUME NEW r \in {"ok", "failed"}, Hold!GraphEnds(d, r) PROVE ResumeInv'
  <2>1. /\ UNCHANGED <<status, cur>> /\ res' = [res EXCEPT ![d] = r]
        /\ pc' = [pc EXCEPT ![d] = IF r = "ok" /\ cur[d] \in Manual THEN "check" ELSE "mark"]
        /\ resumed' = IF r = "ok" THEN resumed \cup {cur[d]} ELSE resumed
    BY <1>5, Zenon DEF Hold!GraphEnds, Hold!Goto, Hold!row
  <2> QED
    BY <2>1, Zenon
<1>6. CASE Hold!SoftLimit(d)
  <2>1. /\ UNCHANGED <<status, cur, resumed>> /\ res' = [res EXCEPT ![d] = "failed"]
        /\ pc' = [pc EXCEPT ![d] = "mark"]
    BY <1>6, Zenon DEF Hold!SoftLimit, Hold!Goto, Hold!row, Hold!hist
  <2> QED
    BY <2>1, Zenon
<1>7. CASE Hold!ClearChecks(d) \/ Hold!ClearWrites(d)
  <2>1. /\ UNCHANGED <<status, cur, res, resumed>> /\ pc[d] \in {"check", "clear"}
        /\ \E l \in {"clear", "mark"} : pc' = [pc EXCEPT ![d] = l]
    BY <1>7, Zenon DEF Hold!ClearChecks, Hold!ClearWrites, Hold!Goto, Hold!row, Hold!hist
  <2> QED
    BY <2>1, Zenon
<1>8. CASE Hold!Mark(d)
  <2>1. /\ UNCHANGED resumed /\ pc[d] = "mark" /\ cur' = [cur EXCEPT ![d] = NoOne]
        /\ res' = [res EXCEPT ![d] = "none"]
        /\ \/ UNCHANGED status \/ status' = [status EXCEPT ![cur[d]] = Hold!Outcome(cur[d], res[d])]
        /\ \E l \in {"batch", "idle"} : pc' = [pc EXCEPT ![d] = l]
    BY <1>8, Zenon DEF Hold!Mark, Hold!Goto, Hold!hist
  <2>2. Hold!Outcome(cur[d], res[d]) = "terminal" => res[d] = "ok"
    BY Zenon DEF Hold!Outcome
  <2> QED
    BY <2>1, <2>2, Zenon
<1>9. CASE Hold!Crash(d)
  <2>1. /\ UNCHANGED <<status, resumed>> /\ pc' = [pc EXCEPT ![d] = "idle"]
        /\ cur' = [cur EXCEPT ![d] = NoOne] /\ res' = [res EXCEPT ![d] = "none"]
    BY <1>9, Zenon DEF Hold!Crash, Hold!row
  <2> QED
    BY <2>1, Zenon
<1> HIDE DEF ResumeInv, Hold!TerminalWasResumed
<1> QED
  BY <1>1, <1>2, <1>3, <1>4, <1>5, <1>6, <1>7, <1>8, <1>9, ZenonT(30) DEF Hold!Step

\* Every step keeps it.
LEMMA ResumeNext == ResumeInv /\ [Hold!Next]_Hold!vars => ResumeInv'
<1> SUFFICES ASSUME ResumeInv, [Hold!Next]_Hold!vars PROVE ResumeInv'
  OBVIOUS
<1>1. ASSUME NEW i \in Hold!Intents,
             Hold!Resolve(i) \/ Hold!EnqueuePlan(i) \/ Hold!ClaimLapses(i) \/ Hold!ReconcileStale(i)
      PROVE  ResumeInv'
  <2>1. /\ UNCHANGED <<Hold!dsp, resumed>>
        /\ \/ UNCHANGED status
           \/ \E s \in {"pending", "dead", "retry"} : status' = [status EXCEPT ![i] = s]
    BY <1>1, Zenon DEF Hold!Resolve, Hold!EnqueuePlan, Hold!ClaimLapses, Hold!ReconcileStale, Hold!hist
  <2> QED
    BY <2>1, ResumeRows, Zenon
<1>2. CASE \/ Hold!OtherStarts \/ Hold!OtherHolds \/ Hold!OtherEnds \/ Hold!LeaseExpires
           \/ UNCHANGED Hold!vars
  <2>1. UNCHANGED <<status, Hold!dsp, resumed>>
    BY <1>2, Zenon DEF Hold!OtherStarts, Hold!OtherHolds, Hold!OtherEnds, Hold!LeaseExpires,
       Hold!vars, Hold!row, Hold!hist
  <2> QED
    BY <2>1, ResumeRows, Zenon
<1> QED
  BY <1>1, <1>2, ResumeStep, Zenon DEF Hold!Next

\* TerminalWasResumed: an intent is TERMINAL only when a resume made for it has
\* returned "ok", not when the resume was deferred, failed or died, although the
\* marks compare no owner (_run_claimed_intent, _mark_terminal).
THEOREM ResumedTerminal == Hold!Spec => []Hold!TerminalWasResumed
<1>1. ResumeInv => Hold!TerminalWasResumed
  BY Zenon DEF ResumeInv
<1> QED
  BY <1>1, ResumeInit, ResumeNext, PTL DEF Hold!Spec

\* Only _run_claimed_intent writes STARTED, and it looks at the hold first.
LEMMA OnlyStartStarts ==
  ASSUME ResumeInv, [Hold!Next]_Hold!vars, NEW i \in Manual,
         status[i] # "started", status'[i] = "started"
  PROVE  gen[i] = hold /\ substate = "manual"
<1>0. i \in Hold!Intents /\ DOMAIN status = Hold!Intents
  BY Zenon DEF ResumeInv, Hold!Intents
<1>1. ASSUME NEW j, NEW s, status' = [status EXCEPT ![j] = s], s # "started" PROVE FALSE
  BY <1>0, <1>1, Zenon
<1>2. CASE UNCHANGED status
  BY <1>2, Zenon
<1>3. ASSUME NEW j \in Hold!Intents,
             Hold!Resolve(j) \/ Hold!EnqueuePlan(j) \/ Hold!ClaimLapses(j) \/ Hold!ReconcileStale(j)
      PROVE  FALSE
  <2>1. \/ UNCHANGED status
        \/ \E s \in {"pending", "dead", "retry"} : status' = [status EXCEPT ![j] = s]
    BY <1>3, Zenon DEF Hold!Resolve, Hold!EnqueuePlan, Hold!ClaimLapses, Hold!ReconcileStale
  <2> QED
    BY <1>0, <2>1, Zenon
<1>4. ASSUME NEW d \in Dispatchers, Hold!ClaimBatch(d) PROVE FALSE
  <2>1. status' = [k \in Hold!Intents |-> IF k \in Hold!Claimable THEN "claimed" ELSE status[k]]
    BY <1>4, Zenon DEF Hold!ClaimBatch
  <2> QED
    BY <1>0, <2>1, Zenon
<1>5. ASSUME NEW d \in Dispatchers, NEW j \in Hold!Intents, Hold!Start(d, j)
      PROVE  gen[i] = hold /\ substate = "manual"
  <2>1. \/ status' = [status EXCEPT ![j] = "started"] /\ Hold!HoldStands(j)
        \/ status' = [status EXCEPT ![j] = IF @ = "claimed" THEN "skipped" ELSE @]
    BY <1>5, Zenon DEF Hold!Start
  <2> QED
    BY <1>0, <2>1, Zenon DEF Hold!HoldStands
<1>6. ASSUME NEW d \in Dispatchers, Hold!Mark(d) PROVE FALSE
  <2>1. UNCHANGED status \/ status' = [status EXCEPT ![cur[d]] = Hold!Outcome(cur[d], res[d])]
    BY <1>6, Zenon DEF Hold!Mark
  <2>2. Hold!Outcome(cur[d], res[d]) # "started"
    BY Zenon DEF Hold!Outcome
  <2> QED
    BY <2>1, <2>2, <1>1, <1>2, Zenon
<1>7. ASSUME NEW d \in Dispatchers,
             \/ Hold!BatchDone(d) \/ Hold!Acquire(d) \/ Hold!ClearChecks(d) \/ Hold!ClearWrites(d)
             \/ (\E r \in {"ok", "failed"} : Hold!GraphEnds(d, r))
             \/ Hold!GraphClears(d) \/ Hold!GraphHolds(d) \/ Hold!SoftLimit(d) \/ Hold!Crash(d)
      PROVE  UNCHANGED status
  BY <1>7, Zenon DEF Hold!BatchDone, Hold!Acquire, Hold!ClearChecks, Hold!ClearWrites,
     Hold!GraphEnds, Hold!GraphClears, Hold!GraphHolds,
     Hold!SoftLimit, Hold!Crash, Hold!row
<1>8. CASE \/ Hold!OtherStarts \/ Hold!OtherHolds \/ Hold!OtherEnds \/ Hold!LeaseExpires
           \/ UNCHANGED Hold!vars
  BY <1>8, <1>2, Zenon DEF Hold!OtherStarts, Hold!OtherHolds, Hold!OtherEnds, Hold!LeaseExpires,
     Hold!vars, Hold!row
<1> QED
  BY <1>2, <1>3, <1>4, <1>5, <1>6, <1>7, <1>8, Zenon DEF Hold!Next, Hold!Step

\* StartsCurrentHold: a run never starts for a hold that is not the newest one
\* (generation fence of _run_claimed_intent).
THEOREM CurrentHoldStarts == Hold!Spec => Hold!StartsCurrentHold
<1> DEFINE A == \A i \in Manual : status[i] # "started" /\ status'[i] = "started"
                    => gen[i] = hold /\ substate = "manual"
<1>1. ResumeInv /\ [Hold!Next]_Hold!vars => [A]_Hold!vars
  BY OnlyStartStarts, Zenon
<1> QED
  BY <1>1, ResumeInit, ResumeNext, PTL DEF Hold!Spec, Hold!StartsCurrentHold


=============================================================================
