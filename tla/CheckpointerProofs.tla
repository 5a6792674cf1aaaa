------------------------- MODULE CheckpointerProofs -------------------------
(***************************************************************************)
(* Theorems about Checkpointer, for any number of savers, steps, faults,   *)
(* deaths, deletions and expiries.                                         *)
(***************************************************************************)
EXTENDS Checkpointer, TLAPS

Places == {"new", "fence", "ready", "reserve", "publish", "delete"}
Steps == 1..steps

-----------------------------------------------------------------------------
(* The inductive invariant                                                 *)

\* What is kept per saver
Funs ==
    /\ DOMAIN mem = Savers /\ DOMAIN held = Savers
    /\ basis \in [Savers -> Nat] /\ failed \in [Savers -> BOOLEAN]
    /\ pc \in [Savers -> Places]

\* Generations come from the sequence and steps from the puts; a saver that
\* reads the fence holds a payload, one that publishes holds a generation,
\* and one without the thread has no generation to go on from.
Shape ==
    /\ seq \in Nat /\ fence \in 0..seq /\ steps \in 0..MaxSteps
    /\ payload # None => (payload.gen \in 1..seq /\ payload.steps \subseteq Steps)
    /\ begun \subseteq Steps /\ gone \subseteq Steps
    /\ Funs
    /\ \A s \in Savers : /\ basis[s] \in 0..seq
                         /\ IF mem[s] = None THEN basis[s] = 0 ELSE mem[s] \subseteq Steps
                         /\ pc[s] = "fence" => /\ mem[s] = None /\ held[s].gen \in 1..seq
                                               /\ held[s].steps \subseteq Steps
                         /\ pc[s] = "publish" => (held[s] \in 1..seq /\ fence # 0)
                         /\ pc[s] = "reserve" => ~failed[s]
                         /\ pc[s] \in {"reserve", "publish"} => mem[s] # None

\* Steps of a checkpoint that may stand for the thread: all that were begun,
\* none of a deleted thread.
Complete(S) == begun \subseteq S /\ S \cap gone = {}

\* Whatever is of the generation of the fence is complete: the payload, a
\* payload a saver holds, the thread of a saver with that basis, and the
\* thread a saver is about to publish.
Current ==
    /\ LoadableIsComplete
    /\ fence = 0 => begun = {}
    /\ \A s \in Savers :
        /\ (pc[s] = "fence" /\ held[s].gen = fence) => Complete(held[s].steps)
        /\ (mem[s] # None /\ basis[s] = fence /\ fence # 0) => Complete(mem[s])
        /\ (pc[s] = "publish" /\ held[s] = fence) => Complete(mem[s])

\* A saver that starts without a generation: its basis is 0 and it may still
\* persist the thread under it.
Fresh(s) ==
    /\ mem[s] # None /\ basis[s] = 0
    /\ ~failed[s] \/ pc[s] = "delete"
    /\ pc[s] # "publish" /\ (pc[s] = "reserve" => fence = 0)

\* What a saver can have learnt of from others
Shared == begun \cup gone \cup (IF payload # None THEN payload.steps ELSE {})
Known(s) == (IF mem[s] # None THEN mem[s] ELSE {})
              \cup (IF pc[s] = "fence" THEN held[s].steps ELSE {})

\* The steps of such a saver are its own: nobody has begun, stored, held or
\* loaded them.
Private ==
    \A s \in Savers : Fresh(s) =>
        /\ mem[s] \cap Shared = {}
        /\ \A t \in Savers : t # s => mem[s] \cap Known(t) = {}

CheckpointInv == Shape /\ Current /\ Private

\* A deletion is under way
Deleting == \E d \in Savers : pc[d] = "delete"

\* Nothing is of the generation of the fence, so that nobody can reserve the next
\* or publish.
Behind ==
    /\ fence # 0 /\ (payload # None => payload.gen # fence)
    /\ \A s \in Savers : /\ basis[s] # fence /\ (pc[s] = "fence" => held[s].gen # fence)
                         /\ pc[s] = "publish" => held[s] # fence

\* While a thread is being deleted it is so.
Tombstone == Deleting => acked = {} /\ Behind

\* The puts that wait, and the one a saver persists, were made.
QueueInv ==
    /\ DOMAIN cur = Savers /\ DOMAIN queue = Savers
    /\ \A s \in Savers : cur[s] \in 0..steps /\ queue[s] \subseteq Steps

\* The put that a saver is about to publish was in the thread it reserved the
\* generation for.
Reserved ==
    \A s \in Savers : (pc[s] = "publish" /\ held[s] = fence /\ cur[s] \in mem[s])
                         => cur[s] \in begun

\* What was acknowledged is begun and, without a fault, stored.
AckInv == faults \in Nat /\ acked \subseteq begun /\ AckedStays

-----------------------------------------------------------------------------
(* Shape                                                                   *)

\* Every step keeps the shape of the state: loads, puts, reservations and
\* publications of any saver, deletions, expiries and deaths.
LEMMA ShapeStep == Shape /\ [Next]_vars => Shape'
<1> SUFFICES ASSUME Shape, [Next]_vars PROVE Shape'
  OBVIOUS
<1> USE CheckpointerConstants DEF Places
<1>1. ASSUME NEW s \in Savers, Hydrate(s) PROVE Shape'
  BY <1>1 DEF Shape, Funs, Steps, Hydrate, Go, redisVars, bounds
<1>2. ASSUME NEW s \in Savers, LoadFence(s) PROVE Shape'
  BY <1>2 DEF Shape, Funs, Steps, LoadFence, Go, redisVars, histVars, bounds
<1>3. ASSUME NEW s \in Savers, HydrateFails(s) PROVE Shape'
  BY <1>3, Zenon DEF Shape, Funs, Steps, HydrateFails, Go, redisVars, histVars
<1>4. ASSUME NEW s \in Savers, RedisRecovered(s) PROVE Shape'
  BY <1>4, Zenon DEF Shape, Funs, Steps, RedisRecovered, redisVars, histVars, bounds
<1>5. ASSUME NEW s \in Savers, Put(s) PROVE Shape'
  BY <1>5 DEF Shape, Funs, Steps, Put, redisVars, histVars
<1>6. ASSUME NEW s \in Savers, NEW n \in queue[s], PersistLocked(s, n) PROVE Shape'
  BY <1>6, Zenon DEF Shape, Funs, Steps, PersistLocked, Go, redisVars, histVars, bounds
<1>7. ASSUME NEW s \in Savers, ReserveGeneration(s) PROVE Shape'
  <2>1. seq' = seq + 1 /\ fence' = seq' /\ UNCHANGED <<payload, mem, basis, failed, steps, gone>>
    BY <1>7, Zenon DEF ReserveGeneration, ReserveScript, Go, bounds
  <2>2. begun' = begun \cup mem[s] /\ mem[s] \subseteq Steps
    BY <1>7, Zenon DEF ReserveGeneration, Shape, Funs
  <2>3. held' = [held EXCEPT ![s] = seq'] /\ pc' = [pc EXCEPT ![s] = "publish"]
    BY <1>7, <2>1, Zenon DEF ReserveGeneration, Go, saverVars
  <2>4. /\ seq' \in Nat /\ seq' \in 1..seq' /\ fence' \in 0..seq' /\ fence' # 0
        /\ \A x : (x \in 0..seq => x \in 0..seq') /\ (x \in 1..seq => x \in 1..seq')
    BY <2>1 DEF Shape, Funs
  <2> QED
    <3>1. ASSUME NEW t \in Savers
          PROVE /\ pc'[t] = "fence" => /\ mem'[t] = None /\ held'[t].gen \in 1..seq'
                                        /\ held'[t].steps \subseteq Steps'
                /\ pc'[t] = "publish" => (held'[t] \in 1..seq' /\ fence' # 0)
                /\ pc'[t] \in {"reserve", "publish"} => mem'[t] # None
      <4>1. CASE t = s
        BY <2>1, <2>3, <2>4, <4>1, <1>7, Zenon DEF Shape, Funs, ReserveGeneration
      <4>2. CASE t # s
        BY <2>1, <2>3, <2>4, <4>2, Zenon DEF Shape, Funs, Steps
      <4> QED
        BY <4>1, <4>2, Zenon
    <3> QED
      BY <2>1, <2>2, <2>3, <2>4, <3>1, Zenon DEF Shape, Funs, Steps
<1>8. ASSUME NEW s \in Savers, ReserveReplyLost(s) PROVE Shape'
  <2>1. seq' = seq + 1 /\ fence' = seq' /\ UNCHANGED <<payload, mem, basis, failed, steps, gone>>
    BY <1>8, Zenon DEF ReserveReplyLost, ReserveScript, saverVars
  <2>2. begun' = begun \cup mem[s] /\ mem[s] \subseteq Steps
    BY <1>8, Zenon DEF ReserveReplyLost, Shape, Funs
  <2>3. UNCHANGED <<held, pc>>
    BY <1>8, <2>1, Zenon DEF ReserveReplyLost, Go, saverVars
  <2>4. /\ seq' \in Nat /\ seq' \in 1..seq' /\ fence' \in 0..seq' /\ fence' # 0
        /\ \A x : (x \in 0..seq => x \in 0..seq') /\ (x \in 1..seq => x \in 1..seq')
    BY <2>1 DEF Shape, Funs
  <2> QED
    BY <2>1, <2>2, <2>3, <2>4, <1>8, Zenon DEF Shape, Funs, Steps, ReserveReplyLost
<1>9. ASSUME NEW s \in Savers, ReserveRejected(s) PROVE Shape'
  BY <1>9, Zenon DEF Shape, Funs, Steps, ReserveRejected, MarkFailure, Go, redisVars, histVars, bounds
<1>10. ASSUME NEW s \in Savers, NEW isolated \in BOOLEAN, ReserveFails(s, isolated) PROVE Shape'
  BY <1>10, Zenon DEF Shape, Funs, Steps, ReserveFails, MarkFailure, Go, histVars
<1>11. ASSUME NEW s \in Savers, NEW isolated \in BOOLEAN, DeleteFenceFails(s, isolated)
       PROVE Shape'
  BY <1>11 DEF Shape, Funs, Steps, DeleteFenceFails, histVars
<1>12. ASSUME NEW s \in Savers, NEW isolated \in BOOLEAN, DeletePayloadFails(s, isolated)
       PROVE Shape'
  BY <1>12, Zenon DEF Shape, Funs, Steps, DeletePayloadFails, Go, histVars
<1>13. ASSUME NEW s \in Savers, Publish(s) PROVE Shape'
  BY <1>13 DEF Shape, Funs, Steps, Publish, Go, bounds
<1>14. ASSUME NEW s \in Savers, PublishSuperseded(s) PROVE Shape'
  BY <1>14, Zenon DEF Shape, Funs, Steps, PublishSuperseded, MarkFailure, Go, redisVars, histVars, bounds
<1>15. ASSUME NEW s \in Savers, PublishFails(s) PROVE Shape'
  BY <1>15 DEF Shape, Funs, Steps, PublishFails, MarkFailure, Go, histVars
<1>16. ASSUME NEW s \in Savers, DeleteFence(s) PROVE Shape'
  BY <1>16 DEF Shape, Funs, Steps, DeleteFence, Go
<1>17. ASSUME NEW s \in Savers, DeletePayload(s) PROVE Shape'
  BY <1>17, Zenon DEF Shape, Funs, Steps, DeletePayload, Go, histVars, bounds
<1>18. ASSUME NEW s \in Savers, Crash(s) PROVE Shape'
  BY <1>18 DEF Shape, Funs, Steps, Crash, Go, redisVars, histVars
<1>19. CASE Invalidate
  BY <1>19, Zenon DEF Shape, Funs, Steps, Invalidate, redisVars, saverVars, histVars
<1>20. CASE FenceExpires
  BY <1>20 DEF Shape, Funs, Steps, FenceExpires, saverVars
<1>21. CASE UNCHANGED vars
  BY <1>21, Zenon DEF Shape, Funs, Steps, vars, redisVars, saverVars, histVars, bounds
<1> QED
  BY <1>1, <1>2, <1>3, <1>4, <1>5, <1>6, <1>7, <1>8, <1>9, <1>10, <1>11, <1>12, <1>13, <1>14,
     <1>15, <1>16, <1>17, <1>18, <1>19, <1>20, <1>21, Zenon DEF Next

\* Every step keeps what is of the generation of the fence complete.
LEMMA CurrentStep == Shape /\ Shape' /\ Current /\ Private /\ [Next]_vars => Current'
<1> SUFFICES ASSUME Shape, Shape', Current, Private, [Next]_vars PROVE Current'
  OBVIOUS
<1> USE CheckpointerConstants DEF Complete, Loadable, LoadableIsComplete
<1>1. ASSUME NEW s \in Savers, Hydrate(s) PROVE Current'
  BY <1>1 DEF Shape, Funs, Steps, Current, Places, Hydrate, Go, redisVars, bounds
<1>2. ASSUME NEW s \in Savers, LoadFence(s) PROVE Current'
  BY <1>2 DEF Shape, Funs, Steps, Current, Places, LoadFence, Go, redisVars, histVars, bounds
<1>3. ASSUME NEW s \in Savers, HydrateFails(s) PROVE Current'
  BY <1>3, ZenonT(30) DEF Shape, Funs, Steps, Current, Places, HydrateFails, Go, redisVars, histVars
<1>4. ASSUME NEW s \in Savers, RedisRecovered(s) PROVE Current'
  BY <1>4, Zenon DEF Shape, Funs, Steps, Current, Places, RedisRecovered, redisVars, histVars, bounds
<1>5. ASSUME NEW s \in Savers, Put(s) PROVE Current'
  BY <1>5 DEF Shape, Funs, Steps, Current, Places, Put, redisVars, histVars
<1>6. ASSUME NEW s \in Savers, NEW n \in queue[s], PersistLocked(s, n) PROVE Current'
  BY <1>6, Zenon DEF Shape, Funs, Steps, Current, Places, PersistLocked, Go, redisVars, histVars, bounds
<1>7. ASSUME NEW s \in Savers, ReserveGeneration(s) PROVE Current'
  <2>1. /\ pc[s] = "reserve" /\ fence = basis[s] /\ mem[s] # None /\ ~failed[s]
        /\ fence' = seq + 1 /\ UNCHANGED <<payload, mem, basis, gone>>
        /\ held' = [held EXCEPT ![s] = seq + 1] /\ pc' = [pc EXCEPT ![s] = "publish"]
        /\ begun' = begun \cup mem[s]
    BY <1>7, Zenon DEF ReserveGeneration, ReserveScript, Go, Shape, Funs
  <2>2. begun \subseteq mem[s] /\ mem[s] \cap gone = {}
    <3>1. CASE fence = 0
      BY <2>1, <3>1, Zenon DEF Current, Private, Fresh, Shared
    <3>2. CASE fence # 0
      BY <2>1, <3>2, Zenon DEF Current
    <3> QED
      BY <3>1, <3>2, Zenon
  <2>3. /\ payload # None => payload.gen # fence'
        /\ fence' # 0
        /\ \A t \in Savers : /\ basis[t] # fence'
                             /\ pc[t] = "fence" => held[t].gen # fence'
                             /\ pc[t] = "publish" => held[t] # fence'
    BY <2>1 DEF Shape, Funs
  <2> QED
    BY <2>1, <2>2, <2>3, Zenon DEF Current, Shape, Funs
<1>8. ASSUME NEW s \in Savers, ReserveReplyLost(s) PROVE Current'
  BY <1>8 DEF Shape, Funs, Steps, Current, Places, ReserveReplyLost, ReserveScript, saverVars
<1>9. ASSUME NEW s \in Savers, ReserveRejected(s) PROVE Current'
  BY <1>9, Zenon
     DEF Shape, Funs, Steps, Current, Places, ReserveRejected, MarkFailure, Go, redisVars, histVars, bounds
<1>10. ASSUME NEW s \in Savers, NEW isolated \in BOOLEAN, ReserveFails(s, isolated) PROVE Current'
  BY <1>10, Zenon DEF Shape, Funs, Steps, Current, Places, ReserveFails, MarkFailure, Go, histVars
<1>11. ASSUME NEW s \in Savers, NEW isolated \in BOOLEAN, DeleteFenceFails(s, isolated)
       PROVE Current'
  BY <1>11, Zenon DEF Shape, Funs, Steps, Current, Places, DeleteFenceFails, histVars
<1>12. ASSUME NEW s \in Savers, NEW isolated \in BOOLEAN, DeletePayloadFails(s, isolated)
       PROVE Current'
  BY <1>12, Zenon DEF Shape, Funs, Steps, Current, Places, DeletePayloadFails, Go, histVars
<1>13. ASSUME NEW s \in Savers, Publish(s) PROVE Current'
  BY <1>13, ZenonT(30) DEF Shape, Funs, Steps, Current, Places, Publish, Go, bounds
<1>14. ASSUME NEW s \in Savers, PublishSuperseded(s) PROVE Current'
  BY <1>14, Zenon
     DEF Shape, Funs, Steps, Current, Places, PublishSuperseded, MarkFailure, Go, redisVars, histVars, bounds
<1>15. ASSUME NEW s \in Savers, PublishFails(s) PROVE Current'
  BY <1>15 DEF Shape, Funs, Steps, Current, Places, PublishFails, MarkFailure, Go, histVars
<1>16. ASSUME NEW s \in Savers, DeleteFence(s) PROVE Current'
  BY <1>16 DEF Shape, Funs, Steps, Current, Places, DeleteFence, Go
<1>17. ASSUME NEW s \in Savers, DeletePayload(s) PROVE Current'
  BY <1>17, Zenon DEF Shape, Funs, Steps, Current, Places, DeletePayload, Go, histVars, bounds
<1>18. ASSUME NEW s \in Savers, Crash(s) PROVE Current'
  BY <1>18, Zenon DEF Shape, Funs, Steps, Current, Places, Crash, Go, redisVars, histVars
<1>19. CASE Invalidate
  BY <1>19, Zenon DEF Shape, Funs, Steps, Current, Places, Invalidate, redisVars, saverVars, histVars
<1>20. CASE FenceExpires
  BY <1>20 DEF Shape, Funs, Steps, Current, Places, FenceExpires, saverVars
<1>21. CASE UNCHANGED vars
  BY <1>21, Zenon DEF Shape, Funs, Steps, Current, Places, vars, redisVars, saverVars, histVars, bounds
<1> QED
  BY <1>1, <1>2, <1>3, <1>4, <1>5, <1>6, <1>7, <1>8, <1>9, <1>10, <1>11, <1>12, <1>13, <1>14,
     <1>15, <1>16, <1>17, <1>18, <1>19, <1>20, <1>21, Zenon DEF Next

\* A step of saver p adds to what is shared at most what p knows, lets nobody learn
\* but of what is shared, and makes no saver fresh: the steps of the fresh ones stay
\* their own.
LEMMA PrivateFrame ==
  ASSUME Private, NEW p \in Savers,
         Shared' \subseteq Shared \cup Known(p),
         \A t \in Savers : Known(t)' \subseteq Known(t) \cup Shared,
         \A s \in Savers : Fresh(s)' => /\ Fresh(s) /\ mem'[s] = mem[s]
                                        /\ s # p \/ Shared' \subseteq Shared
  PROVE  Private'
<1> SUFFICES ASSUME NEW s \in Savers, Fresh(s)'
             PROVE  /\ mem'[s] \cap Shared' = {}
                    /\ \A t \in Savers : t # s => mem'[s] \cap Known(t)' = {}
  BY Zenon DEF Private
<1>1. Fresh(s) /\ mem'[s] = mem[s] /\ (s # p \/ Shared' \subseteq Shared)
  OBVIOUS
<1>2. mem[s] \cap Shared = {} /\ \A t \in Savers : t # s => mem[s] \cap Known(t) = {}
  BY <1>1, Zenon DEF Private
<1>3. mem[s] \cap Shared' = {}
  BY <1>1, <1>2, Zenon
<1>4. ASSUME NEW t \in Savers, t # s PROVE mem[s] \cap Known(t)' = {}
  BY <1>2, <1>4, Zenon
<1> QED
  BY <1>1, <1>3, <1>4, Zenon

\* Every step keeps the steps of a fresh saver its own.
LEMMA PrivateStep == Shape /\ Shape' /\ Private /\ [Next]_vars => Private'
<1> SUFFICES ASSUME Shape, Shape', Private, [Next]_vars PROVE Private'
  OBVIOUS
<1>0. Funs /\ MaxSteps \in Nat
  BY CheckpointerConstants, Zenon DEF Shape
<1> USE <1>0 DEF Funs, Places
<1>1. ASSUME NEW s \in Savers, Hydrate(s) PROVE Private'
  <2>0. /\ pc[s] \in {"new", "ready"} /\ mem[s] = None
        /\ \/ pc' = [pc EXCEPT ![s] = "fence"] /\ held' = [held EXCEPT ![s] = payload] /\ payload # None
           \/ pc' = [pc EXCEPT ![s] = "ready"] /\ held' = held
        /\ UNCHANGED <<mem, basis, failed, fence, payload, begun, gone>>
    BY <1>1, Zenon DEF Hydrate, Go, redisVars, bounds
  <2>1. Shared' \subseteq Shared \cup Known(s)
    BY <2>0, Zenon DEF Shared, Known
  <2>2. \A t \in Savers : Known(t)' \subseteq Known(t) \cup Shared
    BY <2>0, Zenon DEF Shared, Known
  <2>3. \A t \in Savers : Fresh(t)' => /\ Fresh(t) /\ mem'[t] = mem[t]
                                       /\ t # s \/ Shared' \subseteq Shared
    BY <2>0, ZenonT(30) DEF Shared, Fresh
  <2> QED
    BY <2>1, <2>2, <2>3, PrivateFrame, Zenon
<1>2. ASSUME NEW s \in Savers, LoadFence(s) PROVE Private'
  <2>0. /\ pc[s] = "fence"
        /\ IF held[s].gen = fence
           THEN mem' = [mem EXCEPT ![s] = held[s].steps] /\ basis' = [basis EXCEPT ![s] = fence]
           ELSE UNCHANGED <<mem, basis>>
        /\ pc' = [pc EXCEPT ![s] = "ready"]
        /\ UNCHANGED <<failed, held, fence, payload, begun, gone>>
    BY <1>2, Zenon DEF LoadFence, Go, redisVars, histVars, bounds
  <2>1. Shared' \subseteq Shared \cup Known(s)
    BY <2>0, SMTT(20) DEF Shape, Shared, Known
  <2>2. \A t \in Savers : Known(t)' \subseteq Known(t) \cup Shared
    BY <2>0, SMTT(20) DEF Shape, Shared, Known
  <2>3. \A t \in Savers : Fresh(t)' => /\ Fresh(t) /\ mem'[t] = mem[t]
                                       /\ t # s \/ Shared' \subseteq Shared
    BY <2>0, SMTT(20) DEF Shape, Shared, Fresh
  <2> QED
    BY <2>1, <2>2, <2>3, PrivateFrame, Zenon
<1>3. ASSUME NEW s \in Savers, HydrateFails(s) PROVE Private'
  <2>0. /\ mem[s] = None
        /\ pc' = [pc EXCEPT ![s] = "ready"]
        /\ UNCHANGED <<mem, basis, failed, held, fence, payload, begun, gone>>
    BY <1>3, Zenon DEF HydrateFails, Go, redisVars, histVars
  <2>1. Shared' \subseteq Shared \cup Known(s)
    BY <2>0, Zenon DEF Shared, Known
  <2>2. \A t \in Savers : Known(t)' \subseteq Known(t) \cup Shared
    BY <2>0, Zenon DEF Shared, Known
  <2>3. \A t \in Savers : Fresh(t)' => /\ Fresh(t) /\ mem'[t] = mem[t]
                                       /\ t # s \/ Shared' \subseteq Shared
    BY <2>0, Zenon DEF Shared, Fresh
  <2> QED
    BY <2>1, <2>2, <2>3, PrivateFrame, Zenon
<1>4. ASSUME NEW s \in Savers, RedisRecovered(s) PROVE Private'
  <2>0. UNCHANGED <<mem, basis, failed, pc, held, fence, payload, begun, gone>>
    BY <1>4, Zenon DEF RedisRecovered, redisVars, histVars, bounds
  <2>1. Shared' \subseteq Shared \cup Known(s)
    BY <2>0, Zenon DEF Shared, Known
  <2>2. \A t \in Savers : Known(t)' \subseteq Known(t) \cup Shared
    BY <2>0, Zenon DEF Shared, Known
  <2>3. \A t \in Savers : Fresh(t)' => /\ Fresh(t) /\ mem'[t] = mem[t]
                                       /\ t # s \/ Shared' \subseteq Shared
    BY <2>0, Zenon DEF Shared, Fresh
  <2> QED
    BY <2>1, <2>2, <2>3, PrivateFrame, Zenon
<1>5. ASSUME NEW s \in Savers, Put(s) PROVE Private'
  <2>1. steps' = steps + 1 /\ UNCHANGED <<pc, held, basis, failed, fence, begun, gone, payload>>
    BY <1>5, Zenon DEF Put, redisVars, histVars
  <2>2. mem' = [mem EXCEPT ![s] = (IF @ = None THEN {} ELSE @) \cup {steps + 1}]
    BY <1>5, Zenon DEF Put
  <2>3. steps + 1 \notin Shared /\ \A t \in Savers : steps + 1 \notin Known(t)
    BY DEF Shape, Steps, Shared, Known
  <2>4. Shared' = Shared /\ \A t \in Savers : t # s => Known(t)' = Known(t)
    BY <2>1, <2>2, Zenon DEF Shared, Known
  <2>5. Known(s)' = Known(s) \cup {steps + 1} /\ mem'[s] = Known(s) \cup {steps + 1}
    <3>1. pc[s] # "fence" /\ steps + 1 \in 1..MaxSteps
      BY <1>5 DEF Put, Shape
    <3>2. mem'[s] = Known(s) \cup {steps + 1} /\ Known(s) \subseteq 1..MaxSteps
      BY <2>2, <3>1 DEF Known, Shape, Steps
    <3>3. mem'[s] # None
      BY <3>1, <3>2, CheckpointerConstants, Zenon
    <3> QED
      BY <2>1, <3>1, <3>2, <3>3, Zenon DEF Known
  <2>6. ASSUME NEW t \in Savers, t # s, Fresh(t)'
        PROVE  mem'[t] \cap Shared' = {} /\ \A u \in Savers : u # t => mem'[t] \cap Known(u)' = {}
    <3>1. Fresh(t) /\ mem'[t] = mem[t] /\ mem[t] = Known(t)
      BY <2>1, <2>2, <2>6, Zenon DEF Fresh, Known, Shape
    <3> QED
      BY <3>1, <2>3, <2>4, <2>5 DEF Private
  <2>7. ASSUME Fresh(s)'
        PROVE  mem'[s] \cap Shared' = {} /\ \A u \in Savers : u # s => mem'[s] \cap Known(u)' = {}
    <3>1. CASE mem[s] = None
      BY <3>1, <2>3, <2>4, <2>5, <1>5 DEF Known, Put
    <3>2. CASE mem[s] # None
      <4>1. Fresh(s) /\ mem[s] = Known(s)
        BY <3>2, <2>1, <2>7, <1>5, Zenon DEF Fresh, Known, Put
      <4> QED
        BY <4>1, <2>3, <2>4, <2>5 DEF Private
    <3> QED
      BY <3>1, <3>2, Zenon
  <2> QED
    BY <2>6, <2>7, Zenon DEF Private
<1>6. ASSUME NEW s \in Savers, NEW n \in queue[s], PersistLocked(s, n) PROVE Private'
  <2>0. /\ pc[s] = "ready"
        /\ pc' = [pc EXCEPT ![s] = "reserve"] \/ pc' = [pc EXCEPT ![s] = "ready"]
        /\ UNCHANGED <<mem, basis, failed, held, fence, payload, begun, gone>>
    BY <1>6, Zenon DEF PersistLocked, Go, redisVars, histVars, bounds
  <2>1. Shared' \subseteq Shared \cup Known(s)
    BY <2>0, Zenon DEF Shared, Known
  <2>2. \A t \in Savers : Known(t)' \subseteq Known(t) \cup Shared
    BY <2>0, Zenon DEF Shared, Known
  <2>3. \A t \in Savers : Fresh(t)' => /\ Fresh(t) /\ mem'[t] = mem[t]
                                       /\ t # s \/ Shared' \subseteq Shared
    BY <2>0, ZenonT(30) DEF Shared, Fresh
  <2> QED
    BY <2>1, <2>2, <2>3, PrivateFrame, Zenon
<1>7. ASSUME NEW s \in Savers, ReserveGeneration(s) PROVE Private'
  <2>0. /\ pc[s] = "reserve" /\ fence = basis[s]
        /\ pc' = [pc EXCEPT ![s] = "publish"]
        /\ held' = [held EXCEPT ![s] = seq + 1]
        /\ fence' = seq + 1
        /\ begun' = begun \cup mem[s]
        /\ UNCHANGED <<mem, basis, failed, payload, gone>>
    BY <1>7, Zenon DEF ReserveGeneration, ReserveScript, Go, bounds
  <2>1. Shared' \subseteq Shared \cup Known(s)
    BY <2>0, SMTT(20) DEF Shape, Shared, Known
  <2>2. \A t \in Savers : Known(t)' \subseteq Known(t) \cup Shared
    BY <2>0, SMTT(20) DEF Shape, Shared, Known
  <2>3. \A t \in Savers : Fresh(t)' => /\ Fresh(t) /\ mem'[t] = mem[t]
                                       /\ t # s \/ Shared' \subseteq Shared
    BY <2>0, SMTT(20) DEF Shape, Shared, Fresh
  <2> QED
    BY <2>1, <2>2, <2>3, PrivateFrame, Zenon
<1>8. ASSUME NEW s \in Savers, ReserveReplyLost(s) PROVE Private'
  <2>0. /\ pc[s] = "reserve" /\ fence = basis[s]
        /\ fence' = seq + 1
        /\ begun' = begun \cup mem[s]
        /\ UNCHANGED <<mem, basis, failed, pc, held, payload, gone>>
    BY <1>8, Zenon DEF ReserveReplyLost, ReserveScript, saverVars
  <2>1. Shared' \subseteq Shared \cup Known(s)
    BY <2>0, SMTT(20) DEF Shape, Shared, Known
  <2>2. \A t \in Savers : Known(t)' \subseteq Known(t) \cup Shared
    BY <2>0, SMTT(20) DEF Shape, Shared, Known
  <2>3. \A t \in Savers : Fresh(t)' => /\ Fresh(t) /\ mem'[t] = mem[t]
                                       /\ t # s \/ Shared' \subseteq Shared
    BY <2>0, SMTT(20) DEF Shape, Shared, Fresh
  <2> QED
    BY <2>1, <2>2, <2>3, PrivateFrame, Zenon
<1>9. ASSUME NEW s \in Savers, ReserveRejected(s) PROVE Private'
  <2>0. /\ pc[s] = "reserve"
        /\ failed' = [failed EXCEPT ![s] = TRUE]
        /\ pc' = [pc EXCEPT ![s] = "ready"]
        /\ UNCHANGED <<mem, basis, held, fence, payload, begun, gone>>
    BY <1>9, Zenon DEF ReserveRejected, MarkFailure, Go, redisVars, histVars, bounds
  <2>1. Shared' \subseteq Shared \cup Known(s)
    BY <2>0, Zenon DEF Shared, Known
  <2>2. \A t \in Savers : Known(t)' \subseteq Known(t) \cup Shared
    BY <2>0, Zenon DEF Shared, Known
  <2>3. \A t \in Savers : Fresh(t)' => /\ Fresh(t) /\ mem'[t] = mem[t]
                                       /\ t # s \/ Shared' \subseteq Shared
    BY <2>0, Zenon DEF Shared, Fresh
  <2> QED
    BY <2>1, <2>2, <2>3, PrivateFrame, Zenon
<1>10. ASSUME NEW s \in Savers, NEW isolated \in BOOLEAN, ReserveFails(s, isolated)
       PROVE Private'
  <2>0. /\ pc[s] = "reserve"
        /\ failed' = [failed EXCEPT ![s] = TRUE]
        /\ pc' = [pc EXCEPT ![s] = "ready"]
        /\ payload' = None \/ payload' = payload
        /\ UNCHANGED <<mem, basis, held, fence, begun, gone>>
    BY <1>10, Zenon DEF ReserveFails, MarkFailure, Go, histVars
  <2>1. Shared' \subseteq Shared \cup Known(s)
    BY <2>0, Zenon DEF Shared, Known
  <2>2. \A t \in Savers : Known(t)' \subseteq Known(t) \cup Shared
    BY <2>0, Zenon DEF Shared, Known
  <2>3. \A t \in Savers : Fresh(t)' => /\ Fresh(t) /\ mem'[t] = mem[t]
                                       /\ t # s \/ Shared' \subseteq Shared
    BY <2>0, Zenon DEF Shared, Fresh
  <2> QED
    BY <2>1, <2>2, <2>3, PrivateFrame, Zenon
<1>11. ASSUME NEW s \in Savers, NEW isolated \in BOOLEAN, DeleteFenceFails(s, isolated)
       PROVE Private'
  <2>0. /\ pc[s] = "ready"
        /\ mem' = [mem EXCEPT ![s] = None]
        /\ basis' = [basis EXCEPT ![s] = 0]
        /\ payload' = None \/ payload' = payload
        /\ UNCHANGED <<failed, pc, held, fence, begun, gone>>
    BY <1>11, Zenon DEF DeleteFenceFails, histVars
  <2>1. Shared' \subseteq Shared \cup Known(s)
    BY <2>0, Zenon DEF Shared, Known
  <2>2. \A t \in Savers : Known(t)' \subseteq Known(t) \cup Shared
    BY <2>0, Zenon DEF Shared, Known
  <2>3. \A t \in Savers : Fresh(t)' => /\ Fresh(t) /\ mem'[t] = mem[t]
                                       /\ t # s \/ Shared' \subseteq Shared
    BY <2>0, Zenon DEF Shared, Fresh
  <2> QED
    BY <2>1, <2>2, <2>3, PrivateFrame, Zenon
<1>12. ASSUME NEW s \in Savers, NEW isolated \in BOOLEAN, DeletePayloadFails(s, isolated)
       PROVE Private'
  <2>0. /\ pc[s] = "delete"
        /\ pc' = [pc EXCEPT ![s] = "ready"]
        /\ payload' = None \/ payload' = payload
        /\ UNCHANGED <<mem, basis, failed, held, fence, begun, gone>>
    BY <1>12, Zenon DEF DeletePayloadFails, Go, histVars
  <2>1. Shared' \subseteq Shared \cup Known(s)
    BY <2>0, Zenon DEF Shared, Known
  <2>2. \A t \in Savers : Known(t)' \subseteq Known(t) \cup Shared
    BY <2>0, Zenon DEF Shared, Known
  <2>3. \A t \in Savers : Fresh(t)' => /\ Fresh(t) /\ mem'[t] = mem[t]
                                       /\ t # s \/ Shared' \subseteq Shared
    BY <2>0, Zenon DEF Shared, Fresh
  <2> QED
    BY <2>1, <2>2, <2>3, PrivateFrame, Zenon
<1>13. ASSUME NEW s \in Savers, Publish(s) PROVE Private'
  <2>0. /\ pc[s] = "publish" /\ fence = held[s]
        /\ basis' = [basis EXCEPT ![s] = held[s]]
        /\ pc' = [pc EXCEPT ![s] = "ready"]
        /\ payload' = [gen |-> held[s], steps |-> mem[s]]
        /\ UNCHANGED <<mem, failed, held, fence, begun, gone>>
    BY <1>13, Zenon DEF Publish, Go, bounds
  <2>1. Shared' \subseteq Shared \cup Known(s)
    BY <2>0, SMTT(20) DEF Shape, Shared, Known
  <2>2. \A t \in Savers : Known(t)' \subseteq Known(t) \cup Shared
    BY <2>0, SMTT(20) DEF Shape, Shared, Known
  <2>3. \A t \in Savers : Fresh(t)' => /\ Fresh(t) /\ mem'[t] = mem[t]
                                       /\ t # s \/ Shared' \subseteq Shared
    BY <2>0, SMTT(20) DEF Shape, Shared, Fresh
  <2> QED
    BY <2>1, <2>2, <2>3, PrivateFrame, Zenon
<1>14. ASSUME NEW s \in Savers, PublishSuperseded(s) PROVE Private'
  <2>0. /\ pc[s] = "publish"
        /\ failed' = [failed EXCEPT ![s] = TRUE]
        /\ pc' = [pc EXCEPT ![s] = "ready"]
        /\ UNCHANGED <<mem, basis, held, fence, payload, begun, gone>>
    BY <1>14, ZenonT(30) DEF PublishSuperseded, MarkFailure, Go, redisVars, histVars, bounds
  <2>1. Shared' \subseteq Shared \cup Known(s)
    BY <2>0, SMTT(20) DEF Shape, Shared, Known
  <2>2. \A t \in Savers : Known(t)' \subseteq Known(t) \cup Shared
    BY <2>0, SMTT(20) DEF Shape, Shared, Known
  <2>3. \A t \in Savers : Fresh(t)' => /\ Fresh(t) /\ mem'[t] = mem[t]
                                       /\ t # s \/ Shared' \subseteq Shared
    BY <2>0, SMTT(20) DEF Shape, Shared, Fresh
  <2> QED
    BY <2>1, <2>2, <2>3, PrivateFrame, Zenon
<1>15. ASSUME NEW s \in Savers, PublishFails(s) PROVE Private'
  <2>0. /\ pc[s] = "publish"
        /\ failed' = [failed EXCEPT ![s] = TRUE]
        /\ pc' = [pc EXCEPT ![s] = "ready"]
        /\ \/ payload' = payload
           \/ fence = held[s] /\ payload' = [gen |-> held[s], steps |-> mem[s]]
        /\ UNCHANGED <<mem, basis, held, fence, begun, gone>>
    BY <1>15, Zenon DEF PublishFails, MarkFailure, Go, histVars
  <2>1. Shared' \subseteq Shared \cup Known(s)
    BY <2>0, SMTT(20) DEF Shape, Shared, Known
  <2>2. \A t \in Savers : Known(t)' \subseteq Known(t) \cup Shared
    BY <2>0, SMTT(20) DEF Shape, Shared, Known
  <2>3. \A t \in Savers : Fresh(t)' => /\ Fresh(t) /\ mem'[t] = mem[t]
                                       /\ t # s \/ Shared' \subseteq Shared
    BY <2>0, SMTT(20) DEF Shape, Shared, Fresh
  <2> QED
    BY <2>1, <2>2, <2>3, PrivateFrame, Zenon
<1>16. ASSUME NEW s \in Savers, DeleteFence(s) PROVE Private'
  <2>0. /\ pc[s] = "ready"
        /\ mem' = [mem EXCEPT ![s] = None]
        /\ basis' = [basis EXCEPT ![s] = 0]
        /\ pc' = [pc EXCEPT ![s] = "delete"]
        /\ fence' = seq + 1
        /\ begun' = {}
        /\ gone' = gone \cup begun
        /\ UNCHANGED <<failed, held, payload>>
    BY <1>16, ZenonT(30) DEF DeleteFence, Go
  <2>1. Shared' \subseteq Shared \cup Known(s)
    BY <2>0, SMTT(20) DEF Shape, Shared, Known
  <2>2. \A t \in Savers : Known(t)' \subseteq Known(t) \cup Shared
    BY <2>0, SMTT(20) DEF Shape, Shared, Known
  <2>3. \A t \in Savers : Fresh(t)' => /\ Fresh(t) /\ mem'[t] = mem[t]
                                       /\ t # s \/ Shared' \subseteq Shared
    BY <2>0, SMTT(20) DEF Shape, Shared, Fresh
  <2> QED
    BY <2>1, <2>2, <2>3, PrivateFrame, Zenon
<1>17. ASSUME NEW s \in Savers, DeletePayload(s) PROVE Private'
  <2>0. /\ pc[s] = "delete"
        /\ failed' = [failed EXCEPT ![s] = FALSE]
        /\ pc' = [pc EXCEPT ![s] = "ready"]
        /\ payload' = None
        /\ UNCHANGED <<mem, basis, held, fence, begun, gone>>
    BY <1>17, Zenon DEF DeletePayload, Go, histVars, bounds
  <2>1. Shared' \subseteq Shared \cup Known(s)
    BY <2>0, Zenon DEF Shared, Known
  <2>2. \A t \in Savers : Known(t)' \subseteq Known(t) \cup Shared
    BY <2>0, Zenon DEF Shared, Known
  <2>3. \A t \in Savers : Fresh(t)' => /\ Fresh(t) /\ mem'[t] = mem[t]
                                       /\ t # s \/ Shared' \subseteq Shared
    BY <2>0, Zenon DEF Shared, Fresh
  <2> QED
    BY <2>1, <2>2, <2>3, PrivateFrame, Zenon
<1>18. ASSUME NEW s \in Savers, Crash(s) PROVE Private'
  <2>0. /\ mem' = [mem EXCEPT ![s] = None]
        /\ basis' = [basis EXCEPT ![s] = 0]
        /\ failed' = [failed EXCEPT ![s] = FALSE]
        /\ pc' = [pc EXCEPT ![s] = "new"]
        /\ UNCHANGED <<held, fence, payload, begun, gone>>
    BY <1>18, Zenon DEF Crash, Go, redisVars, histVars
  <2>1. Shared' \subseteq Shared \cup Known(s)
    BY <2>0, Zenon DEF Shared, Known
  <2>2. \A t \in Savers : Known(t)' \subseteq Known(t) \cup Shared
    BY <2>0, Zenon DEF Shared, Known
  <2>3. \A t \in Savers : Fresh(t)' => /\ Fresh(t) /\ mem'[t] = mem[t]
                                       /\ t # s \/ Shared' \subseteq Shared
    BY <2>0, Zenon DEF Shared, Fresh
  <2> QED
    BY <2>1, <2>2, <2>3, PrivateFrame, Zenon
<1>19. CASE Invalidate
  <2>0. UNCHANGED <<mem, basis, failed, pc, held, fence, payload, begun, gone>>
    BY <1>19, Zenon DEF Invalidate, redisVars, saverVars, histVars
  <2>1. Shared' = Shared /\ \A t \in Savers : Known(t)' = Known(t) /\ (Fresh(t)' => Fresh(t))
    BY <2>0, Zenon DEF Shared, Known, Fresh
  <2>2. mem' = mem
    BY <2>0, Zenon
  <2> QED
    BY <2>1, <2>2, Zenon DEF Private
<1>20. CASE FenceExpires
  <2>0. /\ \A s \in Savers : pc[s] \in {"new", "ready"}
        /\ fence' = 0
        /\ begun' = {}
        /\ gone' = gone \cup begun
        /\ UNCHANGED <<mem, basis, failed, pc, held, payload>>
    BY <1>20, Zenon DEF FenceExpires, saverVars
  <2>1. Shared' = Shared /\ \A t \in Savers : Known(t)' = Known(t) /\ (Fresh(t)' => Fresh(t))
    BY <2>0, Zenon DEF Shared, Known, Fresh
  <2>2. mem' = mem
    BY <2>0, Zenon
  <2> QED
    BY <2>1, <2>2, Zenon DEF Private
<1>21. CASE UNCHANGED vars
  <2>0. UNCHANGED <<mem, basis, failed, pc, held, fence, payload, begun, gone>>
    BY <1>21, Zenon DEF vars, redisVars, saverVars, histVars, bounds
  <2>1. Shared' = Shared /\ \A t \in Savers : Known(t)' = Known(t) /\ (Fresh(t)' => Fresh(t))
    BY <2>0, Zenon DEF Shared, Known, Fresh
  <2>2. mem' = mem
    BY <2>0, Zenon
  <2> QED
    BY <2>1, <2>2, Zenon DEF Private
<1> QED
  BY <1>1, <1>2, <1>3, <1>4, <1>5, <1>6, <1>7, <1>8, <1>9, <1>10, <1>11, <1>12, <1>13, <1>14,
     <1>15, <1>16, <1>17, <1>18, <1>19, <1>20, <1>21, Zenon DEF Next

\* A step that starts no deletion and, during one, moves neither the fence nor what
\* was acknowledged and brings nobody up to the fence keeps the tombstone.
LEMMA TombstoneFrame ==
  ASSUME Tombstone, Deleting' => Deleting,
         Deleting /\ acked = {} /\ Behind => fence' = fence /\ acked' = acked /\ Behind'
  PROVE  Tombstone'
BY Zenon DEF Tombstone

\* Every step keeps the fence of a deletion in the way of every writer.
LEMMA TombstoneStep == Shape /\ Shape' /\ Tombstone /\ [Next]_vars => Tombstone'
<1> SUFFICES ASSUME Shape, Shape', Tombstone, [Next]_vars PROVE Tombstone'
  OBVIOUS
<1>0. Funs /\ MaxSteps \in Nat
  BY CheckpointerConstants, Zenon DEF Shape
<1> USE <1>0 DEF Funs, Places
<1>1. ASSUME NEW s \in Savers, Hydrate(s) PROVE Tombstone'
  <2>0. /\ pc[s] \in {"new", "ready"} /\ mem[s] = None
        /\ \/ pc' = [pc EXCEPT ![s] = "fence"] /\ held' = [held EXCEPT ![s] = payload] /\ payload # None
           \/ pc' = [pc EXCEPT ![s] = "ready"] /\ held' = held
        /\ UNCHANGED <<basis, fence, payload, acked>>
    BY <1>1, Zenon DEF Hydrate, Go, redisVars, bounds
  <2>1. Deleting' => Deleting
    BY <2>0, Zenon DEF Deleting
  <2>2. Behind => Behind'
    BY <2>0, Zenon DEF Behind
  <2> QED
    BY <2>0, <2>1, <2>2, TombstoneFrame, Zenon
<1>2. ASSUME NEW s \in Savers, LoadFence(s) PROVE Tombstone'
  <2>0. /\ pc[s] = "fence"
        /\ pc' = [pc EXCEPT ![s] = "ready"]
        /\ IF held[s].gen = fence
           THEN mem' = [mem EXCEPT ![s] = held[s].steps] /\ basis' = [basis EXCEPT ![s] = fence]
           ELSE UNCHANGED <<mem, basis>>
        /\ UNCHANGED <<held, fence, payload, acked>>
    BY <1>2, Zenon DEF LoadFence, Go, redisVars, histVars, bounds
  <2>1. Deleting' => Deleting
    BY <2>0, Zenon DEF Deleting
  <2>2. Behind => Behind'
    BY <2>0, Zenon DEF Behind
  <2> QED
    BY <2>0, <2>1, <2>2, TombstoneFrame, Zenon
<1>3. ASSUME NEW s \in Savers, HydrateFails(s) PROVE Tombstone'
  <2>0. /\ mem[s] = None
        /\ pc' = [pc EXCEPT ![s] = "ready"]
        /\ UNCHANGED <<held, basis, fence, payload, acked>>
    BY <1>3, Zenon DEF HydrateFails, Go, redisVars, histVars
  <2>1. Deleting' => Deleting
    BY <2>0, Zenon DEF Deleting
  <2>2. Behind => Behind'
    BY <2>0, Zenon DEF Behind
  <2> QED
    BY <2>0, <2>1, <2>2, TombstoneFrame, Zenon
<1>4. ASSUME NEW s \in Savers, RedisRecovered(s) PROVE Tombstone'
  <2>0. UNCHANGED <<pc, held, basis, fence, payload, acked>>
    BY <1>4, Zenon DEF RedisRecovered, redisVars, histVars, bounds
  <2>1. Deleting' => Deleting
    BY <2>0, Zenon DEF Deleting
  <2>2. Behind => Behind'
    BY <2>0, Zenon DEF Behind
  <2> QED
    BY <2>0, <2>1, <2>2, TombstoneFrame, Zenon
<1>5. ASSUME NEW s \in Savers, Put(s) PROVE Tombstone'
  <2>0. UNCHANGED <<pc, held, basis, fence, payload, acked>>
    BY <1>5, Zenon DEF Put, redisVars, histVars
  <2>1. Deleting' => Deleting
    BY <2>0, Zenon DEF Deleting
  <2>2. Behind => Behind'
    BY <2>0, Zenon DEF Behind
  <2> QED
    BY <2>0, <2>1, <2>2, TombstoneFrame, Zenon
<1>6. ASSUME NEW s \in Savers, NEW n \in queue[s], PersistLocked(s, n) PROVE Tombstone'
  <2>0. /\ pc[s] = "ready"
        /\ pc' = [pc EXCEPT ![s] = "reserve"] \/ pc' = [pc EXCEPT ![s] = "ready"]
        /\ UNCHANGED <<held, basis, fence, payload, acked>>
    BY <1>6, Zenon DEF PersistLocked, Go, redisVars, histVars, bounds
  <2>1. Deleting' => Deleting
    BY <2>0, Zenon DEF Deleting
  <2>2. Behind => Behind'
    BY <2>0, Zenon DEF Behind
  <2> QED
    BY <2>0, <2>1, <2>2, TombstoneFrame, Zenon
<1>7. ASSUME NEW s \in Savers, ReserveGeneration(s) PROVE Tombstone'
  <2>0. /\ pc[s] = "reserve" /\ fence = basis[s]
        /\ pc' = [pc EXCEPT ![s] = "publish"]
        /\ held' = [held EXCEPT ![s] = seq + 1]
        /\ fence' = seq + 1
        /\ UNCHANGED <<basis, payload, acked>>
    BY <1>7, Zenon DEF ReserveGeneration, ReserveScript, Go, bounds
  <2>1. Deleting' => Deleting
    BY <2>0, Zenon DEF Deleting
  <2>2. ~Behind
    BY <2>0, Zenon DEF Behind
  <2> QED
    BY <2>1, <2>2, TombstoneFrame, Zenon
<1>8. ASSUME NEW s \in Savers, ReserveReplyLost(s) PROVE Tombstone'
  <2>0. /\ pc[s] = "reserve" /\ fence = basis[s]
        /\ fence' = seq + 1
        /\ UNCHANGED <<pc, held, basis, payload, acked>>
    BY <1>8, Zenon DEF ReserveReplyLost, ReserveScript, saverVars
  <2>1. Deleting' => Deleting
    BY <2>0, Zenon DEF Deleting
  <2>2. ~Behind
    BY <2>0, Zenon DEF Behind
  <2> QED
    BY <2>1, <2>2, TombstoneFrame, Zenon
<1>9. ASSUME NEW s \in Savers, ReserveRejected(s) PROVE Tombstone'
  <2>0. /\ pc[s] = "reserve"
        /\ pc' = [pc EXCEPT ![s] = "ready"]
        /\ UNCHANGED <<held, basis, fence, payload, acked>>
    BY <1>9, Zenon DEF ReserveRejected, MarkFailure, Go, redisVars, histVars, bounds
  <2>1. Deleting' => Deleting
    BY <2>0, Zenon DEF Deleting
  <2>2. Behind => Behind'
    BY <2>0, Zenon DEF Behind
  <2> QED
    BY <2>0, <2>1, <2>2, TombstoneFrame, Zenon
<1>10. ASSUME NEW s \in Savers, NEW isolated \in BOOLEAN, ReserveFails(s, isolated)
       PROVE Tombstone'
  <2>0. /\ pc[s] = "reserve"
        /\ pc' = [pc EXCEPT ![s] = "ready"]
        /\ payload' = None \/ payload' = payload
        /\ UNCHANGED <<held, basis, fence, acked>>
    BY <1>10, Zenon DEF ReserveFails, MarkFailure, Go, histVars
  <2>1. Deleting' => Deleting
    BY <2>0, Zenon DEF Deleting
  <2>2. Behind => Behind'
    BY <2>0, Zenon DEF Behind
  <2> QED
    BY <2>0, <2>1, <2>2, TombstoneFrame, Zenon
<1>11. ASSUME NEW s \in Savers, NEW isolated \in BOOLEAN, DeleteFenceFails(s, isolated)
       PROVE Tombstone'
  <2>0. /\ pc[s] = "ready"
        /\ basis' = [basis EXCEPT ![s] = 0]
        /\ payload' = None \/ payload' = payload
        /\ UNCHANGED <<pc, held, fence, acked>>
    BY <1>11, Zenon DEF DeleteFenceFails, histVars
  <2>1. Deleting' => Deleting
    BY <2>0, Zenon DEF Deleting
  <2>2. Behind => Behind'
    BY <2>0, Zenon DEF Behind
  <2> QED
    BY <2>0, <2>1, <2>2, TombstoneFrame, Zenon
<1>12. ASSUME NEW s \in Savers, NEW isolated \in BOOLEAN, DeletePayloadFails(s, isolated)
       PROVE Tombstone'
  <2>0. /\ pc[s] = "delete"
        /\ pc' = [pc EXCEPT ![s] = "ready"]
        /\ payload' = None \/ payload' = payload
        /\ UNCHANGED <<held, basis, fence, acked>>
    BY <1>12, Zenon DEF DeletePayloadFails, Go, histVars
  <2>1. Deleting' => Deleting
    BY <2>0, Zenon DEF Deleting
  <2>2. Behind => Behind'
    BY <2>0, Zenon DEF Behind
  <2> QED
    BY <2>0, <2>1, <2>2, TombstoneFrame, Zenon
<1>13. ASSUME NEW s \in Savers, Publish(s) PROVE Tombstone'
  <2>0. /\ pc[s] = "publish" /\ fence = held[s]
        /\ pc' = [pc EXCEPT ![s] = "ready"]
        /\ basis' = [basis EXCEPT ![s] = held[s]]
        /\ payload' = [gen |-> held[s], steps |-> mem[s]]
        /\ acked' = acked \cup ({cur[s]} \cap mem[s])
        /\ UNCHANGED <<held, fence>>
    BY <1>13, Zenon DEF Publish, Go, bounds
  <2>1. Deleting' => Deleting
    BY <2>0, Zenon DEF Deleting
  <2>2. ~Behind
    BY <2>0, Zenon DEF Behind
  <2> QED
    BY <2>1, <2>2, TombstoneFrame, Zenon
<1>14. ASSUME NEW s \in Savers, PublishSuperseded(s) PROVE Tombstone'
  <2>0. /\ pc[s] = "publish"
        /\ pc' = [pc EXCEPT ![s] = "ready"]
        /\ UNCHANGED <<held, basis, fence, payload, acked>>
    BY <1>14, Zenon DEF PublishSuperseded, MarkFailure, Go, redisVars, histVars, bounds
  <2>1. Deleting' => Deleting
    BY <2>0, Zenon DEF Deleting
  <2>2. Behind => Behind'
    BY <2>0, Zenon DEF Behind
  <2> QED
    BY <2>0, <2>1, <2>2, TombstoneFrame, Zenon
<1>15. ASSUME NEW s \in Savers, PublishFails(s) PROVE Tombstone'
  <2>0. /\ pc[s] = "publish"
        /\ pc' = [pc EXCEPT ![s] = "ready"]
        /\ \/ payload' = payload
           \/ fence = held[s] /\ payload' = [gen |-> held[s], steps |-> mem[s]]
        /\ UNCHANGED <<held, basis, fence, acked>>
    BY <1>15, Zenon DEF PublishFails, MarkFailure, Go, histVars
  <2>1. Deleting' => Deleting
    BY <2>0, Zenon DEF Deleting
  <2>2. Behind => Behind'
    BY <2>0, ZenonT(30) DEF Behind
  <2> QED
    BY <2>0, <2>1, <2>2, TombstoneFrame, Zenon
<1>16. ASSUME NEW s \in Savers, DeleteFence(s) PROVE Tombstone'
  <2>1. fence' = seq + 1 /\ acked' = {} /\ UNCHANGED <<payload, held>>
    BY <1>16, Zenon DEF DeleteFence
  <2>2. basis' = [basis EXCEPT ![s] = 0] /\ pc' = [pc EXCEPT ![s] = "delete"]
    BY <1>16, Zenon DEF DeleteFence, Go
  <2>3. seq \in Nat /\ (payload # None => payload.gen \in 1..seq)
    BY Zenon DEF Shape
  <2>4. ASSUME NEW t \in Savers
        PROVE  /\ basis'[t] # fence' /\ (pc'[t] = "fence" => held'[t].gen # fence')
               /\ pc'[t] = "publish" => held'[t] # fence'
    <3>1. /\ basis[t] \in 0..seq /\ (pc[t] = "fence" => held[t].gen \in 1..seq)
          /\ pc[t] = "publish" => held[t] \in 1..seq
      BY Zenon DEF Shape
    <3> QED
      BY <2>1, <2>2, <2>3, <3>1
  <2> QED
    BY <2>1, <2>3, <2>4 DEF Tombstone, Behind
<1>17. ASSUME NEW s \in Savers, DeletePayload(s) PROVE Tombstone'
  <2>0. /\ pc[s] = "delete"
        /\ pc' = [pc EXCEPT ![s] = "ready"]
        /\ payload' = None
        /\ UNCHANGED <<held, basis, fence, acked>>
    BY <1>17, Zenon DEF DeletePayload, Go, histVars, bounds
  <2>1. Deleting' => Deleting
    BY <2>0, Zenon DEF Deleting
  <2>2. Behind => Behind'
    BY <2>0, Zenon DEF Behind
  <2> QED
    BY <2>0, <2>1, <2>2, TombstoneFrame, Zenon
<1>18. ASSUME NEW s \in Savers, Crash(s) PROVE Tombstone'
  <2>0. /\ pc' = [pc EXCEPT ![s] = "new"]
        /\ basis' = [basis EXCEPT ![s] = 0]
        /\ UNCHANGED <<held, fence, payload, acked>>
    BY <1>18, Zenon DEF Crash, Go, redisVars, histVars
  <2>1. Deleting' => Deleting
    BY <2>0, Zenon DEF Deleting
  <2>2. Behind => Behind'
    BY <2>0, Zenon DEF Behind
  <2> QED
    BY <2>0, <2>1, <2>2, TombstoneFrame, Zenon
<1>19. CASE Invalidate
  <2>0. UNCHANGED <<pc, held, basis, fence, payload, acked>>
    BY <1>19, Zenon DEF Invalidate, redisVars, saverVars, histVars
  <2>1. Deleting' => Deleting
    BY <2>0, Zenon DEF Deleting
  <2>2. Behind => Behind'
    BY <2>0, Zenon DEF Behind
  <2> QED
    BY <2>0, <2>1, <2>2, TombstoneFrame, Zenon
<1>20. CASE FenceExpires
  <2>0. /\ \A s \in Savers : pc[s] \in {"new", "ready"}
        /\ fence' = 0
        /\ acked' = {}
        /\ UNCHANGED <<pc, held, basis, payload>>
    BY <1>20, Zenon DEF FenceExpires, saverVars
  <2>1. ~Deleting'
    BY <2>0, Zenon DEF Deleting
  <2> QED
    BY <2>1, Zenon DEF Tombstone
<1>21. CASE UNCHANGED vars
  <2>0. UNCHANGED <<pc, held, basis, fence, payload, acked>>
    BY <1>21, Zenon DEF vars, redisVars, saverVars, histVars, bounds
  <2>1. Deleting' => Deleting
    BY <2>0, Zenon DEF Deleting
  <2>2. Behind => Behind'
    BY <2>0, Zenon DEF Behind
  <2> QED
    BY <2>0, <2>1, <2>2, TombstoneFrame, Zenon
<1> QED
  BY <1>1, <1>2, <1>3, <1>4, <1>5, <1>6, <1>7, <1>8, <1>9, <1>10, <1>11, <1>12, <1>13, <1>14,
     <1>15, <1>16, <1>17, <1>18, <1>19, <1>20, <1>21, Zenon DEF Next

\* Every step keeps the waiting puts among those that were made.
LEMMA QueueStep == Shape /\ QueueInv /\ [Next]_vars => QueueInv'
<1> SUFFICES ASSUME Shape, QueueInv, [Next]_vars PROVE QueueInv'
  OBVIOUS
<1>0. Funs /\ MaxSteps \in Nat
  BY CheckpointerConstants, Zenon DEF Shape
<1> USE <1>0 DEF Funs, Places
<1>1. ASSUME NEW s \in Savers, Hydrate(s) PROVE QueueInv'
  <2>0. UNCHANGED <<cur, queue, steps>>
    BY <1>1, Zenon DEF Hydrate, Go, redisVars, bounds
  <2> QED
    BY <2>0, Zenon DEF QueueInv, Steps
<1>2. ASSUME NEW s \in Savers, LoadFence(s) PROVE QueueInv'
  <2>0. UNCHANGED <<cur, queue, steps>>
    BY <1>2, Zenon DEF LoadFence, Go, redisVars, histVars, bounds
  <2> QED
    BY <2>0, Zenon DEF QueueInv, Steps
<1>3. ASSUME NEW s \in Savers, HydrateFails(s) PROVE QueueInv'
  <2>0. UNCHANGED <<cur, queue, steps>>
    BY <1>3, Zenon DEF HydrateFails, Go, redisVars, histVars
  <2> QED
    BY <2>0, Zenon DEF QueueInv, Steps
<1>4. ASSUME NEW s \in Savers, RedisRecovered(s) PROVE QueueInv'
  <2>0. UNCHANGED <<cur, queue, steps>>
    BY <1>4, Zenon DEF RedisRecovered, redisVars, histVars, bounds
  <2> QED
    BY <2>0, Zenon DEF QueueInv, Steps
<1>5. ASSUME NEW s \in Savers, Put(s) PROVE QueueInv'
  BY <1>5 DEF Shape, Steps, QueueInv, Put
<1>6. ASSUME NEW s \in Savers, NEW n \in queue[s], PersistLocked(s, n) PROVE QueueInv'
  <2>0. /\ cur' = [cur EXCEPT ![s] = n]
        /\ queue' = [queue EXCEPT ![s] = @ \ {n}]
        /\ UNCHANGED steps
    BY <1>6, Zenon DEF PersistLocked, Go, redisVars, histVars, bounds
  <2> QED
    BY <2>0, <1>6 DEF QueueInv, Steps
<1>7. ASSUME NEW s \in Savers, ReserveGeneration(s) PROVE QueueInv'
  <2>0. UNCHANGED <<cur, queue, steps>>
    BY <1>7, Zenon DEF ReserveGeneration, ReserveScript, Go, bounds
  <2> QED
    BY <2>0, Zenon DEF QueueInv, Steps
<1>8. ASSUME NEW s \in Savers, ReserveReplyLost(s) PROVE QueueInv'
  <2>0. UNCHANGED <<cur, queue, steps>>
    BY <1>8, Zenon DEF ReserveReplyLost, ReserveScript, saverVars
  <2> QED
    BY <2>0, Zenon DEF QueueInv, Steps
<1>9. ASSUME NEW s \in Savers, ReserveRejected(s) PROVE QueueInv'
  <2>0. UNCHANGED <<cur, queue, steps>>
    BY <1>9, Zenon DEF ReserveRejected, MarkFailure, Go, redisVars, histVars, bounds
  <2> QED
    BY <2>0, Zenon DEF QueueInv, Steps
<1>10. ASSUME NEW s \in Savers, NEW isolated \in BOOLEAN, ReserveFails(s, isolated)
       PROVE QueueInv'
  <2>0. UNCHANGED <<cur, queue, steps>>
    BY <1>10, Zenon DEF ReserveFails, MarkFailure, Go, histVars
  <2> QED
    BY <2>0, Zenon DEF QueueInv, Steps
<1>11. ASSUME NEW s \in Savers, NEW isolated \in BOOLEAN, DeleteFenceFails(s, isolated)
       PROVE QueueInv'
  <2>0. UNCHANGED <<cur, queue, steps>>
    BY <1>11, Zenon DEF DeleteFenceFails, histVars
  <2> QED
    BY <2>0, Zenon DEF QueueInv, Steps
<1>12. ASSUME NEW s \in Savers, NEW isolated \in BOOLEAN, DeletePayloadFails(s, isolated)
       PROVE QueueInv'
  <2>0. UNCHANGED <<cur, queue, steps>>
    BY <1>12, Zenon DEF DeletePayloadFails, Go, histVars
  <2> QED
    BY <2>0, Zenon DEF QueueInv, Steps
<1>13. ASSUME NEW s \in Savers, Publish(s) PROVE QueueInv'
  <2>0. UNCHANGED <<cur, queue, steps>>
    BY <1>13, Zenon DEF Publish, Go, bounds
  <2> QED
    BY <2>0, Zenon DEF QueueInv, Steps
<1>14. ASSUME NEW s \in Savers, PublishSuperseded(s) PROVE QueueInv'
  <2>0. UNCHANGED <<cur, queue, steps>>
    BY <1>14, Zenon DEF PublishSuperseded, MarkFailure, Go, redisVars, histVars, bounds
  <2> QED
    BY <2>0, Zenon DEF QueueInv, Steps
<1>15. ASSUME NEW s \in Savers, PublishFails(s) PROVE QueueInv'
  <2>0. UNCHANGED <<cur, queue, steps>>
    BY <1>15, Zenon DEF PublishFails, MarkFailure, Go, histVars
  <2> QED
    BY <2>0, Zenon DEF QueueInv, Steps
<1>16. ASSUME NEW s \in Savers, DeleteFence(s) PROVE QueueInv'
  <2>0. UNCHANGED <<cur, queue, steps>>
    BY <1>16, Zenon DEF DeleteFence, Go
  <2> QED
    BY <2>0, Zenon DEF QueueInv, Steps
<1>17. ASSUME NEW s \in Savers, DeletePayload(s) PROVE QueueInv'
  <2>0. UNCHANGED <<cur, queue, steps>>
    BY <1>17, Zenon DEF DeletePayload, Go, histVars, bounds
  <2> QED
    BY <2>0, Zenon DEF QueueInv, Steps
<1>18. ASSUME NEW s \in Savers, Crash(s) PROVE QueueInv'
  <2>0. /\ queue' = [queue EXCEPT ![s] = {}]
        /\ UNCHANGED <<cur, steps>>
    BY <1>18, Zenon DEF Crash, Go, redisVars, histVars
  <2> QED
    BY <2>0, Zenon DEF QueueInv, Steps
<1>19. CASE Invalidate
  <2>0. UNCHANGED <<cur, queue, steps>>
    BY <1>19, Zenon DEF Invalidate, redisVars, saverVars, histVars
  <2> QED
    BY <2>0, Zenon DEF QueueInv, Steps
<1>20. CASE FenceExpires
  <2>0. UNCHANGED <<cur, queue, steps>>
    BY <1>20, Zenon DEF FenceExpires, saverVars
  <2> QED
    BY <2>0, Zenon DEF QueueInv, Steps
<1>21. CASE UNCHANGED vars
  <2>0. UNCHANGED <<cur, queue, steps>>
    BY <1>21, Zenon DEF vars, redisVars, saverVars, histVars, bounds
  <2> QED
    BY <2>0, Zenon DEF QueueInv, Steps
<1> QED
  BY <1>1, <1>2, <1>3, <1>4, <1>5, <1>6, <1>7, <1>8, <1>9, <1>10, <1>11, <1>12, <1>13, <1>14,
     <1>15, <1>16, <1>17, <1>18, <1>19, <1>20, <1>21, Zenon DEF Next

\* A step that lets nobody publish, moves neither the fence nor what publishers hold,
\* and forgets nothing that was begun keeps the reserved puts reserved.
LEMMA ReservedFrame ==
  ASSUME Reserved, fence' = fence, begun \subseteq begun',
         \A t \in Savers : pc'[t] = "publish" =>
            /\ pc[t] = "publish" /\ held'[t] = held[t]
            /\ mem'[t] = mem[t] /\ cur'[t] = cur[t]
  PROVE  Reserved'
BY Zenon DEF Reserved

\* Every step keeps the put that is being persisted within the thread its
\* generation was reserved for.
LEMMA ReservedStep == Shape /\ QueueInv /\ Reserved /\ [Next]_vars => Reserved'
<1> SUFFICES ASSUME Shape, QueueInv, Reserved, [Next]_vars PROVE Reserved'
  OBVIOUS
<1>0. Funs /\ MaxSteps \in Nat
  BY CheckpointerConstants, Zenon DEF Shape
<1> USE <1>0 DEF Funs, Places
<1>1. ASSUME NEW s \in Savers, Hydrate(s) PROVE Reserved'
  <2>0. /\ pc[s] \in {"new", "ready"} /\ mem[s] = None
        /\ \/ pc' = [pc EXCEPT ![s] = "fence"] /\ held' = [held EXCEPT ![s] = payload] /\ payload # None
           \/ pc' = [pc EXCEPT ![s] = "ready"] /\ held' = held
        /\ UNCHANGED <<fence, mem, cur, begun>>
    BY <1>1, Zenon DEF Hydrate, Go, redisVars, bounds
  <2> QED
    BY <2>0, ReservedFrame, Zenon
<1>2. ASSUME NEW s \in Savers, LoadFence(s) PROVE Reserved'
  <2>0. /\ pc[s] = "fence"
        /\ pc' = [pc EXCEPT ![s] = "ready"]
        /\ IF held[s].gen = fence
           THEN mem' = [mem EXCEPT ![s] = held[s].steps] /\ basis' = [basis EXCEPT ![s] = fence]
           ELSE UNCHANGED <<mem, basis>>
        /\ UNCHANGED <<held, fence, cur, begun>>
    BY <1>2, Zenon DEF LoadFence, Go, redisVars, histVars, bounds
  <2> QED
    BY <2>0, ReservedFrame, Zenon
<1>3. ASSUME NEW s \in Savers, HydrateFails(s) PROVE Reserved'
  <2>0. /\ mem[s] = None
        /\ pc' = [pc EXCEPT ![s] = "ready"]
        /\ UNCHANGED <<held, fence, mem, cur, begun>>
    BY <1>3, Zenon DEF HydrateFails, Go, redisVars, histVars
  <2> QED
    BY <2>0, ReservedFrame, Zenon
<1>4. ASSUME NEW s \in Savers, RedisRecovered(s) PROVE Reserved'
  <2>0. UNCHANGED <<pc, held, fence, mem, cur, begun>>
    BY <1>4, Zenon DEF RedisRecovered, redisVars, histVars, bounds
  <2> QED
    BY <2>0, ReservedFrame, Zenon
<1>5. ASSUME NEW s \in Savers, Put(s) PROVE Reserved'
  <2>1. /\ UNCHANGED <<pc, held, fence, cur, begun>>
        /\ mem' = [mem EXCEPT ![s] = (IF @ = None THEN {} ELSE @) \cup {steps + 1}]
    BY <1>5, Zenon DEF Put, redisVars, histVars
  <2>2. ASSUME NEW t \in Savers, pc[t] = "publish", cur[t] \in mem'[t] PROVE cur[t] \in mem[t]
    <3>1. mem[t] # None
      BY <2>2, Zenon DEF Shape
    <3>2. cur[t] # steps + 1
      BY DEF QueueInv, Shape
    <3> QED
      BY <2>1, <2>2, <3>1, <3>2, Zenon
  <2> QED
    BY <2>1, <2>2, Zenon DEF Reserved
<1>6. ASSUME NEW s \in Savers, NEW n \in queue[s], PersistLocked(s, n) PROVE Reserved'
  <2>0. /\ pc[s] = "ready"
        /\ pc' = [pc EXCEPT ![s] = "reserve"] \/ pc' = [pc EXCEPT ![s] = "ready"]
        /\ cur' = [cur EXCEPT ![s] = n]
        /\ UNCHANGED <<held, fence, mem, begun>>
    BY <1>6, Zenon DEF PersistLocked, Go, redisVars, histVars, bounds
  <2> QED
    BY <2>0, ReservedFrame
<1>7. ASSUME NEW s \in Savers, ReserveGeneration(s) PROVE Reserved'
  <2>1. /\ fence' = seq + 1 /\ held' = [held EXCEPT ![s] = seq + 1]
        /\ begun' = begun \cup mem[s] /\ UNCHANGED <<mem, cur>>
        /\ pc' = [pc EXCEPT ![s] = "publish"]
    BY <1>7, Zenon DEF ReserveGeneration, ReserveScript, Go
  <2>2. ASSUME NEW t \in Savers, t # s, pc'[t] = "publish" PROVE held'[t] # fence'
    BY <2>1, <2>2 DEF Shape
  <2> QED
    BY <2>1, <2>2, Zenon DEF Reserved
<1>8. ASSUME NEW s \in Savers, ReserveReplyLost(s) PROVE Reserved'
  <2>1. fence' = seq + 1 /\ held' = held /\ \A t \in Savers : pc'[t] = "publish" => pc[t] = "publish"
    BY <1>8, Zenon DEF ReserveReplyLost, ReserveScript, saverVars
  <2>2. ASSUME NEW t \in Savers, pc'[t] = "publish" PROVE held'[t] # fence'
    BY <2>1, <2>2 DEF Shape
  <2> QED
    BY <2>2, Zenon DEF Reserved
<1>9. ASSUME NEW s \in Savers, ReserveRejected(s) PROVE Reserved'
  <2>0. /\ pc[s] = "reserve"
        /\ pc' = [pc EXCEPT ![s] = "ready"]
        /\ UNCHANGED <<held, fence, mem, cur, begun>>
    BY <1>9, Zenon DEF ReserveRejected, MarkFailure, Go, redisVars, histVars, bounds
  <2> QED
    BY <2>0, ReservedFrame, Zenon
<1>10. ASSUME NEW s \in Savers, NEW isolated \in BOOLEAN, ReserveFails(s, isolated)
       PROVE Reserved'
  <2>0. /\ pc[s] = "reserve"
        /\ pc' = [pc EXCEPT ![s] = "ready"]
        /\ UNCHANGED <<held, fence, mem, cur, begun>>
    BY <1>10, Zenon DEF ReserveFails, MarkFailure, Go, histVars
  <2> QED
    BY <2>0, ReservedFrame, Zenon
<1>11. ASSUME NEW s \in Savers, NEW isolated \in BOOLEAN, DeleteFenceFails(s, isolated)
       PROVE Reserved'
  <2>0. /\ pc[s] = "ready"
        /\ mem' = [mem EXCEPT ![s] = None]
        /\ UNCHANGED <<pc, held, fence, cur, begun>>
    BY <1>11, Zenon DEF DeleteFenceFails, histVars
  <2> QED
    BY <2>0, ReservedFrame, Zenon
<1>12. ASSUME NEW s \in Savers, NEW isolated \in BOOLEAN, DeletePayloadFails(s, isolated)
       PROVE Reserved'
  <2>0. /\ pc[s] = "delete"
        /\ pc' = [pc EXCEPT ![s] = "ready"]
        /\ UNCHANGED <<held, fence, mem, cur, begun>>
    BY <1>12, Zenon DEF DeletePayloadFails, Go, histVars
  <2> QED
    BY <2>0, ReservedFrame, Zenon
<1>13. ASSUME NEW s \in Savers, Publish(s) PROVE Reserved'
  <2>0. /\ pc[s] = "publish" /\ fence = held[s]
        /\ pc' = [pc EXCEPT ![s] = "ready"]
        /\ UNCHANGED <<held, fence, mem, cur, begun>>
    BY <1>13, Zenon DEF Publish, Go, bounds
  <2> QED
    BY <2>0, ReservedFrame, Zenon
<1>14. ASSUME NEW s \in Savers, PublishSuperseded(s) PROVE Reserved'
  <2>0. /\ pc[s] = "publish"
        /\ pc' = [pc EXCEPT ![s] = "ready"]
        /\ UNCHANGED <<held, fence, mem, cur, begun>>
    BY <1>14, Zenon DEF PublishSuperseded, MarkFailure, Go, redisVars, histVars, bounds
  <2> QED
    BY <2>0, ReservedFrame, Zenon
<1>15. ASSUME NEW s \in Savers, PublishFails(s) PROVE Reserved'
  <2>0. /\ pc[s] = "publish"
        /\ pc' = [pc EXCEPT ![s] = "ready"]
        /\ UNCHANGED <<held, fence, mem, cur, begun>>
    BY <1>15, Zenon DEF PublishFails, MarkFailure, Go, histVars
  <2> QED
    BY <2>0, ReservedFrame, Zenon
<1>16. ASSUME NEW s \in Savers, DeleteFence(s) PROVE Reserved'
  <2>1. fence' = seq + 1 /\ held' = held /\ pc' = [pc EXCEPT ![s] = "delete"]
    BY <1>16, Zenon DEF DeleteFence, Go
  <2>2. ASSUME NEW t \in Savers, pc'[t] = "publish" PROVE held'[t] # fence'
    BY <2>1, <2>2 DEF Shape
  <2> QED
    BY <2>2, Zenon DEF Reserved
<1>17. ASSUME NEW s \in Savers, DeletePayload(s) PROVE Reserved'
  <2>0. /\ pc[s] = "delete"
        /\ pc' = [pc EXCEPT ![s] = "ready"]
        /\ UNCHANGED <<held, fence, mem, cur, begun>>
    BY <1>17, Zenon DEF DeletePayload, Go, histVars, bounds
  <2> QED
    BY <2>0, ReservedFrame, Zenon
<1>18. ASSUME NEW s \in Savers, Crash(s) PROVE Reserved'
  <2>0. /\ pc' = [pc EXCEPT ![s] = "new"]
        /\ mem' = [mem EXCEPT ![s] = None]
        /\ UNCHANGED <<held, fence, cur, begun>>
    BY <1>18, Zenon DEF Crash, Go, redisVars, histVars
  <2> QED
    BY <2>0, ReservedFrame, Zenon
<1>19. CASE Invalidate
  <2>0. UNCHANGED <<pc, held, fence, mem, cur, begun>>
    BY <1>19, Zenon DEF Invalidate, redisVars, saverVars, histVars
  <2> QED
    BY <2>0, ReservedFrame, Zenon
<1>20. CASE FenceExpires
  <2>0. /\ \A s \in Savers : pc[s] \in {"new", "ready"}
        /\ fence' = 0
        /\ begun' = {}
        /\ UNCHANGED <<pc, held, mem, cur>>
    BY <1>20, Zenon DEF FenceExpires, saverVars
  <2> QED
    BY <2>0, Zenon DEF Reserved
<1>21. CASE UNCHANGED vars
  <2>0. UNCHANGED <<pc, held, fence, mem, cur, begun>>
    BY <1>21, Zenon DEF vars, redisVars, saverVars, histVars, bounds
  <2> QED
    BY <2>0, ReservedFrame, Zenon
<1> QED
  BY <1>1, <1>2, <1>3, <1>4, <1>5, <1>6, <1>7, <1>8, <1>9, <1>10, <1>11, <1>12, <1>13, <1>14,
     <1>15, <1>16, <1>17, <1>18, <1>19, <1>20, <1>21, Zenon DEF Next

\* Every step keeps what was acknowledged begun and, without a fault, stored.
LEMMA AckStep == Shape /\ Current /\ Tombstone /\ Reserved /\ AckInv /\ [Next]_vars => AckInv'
<1> SUFFICES ASSUME Shape, Current, Tombstone, Reserved, AckInv, [Next]_vars PROVE AckInv'
  OBVIOUS
<1>1. ASSUME NEW s \in Savers, Hydrate(s) PROVE AckInv'
  <2>0. UNCHANGED <<payload, acked, begun, faults>>
    BY <1>1, Zenon DEF Hydrate, Go, redisVars, bounds
  <2> QED
    BY <2>0, Zenon DEF AckInv, AckedStays
<1>2. ASSUME NEW s \in Savers, LoadFence(s) PROVE AckInv'
  <2>0. UNCHANGED <<payload, acked, begun, faults>>
    BY <1>2, Zenon DEF LoadFence, Go, redisVars, histVars, bounds
  <2> QED
    BY <2>0, Zenon DEF AckInv, AckedStays
<1>3. ASSUME NEW s \in Savers, HydrateFails(s) PROVE AckInv'
  <2>0. /\ faults' = faults + 1
        /\ UNCHANGED <<payload, acked, begun>>
    BY <1>3, Zenon DEF HydrateFails, Go, redisVars, histVars
  <2> QED
    BY <2>0 DEF AckInv, AckedStays
<1>4. ASSUME NEW s \in Savers, RedisRecovered(s) PROVE AckInv'
  <2>0. UNCHANGED <<payload, acked, begun, faults>>
    BY <1>4, Zenon DEF RedisRecovered, redisVars, histVars, bounds
  <2> QED
    BY <2>0, Zenon DEF AckInv, AckedStays
<1>5. ASSUME NEW s \in Savers, Put(s) PROVE AckInv'
  <2>0. UNCHANGED <<payload, acked, begun, faults>>
    BY <1>5, Zenon DEF Put, redisVars, histVars
  <2> QED
    BY <2>0, Zenon DEF AckInv, AckedStays
<1>6. ASSUME NEW s \in Savers, NEW n \in queue[s], PersistLocked(s, n) PROVE AckInv'
  <2>0. UNCHANGED <<payload, acked, begun, faults>>
    BY <1>6, Zenon DEF PersistLocked, Go, redisVars, histVars, bounds
  <2> QED
    BY <2>0, Zenon DEF AckInv, AckedStays
<1>7. ASSUME NEW s \in Savers, ReserveGeneration(s) PROVE AckInv'
  <2>0. /\ begun' = begun \cup mem[s]
        /\ UNCHANGED <<payload, acked, faults>>
    BY <1>7, Zenon DEF ReserveGeneration, ReserveScript, Go, bounds
  <2> QED
    BY <2>0, Zenon DEF AckInv, AckedStays
<1>8. ASSUME NEW s \in Savers, ReserveReplyLost(s) PROVE AckInv'
  <2>0. /\ begun' = begun \cup mem[s]
        /\ UNCHANGED <<payload, acked, faults>>
    BY <1>8, Zenon DEF ReserveReplyLost, ReserveScript, saverVars
  <2> QED
    BY <2>0, Zenon DEF AckInv, AckedStays
<1>9. ASSUME NEW s \in Savers, ReserveRejected(s) PROVE AckInv'
  <2>0. UNCHANGED <<payload, acked, begun, faults>>
    BY <1>9, Zenon DEF ReserveRejected, MarkFailure, Go, redisVars, histVars, bounds
  <2> QED
    BY <2>0, Zenon DEF AckInv, AckedStays
<1>10. ASSUME NEW s \in Savers, NEW isolated \in BOOLEAN, ReserveFails(s, isolated)
       PROVE AckInv'
  <2>0. /\ payload' = None \/ payload' = payload
        /\ faults' = faults + 1
        /\ UNCHANGED <<acked, begun>>
    BY <1>10, Zenon DEF ReserveFails, MarkFailure, Go, histVars
  <2> QED
    BY <2>0 DEF AckInv, AckedStays
<1>11. ASSUME NEW s \in Savers, NEW isolated \in BOOLEAN, DeleteFenceFails(s, isolated)
       PROVE AckInv'
  <2>0. /\ payload' = None \/ payload' = payload
        /\ faults' = faults + 1
        /\ UNCHANGED <<acked, begun>>
    BY <1>11, Zenon DEF DeleteFenceFails, histVars
  <2> QED
    BY <2>0 DEF AckInv, AckedStays
<1>12. ASSUME NEW s \in Savers, NEW isolated \in BOOLEAN, DeletePayloadFails(s, isolated)
       PROVE AckInv'
  <2>0. /\ payload' = None \/ payload' = payload
        /\ faults' = faults + 1
        /\ UNCHANGED <<acked, begun>>
    BY <1>12, Zenon DEF DeletePayloadFails, Go, histVars
  <2> QED
    BY <2>0 DEF AckInv, AckedStays
<1>13. ASSUME NEW s \in Savers, Publish(s) PROVE AckInv'
  <2>1. /\ pc[s] = "publish" /\ fence = held[s]
        /\ payload' = [gen |-> held[s], steps |-> mem[s]]
        /\ acked' = acked \cup ({cur[s]} \cap mem[s])
        /\ UNCHANGED <<begun, faults>>
    BY <1>13, Zenon DEF Publish, bounds
  <2>2. begun \subseteq mem[s] /\ mem[s] \subseteq Steps
    BY <2>1, Zenon DEF Current, Complete, Shape
  <2>3. acked' \subseteq begun
    BY <2>1, Zenon DEF AckInv, Reserved
  <2>4. held[s] \in Nat /\ mem[s] \in SUBSET (1..MaxSteps)
    <3>1. MaxSteps \in Nat /\ steps \in 0..MaxSteps
      BY CheckpointerConstants, Zenon DEF Shape
    <3>2. held[s] \in Nat
      BY <2>1 DEF Shape
    <3> QED
      BY <3>1, <3>2, <2>2 DEF Steps
  <2>5. payload' # None
    <3>1. payload' \in [gen : Nat, steps : SUBSET (1..MaxSteps)]
      BY <2>1, <2>4, Zenon
    <3> QED
      BY <3>1, CheckpointerConstants, Zenon
  <2>6. acked' \subseteq payload'.steps
    BY <2>1, <2>2, <2>3, Zenon
  <2> QED
    BY <2>1, <2>3, <2>5, <2>6, Zenon DEF AckInv, AckedStays
<1>14. ASSUME NEW s \in Savers, PublishSuperseded(s) PROVE AckInv'
  <2>0. UNCHANGED <<payload, acked, begun, faults>>
    BY <1>14, Zenon DEF PublishSuperseded, MarkFailure, Go, redisVars, histVars, bounds
  <2> QED
    BY <2>0, Zenon DEF AckInv, AckedStays
<1>15. ASSUME NEW s \in Savers, PublishFails(s) PROVE AckInv'
  <2>0. /\ \/ payload' = payload
           \/ fence = held[s] /\ payload' = [gen |-> held[s], steps |-> mem[s]]
        /\ faults' = faults + 1
        /\ UNCHANGED <<acked, begun>>
    BY <1>15, Zenon DEF PublishFails, MarkFailure, Go, histVars
  <2> QED
    BY <2>0 DEF AckInv, AckedStays
<1>16. ASSUME NEW s \in Savers, DeleteFence(s) PROVE AckInv'
  <2>0. /\ acked' = {}
        /\ begun' = {}
        /\ UNCHANGED <<payload, faults>>
    BY <1>16, Zenon DEF DeleteFence, Go
  <2> QED
    BY <2>0, Zenon DEF AckInv, AckedStays
<1>17. ASSUME NEW s \in Savers, DeletePayload(s) PROVE AckInv'
  <2>0. /\ pc[s] = "delete"
        /\ payload' = None
        /\ UNCHANGED <<acked, begun, faults>>
    BY <1>17, Zenon DEF DeletePayload, Go, histVars, bounds
  <2>1. acked = {}
    BY <2>0, Zenon DEF Tombstone, Deleting
  <2> QED
    BY <2>0, <2>1, Zenon DEF AckInv, AckedStays
<1>18. ASSUME NEW s \in Savers, Crash(s) PROVE AckInv'
  <2>0. UNCHANGED <<payload, acked, begun, faults>>
    BY <1>18, Zenon DEF Crash, Go, redisVars, histVars
  <2> QED
    BY <2>0, Zenon DEF AckInv, AckedStays
<1>19. CASE Invalidate
  <2>0. UNCHANGED <<payload, acked, begun, faults>>
    BY <1>19, Zenon DEF Invalidate, redisVars, saverVars, histVars
  <2> QED
    BY <2>0, Zenon DEF AckInv, AckedStays
<1>20. CASE FenceExpires
  <2>0. /\ acked' = {}
        /\ begun' = {}
        /\ UNCHANGED <<payload, faults>>
    BY <1>20, Zenon DEF FenceExpires, saverVars
  <2> QED
    BY <2>0, Zenon DEF AckInv, AckedStays
<1>21. CASE UNCHANGED vars
  <2>0. UNCHANGED <<payload, acked, begun, faults>>
    BY <1>21, Zenon DEF vars, redisVars, saverVars, histVars, bounds
  <2> QED
    BY <2>0, Zenon DEF AckInv, AckedStays
<1> QED
  BY <1>1, <1>2, <1>3, <1>4, <1>5, <1>6, <1>7, <1>8, <1>9, <1>10, <1>11, <1>12, <1>13, <1>14,
     <1>15, <1>16, <1>17, <1>18, <1>19, <1>20, <1>21, Zenon DEF Next

-----------------------------------------------------------------------------
(* Theorems                                                                *)

\* The invariant of the checkpoints: whatever is of the generation of the fence
\* is complete, and the steps of a saver that starts over are its own.
THEOREM CheckpointInvariant == Spec => []CheckpointInv
<1>1. Init => CheckpointInv
  <2> SUFFICES ASSUME Init PROVE CheckpointInv
    OBVIOUS
  <2>1. Shape
    <3>1. \A s \in Savers : basis[s] = 0 /\ mem[s] = None /\ pc[s] = "new"
      BY Zenon DEF Init
    <3>2. /\ DOMAIN mem = Savers /\ DOMAIN held = Savers
          /\ basis \in [Savers -> Nat] /\ failed \in [Savers -> BOOLEAN]
          /\ pc \in [Savers -> Places]
      BY Zenon DEF Init, Places
    <3>3. /\ seq = 0 /\ fence = 0 /\ steps = 0 /\ payload = None /\ begun = {} /\ gone = {}
          /\ MaxSteps \in Nat
      BY CheckpointerConstants, Zenon DEF Init
    <3> QED
      BY <3>1, <3>2, <3>3 DEF Shape, Funs
  <2>2. Current
    BY Zenon DEF Init, Current, LoadableIsComplete, Loadable
  <2>3. Private
    BY Zenon DEF Init, Private, Fresh
  <2> QED
    BY <2>1, <2>2, <2>3, Zenon DEF CheckpointInv
<1>2. CheckpointInv /\ [Next]_vars => CheckpointInv'
  BY ShapeStep, CurrentStep, PrivateStep, Zenon DEF CheckpointInv
<1> QED
  BY <1>1, <1>2, PTL DEF Spec

\* LoadableIsComplete: a payload whose generation is that of the fence has every
\* step a generation was reserved for, and none of a deleted or expired thread,
\* whatever dead, failed or overtaken writers left behind.
THEOREM LoadableComplete == Spec => []LoadableIsComplete
<1>1. CheckpointInv => LoadableIsComplete
  BY Zenon DEF CheckpointInv, Current
<1> QED
  BY <1>1, CheckpointInvariant, PTL

\* LoadIsCurrent: the two-command read of _hydrate returns nothing older than the
\* steps begun when it started.
THEOREM LoadsAreCurrent == Spec => LoadIsCurrent
<1>1. CheckpointInv /\ [Next]_vars =>
        [\A s \in Savers : pc[s] = "fence" /\ mem'[s] # None =>
           known[s] \cap begun \subseteq mem'[s]]_vars
  <2> SUFFICES ASSUME CheckpointInv, [Next]_vars, ~UNCHANGED vars, NEW s \in Savers,
                      pc[s] = "fence", mem'[s] # None
               PROVE known[s] \cap begun \subseteq mem'[s]
    OBVIOUS
  <2>1. mem[s] = None /\ DOMAIN mem = Savers
    BY Zenon DEF CheckpointInv, Shape, Funs
  <2>2. \A t \in Savers : /\ Hydrate(t) => mem' = mem
                          /\ HydrateFails(t) => mem' = mem
                          /\ RedisRecovered(t) => mem' = mem
                          /\ \A n \in queue[t] : PersistLocked(t, n) => mem' = mem
    BY Zenon DEF Hydrate, HydrateFails, RedisRecovered, PersistLocked
  <2>3. \A t \in Savers : /\ ReserveGeneration(t) => mem' = mem
                          /\ ReserveReplyLost(t) => mem' = mem
                          /\ ReserveRejected(t) => mem' = mem
                          /\ \A i \in BOOLEAN : ReserveFails(t, i) => mem' = mem
    BY Zenon DEF ReserveGeneration, ReserveReplyLost, ReserveRejected, ReserveFails, saverVars
  <2>4. \A t \in Savers : /\ Publish(t) => mem' = mem
                          /\ PublishSuperseded(t) => mem' = mem
                          /\ PublishFails(t) => mem' = mem
    BY Zenon DEF Publish, PublishSuperseded, PublishFails
  <2>5. \A t \in Savers : /\ DeleteFence(t) => mem' = [mem EXCEPT ![t] = None]
                          /\ Crash(t) => mem' = [mem EXCEPT ![t] = None]
                          /\ DeletePayload(t) => mem' = mem
                          /\ \A i \in BOOLEAN :
                                /\ DeleteFenceFails(t, i) => mem' = [mem EXCEPT ![t] = None]
                                /\ DeletePayloadFails(t, i) => mem' = mem
    BY ZenonT(30) DEF DeleteFence, Crash, DeletePayload, DeleteFenceFails, DeletePayloadFails
  <2>6. ASSUME NEW t \in Savers, Put(t) PROVE mem'[s] = None
    BY <2>6, <2>1, Zenon DEF Put
  <2>7. ASSUME NEW t \in Savers, LoadFence(t) PROVE held[s].gen = fence /\ mem'[s] = held[s].steps
    <3>1. IF held[t].gen = fence THEN mem' = [mem EXCEPT ![t] = held[t].steps] ELSE mem' = mem
      BY <2>7, Zenon DEF LoadFence
    <3> QED
      BY <3>1, <2>1, Zenon
  <2>8. \E t \in Savers : LoadFence(t)
    <3>1. \A t \in Savers : mem' # [mem EXCEPT ![t] = None]
      BY <2>1, Zenon
    <3>2. mem' # mem
      BY <2>1, Zenon
    <3>3. ~Invalidate /\ ~FenceExpires
      BY <3>2, Zenon DEF Invalidate, FenceExpires, saverVars
    <3>4. \A t \in Savers : ~Put(t)
      BY <2>6, Zenon
    <3> QED
      BY <3>1, <3>2, <3>3, <3>4, <2>2, <2>3, <2>4, <2>5, SMTT(30) DEF Next
  <2>9. held[s].gen = fence /\ mem'[s] = held[s].steps
    BY <2>7, <2>8, Zenon
  <2> QED
    BY <2>9, Zenon DEF CheckpointInv, Current, Complete
<1> QED
  BY <1>1, CheckpointInvariant, PTL DEF Spec, LoadIsCurrent

\* AckedStays: without a connection failure, a step whose put returned stays in
\* the stored payload until its thread is deleted or expires, whoever writes, dies,
\* or deletes in between.
THEOREM AckedKept == Spec => []AckedStays
<1>1. Init => Tombstone /\ QueueInv /\ Reserved /\ AckInv
  <2>1. Init => Tombstone
    BY Zenon DEF Init, Tombstone, Deleting
  <2>2. Init => QueueInv
    <3>1. Init => /\ DOMAIN cur = Savers /\ DOMAIN queue = Savers
                  /\ \A s \in Savers : cur[s] = 0 /\ queue[s] = {}
      BY Zenon DEF Init
    <3>2. Init => 0 \in 0..steps
      BY DEF Init
    <3> QED
      BY <3>1, <3>2, Zenon DEF QueueInv
  <2>4. Init => Reserved
    <3>1. Init => \A s \in Savers : pc[s] = "new"
      BY Zenon DEF Init
    <3> QED
      BY <3>1, Zenon DEF Reserved
  <2>3. Init => AckInv
    BY DEF Init, AckInv, AckedStays
  <2> QED
    BY <2>1, <2>2, <2>3, <2>4, Zenon
<1>2. CheckpointInv /\ CheckpointInv' /\ Tombstone /\ QueueInv /\ Reserved /\ AckInv /\ [Next]_vars
        => (Tombstone /\ QueueInv /\ Reserved /\ AckInv)'
  BY TombstoneStep, QueueStep, ReservedStep, AckStep, Zenon DEF CheckpointInv
<1>3. AckInv => AckedStays
  BY Zenon DEF AckInv
<1> QED
  BY <1>1, <1>2, <1>3, CheckpointInvariant, PTL DEF Spec

=============================================================================
