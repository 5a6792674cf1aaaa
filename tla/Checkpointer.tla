---------------------------- MODULE Checkpointer ----------------------------
(***************************************************************************)
(* The LangGraph checkpoints of one event in Redis                         *)
(* (orchestration/checkpointer.py).  A saver keeps the whole thread in     *)
(* memory.  To persist it, it reserves the next generation on the fence    *)
(* key, if the fence still is at the generation it started from, and       *)
(* publishes the payload if the fence still is at the one it reserved.     *)
(* A payload whose generation is not that of the fence is not loaded.      *)
(*                                                                         *)
(* A checkpoint is the set of graph steps it has seen; a step is a number. *)
(***************************************************************************)
EXTENDS Naturals

CONSTANTS Savers,          \* RedisCheckpointer objects, one per process
          Recovery,        \* CHECKPOINT_ATTEMPT_REDIS_RECOVERY
          MaxSteps, MaxLost, MaxFaults, MaxCrashes, MaxDeletes, MaxExpiries,   \* bounds
          None

ASSUME CheckpointerConstants ==
    /\ Recovery \in BOOLEAN
    /\ {MaxSteps, MaxLost, MaxFaults, MaxCrashes, MaxDeletes, MaxExpiries} \subseteq Nat
    /\ \A S \in SUBSET (1..MaxSteps) : None # S
    /\ None \notin [gen : Nat, steps : SUBSET (1..MaxSteps)]

VARIABLES seq, fence, payload,  \* Redis: sequence, fence (0: absent), [gen, steps] or None
          mem,       \* saver: steps of the thread, None when it is not in memory
          basis,     \* _thread_basis_generation, 0 when absent
          failed, pinned, fallback,   \* _persistence_failed_threads, _memory_pinned_threads
          queue,     \* saver: puts waiting for the thread lock
          pc, cur,   \* saver: place, and the step whose put it persists
          held,      \* saver: generation reserved or payload loaded
          begun,     \* history: steps in a reservation since the last delete or expiry
          acked,     \* history: steps whose put returned, published, not deleted while it waited
          known,     \* history: begun when the saver began to load
          gone,      \* history: begun steps of deleted threads
          steps, lost, faults, crashes, deletes, expiries

redisVars == <<seq, fence, payload>>
saverVars == <<mem, basis, failed, pinned, fallback, queue, pc, cur, held>>
histVars == <<begun, acked, known, gone>>
bounds == <<steps, lost, faults, crashes, deletes, expiries>>
vars == <<redisVars, saverVars, histVars, bounds>>

Init ==
    /\ seq = 0 /\ fence = 0 /\ payload = None
    /\ mem = [s \in Savers |-> None] /\ basis = [s \in Savers |-> 0]
    /\ failed = [s \in Savers |-> FALSE] /\ pinned = [s \in Savers |-> FALSE]
    /\ fallback = [s \in Savers |-> FALSE] /\ queue = [s \in Savers |-> {}]
    /\ pc = [s \in Savers |-> "new"] /\ cur = [s \in Savers |-> 0]
    /\ held = [s \in Savers |-> None]
    /\ begun = {} /\ acked = {} /\ known = [s \in Savers |-> {}] /\ gone = {}
    /\ steps = 0 /\ lost = 0 /\ faults = 0 /\ crashes = 0 /\ deletes = 0 /\ expiries = 0

Go(s, place) == pc' = [pc EXCEPT ![s] = place]
Loadable == payload # None /\ payload.gen = fence

\* _uses_redis_for_thread
UsesRedis(s) == ~pinned[s] /\ ~fallback[s]

\* _mark_persistence_failure; the put raises.
MarkFailure(s) ==
    /\ failed' = [failed EXCEPT ![s] = TRUE] /\ pinned' = [pinned EXCEPT ![s] = TRUE]
    /\ fallback' = [fallback EXCEPT ![s] = TRUE] /\ Go(s, "ready")

-----------------------------------------------------------------------------
(* Loading                                                                 *)

\* aget_tuple, _hydrate: the payload, then the fence.  A thread in memory is not
\* loaded again.
Hydrate(s) ==
    /\ pc[s] \in {"new", "ready"} /\ mem[s] = None /\ ~failed[s]
    /\ IF UsesRedis(s) /\ payload # None
       THEN Go(s, "fence") /\ held' = [held EXCEPT ![s] = payload]
       ELSE Go(s, "ready") /\ UNCHANGED held
    /\ known' = [known EXCEPT ![s] = begun]
    /\ UNCHANGED <<redisVars, mem, basis, failed, pinned, fallback, queue, cur,
                   begun, acked, gone, bounds>>

\* Mutant: the fence is not compared with the payload.
LoadFenceNever(s) ==
    /\ pc[s] = "fence" /\ Go(s, "ready")
    /\ mem' = [mem EXCEPT ![s] = held[s].steps] /\ basis' = [basis EXCEPT ![s] = fence]
    /\ UNCHANGED <<redisVars, failed, pinned, fallback, queue, cur, held, histVars, bounds>>

\* A payload that is not of the generation of the fence is rejected.
LoadFence(s) ==
    /\ pc[s] = "fence" /\ Go(s, "ready")
    /\ IF held[s].gen = fence
       THEN mem' = [mem EXCEPT ![s] = held[s].steps] /\ basis' = [basis EXCEPT ![s] = fence]
       ELSE UNCHANGED <<mem, basis>>
    /\ UNCHANGED <<redisVars, failed, pinned, fallback, queue, cur, held, histVars, bounds>>

\* A load that raises leaves the thread in memory for good.
HydrateFails(s) ==
    /\ pc[s] \in {"new", "ready", "fence"} /\ mem[s] = None /\ ~failed[s] /\ UsesRedis(s)
    /\ faults < MaxFaults /\ faults' = faults + 1
    /\ pinned' = [pinned EXCEPT ![s] = TRUE] /\ fallback' = [fallback EXCEPT ![s] = TRUE]
    /\ Go(s, "ready")
    /\ UNCHANGED <<redisVars, mem, basis, failed, queue, cur, held, histVars,
                   steps, lost, crashes, deletes, expiries>>

\* _maybe_attempt_redis_recovery
RedisRecovered(s) ==
    /\ Recovery /\ fallback[s] /\ fallback' = [fallback EXCEPT ![s] = FALSE]
    /\ UNCHANGED <<redisVars, mem, basis, failed, pinned, queue, pc, cur, held, histVars, bounds>>

-----------------------------------------------------------------------------
(* Persisting                                                              *)

\* aput, aput_writes: into memory at once, then in line for the thread lock.
Put(s) ==
    /\ pc[s] \notin {"new", "fence"} /\ steps < MaxSteps /\ steps' = steps + 1
    /\ mem' = [mem EXCEPT ![s] = (IF @ = None THEN {} ELSE @) \cup {steps'}]
    /\ queue' = [queue EXCEPT ![s] = @ \cup {steps'}]
    /\ UNCHANGED <<redisVars, basis, failed, pinned, fallback, pc, cur, held, histVars,
                   lost, faults, crashes, deletes, expiries>>

\* The head of _persist_locked, with the lock.
PersistLocked(s, n) ==
    /\ pc[s] = "ready" /\ n \in queue[s] /\ queue' = [queue EXCEPT ![s] = @ \ {n}]
    /\ cur' = [cur EXCEPT ![s] = n]
    /\ Go(s, IF ~failed[s] /\ UsesRedis(s) /\ mem[s] # None THEN "reserve" ELSE "ready")
    /\ pinned' = [pinned EXCEPT ![s] = @ \/ (~failed[s] /\ fallback[s])]
    /\ UNCHANGED <<redisVars, mem, basis, failed, fallback, held, histVars, bounds>>

\* Mutant: the reservation does not compare the basis.
ReserveScriptBlind(expected) ==
    seq' = seq + 1 /\ fence' = seq' /\ UNCHANGED payload

\* _CHECKPOINT_RESERVE_SCRIPT, for expected >= 0; TRUE when it hands out seq'.
ReserveScript(expected) ==
    /\ fence = expected
    /\ seq' = seq + 1 /\ fence' = seq' /\ UNCHANGED payload

ReserveGeneration(s) ==
    /\ pc[s] = "reserve" /\ ReserveScript(basis[s])
    /\ held' = [held EXCEPT ![s] = seq'] /\ Go(s, "publish")
    /\ begun' = begun \cup mem[s]
    /\ UNCHANGED <<mem, basis, failed, pinned, fallback, queue, cur, acked, known, gone, bounds>>

\* The script runs, the reply is lost, and _redis_call_with_transient_retry calls again.
ReserveReplyLost(s) ==
    /\ pc[s] = "reserve" /\ ReserveScript(basis[s])
    /\ lost < MaxLost /\ lost' = lost + 1 /\ begun' = begun \cup mem[s]
    /\ UNCHANGED <<saverVars, acked, known, gone, steps, faults, crashes, deletes, expiries>>

\* The script answers -1.
ReserveRejected(s) ==
    /\ pc[s] = "reserve" /\ fence # basis[s] /\ MarkFailure(s)
    /\ UNCHANGED <<redisVars, mem, basis, queue, cur, held, histVars, bounds>>

\* The retries are used up; _best_effort_delete_stale_payload, which may fail too.
ReserveFails(s, isolated) ==
    /\ pc[s] = "reserve" /\ faults < MaxFaults /\ faults' = faults + 1 /\ MarkFailure(s)
    /\ payload' = IF isolated THEN None ELSE payload
    /\ UNCHANGED <<seq, fence, mem, basis, queue, cur, held, histVars,
                   steps, lost, crashes, deletes, expiries>>

\* Mutant: the publication does not compare the generation.
PublishBlind(s) ==
    /\ pc[s] = "publish" /\ Go(s, "ready")
    /\ payload' = [gen |-> held[s], steps |-> mem[s]]
    /\ basis' = [basis EXCEPT ![s] = held[s]] /\ acked' = acked \cup ({cur[s]} \cap mem[s])
    /\ UNCHANGED <<seq, fence, mem, failed, pinned, fallback, queue, cur, held,
                   begun, known, gone, bounds>>

\* _CHECKPOINT_PUBLISH_SCRIPT; a repetition after a lost reply changes nothing.
Publish(s) ==
    /\ pc[s] = "publish" /\ fence = held[s] /\ Go(s, "ready")
    /\ payload' = [gen |-> held[s], steps |-> mem[s]]
    /\ basis' = [basis EXCEPT ![s] = held[s]] /\ acked' = acked \cup ({cur[s]} \cap mem[s])
    /\ UNCHANGED <<seq, fence, mem, failed, pinned, fallback, queue, cur, held,
                   begun, known, gone, bounds>>

PublishSuperseded(s) ==
    /\ pc[s] = "publish" /\ fence # held[s] /\ MarkFailure(s)
    /\ UNCHANGED <<redisVars, mem, basis, queue, cur, held, histVars, bounds>>

\* The call fails; whether it reached Redis is not known.
PublishFails(s) ==
    /\ pc[s] = "publish" /\ faults < MaxFaults /\ faults' = faults + 1 /\ MarkFailure(s)
    /\ \/ UNCHANGED payload
       \/ fence = held[s] /\ payload' = [gen |-> held[s], steps |-> mem[s]]
    /\ UNCHANGED <<seq, fence, mem, basis, queue, cur, held, histVars,
                   steps, lost, crashes, deletes, expiries>>

-----------------------------------------------------------------------------
(* Cleaning up                                                             *)

\* adelete_thread under the thread lock: the fence, then the payload.
DeleteFence(s) ==
    /\ pc[s] = "ready" /\ deletes < MaxDeletes /\ deletes' = deletes + 1
    /\ mem' = [mem EXCEPT ![s] = None] /\ pinned' = [pinned EXCEPT ![s] = FALSE]
    /\ basis' = [basis EXCEPT ![s] = 0]
    /\ seq' = seq + 1 /\ fence' = seq' /\ Go(s, "delete")
    /\ gone' = gone \cup begun /\ begun' = {} /\ acked' = {}
    /\ UNCHANGED <<payload, failed, fallback, queue, cur, held, known,
                   steps, lost, faults, crashes, expiries>>

DeletePayload(s) ==
    /\ pc[s] = "delete" /\ Go(s, "ready") /\ payload' = None
    /\ failed' = [failed EXCEPT ![s] = FALSE]
    /\ UNCHANGED <<seq, fence, mem, basis, pinned, fallback, queue, cur, held, histVars, bounds>>

\* The call on the fence or the delete of the payload raises: the payload is
\* deleted when possible, and the saver degrades.
DeleteFenceFails(s, isolated) ==
    /\ pc[s] = "ready" /\ deletes < MaxDeletes /\ deletes' = deletes + 1
    /\ faults < MaxFaults /\ faults' = faults + 1
    /\ mem' = [mem EXCEPT ![s] = None] /\ pinned' = [pinned EXCEPT ![s] = FALSE]
    /\ basis' = [basis EXCEPT ![s] = 0] /\ fallback' = [fallback EXCEPT ![s] = TRUE]
    /\ payload' = IF isolated THEN None ELSE payload
    /\ UNCHANGED <<seq, fence, failed, queue, pc, cur, held, histVars,
                   steps, lost, crashes, expiries>>

DeletePayloadFails(s, isolated) ==
    /\ pc[s] = "delete" /\ Go(s, "ready") /\ faults < MaxFaults /\ faults' = faults + 1
    /\ fallback' = [fallback EXCEPT ![s] = TRUE]
    /\ payload' = IF isolated THEN None ELSE payload
    /\ UNCHANGED <<seq, fence, mem, basis, failed, pinned, queue, cur, held, histVars,
                   steps, lost, crashes, deletes, expiries>>

\* invalidate_event_checkpoint, called without a Redis client: it builds a saver
\* without Redis, which has nothing to delete.
Invalidate ==
    /\ deletes < MaxDeletes /\ deletes' = deletes + 1
    /\ UNCHANGED <<redisVars, saverVars, histVars, steps, lost, faults, crashes, expiries>>

\* CHECKPOINT_TTL_SECONDS after the last reservation; the sequence stays.  No call
\* or retry is under way for seven days.
FenceExpires ==
    /\ \A s \in Savers : pc[s] \in {"new", "ready"}
    /\ fence # 0 /\ expiries < MaxExpiries /\ expiries' = expiries + 1
    /\ fence' = 0 /\ gone' = gone \cup begun /\ begun' = {} /\ acked' = {}
    /\ UNCHANGED <<seq, payload, saverVars, known, steps, lost, faults, crashes, deletes>>

\* A process dies; the next one has a saver of its own.
Crash(s) ==
    /\ crashes < MaxCrashes /\ crashes' = crashes + 1
    /\ mem' = [mem EXCEPT ![s] = None] /\ basis' = [basis EXCEPT ![s] = 0]
    /\ failed' = [failed EXCEPT ![s] = FALSE] /\ pinned' = [pinned EXCEPT ![s] = FALSE]
    /\ fallback' = [fallback EXCEPT ![s] = FALSE] /\ queue' = [queue EXCEPT ![s] = {}]
    /\ Go(s, "new")
    /\ UNCHANGED <<redisVars, cur, held, histVars, steps, lost, faults, deletes, expiries>>

Next ==
    \/ \E s \in Savers :
        \/ Hydrate(s) \/ LoadFence(s) \/ HydrateFails(s) \/ RedisRecovered(s) \/ Put(s)
        \/ \E n \in queue[s] : PersistLocked(s, n)
        \/ ReserveGeneration(s) \/ ReserveReplyLost(s) \/ ReserveRejected(s)
        \/ \E isolated \in BOOLEAN :
            ReserveFails(s, isolated) \/ DeleteFenceFails(s, isolated) \/ DeletePayloadFails(s, isolated)
        \/ Publish(s) \/ PublishSuperseded(s) \/ PublishFails(s)
        \/ DeleteFence(s) \/ DeletePayload(s) \/ Crash(s)
    \/ Invalidate
    \/ FenceExpires

Spec == Init /\ [][Next]_vars

-----------------------------------------------------------------------------
(* Properties                                                              *)

\* Generations come from the sequence, and a reserving saver has the thread.
TypeOK ==
    /\ seq \in Nat /\ fence \in 0..seq
    /\ payload # None => payload.gen \in 1..seq /\ payload.steps \subseteq 1..steps
    /\ \A s \in Savers :
        /\ mem[s] # None => mem[s] \subseteq 1..steps
        /\ basis[s] \in 0..seq /\ queue[s] \subseteq 1..steps /\ cur[s] \in 0..steps
        /\ pc[s] \in {"new", "fence", "ready", "reserve", "publish", "delete"}
        /\ pc[s] = "reserve" => mem[s] # None /\ ~failed[s]
        /\ pc[s] = "publish" => held[s] \in 1..seq
    /\ {failed, pinned, fallback} \subseteq [Savers -> BOOLEAN]
    /\ (acked \cup begun \cup gone) \subseteq 1..steps

\* A payload that can be loaded has every step that any process ever reserved a
\* generation for: one that a dead, failed or overtaken writer took is never
\* silently left out ("blocking stale writers from minting N+2"), and no step of a
\* deleted thread comes back ("a late publisher must not be able to make that
\* value loadable again after cleanup").
LoadableIsComplete ==
    Loadable => begun \subseteq payload.steps /\ payload.steps \cap gone = {}

\* What a saver loads has every step reserved before the load began, although
\* payload and fence are read by two commands ("makes the two-command read
\* linearizable").
LoadIsCurrent ==
    [][\A s \in Savers : pc[s] = "fence" /\ mem'[s] # None =>
         known[s] \cap begun \subseteq mem'[s]]_vars

\* A step whose put returned stays in the stored payload until the thread is
\* deleted or expires, whatever other writers do and whoever dies.  A saver whose
\* reservation fails on the connection may delete it (OnlyOldPayloadIsRemoved).
AckedStays == acked # {} /\ faults = 0 => payload # None /\ acked \subseteq payload.steps

\* A saver that cannot advance the fence removes the payload it started from
\* ("remove the old payload when possible"), not a newer one of another process.
\* The code does not keep this (README, disagreements).
OnlyOldPayloadIsRemoved ==
    [][\A s \in Savers : pc[s] = "reserve" /\ pc'[s] = "ready" /\ payload # None /\ payload' = None
         => payload.gen = basis[s]]_vars

\* A process that is restarted and finds no other writer is not refused ("restart
\* can resume"): with one saver, no reservation is answered by -1.
\* The code does not keep this (README, disagreements).
RestartIsAccepted == \A s \in Savers : pc[s] = "reserve" => fence = basis[s]

\* Once invalidate_event_checkpoint has returned there is no checkpoint to load
\* ("Force-advance generation fence and delete stale checkpoint payload").
\* The code does not keep this (README, disagreements).
InvalidatedIsGone == [][Invalidate => ~Loadable']_vars

=============================================================================
