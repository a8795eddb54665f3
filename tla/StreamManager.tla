---------------------------- MODULE StreamManager ----------------------------
(***************************************************************************)
(* The stream slots of the client: StreamManager (src/src/queue.rs) with   *)
(* the slot-releasing ends of QuoteStream (src/src/stream.rs).             *)
(*                                                                         *)
(* A task of the tokio runtime is cut at every atomic operation, mutex     *)
(* section and await point, so an action is one such step.  Three kinds of *)
(* task run concurrently for each request r in Requests:                   *)
(*   - call[r], the caller inside request_stream;                          *)
(*   - work[w], the queue worker that request w spawned, if it spawned one;*)
(*   - closer[r][p], a path that gives r's slot back: "handle" is stop()   *)
(*     or Drop of the QuoteStream, "on_end" the connection's callback.     *)
(* opening[r] is the progress of start_stream_internal for r, which either *)
(* the caller or the worker executes.                                      *)
(*                                                                         *)
(* What the server answers is nondeterministic, and so is when a handle is *)
(* stopped or dropped and when the connection ends a stream.               *)
(***************************************************************************)
EXTENDS Integers, Sequences, FiniteSets

CONSTANTS
    Requests,      \* calls of request_stream
    NoRequest,     \* "no request popped", not in Requests
    InitialLimit,  \* max_concurrent at creation
    NewLimits,     \* values set_max_concurrent is called with
    U32Max,        \* largest value of an AtomicU32
    CancelPoints   \* await points at which a caller may drop its future

CancelPoint == {"waiting", "starting", "stopping"}

Limits == NewLimits \cup {InitialLimit}

ASSUME StreamManagerAssumption ==
    /\ IsFiniteSet(Requests)
    /\ NoRequest \notin Requests
    /\ U32Max \in Nat
    /\ Limits \subseteq 0..U32Max
    /\ CancelPoints \subseteq CancelPoint

VARIABLES
    max_concurrent,       \* AtomicU32
    active_count,         \* AtomicU32
    queue,                \* Mutex<VecDeque<QueuedRequest>>
    permit,               \* the stored permit of the Notify slot_available
    setter,               \* progress of a set_max_concurrent call
    queue_worker_active,  \* AtomicBool
    call, seen_max, seen_current,
    result_ready,         \* the oneshot result_rx holds the worker's result
    work, worker_max, worker_current, held,
    opening,
    slot_released,        \* the CAS guard of each slot
    claimed,              \* r's claim of a slot succeeded (history)
    closer,
    order, served         \* queued requests, and those the worker took (history)

callVars   == <<call, seen_max, seen_current, result_ready>>
workVars   == <<work, worker_max, worker_current, held>>
slotVars   == <<opening, slot_released, claimed, closer>>
queueVars  == <<queue, order, served>>
vars == <<max_concurrent, setter, active_count, queueVars, permit, queue_worker_active,
          callVars, workVars, slotVars>>

Paths == {"handle", "on_end"}

CallState == {"idle", "load_current", "claim", "enqueue", "kick", "starting",
              "waiting", "returned", "cancelled"}

WorkState == {"none", "load_max", "load_current", "wait", "waiting", "pop",
              "claim", "requeue", "start", "mark_idle", "recheck",
              "reactivate", "exited"}

OpeningState == {"none", "requested", "err_sub", "err_notify", "failed",
                 "open", "abandoned"}

CloserState == {"idle", "stopping", "dropping", "sub", "notify", "done",
                "abandoned"}

TypeOK ==
    /\ max_concurrent \in Limits
    /\ active_count \in 0..U32Max
    /\ queue \in Seq(Requests)
    /\ permit \in BOOLEAN
    /\ setter \in {"idle", "notify"}
    /\ queue_worker_active \in BOOLEAN
    /\ call \in [Requests -> CallState]
    /\ seen_max \in [Requests -> 0..U32Max]
    /\ seen_current \in [Requests -> 0..U32Max]
    /\ result_ready \in [Requests -> BOOLEAN]
    /\ work \in [Requests -> WorkState]
    /\ worker_max \in [Requests -> 0..U32Max]
    /\ worker_current \in [Requests -> 0..U32Max]
    /\ held \in [Requests -> Requests \cup {NoRequest}]
    /\ opening \in [Requests -> OpeningState]
    /\ slot_released \in [Requests -> BOOLEAN]
    /\ claimed \in [Requests -> BOOLEAN]
    /\ closer \in [Requests -> [Paths -> CloserState]]
    /\ order \in Seq(Requests)
    /\ served \in Seq(Requests)

Init ==
    /\ max_concurrent = InitialLimit
    /\ active_count = 0
    /\ queue = <<>>
    /\ permit = FALSE
    /\ setter = "idle"
    /\ queue_worker_active = FALSE
    /\ call = [r \in Requests |-> "idle"]
    /\ seen_max = [r \in Requests |-> 0]
    /\ seen_current = [r \in Requests |-> 0]
    /\ result_ready = [r \in Requests |-> FALSE]
    /\ work = [r \in Requests |-> "none"]
    /\ worker_max = [r \in Requests |-> 0]
    /\ worker_current = [r \in Requests |-> 0]
    /\ held = [r \in Requests |-> NoRequest]
    /\ opening = [r \in Requests |-> "none"]
    /\ slot_released = [r \in Requests |-> FALSE]
    /\ claimed = [r \in Requests |-> FALSE]
    /\ closer = [r \in Requests |-> [p \in Paths |-> "idle"]]
    /\ order = <<>>
    /\ served = <<>>

-----------------------------------------------------------------------------
(* The Notify slot_available and the counter. *)

Waiting == {w \in Requests : work[w] = "waiting"}

\* Notify::notify_one: wake a registered waiter, or store one permit.
NotifyOne ==
    \/ /\ \E w \in Waiting : work' = [work EXCEPT ![w] = "load_max"]
       /\ UNCHANGED permit
    \/ /\ Waiting = {}
       /\ permit' = TRUE
       /\ UNCHANGED work

\* AtomicU32::fetch_sub(1), which wraps at zero.
FetchSub(n) == IF n = 0 THEN U32Max ELSE n - 1

-----------------------------------------------------------------------------
(* request_stream, executed by the caller. *)

LoadMax(r) ==
    /\ call[r] = "idle"
    /\ seen_max' = [seen_max EXCEPT ![r] = max_concurrent]
    /\ call' = [call EXCEPT ![r] = "load_current"]
    /\ UNCHANGED <<max_concurrent, setter, active_count, queueVars, permit,
                   queue_worker_active, seen_current, result_ready, workVars,
                   slotVars>>

LoadCurrent(r) ==
    /\ call[r] = "load_current"
    /\ \/ /\ active_count < seen_max[r]
          /\ seen_current' = [seen_current EXCEPT ![r] = active_count]
          /\ call' = [call EXCEPT ![r] = "claim"]
       \/ /\ active_count >= seen_max[r]
          /\ call' = [call EXCEPT ![r] = "enqueue"]
          /\ UNCHANGED seen_current
    /\ UNCHANGED <<max_concurrent, setter, active_count, queueVars, permit,
                   queue_worker_active, seen_max, result_ready, workVars,
                   slotVars>>

\* Mutant of TryClaim: fetch_add instead of the compare_exchange.
TryClaimFetchAdd(r) ==
    /\ call[r] = "claim"
    /\ active_count' = active_count + 1
    /\ claimed' = [claimed EXCEPT ![r] = TRUE]
    /\ opening' = [opening EXCEPT ![r] = "requested"]
    /\ call' = [call EXCEPT ![r] = "starting"]
    /\ UNCHANGED <<max_concurrent, setter, queueVars, permit, queue_worker_active,
                   seen_max, seen_current, result_ready, workVars,
                   slot_released, closer>>

\* The compare_exchange on active_count; a caller that loses it queues.
TryClaim(r) ==
    /\ call[r] = "claim"
    /\ \/ /\ active_count = seen_current[r]
          /\ active_count' = seen_current[r] + 1
          /\ claimed' = [claimed EXCEPT ![r] = TRUE]
          /\ opening' = [opening EXCEPT ![r] = "requested"]
          /\ call' = [call EXCEPT ![r] = "starting"]
       \/ /\ active_count # seen_current[r]
          /\ call' = [call EXCEPT ![r] = "enqueue"]
          /\ UNCHANGED <<active_count, claimed, opening>>
    /\ UNCHANGED <<max_concurrent, setter, queueVars, permit, queue_worker_active,
                   seen_max, seen_current, result_ready, workVars,
                   slot_released, closer>>

Enqueue(r) ==
    /\ call[r] = "enqueue"
    /\ queue' = Append(queue, r)
    /\ order' = Append(order, r)
    /\ call' = [call EXCEPT ![r] = "kick"]
    /\ UNCHANGED <<max_concurrent, setter, active_count, served, permit,
                   queue_worker_active, seen_max, seen_current, result_ready,
                   workVars, slotVars>>

\* Mutant of KickWorker: spawn a worker without looking at the flag.
KickWorkerAlways(r) ==
    /\ call[r] = "kick"
    /\ queue_worker_active' = TRUE
    /\ work' = [work EXCEPT ![r] = "load_max"]
    /\ call' = [call EXCEPT ![r] = "waiting"]
    /\ UNCHANGED <<max_concurrent, setter, active_count, queueVars, permit, seen_max,
                   seen_current, result_ready, worker_max, worker_current,
                   held, slotVars>>

\* Spawn the worker if queue_worker_active goes from false to true.
KickWorker(r) ==
    /\ call[r] = "kick"
    /\ queue_worker_active' = TRUE
    /\ work' = IF queue_worker_active THEN work
                                      ELSE [work EXCEPT ![r] = "load_max"]
    /\ call' = [call EXCEPT ![r] = "waiting"]
    /\ UNCHANGED <<max_concurrent, setter, active_count, queueVars, permit, seen_max,
                   seen_current, result_ready, worker_max, worker_current,
                   held, slotVars>>

\* The caller that claimed a slot itself returns from start_stream_internal.
CallReturns(r) ==
    /\ call[r] = "starting"
    /\ opening[r] \in {"open", "failed"}
    /\ call' = [call EXCEPT ![r] = "returned"]
    /\ UNCHANGED <<max_concurrent, setter, active_count, queueVars, permit,
                   queue_worker_active, seen_max, seen_current, result_ready,
                   workVars, slotVars>>

\* result_rx.await
ReceiveResult(r) ==
    /\ call[r] = "waiting"
    /\ result_ready[r]
    /\ call' = [call EXCEPT ![r] = "returned"]
    /\ UNCHANGED <<max_concurrent, setter, active_count, queueVars, permit,
                   queue_worker_active, seen_max, seen_current, result_ready,
                   workVars, slotVars>>

\* The caller drops its future while the queue lock or the result is awaited.
\* A QuoteStream that already lies in the oneshot is dropped with it.
CancelQueued(r) ==
    /\ "waiting" \in CancelPoints
    /\ call[r] \in {"enqueue", "waiting"}
    /\ call' = [call EXCEPT ![r] = "cancelled"]
    /\ closer' = IF result_ready[r] /\ opening[r] = "open"
                 THEN [closer EXCEPT ![r]["handle"] = "dropping"]
                 ELSE closer
    /\ UNCHANGED <<max_concurrent, setter, active_count, queueVars, permit,
                   queue_worker_active, seen_max, seen_current, result_ready,
                   workVars, opening, slot_released, claimed>>

\* The caller drops its future while send_request is awaited: no code runs,
\* slot_released is an Arc<AtomicBool> without a Drop of its own.
CancelStarting(r) ==
    /\ "starting" \in CancelPoints
    /\ call[r] = "starting"
    /\ opening[r] = "requested"
    /\ call' = [call EXCEPT ![r] = "cancelled"]
    /\ opening' = [opening EXCEPT ![r] = "abandoned"]
    /\ UNCHANGED <<max_concurrent, setter, active_count, queueVars, permit,
                   queue_worker_active, seen_max, seen_current, result_ready,
                   workVars, slot_released, claimed, closer>>

-----------------------------------------------------------------------------
(* process_queue, executed by the worker. *)

WorkerLoadMax(w) ==
    /\ work[w] = "load_max"
    /\ worker_max' = [worker_max EXCEPT ![w] = max_concurrent]
    /\ work' = [work EXCEPT ![w] = "load_current"]
    /\ UNCHANGED <<max_concurrent, setter, active_count, queueVars, permit,
                   queue_worker_active, callVars, worker_current, held, slotVars>>

WorkerLoadCurrent(w) ==
    /\ work[w] = "load_current"
    /\ worker_current' = [worker_current EXCEPT ![w] = active_count]
    /\ work' = [work EXCEPT ![w] =
                   IF active_count >= worker_max[w] THEN "wait" ELSE "pop"]
    /\ UNCHANGED <<max_concurrent, setter, active_count, queueVars, permit,
                   queue_worker_active, callVars, worker_max, held, slotVars>>

\* slot_available.notified().await: take the permit, or register as a waiter.
WorkerWait(w) ==
    /\ work[w] = "wait"
    /\ work' = [work EXCEPT ![w] = IF permit THEN "load_max" ELSE "waiting"]
    /\ permit' = FALSE
    /\ UNCHANGED <<max_concurrent, setter, active_count, queueVars,
                   queue_worker_active, callVars, worker_max, worker_current,
                   held, slotVars>>

WorkerPop(w) ==
    /\ work[w] = "pop"
    /\ \/ /\ queue # <<>>
          /\ held' = [held EXCEPT ![w] = Head(queue)]
          /\ queue' = Tail(queue)
          /\ work' = [work EXCEPT ![w] = "claim"]
       \/ /\ queue = <<>>
          /\ work' = [work EXCEPT ![w] = "mark_idle"]
          /\ UNCHANGED <<queue, held>>
    /\ UNCHANGED <<max_concurrent, setter, active_count, order, served, permit,
                   queue_worker_active, callVars, worker_max, worker_current,
                   slotVars>>

WorkerClaim(w) ==
    /\ work[w] = "claim"
    /\ \/ /\ active_count = worker_current[w]
          /\ active_count' = worker_current[w] + 1
          /\ claimed' = [claimed EXCEPT ![held[w]] = TRUE]
          /\ opening' = [opening EXCEPT ![held[w]] = "requested"]
          /\ served' = Append(served, held[w])
          /\ work' = [work EXCEPT ![w] = "start"]
       \/ /\ active_count # worker_current[w]
          /\ work' = [work EXCEPT ![w] = "requeue"]
          /\ UNCHANGED <<active_count, claimed, opening, served>>
    /\ UNCHANGED <<max_concurrent, setter, queue, order, permit, queue_worker_active,
                   callVars, worker_max, worker_current, held, slot_released,
                   closer>>

\* Mutants of WorkerRequeue: push_back, and a request taken out too early.
WorkerRequeueAtBack(w) ==
    /\ work[w] = "requeue"
    /\ queue' = Append(queue, held[w])
    /\ held' = [held EXCEPT ![w] = NoRequest]
    /\ work' = [work EXCEPT ![w] = "load_max"]
    /\ UNCHANGED <<max_concurrent, setter, active_count, order, served, permit,
                   queue_worker_active, callVars, worker_max, worker_current,
                   slotVars>>

WorkerRequeueTaken(w) ==
    /\ work[w] = "requeue"
    /\ held' = [held EXCEPT ![w] = NoRequest]
    /\ queue' = <<held'[w]>> \o queue
    /\ work' = [work EXCEPT ![w] = "load_max"]
    /\ UNCHANGED <<max_concurrent, setter, active_count, order, served, permit,
                   queue_worker_active, callVars, worker_max, worker_current,
                   slotVars>>

WorkerRequeue(w) ==
    /\ work[w] = "requeue"
    /\ queue' = <<held[w]>> \o queue
    /\ held' = [held EXCEPT ![w] = NoRequest]
    /\ work' = [work EXCEPT ![w] = "load_max"]
    /\ UNCHANGED <<max_concurrent, setter, active_count, order, served, permit,
                   queue_worker_active, callVars, worker_max, worker_current,
                   slotVars>>

\* Mutant of WorkerReply: a result nobody receives is forgotten, not dropped.
WorkerReplyForgets(w) ==
    /\ work[w] = "start"
    /\ opening[held[w]] \in {"open", "failed"}
    /\ result_ready' = [result_ready EXCEPT ![held[w]] = TRUE]
    /\ held' = [held EXCEPT ![w] = NoRequest]
    /\ work' = [work EXCEPT ![w] = "load_max"]
    /\ UNCHANGED <<max_concurrent, setter, active_count, queueVars, permit,
                   queue_worker_active, call, seen_max, seen_current,
                   worker_max, worker_current, slotVars>>

\* result_tx.send(result).  When the caller is gone the send gives the result
\* back and dropping it runs Drop of the QuoteStream.
WorkerReply(w) ==
    /\ work[w] = "start"
    /\ opening[held[w]] \in {"open", "failed"}
    /\ \/ /\ call[held[w]] # "cancelled"
          /\ result_ready' = [result_ready EXCEPT ![held[w]] = TRUE]
          /\ UNCHANGED closer
       \/ /\ call[held[w]] = "cancelled"
          /\ closer' = IF opening[held[w]] = "open"
                       THEN [closer EXCEPT ![held[w]]["handle"] = "dropping"]
                       ELSE closer
          /\ UNCHANGED result_ready
    /\ held' = [held EXCEPT ![w] = NoRequest]
    /\ work' = [work EXCEPT ![w] = "load_max"]
    /\ UNCHANGED <<max_concurrent, setter, active_count, queueVars, permit,
                   queue_worker_active, call, seen_max, seen_current,
                   worker_max, worker_current, opening, slot_released, claimed>>

WorkerMarkIdle(w) ==
    /\ work[w] = "mark_idle"
    /\ queue_worker_active' = FALSE
    /\ work' = [work EXCEPT ![w] = "recheck"]
    /\ UNCHANGED <<max_concurrent, setter, active_count, queueVars, permit, callVars,
                   worker_max, worker_current, held, slotVars>>

\* Mutant of WorkerRecheck: exit without looking at the queue again.
WorkerExitsAtOnce(w) ==
    /\ work[w] = "recheck"
    /\ work' = [work EXCEPT ![w] = "exited"]
    /\ UNCHANGED <<max_concurrent, setter, active_count, queueVars, permit,
                   queue_worker_active, callVars, worker_max, worker_current,
                   held, slotVars>>

WorkerRecheck(w) ==
    /\ work[w] = "recheck"
    /\ work' = [work EXCEPT ![w] =
                   IF queue # <<>> THEN "reactivate" ELSE "exited"]
    /\ UNCHANGED <<max_concurrent, setter, active_count, queueVars, permit,
                   queue_worker_active, callVars, worker_max, worker_current,
                   held, slotVars>>

\* The compare_exchange that makes this worker the active one again.
WorkerReactivate(w) ==
    /\ work[w] = "reactivate"
    /\ queue_worker_active' = TRUE
    /\ work' = [work EXCEPT ![w] =
                   IF queue_worker_active THEN "exited" ELSE "load_max"]
    /\ UNCHANGED <<max_concurrent, setter, active_count, queueVars, permit, callVars,
                   worker_max, worker_current, held, slotVars>>

-----------------------------------------------------------------------------
(* start_stream_internal: the answer to NewSwapQuoteStream and what follows. *)

\* The response carries a stream: register it and hand out the QuoteStream.
StreamStarted(r) ==
    /\ opening[r] = "requested"
    /\ opening' = [opening EXCEPT ![r] = "open"]
    /\ UNCHANGED <<max_concurrent, setter, active_count, queueVars, permit,
                   queue_worker_active, callVars, workVars, slot_released,
                   claimed, closer>>

\* send_request fails, or the response carries no stream: the CAS on the fresh
\* guard succeeds, then fetch_sub, then notify_one.
StartFails(r) ==
    /\ opening[r] = "requested"
    /\ opening' = [opening EXCEPT ![r] = "err_sub"]
    /\ slot_released' = [slot_released EXCEPT ![r] = TRUE]
    /\ UNCHANGED <<max_concurrent, setter, active_count, queueVars, permit,
                   queue_worker_active, callVars, workVars, claimed, closer>>

StartFailsSub(r) ==
    /\ opening[r] = "err_sub"
    /\ active_count' = FetchSub(active_count)
    /\ opening' = [opening EXCEPT ![r] = "err_notify"]
    /\ UNCHANGED <<max_concurrent, setter, queueVars, permit, queue_worker_active,
                   callVars, workVars, slot_released, claimed, closer>>

StartFailsNotify(r) ==
    /\ opening[r] = "err_notify"
    /\ NotifyOne
    /\ opening' = [opening EXCEPT ![r] = "failed"]
    /\ UNCHANGED <<max_concurrent, setter, active_count, queueVars,
                   queue_worker_active, callVars, worker_max, worker_current,
                   held, slot_released, claimed, closer>>

-----------------------------------------------------------------------------
(* The ends of a stream. *)

\* The owner of the QuoteStream calls stop() or drops it; StopStream and the
\* unregistering follow, and only then the slot is given back.
CloseHandle(r) ==
    /\ call[r] = "returned"
    /\ opening[r] = "open"
    /\ closer[r]["handle"] = "idle"
    /\ \E how \in {"stopping", "dropping"} :
           closer' = [closer EXCEPT ![r]["handle"] = how]
    /\ UNCHANGED <<max_concurrent, setter, active_count, queueVars, permit,
                   queue_worker_active, callVars, workVars, opening,
                   slot_released, claimed>>

\* The stop() future is dropped at one of its awaits.  QuoteStream.stopped is
\* already true, so the Drop that follows does nothing.
CancelStop(r) ==
    /\ "stopping" \in CancelPoints
    /\ closer[r]["handle"] = "stopping"
    /\ closer' = [closer EXCEPT ![r]["handle"] = "abandoned"]
    /\ UNCHANGED <<max_concurrent, setter, active_count, queueVars, permit,
                   queue_worker_active, callVars, workVars, opening,
                   slot_released, claimed>>

\* Mutants of CasGuard: every path releases, and the guard is not set.
CasGuardIgnored(r, p) ==
    /\ slot_released' = [slot_released EXCEPT ![r] = TRUE]
    /\ closer' = [closer EXCEPT ![r][p] = "sub"]
    /\ UNCHANGED <<max_concurrent, setter, active_count, queueVars, permit,
                   queue_worker_active, callVars, workVars, opening, claimed>>

CasGuardNotSet(r, p) ==
    /\ closer' = [closer EXCEPT ![r][p] =
                     IF slot_released[r] THEN "done" ELSE "sub"]
    /\ UNCHANGED <<max_concurrent, setter, active_count, queueVars, permit,
                   queue_worker_active, callVars, workVars, opening,
                   slot_released, claimed>>

\* compare_exchange on slot_released: the first path to get here releases.
CasGuard(r, p) ==
    /\ slot_released' = [slot_released EXCEPT ![r] = TRUE]
    /\ closer' = [closer EXCEPT ![r][p] =
                     IF slot_released[r] THEN "done" ELSE "sub"]
    /\ UNCHANGED <<max_concurrent, setter, active_count, queueVars, permit,
                   queue_worker_active, callVars, workVars, opening, claimed>>

HandleReleases(r) ==
    /\ closer[r]["handle"] \in {"stopping", "dropping"}
    /\ CasGuard(r, "handle")

\* The connection removed r from its stream map and calls on_end.
OnEnd(r) ==
    /\ opening[r] = "open"
    /\ closer[r]["on_end"] = "idle"
    /\ CasGuard(r, "on_end")

\* stream_ended: fetch_sub, then notify_one.
StreamEndedSub(r, p) ==
    /\ closer[r][p] = "sub"
    /\ active_count' = FetchSub(active_count)
    /\ closer' = [closer EXCEPT ![r][p] = "notify"]
    /\ UNCHANGED <<max_concurrent, setter, queueVars, permit, queue_worker_active,
                   callVars, workVars, opening, slot_released, claimed>>

\* Mutant of StreamEndedNotify: nobody is told about the free slot.
StreamEndedSilently(r, p) ==
    /\ closer[r][p] = "notify"
    /\ closer' = [closer EXCEPT ![r][p] = "done"]
    /\ UNCHANGED <<max_concurrent, setter, active_count, queueVars, permit,
                   queue_worker_active, callVars, workVars, opening,
                   slot_released, claimed>>

\* Mutant of StreamEndedNotify: notify_waiters, which stores no permit.
StreamEndedNotifiesWaiters(r, p) ==
    /\ closer[r][p] = "notify"
    /\ \/ \E w \in Waiting : work' = [work EXCEPT ![w] = "load_max"]
       \/ Waiting = {} /\ UNCHANGED work
    /\ closer' = [closer EXCEPT ![r][p] = "done"]
    /\ UNCHANGED <<max_concurrent, setter, active_count, queueVars, permit,
                   queue_worker_active, callVars, worker_max, worker_current,
                   held, opening, slot_released, claimed>>

StreamEndedNotify(r, p) ==
    /\ closer[r][p] = "notify"
    /\ NotifyOne
    /\ closer' = [closer EXCEPT ![r][p] = "done"]
    /\ UNCHANGED <<max_concurrent, setter, active_count, queueVars,
                   queue_worker_active, callVars, worker_max, worker_current,
                   held, opening, slot_released, claimed>>

\* set_max_concurrent: the store, then notify_waiters, which wakes the waiters
\* there are and stores no permit.
SetMaxStore(max) ==
    /\ setter = "idle"
    /\ max_concurrent' = max
    /\ setter' = "notify"
    /\ UNCHANGED <<active_count, queueVars, permit, queue_worker_active,
                   callVars, workVars, slotVars>>

SetMaxNotify ==
    /\ setter = "notify"
    /\ setter' = "idle"
    /\ work' = [w \in Requests |->
                   IF work[w] = "waiting" THEN "load_max" ELSE work[w]]
    /\ UNCHANGED <<max_concurrent, active_count, queueVars, permit,
                   queue_worker_active, callVars, worker_max, worker_current,
                   held, slotVars>>

-----------------------------------------------------------------------------
CallStep(r) ==
    \/ LoadMax(r) \/ LoadCurrent(r) \/ TryClaim(r) \/ Enqueue(r)
    \/ KickWorker(r) \/ CallReturns(r) \/ ReceiveResult(r)

WorkStep(w) ==
    \/ WorkerLoadMax(w) \/ WorkerLoadCurrent(w) \/ WorkerWait(w)
    \/ WorkerPop(w) \/ WorkerClaim(w) \/ WorkerRequeue(w) \/ WorkerReply(w)
    \/ WorkerMarkIdle(w) \/ WorkerRecheck(w) \/ WorkerReactivate(w)

StartStep(r) ==
    \/ StreamStarted(r) \/ StartFails(r) \/ StartFailsSub(r)
    \/ StartFailsNotify(r)

CloseStep(r) ==
    \/ HandleReleases(r)
    \/ \E p \in Paths : StreamEndedSub(r, p) \/ StreamEndedNotify(r, p)

CancelStep(r) == CancelQueued(r) \/ CancelStarting(r) \/ CancelStop(r)

Next ==
    \/ \E r \in Requests : \/ CallStep(r) \/ WorkStep(r) \/ StartStep(r)
                           \/ CloseStep(r) \/ CancelStep(r)
                           \/ CloseHandle(r) \/ OnEnd(r)
    \/ \E max \in NewLimits : SetMaxStore(max)
    \/ SetMaxNotify

Spec == Init /\ [][Next]_vars

\* The runtime polls every ready task, and the server answers every request of a
\* start or a stop, or its connection is lost, which is assumed: send_request has
\* no timeout.  Nothing forces an owner to close a handle, a server to end a
\* stream, or anybody to cancel a call or to change the limit.
Fairness ==
    /\ \A r \in Requests : /\ WF_vars(CallStep(r))
                           /\ WF_vars(WorkStep(r))
                           /\ WF_vars(StartStep(r))
                           /\ WF_vars(HandleReleases(r))
    /\ \A r \in Requests, p \in Paths :
           WF_vars(StreamEndedSub(r, p) \/ StreamEndedNotify(r, p))
    /\ WF_vars(SetMaxNotify)

FairSpec == Spec /\ Fairness

\* In addition every owner of a QuoteStream closes it in the end.
ClosingSpec == FairSpec /\ \A r \in Requests : WF_vars(CloseHandle(r))

-----------------------------------------------------------------------------
(* Safety. *)

\* r's slot is counted: it was claimed and is not subtracted again yet.
HoldsSlot(r) ==
    /\ claimed[r]
    /\ \/ ~slot_released[r]
       \/ opening[r] = "err_sub"
       \/ \E p \in Paths : closer[r][p] = "sub"

Occupied == {r \in Requests : HoldsSlot(r)}

\* active_count is exactly the number of streams holding a slot, however stop,
\* Drop, on_end and the error paths of start_stream_internal interleave: no
\* slot is given back twice (which would wrap the counter) and none is lost
\* between a successful CAS and its fetch_sub.
SlotAccounting == active_count = Cardinality(Occupied)

\* No more streams hold a slot than the largest limit that was ever in force,
\* although request_stream and process_queue decide on a stale max_concurrent
\* and a stale active_count.
WithinLimit == \E limit \in Limits : Cardinality(Occupied) <= limit

Claimed == {r \in Requests : claimed[r]}

\* StreamManager implements the pool of slots.
Pool == INSTANCE SlotPool WITH
            taken <- Occupied,
            returned <- Claimed \ Occupied

\* A slot is taken only below a limit and given back exactly once, for every
\* interleaving of the claims and of the releasing paths.
ImplementsPool == Pool!PoolSpec

\* Workers between their spawning and the point where they mark themselves idle.
Running == {w \in Requests : work[w] \in
              {"load_max", "load_current", "wait", "waiting", "pop", "claim",
               "requeue", "start", "mark_idle"}}

\* At most one queue worker runs, and queue_worker_active says whether one
\* does, although a retiring worker and a new caller race for the flag.
SingleWorker ==
    /\ \A v, w \in Running : v = w
    /\ queue_worker_active <=> Running # {}

\* A queued request is never stranded: a worker runs, or a worker on its way
\* out will look again, or a caller is about to spawn one.
NoStrandedRequest ==
    queue # <<>> => \/ Running # {}
                    \/ \E w \in Requests : work[w] \in {"recheck", "reactivate"}
                    \/ \E r \in Requests : call[r] = "kick"

\* The request in the hands of the running worker that is not started yet.
InHand ==
    IF \E w \in Requests : work[w] \in {"claim", "requeue"}
    THEN <<held[CHOOSE w \in Requests : work[w] \in {"claim", "requeue"}]>>
    ELSE <<>>

\* Queued requests are started in the order they were queued, none twice and
\* none lost, although a worker that loses the race for a slot puts its
\* request back.
QueueOrder == order = served \o InHand \o queue

-----------------------------------------------------------------------------
(* Liveness. *)

\* A waiting caller gets its result: the wakeups of slot_available are not
\* lost, provided that owners close their handles.
CallerServed ==
    \A r \in Requests : call[r] = "waiting" ~> call[r] # "waiting"

\* A free slot and a queued request do not stay side by side for ever.
FreeSlotIsUsed ==
    (queue # <<>> /\ active_count < max_concurrent)
       ~> (queue = <<>> \/ active_count >= max_concurrent)

\* A slot is given back once nobody can use the stream any more: its caller is
\* gone, or its handle is being closed.
Unreachable(r) ==
    \/ call[r] = "cancelled" /\ claimed[r]
    \/ closer[r]["handle"] # "idle"

SlotReturned ==
    \A r \in Requests : Unreachable(r) ~> slot_released[r]
=============================================================================
