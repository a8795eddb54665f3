----------------------------- MODULE QueueProofs -----------------------------
(***************************************************************************)
(* The queue of StreamManager and its worker, for every set of requests:   *)
(* at most one worker runs, no queued request is stranded, and requests    *)
(* are started in the order in which they were queued.                     *)
(***************************************************************************)
EXTENDS StreamManagerProofs

Active == {"load_max", "load_current", "wait", "waiting", "pop", "claim",
           "requeue", "start", "mark_idle"}

WorkerInv == SingleWorker /\ NoStrandedRequest

LEMMA RunningIsActive ==
    /\ Running = {w \in Requests : work[w] \in Active}
    /\ Running' = {w \in Requests : work'[w] \in Active}
BY DEF Running, Active

\* Steps in which every worker that runs goes on, and no other begins.
LEMMA WorkersGoOn ==
    ASSUME SingleWorker, UNCHANGED queue_worker_active,
           \A w \in Requests : work'[w] \in Active <=> work[w] \in Active
    PROVE  SingleWorker' /\ Running' = Running
<1>1. Running' = Running
  BY RunningIsActive
<1> QED BY <1>1 DEF SingleWorker

\* Steps in which a worker begins to run while none does.
LEMMA WorkerBegins ==
    ASSUME SingleWorker, NEW r \in Requests, ~queue_worker_active,
           queue_worker_active' = TRUE,
           \A w \in Requests : work'[w] \in Active <=> w = r
    PROVE  SingleWorker' /\ Running' # {}
<1>1. Running' = {r}
  BY RunningIsActive
<1> QED BY <1>1 DEF SingleWorker

\* Waking waiters is neutral.
LEMMA NotifyOneGoesOn ==
    ASSUME TypeOK, NotifyOne
    PROVE  /\ \A w \in Requests : work'[w] \in Active <=> work[w] \in Active
           /\ \A w \in Requests :
                work'[w] # work[w] => work[w] = "waiting" /\ work'[w] = "load_max"
<1>1. CASE \E w \in Waiting : work' = [work EXCEPT ![w] = "load_max"]
  BY <1>1 DEF TypeOK, Waiting, Active
<1>2. CASE UNCHANGED work
  BY <1>2
<1> QED BY <1>1, <1>2 DEF NotifyOne

LEMMA InitWorkerInv == Init => WorkerInv
<1> SUFFICES ASSUME Init PROVE WorkerInv
  OBVIOUS
<1>1. queue = <<>> /\ ~queue_worker_active
  BY DEF Init
<1>2. Running = {}
  BY RunningIsActive DEF Init, Active
<1> QED BY <1>1, <1>2 DEF WorkerInv, SingleWorker, NoStrandedRequest

\* A queued request stays provided for while nobody who provides for it stops.
LEMMA StillProvided ==
    ASSUME NoStrandedRequest, UNCHANGED queue,
           Running \subseteq Running',
           \A w \in Requests : work[w] \in {"recheck", "reactivate"}
               => work'[w] \in {"recheck", "reactivate"} \/ Running' # {},
           \A r \in Requests : call[r] = "kick" => call'[r] = "kick"
    PROVE  NoStrandedRequest'
BY DEF NoStrandedRequest

LEMMA NextWorkerInv ==
    ASSUME TypeInv, WorkerInv, [Next]_vars
    PROVE  WorkerInv'
<1> USE DEF TypeInv, TypeOK, WorkerInv
<1>1. ASSUME NEW r \in Requests, CallStep(r) PROVE WorkerInv'
  <2>1. CASE Enqueue(r)
    <3>1. UNCHANGED <<work, queue_worker_active>> /\ call'[r] = "kick"
      BY <2>1 DEF Enqueue, workVars
    <3>2. SingleWorker'
      BY <3>1, WorkersGoOn
    <3> QED BY <3>1, <3>2 DEF NoStrandedRequest
  <2>2. CASE KickWorker(r)
    <3>1. CASE queue_worker_active
      <4>1. UNCHANGED <<work, queue_worker_active>>
        BY <2>2, <3>1 DEF KickWorker
      <4>2. SingleWorker' /\ Running' = Running
        BY <4>1, WorkersGoOn
      <4>3. Running # {}
        BY <3>1 DEF SingleWorker
      <4> QED BY <4>2, <4>3 DEF NoStrandedRequest
    <3>2. CASE ~queue_worker_active
      <4>1. queue_worker_active' = TRUE /\ work' = [work EXCEPT ![r] = "load_max"]
        BY <2>2, <3>2 DEF KickWorker
      <4>2. \A w \in Requests : work[w] \notin Active
        BY <3>2, RunningIsActive DEF SingleWorker
      <4>3. \A w \in Requests : work'[w] \in Active <=> w = r
        BY <4>1, <4>2 DEF Active
      <4> QED BY <3>2, <4>1, <4>3, WorkerBegins DEF NoStrandedRequest
    <3> QED BY <3>1, <3>2
  <2>3. CASE ~Enqueue(r) /\ ~KickWorker(r)
    <3>1. /\ UNCHANGED <<work, queue_worker_active, queue>>
          /\ \A x \in Requests : call[x] = "kick" => call'[x] = "kick"
      BY <1>1, <2>3 DEF CallStep, LoadMax, LoadCurrent, TryClaim, CallReturns,
         ReceiveResult, workVars, queueVars
    <3>2. SingleWorker' /\ Running' = Running
      BY <3>1, WorkersGoOn
    <3> QED BY <3>1, <3>2, StillProvided
  <2> QED BY <2>1, <2>2, <2>3
<1>2. ASSUME NEW w \in Requests, WorkStep(w) PROVE WorkerInv'
  <2>1. CASE WorkerMarkIdle(w)
    <3>1. /\ work[w] = "mark_idle" /\ queue_worker_active' = FALSE
          /\ work' = [work EXCEPT ![w] = "recheck"]
      BY <2>1 DEF WorkerMarkIdle
    <3>2. \A v \in Requests : work[v] \in Active => v = w
      BY <3>1, RunningIsActive DEF SingleWorker, Active
    <3>3. Running' = {}
      BY <3>1, <3>2, RunningIsActive DEF Active
    <3>4. work'[w] = "recheck"
      BY <3>1
    <3> QED BY <3>1, <3>3, <3>4 DEF SingleWorker, NoStrandedRequest
  <2>2. CASE WorkerRecheck(w)
    <3>1. /\ work[w] = "recheck" /\ UNCHANGED <<queue_worker_active, queue, call>>
          /\ work' = [work EXCEPT ![w] =
                         IF queue # <<>> THEN "reactivate" ELSE "exited"]
      BY <2>2 DEF WorkerRecheck, queueVars, callVars
    <3>2. SingleWorker' /\ Running' = Running
      BY <3>1, WorkersGoOn DEF Active
    <3>3. CASE queue = <<>>
      BY <3>1, <3>2, <3>3 DEF NoStrandedRequest
    <3>4. CASE queue # <<>>
      <4>1. work'[w] = "reactivate"
        BY <3>1, <3>4
      <4> QED BY <3>2, <4>1 DEF NoStrandedRequest
    <3> QED BY <3>3, <3>4
  <2>3. CASE WorkerReactivate(w)
    <3>1. work[w] = "reactivate" /\ queue_worker_active' = TRUE
      BY <2>3 DEF WorkerReactivate
    <3>2. CASE queue_worker_active
      <4>1. work' = [work EXCEPT ![w] = "exited"]
        BY <2>3, <3>2 DEF WorkerReactivate
      <4>2. SingleWorker' /\ Running' = Running
        BY <3>1, <3>2, <4>1, WorkersGoOn DEF Active
      <4>3. Running # {}
        BY <3>2 DEF SingleWorker
      <4> QED BY <4>2, <4>3 DEF NoStrandedRequest
    <3>3. CASE ~queue_worker_active
      <4>1. work' = [work EXCEPT ![w] = "load_max"]
        BY <2>3, <3>3 DEF WorkerReactivate
      <4>2. \A v \in Requests : work[v] \notin Active
        BY <3>3, RunningIsActive DEF SingleWorker
      <4>3. \A v \in Requests : work'[v] \in Active <=> v = w
        BY <4>1, <4>2 DEF Active
      <4> QED BY <3>1, <3>3, <4>3, WorkerBegins DEF NoStrandedRequest
    <3> QED BY <3>2, <3>3
  <2>4. CASE ~WorkerMarkIdle(w) /\ ~WorkerRecheck(w) /\ ~WorkerReactivate(w)
    <3>1. /\ UNCHANGED queue_worker_active
          /\ work[w] \in Active /\ work'[w] \in Active
          /\ \A v \in Requests : v # w => work'[v] = work[v]
      BY <1>2, <2>4 DEF WorkStep, WorkerLoadMax, WorkerLoadCurrent, WorkerWait,
         WorkerPop, WorkerClaim, WorkerRequeue, WorkerReply, Active
    <3>2. SingleWorker' /\ Running' = Running
      BY <3>1, WorkersGoOn
    <3>3. Running' # {}
      BY <3>1, RunningIsActive
    <3> QED BY <3>2, <3>3 DEF NoStrandedRequest
  <2> QED BY <2>1, <2>2, <2>3, <2>4
<1>3. CASE \/ \E r \in Requests : \/ StartStep(r) \/ CloseStep(r) \/ CancelStep(r)
                                  \/ CloseHandle(r) \/ OnEnd(r)
           \/ \E max \in NewLimits : SetMaxStore(max)
           \/ SetMaxNotify
           \/ UNCHANGED vars
  <2>1. /\ UNCHANGED <<queue_worker_active, queue>>
        /\ \A x \in Requests : call[x] = "kick" => call'[x] = "kick"
    BY <1>3 DEF StartStep, StreamStarted, StartFails, StartFailsSub,
       StartFailsNotify, CloseStep, HandleReleases, CasGuard, StreamEndedSub,
       StreamEndedNotify, CancelStep, CancelQueued, CancelStarting, CancelStop,
       CloseHandle, OnEnd, SetMaxStore, SetMaxNotify, vars, queueVars, callVars
  <2>2. \/ UNCHANGED work
        \/ NotifyOne
        \/ work' = [w \in Requests |->
                       IF work[w] = "waiting" THEN "load_max" ELSE work[w]]
    BY <1>3 DEF StartStep, StreamStarted, StartFails, StartFailsSub,
       StartFailsNotify, CloseStep, HandleReleases, CasGuard, StreamEndedSub,
       StreamEndedNotify, CancelStep, CancelQueued, CancelStarting, CancelStop,
       CloseHandle, OnEnd, SetMaxStore, SetMaxNotify, vars, workVars
  <2>3. \A w \in Requests : /\ work'[w] \in Active <=> work[w] \in Active
                            /\ work'[w] = work[w] \/ work[w] = "waiting"
    BY <2>2, NotifyOneGoesOn DEF Active
  <2>4. SingleWorker' /\ Running' = Running
    BY <2>1, <2>3, WorkersGoOn
  <2> QED BY <2>1, <2>3, <2>4, StillProvided
<1> QED BY <1>1, <1>2, <1>3 DEF Next

\* What the retiring worker and the callers that race with it keep.  That nobody
\* is stranded is only inductive together with SingleWorker: a worker may leave
\* the queue to the one that holds the flag.
THEOREM WorkerCorrect == Spec => []WorkerInv
BY InitWorkerInv, NextWorkerInv, TypeCorrect, PTL DEF Spec

\* At most one queue worker runs, and queue_worker_active says whether one does,
\* for any number of callers that race with a retiring worker.
THEOREM OneWorker == Spec => []SingleWorker
<1>1. WorkerInv => SingleWorker
  BY DEF WorkerInv
<1> QED BY <1>1, WorkerCorrect, PTL

\* A queued request always has a worker, or somebody about to look.
THEOREM NobodyStranded == Spec => []NoStrandedRequest
<1>1. WorkerInv => NoStrandedRequest
  BY DEF WorkerInv
<1> QED BY <1>1, WorkerCorrect, PTL

-----------------------------------------------------------------------------
(* The order of the queue. *)

HandStates == {"claim", "requeue"}

\* What InHand stands for, given that one worker runs.
LEMMA InHandOf ==
    ASSUME SingleWorker, NEW w \in Requests, work[w] \in HandStates
    PROVE  InHand = <<held[w]>>
<1>1. \A v \in Requests : work[v] \in HandStates => v = w
  BY DEF SingleWorker, Running, HandStates
<1>2. (CHOOSE v \in Requests : work[v] \in {"claim", "requeue"}) = w
  BY <1>1 DEF HandStates
<1> QED BY <1>2 DEF InHand, HandStates

LEMMA InHandEmpty ==
    ASSUME \A w \in Requests : work[w] \notin HandStates
    PROVE  InHand = <<>>
BY DEF InHand, HandStates

\* Steps that leave the hands alone.
LEMMA SameHand ==
    ASSUME SingleWorker, SingleWorker',
           \A w \in Requests : work'[w] \in HandStates <=> work[w] \in HandStates,
           \A w \in Requests : work[w] \in HandStates => held'[w] = held[w]
    PROVE  InHand' = InHand
<1>1. CASE \A w \in Requests : work[w] \notin HandStates
  <2>1. InHand = <<>>
    BY <1>1, InHandEmpty
  <2>2. InHand' = <<>>
    BY <1>1 DEF InHand, HandStates
  <2> QED BY <2>1, <2>2
<1>2. CASE \E w \in Requests : work[w] \in HandStates
  <2>1. PICK w \in Requests : work[w] \in HandStates
    BY <1>2
  <2>2. InHand = <<held[w]>>
    BY <2>1, InHandOf
  <2>3. work'[w] \in HandStates /\ held'[w] = held[w]
    BY <2>1
  <2>4. \A v \in Requests : work'[v] \in HandStates => v = w
    BY <2>3 DEF SingleWorker, Running, HandStates
  <2>5. (CHOOSE v \in Requests : work'[v] \in {"claim", "requeue"}) = w
    BY <2>3, <2>4 DEF HandStates
  <2>6. InHand' = <<held'[w]>>
    BY <2>3, <2>5 DEF InHand, HandStates
  <2> QED BY <2>2, <2>3, <2>6
<1> QED BY <1>1, <1>2

LEMMA HeadTailConcat ==
    ASSUME NEW S, NEW q \in Seq(S), q # <<>>
    PROVE  q = <<Head(q)>> \o Tail(q)
BY HeadTailProperties, SMTT(60)

LEMMA SingletonSeq ==
    ASSUME NEW S, NEW e \in S
    PROVE  <<e>> \in Seq(S)
OBVIOUS

LEMMA SingletonConcat ==
    ASSUME NEW S, NEW s \in Seq(S), NEW t \in Seq(S), NEW e \in S
    PROVE  /\ (s \o <<e>>) \o t = s \o (<<e>> \o t)
           /\ Append(s, e) = s \o <<e>>
           /\ s \o Append(t, e) = Append(s \o t, e)
<1>1. <<e>> \in Seq(S)
  BY SingletonSeq
<1>2. (s \o <<e>>) \o t = s \o (<<e>> \o t)
  BY <1>1, ConcatAssociative
<1>3. Append(s, e) = s \o <<e>>
  BY AppendIsConcat
<1>4. Append(t, e) = t \o <<e>>
  BY AppendIsConcat
<1>5. s \o t \in Seq(S)
  BY ConcatProperties
<1>6. Append(s \o t, e) = (s \o t) \o <<e>>
  BY <1>5, AppendIsConcat
<1>7. (s \o t) \o <<e>> = s \o (t \o <<e>>)
  BY <1>1, ConcatAssociative
<1> QED BY <1>2, <1>3, <1>4, <1>6, <1>7

LEMMA InHandType ==
    ASSUME TypeInv, SingleWorker
    PROVE  InHand \in Seq(Requests)
<1>1. CASE \A w \in Requests : work[w] \notin HandStates
  BY <1>1, InHandEmpty, EmptySeq
<1>2. ASSUME NEW w \in Requests, work[w] \in HandStates
      PROVE  InHand \in Seq(Requests)
  <2>1. held[w] \in Requests
    BY <1>2 DEF TypeInv, InProgress, HandStates
  <2>2. <<held[w]>> \in Seq(Requests)
    BY <2>1, SingletonSeq
  <2> QED BY <1>2, <2>2, InHandOf
<1> QED BY <1>1, <1>2

LEMMA NextQueueOrder ==
    ASSUME TypeInv, TypeInv', WorkerInv, WorkerInv', QueueOrder, [Next]_vars
    PROVE  QueueOrder'
<1>0. served \in Seq(Requests) /\ queue \in Seq(Requests)
  BY DEF TypeInv, TypeOK
<1> USE DEF TypeInv, TypeOK, WorkerInv
<1>1. ASSUME NEW r \in Requests, Enqueue(r) PROVE QueueOrder'
  <2>1. /\ queue' = Append(queue, r) /\ order' = Append(order, r)
        /\ UNCHANGED <<served, work, held>>
    BY <1>1 DEF Enqueue, workVars
  <2>2. InHand' = InHand
    BY <2>1, SameHand
  <2>3. served \o InHand \in Seq(Requests)
    BY InHandType, ConcatProperties
  <2>4. (served \o InHand) \o Append(queue, r)
          = Append((served \o InHand) \o queue, r)
    <3> DEFINE front == served \o InHand
    <3>1. front \in Seq(Requests) /\ queue \in Seq(Requests) /\ r \in Requests
      BY <1>0, <2>3
    <3> HIDE DEF front
    <3>2. front \o Append(queue, r) = Append(front \o queue, r)
      BY ONLY <3>1, SingletonConcat
    <3> QED BY <3>2 DEF front
  <2> QED BY <2>1, <2>2, <2>4 DEF QueueOrder
<1>2. ASSUME NEW w \in Requests, WorkerPop(w), queue # <<>> PROVE QueueOrder'
  <2>1. /\ work[w] = "pop" /\ work' = [work EXCEPT ![w] = "claim"]
        /\ held' = [held EXCEPT ![w] = Head(queue)] /\ queue' = Tail(queue)
        /\ UNCHANGED <<served, order>>
    BY <1>2 DEF WorkerPop
  <2>2. \A v \in Requests : work[v] \in HandStates => v = w
    BY <2>1 DEF SingleWorker, Running, HandStates
  <2>3. InHand = <<>>
    BY <2>1, <2>2, InHandEmpty DEF HandStates
  <2>4. InHand' = <<Head(queue)>>
    <3>1. work'[w] \in HandStates /\ held'[w] = Head(queue)
      BY <2>1 DEF HandStates
    <3>2. \A v \in Requests : work'[v] \in HandStates => v = w
      BY <2>1, <2>2
    <3>3. (CHOOSE v \in Requests : work'[v] \in {"claim", "requeue"}) = w
      BY <3>1, <3>2 DEF HandStates
    <3> QED BY <3>1, <3>3 DEF InHand, HandStates
  <2>5. queue = <<Head(queue)>> \o Tail(queue)
    BY <1>2, HeadTailConcat
  <2>6. served \o <<>> = served
    BY ConcatEmptySeq
  <2>7. Head(queue) \in Requests /\ Tail(queue) \in Seq(Requests)
    BY <1>2, PopType
  <2>8. served \o (<<Head(queue)>> \o Tail(queue))
          = (served \o <<Head(queue)>>) \o Tail(queue)
    BY ONLY <1>0, <2>7, SingletonConcat
  <2> QED BY <2>1, <2>3, <2>4, <2>5, <2>6, <2>8 DEF QueueOrder
<1>3. ASSUME NEW w \in Requests, work[w] \in HandStates,
             work'[w] \notin HandStates,
             \A v \in Requests : v # w => work'[v] = work[v],
             UNCHANGED order,
             \/ served' = Append(served, held[w]) /\ UNCHANGED queue
             \/ queue' = <<held[w]>> \o queue /\ UNCHANGED served
      PROVE  QueueOrder'
  <2>1. held[w] \in Requests /\ InHand = <<held[w]>>
    BY <1>3, InHandOf DEF InProgress, HandStates
  <2>2. \A v \in Requests : work[v] \in HandStates => v = w
    BY <1>3 DEF SingleWorker, Running, HandStates
  <2>3. InHand' = <<>>
    <3>1. \A v \in Requests : work'[v] \notin HandStates
      BY <1>3, <2>2
    <3> QED BY <3>1 DEF InHand, HandStates
  <2>4. (served \o <<held[w]>>) \o queue = served \o (<<held[w]>> \o queue)
    BY ONLY <1>0, <2>1, SingletonConcat
  <2>5. order = (served \o <<held[w]>>) \o queue
    BY <2>1 DEF QueueOrder
  <2>6. CASE served' = Append(served, held[w]) /\ UNCHANGED queue
    <3>1. served' = served \o <<held[w]>> /\ served' \in Seq(Requests)
      <4>1. Append(served, held[w]) = served \o <<held[w]>>
        BY ONLY <1>0, <2>1, SingletonConcat
      <4> QED BY <2>6, <4>1
    <3>2. served' \o <<>> = served'
      BY ONLY <3>1, ConcatEmptySeq
    <3> QED BY <1>3, <2>3, <2>5, <2>6, <3>1, <3>2 DEF QueueOrder
  <2>7. CASE queue' = <<held[w]>> \o queue /\ UNCHANGED served
    <3>1. served \o <<>> = served
      BY ConcatEmptySeq
    <3> QED BY <1>3, <2>3, <2>4, <2>5, <2>7, <3>1 DEF QueueOrder
  <2> QED BY <1>3, <2>6, <2>7
<1>4. ASSUME UNCHANGED <<queue, order, served>>,
             \A w \in Requests : work'[w] \in HandStates <=> work[w] \in HandStates,
             \A w \in Requests : work[w] \in HandStates => held'[w] = held[w]
      PROVE  QueueOrder'
  <2>1. InHand' = InHand
    BY <1>4, SameHand
  <2> QED BY <1>4, <2>1 DEF QueueOrder
<1>5. ASSUME NEW r \in Requests, CallStep(r), ~Enqueue(r) PROVE QueueOrder'
  <2>1. UNCHANGED <<queue, order, served, held>>
    BY <1>5 DEF CallStep, LoadMax, LoadCurrent, TryClaim, KickWorker,
       CallReturns, ReceiveResult, workVars, queueVars
  <2>2. CASE UNCHANGED work
    BY <1>4, <2>1, <2>2
  <2>3. CASE KickWorker(r) /\ ~queue_worker_active
    <3>1. work' = [work EXCEPT ![r] = "load_max"]
      BY <2>3 DEF KickWorker
    <3>2. \A w \in Requests : work[w] \notin HandStates
      BY <2>3 DEF SingleWorker, Running, HandStates
    <3>3. \A w \in Requests : work'[w] \notin HandStates
      BY <3>1, <3>2 DEF HandStates
    <3> QED BY <1>4, <2>1, <3>2, <3>3
  <2> QED BY <1>5, <2>2, <2>3 DEF CallStep, LoadMax, LoadCurrent, TryClaim,
             KickWorker, CallReturns, ReceiveResult, workVars
<1>6. ASSUME NEW w \in Requests, WorkStep(w) PROVE QueueOrder'
  <2>1. CASE WorkerPop(w)
    <3>1. CASE queue = <<>>
      <4>1. /\ UNCHANGED <<queue, order, served, held>> /\ work[w] = "pop"
            /\ work' = [work EXCEPT ![w] = "mark_idle"]
        BY <2>1, <3>1 DEF WorkerPop
      <4> QED BY <1>4, <4>1 DEF HandStates
    <3> QED BY <1>2, <2>1, <3>1
  <2>2. CASE WorkerClaim(w)
    <3>1. CASE active_count = worker_current[w]
      BY <1>3, <2>2, <3>1 DEF WorkerClaim, HandStates
    <3>2. CASE active_count # worker_current[w]
      <4>1. /\ UNCHANGED <<queue, order, served, held>> /\ work[w] = "claim"
            /\ work' = [work EXCEPT ![w] = "requeue"]
        BY <2>2, <3>2 DEF WorkerClaim
      <4> QED BY <1>4, <4>1 DEF HandStates
    <3> QED BY <3>1, <3>2
  <2>3. CASE WorkerRequeue(w)
    BY <1>3, <2>3 DEF WorkerRequeue, HandStates
  <2>4. CASE ~WorkerPop(w) /\ ~WorkerClaim(w) /\ ~WorkerRequeue(w)
    <3>1. /\ UNCHANGED <<queue, order, served>>
          /\ work[w] \notin HandStates /\ work'[w] \notin HandStates
          /\ \A v \in Requests : v # w => work'[v] = work[v] /\ held'[v] = held[v]
      BY <1>6, <2>4 DEF WorkStep, WorkerLoadMax, WorkerLoadCurrent, WorkerWait,
         WorkerReply, WorkerMarkIdle, WorkerRecheck, WorkerReactivate,
         HandStates, queueVars
    <3> QED BY <1>4, <3>1
  <2> QED BY <2>1, <2>2, <2>3, <2>4
<1>7. CASE \/ \E r \in Requests : \/ StartStep(r) \/ CloseStep(r) \/ CancelStep(r)
                                  \/ CloseHandle(r) \/ OnEnd(r)
           \/ \E max \in NewLimits : SetMaxStore(max)
           \/ SetMaxNotify
           \/ UNCHANGED vars
  <2>1. UNCHANGED <<queue, order, served, held>>
    BY <1>7 DEF StartStep, StreamStarted, StartFails, StartFailsSub,
       StartFailsNotify, CloseStep, HandleReleases, CasGuard, StreamEndedSub,
       StreamEndedNotify, CancelStep, CancelQueued, CancelStarting, CancelStop,
       CloseHandle, OnEnd, SetMaxStore, SetMaxNotify, vars, queueVars, workVars
  <2>2. \/ UNCHANGED work
        \/ NotifyOne
        \/ work' = [w \in Requests |->
                       IF work[w] = "waiting" THEN "load_max" ELSE work[w]]
    BY <1>7 DEF StartStep, StreamStarted, StartFails, StartFailsSub,
       StartFailsNotify, CloseStep, HandleReleases, CasGuard, StreamEndedSub,
       StreamEndedNotify, CancelStep, CancelQueued, CancelStarting, CancelStop,
       CloseHandle, OnEnd, SetMaxStore, SetMaxNotify, vars, workVars
  <2>3. \A w \in Requests : work'[w] \in HandStates <=> work[w] \in HandStates
    BY <2>2, NotifyOneGoesOn DEF HandStates
  <2> QED BY <1>4, <2>1, <2>3
<1> QED BY <1>1, <1>5, <1>6, <1>7 DEF Next

\* Queued requests are started in the order they were queued, none twice and
\* none lost, although a worker puts back what it could not start.
THEOREM QueueKeepsOrder == Spec => []QueueOrder
<1>1. Init => QueueOrder
  <2> SUFFICES ASSUME Init PROVE QueueOrder
    OBVIOUS
  <2>1. InHand = <<>>
    BY InHandEmpty DEF Init, HandStates
  <2>2. order = <<>> /\ served = <<>> /\ queue = <<>>
    BY DEF Init
  <2> QED BY <2>1, <2>2 DEF QueueOrder
<1> QED BY <1>1, NextQueueOrder, TypeCorrect, WorkerCorrect, PTL DEF Spec
=============================================================================
