------------------------- MODULE StreamManagerProofs -------------------------
(***************************************************************************)
(* Slot accounting of StreamManager for every set of requests, every limit *)
(* and every choice of the await points at which calls are cancelled.      *)
(*                                                                         *)
(* The argument is layered.  TypeCorrect shows types, and that whoever is  *)
(* about to claim has seen a count below a limit.  SlotsCorrect shows that *)
(* a queued request is in one place only and not yet claimed, and how the  *)
(* guard, the opening and the closing paths of a slot fit together.  With  *)
(* these every step adds to the occupied slots what it adds to             *)
(* active_count.                                                           *)
(***************************************************************************)
EXTENDS StreamManager, FiniteSetTheorems, SequenceTheorems, TLAPS

\* What a task in the middle of an operation knows: the count a claim compares
\* with was below a limit that was in force, and a worker that has popped a
\* request holds it.
InProgress ==
    /\ \A r \in Requests :
         /\ call[r] \in {"load_current", "claim"} => seen_max[r] \in Limits
         /\ call[r] = "claim" => seen_current[r] < seen_max[r]
    /\ \A w \in Requests :
         /\ work[w] \in {"load_current", "pop", "claim"} => worker_max[w] \in Limits
         /\ work[w] \in {"pop", "claim"} => worker_current[w] < worker_max[w]
         /\ work[w] \in {"claim", "requeue", "start"} => held[w] \in Requests

TypeInv == TypeOK /\ InProgress

\* A step of NotifyOne keeps work well typed and moves waiters to load_max only.
LEMMA NotifyOneType ==
    ASSUME TypeOK, NotifyOne
    PROVE  /\ work' \in [Requests -> WorkState]
           /\ permit' \in BOOLEAN
           /\ \A w \in Requests : work'[w] = work[w] \/ work'[w] = "load_max"
<1>1. CASE \E w \in Waiting : work' = [work EXCEPT ![w] = "load_max"] /\ UNCHANGED permit
  BY <1>1 DEF TypeOK, WorkState, Waiting
<1>2. CASE Waiting = {} /\ permit' = TRUE /\ UNCHANGED work
  BY <1>2 DEF TypeOK
<1> QED BY <1>1, <1>2 DEF NotifyOne

LEMMA FetchSubType ==
    ASSUME NEW n \in 0..U32Max
    PROVE  FetchSub(n) \in 0..U32Max
BY StreamManagerAssumption DEF StreamManagerAssumption, FetchSub

LEMMA LimitsAreU32 ==
    /\ U32Max \in Nat
    /\ Limits \subseteq 0..U32Max
    /\ InitialLimit \in Limits
    /\ NewLimits \subseteq Limits
BY StreamManagerAssumption DEF StreamManagerAssumption, Limits

LEMMA BelowLimitType ==
    ASSUME NEW n \in 0..U32Max, NEW limit \in Limits, n < limit
    PROVE  n + 1 \in 0..U32Max
BY LimitsAreU32

LEMMA PopType ==
    ASSUME NEW q \in Seq(Requests), q # <<>>
    PROVE  Head(q) \in Requests /\ Tail(q) \in Seq(Requests)
BY HeadTailProperties

LEMMA PutBackType ==
    ASSUME NEW r \in Requests, NEW q \in Seq(Requests)
    PROVE  <<r>> \o q \in Seq(Requests)
BY ConcatProperties

LEMMA InitTypeInv == Init => TypeInv
<1> SUFFICES ASSUME Init PROVE TypeInv
  OBVIOUS
<1> USE LimitsAreU32, StreamManagerAssumption DEF Init
<1>1. /\ permit \in BOOLEAN
      /\ queue_worker_active \in BOOLEAN
      /\ result_ready \in [Requests -> BOOLEAN]
      /\ slot_released \in [Requests -> BOOLEAN]
      /\ claimed \in [Requests -> BOOLEAN]
  OBVIOUS
<1>2. /\ queue \in Seq(Requests)
      /\ order \in Seq(Requests)
      /\ served \in Seq(Requests)
  OBVIOUS
<1>3. /\ max_concurrent \in Limits
      /\ active_count \in 0..U32Max
      /\ setter \in {"idle", "notify"}
  OBVIOUS
<1>4. /\ call \in [Requests -> CallState]
      /\ seen_max \in [Requests -> 0..U32Max]
      /\ seen_current \in [Requests -> 0..U32Max]
      /\ work \in [Requests -> WorkState]
      /\ worker_max \in [Requests -> 0..U32Max]
      /\ worker_current \in [Requests -> 0..U32Max]
      /\ held \in [Requests -> Requests \cup {NoRequest}]
  BY DEF CallState, WorkState
<1>5. /\ opening \in [Requests -> OpeningState]
      /\ closer \in [Requests -> [Paths -> CloserState]]
  BY DEF OpeningState, CloserState
<1>6. InProgress
  BY DEF InProgress
<1> QED BY <1>1, <1>2, <1>3, <1>4, <1>5, <1>6 DEF TypeInv, TypeOK

LEMMA NextTypeInv == TypeInv /\ [Next]_vars => TypeInv'
<1> SUFFICES ASSUME TypeInv, [Next]_vars PROVE TypeInv'
  OBVIOUS
<1> USE LimitsAreU32 DEF TypeInv, TypeOK
<1>1. ASSUME NEW r \in Requests, CallStep(r) PROVE TypeInv'
  <2>1. CASE LoadMax(r)
    <3>1. call' \in [Requests -> CallState]
      BY <2>1 DEF LoadMax, CallState
    <3>2. seen_max' \in [Requests -> 0..U32Max]
      BY <2>1 DEF LoadMax
    <3>3. InProgress'
      BY <2>1 DEF LoadMax, InProgress, callVars, workVars, slotVars, queueVars
    <3> QED BY <2>1, <3>1, <3>2, <3>3 DEF LoadMax, callVars, workVars, slotVars, queueVars
  <2>2. CASE LoadCurrent(r)
    <3>1. call' \in [Requests -> CallState]
      BY <2>2, ZenonT(60) DEF LoadCurrent, CallState
    <3>2. seen_current' \in [Requests -> 0..U32Max]
      BY <2>2 DEF LoadCurrent
    <3>3. InProgress'
      BY <2>2, SMTT(60) DEF LoadCurrent, InProgress, callVars, workVars, slotVars, queueVars
    <3> QED BY <2>2, <3>1, <3>2, <3>3 DEF LoadCurrent, callVars, workVars, slotVars, queueVars
  <2>3. CASE TryClaim(r)
    <3>1. call' \in [Requests -> CallState]
      BY <2>3, ZenonT(60) DEF TryClaim, CallState
    <3>2. active_count' \in 0..U32Max
      <4>1. CASE UNCHANGED active_count
        BY <4>1
      <4>2. CASE active_count' = seen_current[r] + 1
        <5>1. seen_current[r] \in 0..U32Max
          OBVIOUS
        <5>2. seen_max[r] \in Limits /\ seen_current[r] < seen_max[r]
          BY <2>3 DEF TryClaim, InProgress
        <5> QED BY <4>2, <5>1, <5>2, BelowLimitType
      <4> QED BY <2>3, <4>1, <4>2 DEF TryClaim
    <3>3. claimed' \in [Requests -> BOOLEAN]
      BY <2>3 DEF TryClaim
    <3>4. opening' \in [Requests -> OpeningState]
      BY <2>3 DEF TryClaim, OpeningState
    <3>5. InProgress'
      BY <2>3, ZenonT(60) DEF TryClaim, InProgress, callVars, workVars, slotVars, queueVars
    <3> QED BY <2>3, <3>1, <3>2, <3>3, <3>4, <3>5 DEF TryClaim, callVars, workVars, slotVars, queueVars
  <2>4. CASE Enqueue(r)
    <3>1. call' \in [Requests -> CallState]
      BY <2>4 DEF Enqueue, CallState
    <3>2. queue' \in Seq(Requests)
      BY <2>4 DEF Enqueue
    <3>3. order' \in Seq(Requests)
      BY <2>4 DEF Enqueue
    <3>4. InProgress'
      BY <2>4 DEF Enqueue, InProgress, callVars, workVars, slotVars, queueVars
    <3> QED BY <2>4, <3>1, <3>2, <3>3, <3>4 DEF Enqueue, callVars, workVars, slotVars, queueVars
  <2>5. CASE KickWorker(r)
    <3>1. call' \in [Requests -> CallState]
      BY <2>5 DEF KickWorker, CallState
    <3>2. work' \in [Requests -> WorkState]
      BY <2>5 DEF KickWorker, WorkState
    <3>3. queue_worker_active' \in BOOLEAN
      BY <2>5 DEF KickWorker
    <3>4. InProgress'
      BY <2>5 DEF KickWorker, InProgress, callVars, workVars, slotVars, queueVars
    <3> QED BY <2>5, <3>1, <3>2, <3>3, <3>4 DEF KickWorker, callVars, workVars, slotVars, queueVars
  <2>6. CASE CallReturns(r)
    <3>1. call' \in [Requests -> CallState]
      BY <2>6 DEF CallReturns, CallState
    <3>2. InProgress'
      BY <2>6 DEF CallReturns, InProgress, callVars, workVars, slotVars, queueVars
    <3> QED BY <2>6, <3>1, <3>2 DEF CallReturns, callVars, workVars, slotVars, queueVars
  <2>7. CASE ReceiveResult(r)
    <3>1. call' \in [Requests -> CallState]
      BY <2>7 DEF ReceiveResult, CallState
    <3>2. InProgress'
      BY <2>7 DEF ReceiveResult, InProgress, callVars, workVars, slotVars, queueVars
    <3> QED BY <2>7, <3>1, <3>2 DEF ReceiveResult, callVars, workVars, slotVars, queueVars
  <2> QED BY <1>1, <2>1, <2>2, <2>3, <2>4, <2>5, <2>6, <2>7 DEF CallStep
<1>2. ASSUME NEW w \in Requests, WorkStep(w) PROVE TypeInv'
  <2>1. CASE WorkerLoadMax(w)
    <3>1. work' \in [Requests -> WorkState]
      BY <2>1 DEF WorkerLoadMax, WorkState
    <3>2. worker_max' \in [Requests -> 0..U32Max]
      BY <2>1 DEF WorkerLoadMax
    <3>3. InProgress'
      BY <2>1 DEF WorkerLoadMax, InProgress, callVars, workVars, slotVars, queueVars
    <3> QED BY <2>1, <3>1, <3>2, <3>3 DEF WorkerLoadMax, callVars, workVars, slotVars, queueVars
  <2>2. CASE WorkerLoadCurrent(w)
    <3>1. work' \in [Requests -> WorkState]
      BY <2>2 DEF WorkerLoadCurrent, WorkState
    <3>2. worker_current' \in [Requests -> 0..U32Max]
      BY <2>2 DEF WorkerLoadCurrent
    <3>3. InProgress'
      BY <2>2, SMTT(60) DEF WorkerLoadCurrent, InProgress, callVars, workVars, slotVars, queueVars
    <3> QED BY <2>2, <3>1, <3>2, <3>3 DEF WorkerLoadCurrent, callVars, workVars, slotVars, queueVars
  <2>3. CASE WorkerWait(w)
    <3>1. work' \in [Requests -> WorkState]
      BY <2>3 DEF WorkerWait, WorkState
    <3>2. InProgress'
      BY <2>3 DEF WorkerWait, InProgress, callVars, workVars, slotVars, queueVars
    <3> QED BY <2>3, <3>1, <3>2 DEF WorkerWait, callVars, workVars, slotVars, queueVars
  <2>4. CASE WorkerPop(w)
    <3>1. work' \in [Requests -> WorkState]
      BY <2>4, ZenonT(60) DEF WorkerPop, WorkState
    <3>2. queue' \in Seq(Requests)
      BY <2>4, PopType, ZenonT(60) DEF WorkerPop
    <3>3. held' \in [Requests -> Requests \cup {NoRequest}] /\ InProgress'
      <4>1. UNCHANGED <<call, seen_max, seen_current, worker_max, worker_current>>
        BY <2>4 DEF WorkerPop, callVars
      <4>2. CASE queue # <<>>
        <5>1. Head(queue) \in Requests
          BY <4>2, PopType
        <5>2. /\ held' = [held EXCEPT ![w] = Head(queue)]
              /\ work' = [work EXCEPT ![w] = "claim"]
              /\ work[w] = "pop"
          BY <2>4, <4>2 DEF WorkerPop
        <5> QED BY <4>1, <5>1, <5>2 DEF InProgress
      <4>3. CASE queue = <<>>
        <5>1. /\ UNCHANGED held
              /\ work' = [work EXCEPT ![w] = "mark_idle"]
          BY <2>4, <4>3 DEF WorkerPop
        <5> QED BY <4>1, <5>1 DEF InProgress
      <4> QED BY <4>2, <4>3
    <3> QED BY <2>4, <3>1, <3>2, <3>3 DEF WorkerPop, callVars, workVars, slotVars, queueVars
  <2>5. CASE WorkerClaim(w)
    <3>1. work' \in [Requests -> WorkState]
      BY <2>5, ZenonT(60) DEF WorkerClaim, WorkState
    <3>2. active_count' \in 0..U32Max
      <4>1. CASE UNCHANGED active_count
        BY <4>1
      <4>2. CASE active_count' = worker_current[w] + 1
        <5>1. worker_current[w] \in 0..U32Max
          OBVIOUS
        <5>2. worker_max[w] \in Limits /\ worker_current[w] < worker_max[w]
          BY <2>5 DEF WorkerClaim, InProgress
        <5> QED BY <4>2, <5>1, <5>2, BelowLimitType
      <4> QED BY <2>5, <4>1, <4>2 DEF WorkerClaim
    <3>3. claimed' \in [Requests -> BOOLEAN]
      BY <2>5 DEF WorkerClaim
    <3>4. opening' \in [Requests -> OpeningState]
      BY <2>5 DEF WorkerClaim, OpeningState
    <3>5. served' \in Seq(Requests)
      <4>1. held[w] \in Requests
        BY <2>5 DEF WorkerClaim, InProgress
      <4>2. CASE served' = Append(served, held[w])
        BY <4>1, <4>2
      <4>3. CASE UNCHANGED served
        BY <4>3
      <4> QED BY <2>5, <4>2, <4>3 DEF WorkerClaim
    <3>6. InProgress'
      BY <2>5 DEF WorkerClaim, InProgress, callVars, workVars, slotVars, queueVars
    <3> QED BY <2>5, <3>1, <3>2, <3>3, <3>4, <3>5, <3>6 DEF WorkerClaim, callVars, workVars, slotVars, queueVars
  <2>6. CASE WorkerRequeue(w)
    <3>1. work' \in [Requests -> WorkState]
      BY <2>6 DEF WorkerRequeue, WorkState
    <3>2. queue' \in Seq(Requests)
      BY <2>6, PutBackType DEF WorkerRequeue, InProgress
    <3>3. held' \in [Requests -> Requests \cup {NoRequest}]
      BY <2>6 DEF WorkerRequeue
    <3>4. InProgress'
      BY <2>6 DEF WorkerRequeue, InProgress, callVars, workVars, slotVars, queueVars
    <3> QED BY <2>6, <3>1, <3>2, <3>3, <3>4 DEF WorkerRequeue, callVars, workVars, slotVars, queueVars
  <2>7. CASE WorkerReply(w)
    <3>1. work' \in [Requests -> WorkState]
      BY <2>7 DEF WorkerReply, WorkState
    <3>2. held' \in [Requests -> Requests \cup {NoRequest}]
      BY <2>7 DEF WorkerReply
    <3>3. result_ready' \in [Requests -> BOOLEAN]
      BY <2>7 DEF WorkerReply
    <3>4. closer' \in [Requests -> [Paths -> CloserState]]
      <4>1. CASE UNCHANGED closer
        BY <4>1
      <4>2. CASE closer' = [closer EXCEPT ![held[w]]["handle"] = "dropping"]
        BY <4>2 DEF Paths, CloserState
      <4> QED BY <2>7, <4>1, <4>2 DEF WorkerReply
    <3>5. InProgress'
      BY <2>7 DEF WorkerReply, InProgress, callVars, workVars, slotVars, queueVars
    <3> QED BY <2>7, <3>1, <3>2, <3>3, <3>4, <3>5 DEF WorkerReply, callVars, workVars, slotVars, queueVars
  <2>8. CASE WorkerMarkIdle(w)
    <3>1. work' \in [Requests -> WorkState]
      BY <2>8 DEF WorkerMarkIdle, WorkState
    <3>2. InProgress'
      BY <2>8 DEF WorkerMarkIdle, InProgress, callVars, workVars, slotVars, queueVars
    <3> QED BY <2>8, <3>1, <3>2 DEF WorkerMarkIdle, callVars, workVars, slotVars, queueVars
  <2>9. CASE WorkerRecheck(w)
    <3>1. work' \in [Requests -> WorkState]
      BY <2>9 DEF WorkerRecheck, WorkState
    <3>2. InProgress'
      BY <2>9 DEF WorkerRecheck, InProgress, callVars, workVars, slotVars, queueVars
    <3> QED BY <2>9, <3>1, <3>2 DEF WorkerRecheck, callVars, workVars, slotVars, queueVars
  <2>10. CASE WorkerReactivate(w)
    <3>1. work' \in [Requests -> WorkState]
      BY <2>10 DEF WorkerReactivate, WorkState
    <3>2. InProgress'
      BY <2>10 DEF WorkerReactivate, InProgress, callVars, workVars, slotVars, queueVars
    <3> QED BY <2>10, <3>1, <3>2 DEF WorkerReactivate, callVars, workVars, slotVars, queueVars
  <2> QED BY <1>2, <2>1, <2>2, <2>3, <2>4, <2>5, <2>6, <2>7, <2>8, <2>9, <2>10 DEF WorkStep
<1>3. ASSUME NEW r \in Requests, StartStep(r) PROVE TypeInv'
  <2>1. CASE StreamStarted(r)
    <3>1. opening' \in [Requests -> OpeningState]
      BY <2>1 DEF StreamStarted, OpeningState
    <3>2. InProgress'
      BY <2>1 DEF StreamStarted, InProgress, callVars, workVars, slotVars, queueVars
    <3> QED BY <2>1, <3>1, <3>2 DEF StreamStarted, callVars, workVars, slotVars, queueVars
  <2>2. CASE StartFails(r)
    <3>1. opening' \in [Requests -> OpeningState]
      BY <2>2 DEF StartFails, OpeningState
    <3>2. slot_released' \in [Requests -> BOOLEAN]
      BY <2>2 DEF StartFails
    <3>3. InProgress'
      BY <2>2 DEF StartFails, InProgress, callVars, workVars, slotVars, queueVars
    <3> QED BY <2>2, <3>1, <3>2, <3>3 DEF StartFails, callVars, workVars, slotVars, queueVars
  <2>3. CASE StartFailsSub(r)
    <3>1. opening' \in [Requests -> OpeningState]
      BY <2>3 DEF StartFailsSub, OpeningState
    <3>2. active_count' \in 0..U32Max
      BY <2>3, FetchSubType DEF StartFailsSub
    <3>3. InProgress'
      BY <2>3 DEF StartFailsSub, InProgress, callVars, workVars, slotVars, queueVars
    <3> QED BY <2>3, <3>1, <3>2, <3>3 DEF StartFailsSub, callVars, workVars, slotVars, queueVars
  <2>4. CASE StartFailsNotify(r)
    <3>1. opening' \in [Requests -> OpeningState]
      BY <2>4 DEF StartFailsNotify, OpeningState
    <3>2. NotifyOne
      BY <2>4 DEF StartFailsNotify
    <3>3. InProgress'
      BY <2>4, <3>2, NotifyOneType DEF StartFailsNotify, InProgress, callVars
    <3> QED BY <2>4, <3>1, <3>2, <3>3, NotifyOneType DEF StartFailsNotify, callVars, queueVars
  <2> QED BY <1>3, <2>1, <2>2, <2>3, <2>4 DEF StartStep
<1>4. ASSUME NEW r \in Requests, CloseStep(r) PROVE TypeInv'
  <2>1. CASE HandleReleases(r)
    <3>1. slot_released' \in [Requests -> BOOLEAN]
      BY <2>1 DEF HandleReleases, CasGuard
    <3>2. closer' \in [Requests -> [Paths -> CloserState]]
      BY <2>1 DEF HandleReleases, CasGuard, Paths, CloserState
    <3>3. InProgress'
      BY <2>1 DEF HandleReleases, CasGuard, InProgress, callVars, workVars, slotVars, queueVars
    <3> QED BY <2>1, <3>1, <3>2, <3>3 DEF HandleReleases, CasGuard, callVars, workVars, slotVars, queueVars
  <2>2. ASSUME NEW p \in Paths, StreamEndedSub(r, p) PROVE TypeInv'
    <3>1. active_count' \in 0..U32Max
      BY <2>2, FetchSubType DEF StreamEndedSub
    <3>2. closer' \in [Requests -> [Paths -> CloserState]]
      BY <2>2 DEF StreamEndedSub, Paths, CloserState
    <3>3. InProgress'
      BY <2>2 DEF StreamEndedSub, InProgress, callVars, workVars
    <3> QED BY <2>2, <3>1, <3>2, <3>3 DEF StreamEndedSub, callVars, workVars, queueVars
  <2>3. ASSUME NEW p \in Paths, StreamEndedNotify(r, p) PROVE TypeInv'
    <3>1. closer' \in [Requests -> [Paths -> CloserState]]
      BY <2>3 DEF StreamEndedNotify, Paths, CloserState
    <3>2. NotifyOne
      BY <2>3 DEF StreamEndedNotify
    <3>3. InProgress'
      BY <2>3, <3>2, NotifyOneType DEF StreamEndedNotify, InProgress, callVars
    <3> QED BY <2>3, <3>1, <3>2, <3>3, NotifyOneType DEF StreamEndedNotify, callVars, queueVars
  <2> QED BY <1>4, <2>1, <2>2, <2>3 DEF CloseStep
<1>5. ASSUME NEW r \in Requests, CancelStep(r) PROVE TypeInv'
  <2>1. CASE CancelQueued(r)
    <3>1. call' \in [Requests -> CallState]
      BY <2>1 DEF CancelQueued, CallState
    <3>2. closer' \in [Requests -> [Paths -> CloserState]]
      BY <2>1 DEF CancelQueued, Paths, CloserState
    <3>3. InProgress'
      BY <2>1 DEF CancelQueued, InProgress, callVars, workVars, slotVars, queueVars
    <3> QED BY <2>1, <3>1, <3>2, <3>3 DEF CancelQueued, callVars, workVars, slotVars, queueVars
  <2>2. CASE CancelStarting(r)
    <3>1. call' \in [Requests -> CallState]
      BY <2>2 DEF CancelStarting, CallState
    <3>2. opening' \in [Requests -> OpeningState]
      BY <2>2 DEF CancelStarting, OpeningState
    <3>3. InProgress'
      BY <2>2 DEF CancelStarting, InProgress, callVars, workVars, slotVars, queueVars
    <3> QED BY <2>2, <3>1, <3>2, <3>3 DEF CancelStarting, callVars, workVars, slotVars, queueVars
  <2>3. CASE CancelStop(r)
    <3>1. closer' \in [Requests -> [Paths -> CloserState]]
      BY <2>3 DEF CancelStop, Paths, CloserState
    <3>2. InProgress'
      BY <2>3 DEF CancelStop, InProgress, callVars, workVars, slotVars, queueVars
    <3> QED BY <2>3, <3>1, <3>2 DEF CancelStop, callVars, workVars, slotVars, queueVars
  <2> QED BY <1>5, <2>1, <2>2, <2>3 DEF CancelStep
<1>6. ASSUME NEW r \in Requests, CloseHandle(r) PROVE TypeInv'
  <2>1. closer' \in [Requests -> [Paths -> CloserState]]
    BY <1>6 DEF CloseHandle, Paths, CloserState
  <2>2. InProgress'
    BY <1>6 DEF CloseHandle, InProgress, callVars, workVars, slotVars, queueVars
  <2> QED BY <1>6, <2>1, <2>2 DEF CloseHandle, callVars, workVars, slotVars, queueVars
<1>7. ASSUME NEW r \in Requests, OnEnd(r) PROVE TypeInv'
  <2>1. slot_released' \in [Requests -> BOOLEAN]
    BY <1>7 DEF OnEnd, CasGuard
  <2>2. closer' \in [Requests -> [Paths -> CloserState]]
    BY <1>7 DEF OnEnd, CasGuard, Paths, CloserState
  <2>3. InProgress'
    BY <1>7 DEF OnEnd, CasGuard, InProgress, callVars, workVars, slotVars, queueVars
  <2> QED BY <1>7, <2>1, <2>2, <2>3 DEF OnEnd, CasGuard, callVars, workVars, slotVars, queueVars
<1>8. ASSUME NEW max \in NewLimits, SetMaxStore(max) PROVE TypeInv'
  <2>1. InProgress'
    BY <1>8 DEF SetMaxStore, InProgress, callVars, workVars
  <2> QED BY <1>8, <2>1 DEF SetMaxStore, callVars, workVars, slotVars, queueVars
<1>9. CASE SetMaxNotify
  <2>1. work' \in [Requests -> WorkState]
    BY <1>9 DEF SetMaxNotify, WorkState
  <2>2. InProgress'
    BY <1>9 DEF SetMaxNotify, InProgress, callVars
  <2> QED BY <1>9, <2>1, <2>2 DEF SetMaxNotify, callVars, slotVars, queueVars
<1>10. CASE UNCHANGED vars
  <2>1. InProgress'
    BY <1>10 DEF vars, InProgress, callVars, workVars
  <2> QED BY <1>10, <2>1 DEF vars, callVars, workVars, slotVars, queueVars
<1> QED BY <1>1, <1>2, <1>3, <1>4, <1>5, <1>6, <1>7, <1>8, <1>9, <1>10 DEF Next

\* Every variable keeps its type, and no claim is made on a count that was not
\* seen below a limit, for every interleaving of callers and workers.
THEOREM TypeCorrect == Spec => []TypeInv
BY InitTypeInv, NextTypeInv, PTL DEF Spec

\* The variables keep their types: every counter fits in 32 bits, the queue
\* holds requests, and every caller, worker and path that closes a stream is at
\* a point the code has.
THEOREM ManagerTypeCorrect == Spec => []TypeOK
<1>1. TypeInv => TypeOK
  BY DEF TypeInv
<1> QED BY <1>1, TypeCorrect, PTL

-----------------------------------------------------------------------------
Holding == {"claim", "requeue", "start"}

\* x is in the sequence q, and no element of q is at two positions.
In(x, q) == \E i \in 1..Len(q) : q[i] = x
Distinct(q) == \A i, j \in 1..Len(q) : q[i] = q[j] => i = j

\* A queued request is in one place: at one position of the queue, or in the
\* hands of one worker.
InOnePlace ==
    /\ Distinct(queue)
    /\ \A v, w \in Requests :
         (work[v] \in Holding /\ work[w] \in Holding /\ held[v] = held[w]) => v = w
    /\ \A w \in Requests : work[w] \in Holding => ~In(held[w], queue)

\* The result of r is still to come, and nobody has a QuoteStream for it.
Unanswered(r) ==
    /\ call[r] \in {"kick", "waiting", "cancelled"}
    /\ ~result_ready[r]
    /\ closer[r]["handle"] = "idle"

\* A request is claimed at most once: it is not claimed before it is queued,
\* while it is queued, or while a worker holds it and has not claimed a slot.
ClaimedOnce ==
    /\ \A r \in Requests :
         /\ call[r] \in {"idle", "load_current", "claim", "enqueue"} =>
                ~claimed[r] /\ ~result_ready[r]
         /\ closer[r]["handle"] # "idle" => call[r] \in {"returned", "cancelled"}
    /\ \A r \in Requests : In(r, queue) => Unanswered(r) /\ ~claimed[r]
    /\ \A w \in Requests :
         /\ work[w] \in Holding => Unanswered(held[w])
         /\ work[w] \in {"claim", "requeue"} => ~claimed[held[w]]

\* How the guard, the opening and the closing paths of one slot fit together;
\* of the paths that may release a slot at most one is past the guard.
SlotState(r) ==
    /\ ~claimed[r] <=> opening[r] = "none"
    /\ opening[r] \in {"none", "requested", "abandoned"} => ~slot_released[r]
    /\ opening[r] \in {"err_sub", "err_notify", "failed"} => slot_released[r]
    /\ \A p \in Paths :
         /\ closer[r][p] # "idle" => opening[r] = "open"
         /\ closer[r][p] = "sub" => slot_released[r]
    /\ ~(closer[r]["handle"] = "sub" /\ closer[r]["on_end"] = "sub")

SlotStates == \A r \in Requests : SlotState(r)

SlotInv == InOnePlace /\ ClaimedOnce /\ SlotStates

LEMMA TailFacts ==
    ASSUME NEW q \in Seq(Requests), q # <<>>, Distinct(q)
    PROVE  /\ Distinct(Tail(q))
           /\ In(Head(q), q)
           /\ ~In(Head(q), Tail(q))
           /\ \A x : In(x, Tail(q)) => In(x, q)
<1>1. /\ Len(q) \in Nat /\ 1 \in 1..Len(q) /\ Head(q) = q[1]
      /\ Len(Tail(q)) = Len(q) - 1
      /\ \A i \in 1..Len(Tail(q)) : Tail(q)[i] = q[i + 1]
  BY HeadTailProperties, EmptySeq, LenProperties
<1>2. \A i \in 1..Len(Tail(q)) : i + 1 \in 1..Len(q) /\ i + 1 # 1
  BY <1>1
<1> QED BY <1>1, <1>2 DEF In, Distinct

LEMMA PutBackFacts ==
    ASSUME NEW r \in Requests, NEW q \in Seq(Requests), Distinct(q), ~In(r, q)
    PROVE  /\ Distinct(<<r>> \o q)
           /\ \A x : In(x, <<r>> \o q) => In(x, q) \/ x = r
<1> DEFINE s == <<r>> \o q
<1>1. /\ Len(q) \in Nat /\ Len(s) = Len(q) + 1 /\ s[1] = r
      /\ \A i \in 1..Len(s) : i # 1 => s[i] = q[i - 1]
  BY ConcatProperties, LenProperties
<1>2. \A i \in 1..Len(s) : i # 1 => i - 1 \in 1..Len(q)
  BY <1>1
<1> HIDE DEF s
<1>3. Distinct(s)
  BY <1>1, <1>2, SMTT(60) DEF In, Distinct
<1>4. \A x : In(x, s) => In(x, q) \/ x = r
  BY <1>1, <1>2 DEF In
<1> QED BY <1>3, <1>4 DEF s

LEMMA AppendFacts ==
    ASSUME NEW r \in Requests, NEW q \in Seq(Requests), Distinct(q), ~In(r, q)
    PROVE  /\ Distinct(Append(q, r))
           /\ \A x : In(x, Append(q, r)) => In(x, q) \/ x = r
<1> DEFINE s == Append(q, r)
<1>1. /\ Len(q) \in Nat /\ Len(s) = Len(q) + 1 /\ s[Len(q) + 1] = r
      /\ \A i \in 1..Len(q) : s[i] = q[i]
  BY AppendProperties, LenProperties
<1>2. \A i \in 1..Len(s) : i = Len(q) + 1 \/ i \in 1..Len(q)
  BY <1>1
<1> HIDE DEF s
<1>3. Distinct(s)
  BY <1>1, <1>2 DEF In, Distinct
<1>4. \A x : In(x, s) => In(x, q) \/ x = r
  BY <1>1, <1>2 DEF In
<1> QED BY <1>3, <1>4 DEF s

LEMMA InitSlotInv == Init => SlotInv
<1> SUFFICES ASSUME Init PROVE SlotInv
  OBVIOUS
<1>1. InOnePlace
  BY DEF Init, InOnePlace, Holding, In, Distinct
<1>2. ClaimedOnce
  BY DEF Init, ClaimedOnce, Holding, Paths, In
<1>3. SlotStates
  BY DEF Init, SlotStates, SlotState, Paths
<1> QED BY <1>1, <1>2, <1>3 DEF SlotInv

LEMMA NextSlotInv == TypeInv /\ SlotInv /\ [Next]_vars => SlotInv'
<1> SUFFICES ASSUME TypeInv, SlotInv, [Next]_vars PROVE SlotInv'
  OBVIOUS
<1> USE DEF TypeInv, TypeOK, SlotInv
<1>0. \A w \in Requests : work[w] \in Holding => held[w] \in Requests
  BY DEF Holding, InProgress
<1>1. ASSUME NEW r \in Requests, CallStep(r) PROVE SlotInv'
  <2>1. CASE LoadMax(r)
    <3>1. InOnePlace'
      BY <1>0, <2>1 DEF LoadMax, InOnePlace, Holding, callVars, workVars, slotVars, queueVars
    <3>2. ClaimedOnce'
      BY <1>0, <2>1 DEF LoadMax, ClaimedOnce, Unanswered, Holding, Paths, callVars, workVars, slotVars, queueVars
    <3>3. SlotStates'
      BY <2>1 DEF LoadMax, SlotStates, SlotState, Paths, callVars, workVars, slotVars, queueVars
    <3> QED BY <3>1, <3>2, <3>3
  <2>2. CASE LoadCurrent(r)
    <3>1. InOnePlace'
      BY <1>0, <2>2 DEF LoadCurrent, InOnePlace, Holding, callVars, workVars, slotVars, queueVars
    <3>2. ClaimedOnce'
      BY <1>0, <2>2, ZenonT(60) DEF LoadCurrent, ClaimedOnce, Unanswered, Holding, Paths, callVars, workVars, slotVars, queueVars
    <3>3. SlotStates'
      BY <2>2 DEF LoadCurrent, SlotStates, SlotState, Paths, callVars, workVars, slotVars, queueVars
    <3> QED BY <3>1, <3>2, <3>3
  <2>3. CASE TryClaim(r)
    <3>1. InOnePlace'
      BY <1>0, <2>3 DEF TryClaim, InOnePlace, Holding, callVars, workVars, slotVars, queueVars
    <3>2. ClaimedOnce'
      <4>1. UNCHANGED <<queue, work, held, result_ready, closer>> /\ call[r] = "claim"
        BY <2>3 DEF TryClaim, queueVars, workVars
      <4>2. CASE UNCHANGED claimed /\ call' = [call EXCEPT ![r] = "enqueue"]
        BY <1>0, <4>1, <4>2 DEF ClaimedOnce, Unanswered, Holding, Paths
      <4>3. CASE /\ claimed' = [claimed EXCEPT ![r] = TRUE]
                 /\ call' = [call EXCEPT ![r] = "starting"]
        BY <1>0, <4>1, <4>3, ZenonT(60) DEF ClaimedOnce, Unanswered, Holding, Paths
      <4> QED BY <2>3, <4>2, <4>3 DEF TryClaim
    <3>3. SlotStates'
      <4>1. UNCHANGED <<slot_released, closer>> /\ ~claimed[r]
        BY <2>3 DEF TryClaim, ClaimedOnce
      <4>2. CASE UNCHANGED <<claimed, opening>>
        BY <4>1, <4>2 DEF SlotStates, SlotState
      <4>3. CASE /\ claimed' = [claimed EXCEPT ![r] = TRUE]
                 /\ opening' = [opening EXCEPT ![r] = "requested"]
        BY <4>1, <4>3 DEF SlotStates, SlotState
      <4> QED BY <2>3, <4>2, <4>3 DEF TryClaim
    <3> QED BY <3>1, <3>2, <3>3
  <2>4. CASE Enqueue(r)
    <3>1. InOnePlace'
      <4>1. /\ queue' = Append(queue, r) /\ call[r] = "enqueue"
            /\ UNCHANGED <<work, held>>
        BY <2>4 DEF Enqueue, workVars
      <4>2. ~In(r, queue)
        BY <4>1 DEF ClaimedOnce, Unanswered
      <4>3. \A w \in Requests : work[w] \in Holding => held[w] # r
        BY <4>1 DEF ClaimedOnce, Unanswered
      <4> QED BY <4>1, <4>2, <4>3, AppendFacts DEF InOnePlace
    <3>2. ClaimedOnce'
      <4>1. /\ queue' = Append(queue, r) /\ call[r] = "enqueue"
            /\ call' = [call EXCEPT ![r] = "kick"]
            /\ UNCHANGED <<work, held, result_ready, claimed, closer>>
        BY <2>4 DEF Enqueue, workVars, slotVars
      <4>2. Unanswered(r)' /\ ~claimed[r]
        BY <4>1 DEF ClaimedOnce, Unanswered
      <4>3. \A x \in Requests : Unanswered(x) => Unanswered(x)'
        BY <4>1 DEF Unanswered
      <4>4. \A x : In(x, queue') => In(x, queue) \/ x = r
        BY <4>1, AppendFacts DEF ClaimedOnce, Unanswered, InOnePlace
      <4> QED BY <1>0, <4>1, <4>2, <4>3, <4>4 DEF ClaimedOnce
    <3>3. SlotStates'
      BY <2>4, AppendFacts DEF Enqueue, SlotStates, SlotState, Paths, callVars, workVars, slotVars, queueVars
    <3> QED BY <3>1, <3>2, <3>3
  <2>5. CASE KickWorker(r)
    <3>1. InOnePlace'
      BY <1>0, <2>5 DEF KickWorker, InOnePlace, Holding, callVars, workVars, slotVars, queueVars
    <3>2. ClaimedOnce'
      BY <1>0, <2>5, SMTT(60) DEF KickWorker, ClaimedOnce, Unanswered, Holding, Paths, callVars, workVars, slotVars, queueVars
    <3>3. SlotStates'
      BY <2>5 DEF KickWorker, SlotStates, SlotState, Paths, callVars, workVars, slotVars, queueVars
    <3> QED BY <3>1, <3>2, <3>3
  <2>6. CASE CallReturns(r)
    <3>1. InOnePlace'
      BY <1>0, <2>6 DEF CallReturns, InOnePlace, Holding, callVars, workVars, slotVars, queueVars
    <3>2. ClaimedOnce'
      BY <1>0, <2>6 DEF CallReturns, ClaimedOnce, Unanswered, Holding, Paths, callVars, workVars, slotVars, queueVars
    <3>3. SlotStates'
      BY <2>6 DEF CallReturns, SlotStates, SlotState, Paths, callVars, workVars, slotVars, queueVars
    <3> QED BY <3>1, <3>2, <3>3
  <2>7. CASE ReceiveResult(r)
    <3>1. InOnePlace'
      BY <1>0, <2>7 DEF ReceiveResult, InOnePlace, Holding, callVars, workVars, slotVars, queueVars
    <3>2. ClaimedOnce'
      BY <1>0, <2>7 DEF ReceiveResult, ClaimedOnce, Unanswered, Holding, Paths, callVars, workVars, slotVars, queueVars
    <3>3. SlotStates'
      BY <2>7 DEF ReceiveResult, SlotStates, SlotState, Paths, callVars, workVars, slotVars, queueVars
    <3> QED BY <3>1, <3>2, <3>3
  <2> QED BY <1>1, <2>1, <2>2, <2>3, <2>4, <2>5, <2>6, <2>7 DEF CallStep
<1>2. ASSUME NEW w \in Requests, WorkStep(w) PROVE SlotInv'
  <2>1. CASE WorkerLoadMax(w)
    <3>1. InOnePlace'
      BY <1>0, <2>1 DEF WorkerLoadMax, InOnePlace, Holding, callVars, workVars, slotVars, queueVars
    <3>2. ClaimedOnce'
      BY <1>0, <2>1 DEF WorkerLoadMax, ClaimedOnce, Unanswered, Holding, Paths, callVars, workVars, slotVars, queueVars
    <3>3. SlotStates'
      BY <2>1 DEF WorkerLoadMax, SlotStates, SlotState, Paths, callVars, workVars, slotVars, queueVars
    <3> QED BY <3>1, <3>2, <3>3
  <2>2. CASE WorkerLoadCurrent(w)
    <3>1. InOnePlace'
      BY <1>0, <2>2 DEF WorkerLoadCurrent, InOnePlace, Holding, callVars, workVars, slotVars, queueVars
    <3>2. ClaimedOnce'
      BY <1>0, <2>2 DEF WorkerLoadCurrent, ClaimedOnce, Unanswered, Holding, Paths, callVars, workVars, slotVars, queueVars
    <3>3. SlotStates'
      BY <2>2 DEF WorkerLoadCurrent, SlotStates, SlotState, Paths, callVars, workVars, slotVars, queueVars
    <3> QED BY <3>1, <3>2, <3>3
  <2>3. CASE WorkerWait(w)
    <3>1. InOnePlace'
      BY <1>0, <2>3 DEF WorkerWait, InOnePlace, Holding, callVars, workVars, slotVars, queueVars
    <3>2. ClaimedOnce'
      BY <1>0, <2>3 DEF WorkerWait, ClaimedOnce, Unanswered, Holding, Paths, callVars, workVars, slotVars, queueVars
    <3>3. SlotStates'
      BY <2>3 DEF WorkerWait, SlotStates, SlotState, Paths, callVars, workVars, slotVars, queueVars
    <3> QED BY <3>1, <3>2, <3>3
  <2>4. CASE WorkerPop(w)
    <3>1. InOnePlace'
      <4>1. CASE queue = <<>>
        <5>1. UNCHANGED <<queue, held>> /\ work' = [work EXCEPT ![w] = "mark_idle"]
          BY <2>4, <4>1 DEF WorkerPop
        <5> QED BY <5>1 DEF InOnePlace, Holding
      <4>2. CASE queue # <<>>
        <5>1. /\ held' = [held EXCEPT ![w] = Head(queue)]
              /\ queue' = Tail(queue)
              /\ work' = [work EXCEPT ![w] = "claim"]
          BY <2>4, <4>2 DEF WorkerPop
        <5>2. /\ Distinct(queue')
              /\ In(Head(queue), queue) /\ ~In(Head(queue), queue')
              /\ \A x : In(x, queue') => In(x, queue)
          BY <4>2, <5>1, TailFacts DEF InOnePlace
        <5>3. \A v \in Requests : v # w => work'[v] = work[v] /\ held'[v] = held[v]
          BY <5>1
        <5>4. held'[w] = Head(queue)
          BY <5>1
        <5>5. \A v \in Requests : v # w /\ work'[v] \in Holding =>
                held'[v] # Head(queue) /\ ~In(held'[v], queue')
          BY <5>2, <5>3 DEF InOnePlace
        <5>6. \A v \in Requests : work'[v] \in Holding => ~In(held'[v], queue')
          BY <5>2, <5>4, <5>5
        <5>7. \A u, v \in Requests :
                (work'[u] \in Holding /\ work'[v] \in Holding /\ held'[u] = held'[v]) => u = v
          BY <5>3, <5>4, <5>5 DEF InOnePlace
        <5> QED BY <5>2, <5>6, <5>7 DEF InOnePlace
      <4> QED BY <4>1, <4>2
    <3>2. ClaimedOnce'
      <4>1. UNCHANGED <<call, result_ready, claimed, closer>>
        BY <2>4 DEF WorkerPop, callVars, slotVars
      <4>2. \A x : Unanswered(x) => Unanswered(x)'
        BY <4>1 DEF Unanswered
      <4>3. CASE queue = <<>>
        <5>1. UNCHANGED <<queue, held>> /\ work' = [work EXCEPT ![w] = "mark_idle"]
          BY <2>4, <4>3 DEF WorkerPop
        <5> QED BY <4>1, <4>2, <5>1 DEF ClaimedOnce, Holding
      <4>4. CASE queue # <<>>
        <5>1. /\ held' = [held EXCEPT ![w] = Head(queue)]
              /\ queue' = Tail(queue)
              /\ work' = [work EXCEPT ![w] = "claim"]
          BY <2>4, <4>4 DEF WorkerPop
        <5>2. /\ In(Head(queue), queue) /\ Head(queue) \in Requests
              /\ \A x : In(x, queue') => In(x, queue)
          BY <4>4, <5>1, TailFacts, PopType DEF InOnePlace
        <5>3. \A v \in Requests : v # w => work'[v] = work[v] /\ held'[v] = held[v]
          BY <5>1
        <5>4. held'[w] = Head(queue)
          BY <5>1
        <5> QED BY <4>1, <4>2, <5>2, <5>3, <5>4, ZenonT(60) DEF ClaimedOnce
      <4> QED BY <4>3, <4>4
    <3>3. SlotStates'
      BY <2>4, TailFacts DEF WorkerPop, SlotStates, SlotState, Paths, callVars, workVars, slotVars, queueVars
    <3> QED BY <3>1, <3>2, <3>3
  <2>5. CASE WorkerClaim(w)
    <3>1. InOnePlace'
      <4>1. UNCHANGED <<queue, held>> /\ work[w] = "claim"
        BY <2>5 DEF WorkerClaim
      <4>2. \A v \in Requests : work'[v] \in Holding => work[v] \in Holding
        BY <2>5 DEF WorkerClaim, Holding
      <4> QED BY <4>1, <4>2 DEF InOnePlace
    <3>2. ClaimedOnce'
      <4>1. /\ UNCHANGED <<call, queue, held, result_ready, closer>>
            /\ work[w] = "claim" /\ held[w] \in Requests
            /\ \A v \in Requests : v # w => work'[v] = work[v]
        BY <1>0, <2>5 DEF WorkerClaim, Holding, callVars
      <4>2. CASE UNCHANGED claimed /\ work' = [work EXCEPT ![w] = "requeue"]
        BY <4>1, <4>2, SMTT(60) DEF ClaimedOnce, Unanswered, Holding
      <4>3. CASE /\ claimed' = [claimed EXCEPT ![held[w]] = TRUE]
                 /\ work' = [work EXCEPT ![w] = "start"]
        <5>1. \A x \in Requests : x # held[w] => claimed'[x] = claimed[x]
          BY <4>1, <4>3
        <5>2. ~In(held[w], queue)
          BY <4>1 DEF InOnePlace, Holding
        <5>3. \A v \in Requests : v # w /\ work[v] \in Holding => held[v] # held[w]
          BY <4>1 DEF InOnePlace, Holding
        <5>4. Unanswered(held[w])
          BY <4>1 DEF ClaimedOnce, Holding
        <5>5. /\ \A x \in Requests : In(x, queue') => Unanswered(x)' /\ ~claimed'[x]
              /\ \A x \in Requests :
                   /\ call'[x] \in {"idle", "load_current", "claim", "enqueue"} =>
                         ~claimed'[x] /\ ~result_ready'[x]
                   /\ closer'[x]["handle"] # "idle" =>
                         call'[x] \in {"returned", "cancelled"}
          BY <4>1, <5>1, <5>2, <5>4 DEF ClaimedOnce, Unanswered
        <5>6. \A v \in Requests :
                /\ work'[v] \in Holding => Unanswered(held[v])'
                /\ work'[v] \in {"claim", "requeue"} => ~claimed'[held'[v]]
          BY <1>0, <4>1, <4>3, <5>1, <5>3, <5>4, SMTT(60) DEF ClaimedOnce, Unanswered, Holding
        <5> QED BY <5>5, <5>6 DEF ClaimedOnce
      <4> QED BY <2>5, <4>2, <4>3 DEF WorkerClaim
    <3>3. SlotStates'
      <4>1. /\ UNCHANGED <<slot_released, closer>>
            /\ held[w] \in Requests /\ ~claimed[held[w]]
        BY <1>0, <2>5 DEF WorkerClaim, Holding, ClaimedOnce
      <4>2. CASE UNCHANGED <<claimed, opening>>
        BY <4>1, <4>2 DEF SlotStates, SlotState
      <4>3. CASE /\ claimed' = [claimed EXCEPT ![held[w]] = TRUE]
                 /\ opening' = [opening EXCEPT ![held[w]] = "requested"]
        BY <4>1, <4>3, SMTT(60) DEF SlotStates, SlotState
      <4> QED BY <2>5, <4>2, <4>3 DEF WorkerClaim
    <3> QED BY <3>1, <3>2, <3>3
  <2>6. CASE WorkerRequeue(w)
    <3>1. InOnePlace'
      <4>1. /\ queue' = <<held[w]>> \o queue
            /\ held[w] \in Requests
            /\ \A v \in Requests : v # w => work'[v] = work[v] /\ held'[v] = held[v]
            /\ work[w] \in Holding /\ work'[w] \notin Holding
        BY <1>0, <2>6 DEF WorkerRequeue, Holding
      <4>2. /\ Distinct(queue')
            /\ \A x : In(x, queue') => In(x, queue) \/ x = held[w]
        BY <4>1, PutBackFacts DEF InOnePlace
      <4> QED BY <4>1, <4>2, ZenonT(60) DEF InOnePlace
    <3>2. ClaimedOnce'
      <4>1. /\ queue' = <<held[w]>> \o queue
            /\ held[w] \in Requests
            /\ \A v \in Requests : v # w => work'[v] = work[v] /\ held'[v] = held[v]
            /\ work[w] = "requeue" /\ work'[w] = "load_max"
            /\ UNCHANGED <<call, result_ready, claimed, closer>>
        BY <1>0, <2>6 DEF WorkerRequeue, Holding, callVars, slotVars
      <4>2. \A x : In(x, queue') => In(x, queue) \/ x = held[w]
        BY <4>1, PutBackFacts DEF InOnePlace, Holding
      <4>3. Unanswered(held[w]) /\ ~claimed[held[w]]
        BY <4>1 DEF ClaimedOnce, Holding
      <4>4. \A x : Unanswered(x) => Unanswered(x)'
        BY <4>1 DEF Unanswered
      <4> QED BY <1>0, <4>1, <4>2, <4>3, <4>4 DEF ClaimedOnce, Holding
    <3>3. SlotStates'
      BY <2>6, PutBackFacts DEF WorkerRequeue, InProgress, SlotStates, SlotState, Paths, callVars, workVars, slotVars, queueVars
    <3> QED BY <3>1, <3>2, <3>3
  <2>7. CASE WorkerReply(w)
    <3>1. InOnePlace'
      BY <1>0, <2>7 DEF WorkerReply, InProgress, InOnePlace, Holding, callVars, workVars, slotVars, queueVars
    <3>2. ClaimedOnce'
      <4>1. /\ work[w] = "start" /\ held[w] \in Requests
            /\ UNCHANGED <<queue, call, claimed>>
            /\ \A v \in Requests : v # w => work'[v] = work[v] /\ held'[v] = held[v]
            /\ work'[w] \notin Holding
        BY <1>0, <2>7 DEF WorkerReply, Holding, queueVars
      <4>2. /\ Unanswered(held[w])
            /\ ~In(held[w], queue)
            /\ \A v \in Requests : v # w /\ work[v] \in Holding => held[v] # held[w]
        BY <4>1 DEF ClaimedOnce, InOnePlace, Holding
      <4>3. claimed[held[w]]
        BY <2>7, <4>1 DEF WorkerReply, SlotStates, SlotState
      <4>4. \A x \in Requests : x # held[w] =>
              result_ready'[x] = result_ready[x] /\ closer'[x] = closer[x]
        BY <2>7, <4>1, SMTT(60) DEF WorkerReply
      <4>5. closer'[held[w]]["handle"] # "idle" => call[held[w]] = "cancelled"
        BY <2>7, <4>1, <4>2 DEF WorkerReply, Unanswered
      <4>6. \A x \in Requests : x # held[w] /\ Unanswered(x) => Unanswered(x)'
        BY <4>1, <4>4 DEF Unanswered
      <4>7. \A x \in Requests : In(x, queue') => Unanswered(x)' /\ ~claimed'[x]
        BY <4>1, <4>2, <4>6 DEF ClaimedOnce, Unanswered
      <4>8. \A v \in Requests :
              /\ work'[v] \in Holding => Unanswered(held[v])'
              /\ work'[v] \in {"claim", "requeue"} => ~claimed'[held'[v]]
        <5> SUFFICES ASSUME NEW v \in Requests, work'[v] \in Holding
                     PROVE  /\ Unanswered(held[v])'
                            /\ work'[v] \in {"claim", "requeue"} => ~claimed'[held'[v]]
          BY DEF Holding
        <5>1. v # w
          BY <4>1
        <5>2. /\ work'[v] = work[v] /\ held'[v] = held[v]
              /\ held[v] \in Requests /\ held[v] # held[w]
              /\ Unanswered(held[v])
              /\ work[v] \in {"claim", "requeue"} => ~claimed[held[v]]
          BY <1>0, <4>1, <4>2, <5>1 DEF ClaimedOnce, Holding
        <5>3. Unanswered(held[v])'
          BY <4>6, <5>2 DEF Unanswered
        <5> QED BY <4>1, <5>2, <5>3
      <4>9. \A x \in Requests :
              /\ call'[x] \in {"idle", "load_current", "claim", "enqueue"} =>
                    ~claimed'[x] /\ ~result_ready'[x]
              /\ closer'[x]["handle"] # "idle" =>
                    call'[x] \in {"returned", "cancelled"}
        BY <4>1, <4>2, <4>4, <4>5, ZenonT(60) DEF ClaimedOnce, Unanswered
      <4> QED BY <4>7, <4>8, <4>9 DEF ClaimedOnce
    <3>3. SlotStates'
      <4>1. /\ work[w] = "start" /\ held[w] \in Requests
            /\ UNCHANGED <<queue, call, claimed>>
            /\ \A v \in Requests : v # w => work'[v] = work[v] /\ held'[v] = held[v]
            /\ work'[w] \notin Holding
        BY <1>0, <2>7 DEF WorkerReply, Holding, queueVars
      <4>2. UNCHANGED <<opening, slot_released, claimed>>
        BY <2>7 DEF WorkerReply
      <4>3. CASE UNCHANGED closer
        BY <4>2, <4>3 DEF SlotStates, SlotState
      <4>4. CASE /\ closer' = [closer EXCEPT ![held[w]]["handle"] = "dropping"]
                 /\ opening[held[w]] = "open"
        BY <4>1, <4>2, <4>4, SMTT(60) DEF SlotStates, SlotState, Paths
      <4> QED BY <2>7, <4>3, <4>4 DEF WorkerReply
    <3> QED BY <3>1, <3>2, <3>3
  <2>8. CASE WorkerMarkIdle(w)
    <3>1. InOnePlace'
      BY <1>0, <2>8 DEF WorkerMarkIdle, InOnePlace, Holding, callVars, workVars, slotVars, queueVars
    <3>2. ClaimedOnce'
      BY <1>0, <2>8 DEF WorkerMarkIdle, ClaimedOnce, Unanswered, Holding, Paths, callVars, workVars, slotVars, queueVars
    <3>3. SlotStates'
      BY <2>8 DEF WorkerMarkIdle, SlotStates, SlotState, Paths, callVars, workVars, slotVars, queueVars
    <3> QED BY <3>1, <3>2, <3>3
  <2>9. CASE WorkerRecheck(w)
    <3>1. InOnePlace'
      BY <1>0, <2>9 DEF WorkerRecheck, InOnePlace, Holding, callVars, workVars, slotVars, queueVars
    <3>2. ClaimedOnce'
      BY <1>0, <2>9 DEF WorkerRecheck, ClaimedOnce, Unanswered, Holding, Paths, callVars, workVars, slotVars, queueVars
    <3>3. SlotStates'
      BY <2>9 DEF WorkerRecheck, SlotStates, SlotState, Paths, callVars, workVars, slotVars, queueVars
    <3> QED BY <3>1, <3>2, <3>3
  <2>10. CASE WorkerReactivate(w)
    <3>1. InOnePlace'
      BY <1>0, <2>10 DEF WorkerReactivate, InOnePlace, Holding, callVars, workVars, slotVars, queueVars
    <3>2. ClaimedOnce'
      BY <1>0, <2>10 DEF WorkerReactivate, ClaimedOnce, Unanswered, Holding, Paths, callVars, workVars, slotVars, queueVars
    <3>3. SlotStates'
      BY <2>10 DEF WorkerReactivate, SlotStates, SlotState, Paths, callVars, workVars, slotVars, queueVars
    <3> QED BY <3>1, <3>2, <3>3
  <2> QED BY <1>2, <2>1, <2>2, <2>3, <2>4, <2>5, <2>6, <2>7, <2>8, <2>9, <2>10 DEF WorkStep
<1>3. ASSUME NEW r \in Requests, StartStep(r) PROVE SlotInv'
  <2>1. CASE StreamStarted(r)
    <3>1. InOnePlace'
      BY <1>0, <2>1 DEF StreamStarted, InOnePlace, Holding, callVars, workVars, slotVars, queueVars
    <3>2. ClaimedOnce'
      BY <1>0, <2>1 DEF StreamStarted, ClaimedOnce, Unanswered, Holding, Paths, callVars, workVars, slotVars, queueVars
    <3>3. SlotStates'
      BY <2>1 DEF StreamStarted, SlotStates, SlotState, Paths, callVars, workVars, slotVars, queueVars
    <3> QED BY <3>1, <3>2, <3>3
  <2>2. CASE StartFails(r)
    <3>1. InOnePlace'
      BY <1>0, <2>2 DEF StartFails, InOnePlace, Holding, callVars, workVars, slotVars, queueVars
    <3>2. ClaimedOnce'
      BY <1>0, <2>2 DEF StartFails, ClaimedOnce, Unanswered, Holding, Paths, callVars, workVars, slotVars, queueVars
    <3>3. SlotStates'
      BY <2>2 DEF StartFails, SlotStates, SlotState, Paths, callVars, workVars, slotVars, queueVars
    <3> QED BY <3>1, <3>2, <3>3
  <2>3. CASE StartFailsSub(r)
    <3>1. InOnePlace'
      BY <1>0, <2>3 DEF StartFailsSub, InOnePlace, Holding, callVars, workVars, slotVars, queueVars
    <3>2. ClaimedOnce'
      BY <1>0, <2>3 DEF StartFailsSub, ClaimedOnce, Unanswered, Holding, Paths, callVars, workVars, slotVars, queueVars
    <3>3. SlotStates'
      BY <2>3 DEF StartFailsSub, SlotStates, SlotState, Paths, callVars, workVars, slotVars, queueVars
    <3> QED BY <3>1, <3>2, <3>3
  <2>4. CASE StartFailsNotify(r)
    <3>1. InOnePlace'
      BY <1>0, <2>4, NotifyOneType DEF StartFailsNotify, InOnePlace, Holding, callVars, workVars, slotVars, queueVars
    <3>2. ClaimedOnce'
      BY <1>0, <2>4, NotifyOneType, ZenonT(60) DEF StartFailsNotify, ClaimedOnce, Unanswered, Holding, Paths, callVars, workVars, slotVars, queueVars
    <3>3. SlotStates'
      BY <2>4, NotifyOneType DEF StartFailsNotify, SlotStates, SlotState, Paths, callVars, workVars, slotVars, queueVars
    <3> QED BY <3>1, <3>2, <3>3
  <2> QED BY <1>3, <2>1, <2>2, <2>3, <2>4 DEF StartStep
<1>4. ASSUME NEW r \in Requests, CloseStep(r) PROVE SlotInv'
  <2>1. CASE HandleReleases(r)
    <3>1. InOnePlace'
      BY <1>0, <2>1 DEF HandleReleases, CasGuard, InOnePlace, Holding, callVars, workVars, slotVars, queueVars
    <3>2. ClaimedOnce'
      BY <1>0, <2>1 DEF HandleReleases, CasGuard, ClaimedOnce, Unanswered, Holding, Paths, callVars, workVars, slotVars, queueVars
    <3>3. SlotStates'
      BY <2>1, SMTT(60) DEF HandleReleases, CasGuard, SlotStates, SlotState, Paths, callVars, workVars, slotVars, queueVars
    <3> QED BY <3>1, <3>2, <3>3
  <2>2. ASSUME NEW p \in Paths, StreamEndedSub(r, p) PROVE SlotInv'
    <3>1. InOnePlace'
      BY <1>0, <2>2 DEF StreamEndedSub, InOnePlace, Holding, callVars, workVars, slotVars, queueVars
    <3>2. ClaimedOnce'
      <4>1. \A x \in Requests :
              closer'[x]["handle"] = "idle" <=> closer[x]["handle"] = "idle"
        BY <2>2 DEF StreamEndedSub, Paths
      <4>2. /\ UNCHANGED <<call, result_ready, queue, held, claimed>>
            /\ \A v \in Requests : work'[v] \in Holding => work'[v] = work[v]
        BY <2>2 DEF StreamEndedSub, callVars, queueVars, workVars, Holding
      <4> QED BY <1>0, <4>1, <4>2, ZenonT(60) DEF ClaimedOnce, Unanswered, Holding
    <3>3. SlotStates'
      BY <2>2 DEF StreamEndedSub, SlotStates, SlotState, Paths, callVars, workVars, slotVars, queueVars
    <3> QED BY <3>1, <3>2, <3>3
  <2>3. ASSUME NEW p \in Paths, StreamEndedNotify(r, p) PROVE SlotInv'
    <3>1. InOnePlace'
      BY <1>0, <2>3, NotifyOneType DEF StreamEndedNotify, InOnePlace, Holding, callVars, workVars, slotVars, queueVars
    <3>2. ClaimedOnce'
      <4>1. \A x \in Requests :
              closer'[x]["handle"] = "idle" <=> closer[x]["handle"] = "idle"
        BY <2>3 DEF StreamEndedNotify, Paths
      <4>2. /\ UNCHANGED <<call, result_ready, queue, held, claimed>>
            /\ \A v \in Requests : work'[v] \in Holding => work'[v] = work[v]
        BY <2>3, NotifyOneType DEF StreamEndedNotify, callVars, queueVars, workVars, Holding
      <4> QED BY <1>0, <4>1, <4>2 DEF ClaimedOnce, Unanswered, Holding
    <3>3. SlotStates'
      BY <2>3, NotifyOneType, SMTT(60) DEF StreamEndedNotify, SlotStates, SlotState, Paths, callVars, workVars, slotVars, queueVars
    <3> QED BY <3>1, <3>2, <3>3
  <2> QED BY <1>4, <2>1, <2>2, <2>3 DEF CloseStep
<1>5. ASSUME NEW r \in Requests, CancelStep(r) PROVE SlotInv'
  <2>1. CASE CancelQueued(r)
    <3>1. InOnePlace'
      BY <1>0, <2>1 DEF CancelQueued, InOnePlace, Holding, callVars, workVars, slotVars, queueVars
    <3>2. ClaimedOnce'
      BY <1>0, <2>1, ZenonT(60) DEF CancelQueued, ClaimedOnce, Unanswered, Holding, Paths, callVars, workVars, slotVars, queueVars
    <3>3. SlotStates'
      BY <2>1 DEF CancelQueued, SlotStates, SlotState, Paths, callVars, workVars, slotVars, queueVars
    <3> QED BY <3>1, <3>2, <3>3
  <2>2. CASE CancelStarting(r)
    <3>1. InOnePlace'
      BY <1>0, <2>2 DEF CancelStarting, InOnePlace, Holding, callVars, workVars, slotVars, queueVars
    <3>2. ClaimedOnce'
      BY <1>0, <2>2 DEF CancelStarting, ClaimedOnce, Unanswered, Holding, Paths, callVars, workVars, slotVars, queueVars
    <3>3. SlotStates'
      BY <2>2 DEF CancelStarting, SlotStates, SlotState, Paths, callVars, workVars, slotVars, queueVars
    <3> QED BY <3>1, <3>2, <3>3
  <2>3. CASE CancelStop(r)
    <3>1. InOnePlace'
      BY <1>0, <2>3 DEF CancelStop, InOnePlace, Holding, callVars, workVars, slotVars, queueVars
    <3>2. ClaimedOnce'
      BY <1>0, <2>3 DEF CancelStop, ClaimedOnce, Unanswered, Holding, Paths, callVars, workVars, slotVars, queueVars
    <3>3. SlotStates'
      BY <2>3 DEF CancelStop, SlotStates, SlotState, Paths, callVars, workVars, slotVars, queueVars
    <3> QED BY <3>1, <3>2, <3>3
  <2> QED BY <1>5, <2>1, <2>2, <2>3 DEF CancelStep
<1>6. ASSUME NEW r \in Requests, CloseHandle(r) PROVE SlotInv'
  <2>1. InOnePlace'
    BY <1>0, <1>6 DEF CloseHandle, InOnePlace, Holding, callVars, workVars, slotVars, queueVars
  <2>2. ClaimedOnce'
    <3>1. /\ call[r] = "returned"
          /\ \A x \in Requests : x # r => closer'[x] = closer[x]
      BY <1>6 DEF CloseHandle
    <3>2. UNCHANGED <<call, result_ready, queue, work, held, claimed>>
      BY <1>6 DEF CloseHandle, callVars, queueVars, workVars
    <3>3. \A x : Unanswered(x) => x # r
      BY <3>1 DEF Unanswered
    <3> QED BY <1>0, <3>1, <3>2, <3>3, ZenonT(60) DEF ClaimedOnce, Unanswered, Holding
  <2>3. SlotStates'
    BY <1>6 DEF CloseHandle, SlotStates, SlotState, Paths, callVars, workVars, slotVars, queueVars
  <2> QED BY <2>1, <2>2, <2>3
<1>7. ASSUME NEW r \in Requests, OnEnd(r) PROVE SlotInv'
  <2>1. InOnePlace'
    BY <1>0, <1>7 DEF OnEnd, CasGuard, InOnePlace, Holding, callVars, workVars, slotVars, queueVars
  <2>2. ClaimedOnce'
    BY <1>0, <1>7 DEF OnEnd, CasGuard, ClaimedOnce, Unanswered, Holding, Paths, callVars, workVars, slotVars, queueVars
  <2>3. SlotStates'
    BY <1>7 DEF OnEnd, CasGuard, SlotStates, SlotState, Paths, callVars, workVars, slotVars, queueVars
  <2> QED BY <2>1, <2>2, <2>3
<1>8. ASSUME NEW max \in NewLimits, SetMaxStore(max) PROVE SlotInv'
  <2>1. InOnePlace'
    BY <1>0, <1>8 DEF SetMaxStore, InOnePlace, Holding, callVars, workVars, slotVars, queueVars
  <2>2. ClaimedOnce'
    BY <1>0, <1>8 DEF SetMaxStore, ClaimedOnce, Unanswered, Holding, Paths, callVars, workVars, slotVars, queueVars
  <2>3. SlotStates'
    BY <1>8 DEF SetMaxStore, SlotStates, SlotState, Paths, callVars, workVars, slotVars, queueVars
  <2> QED BY <2>1, <2>2, <2>3
<1>9. CASE SetMaxNotify
  <2>1. InOnePlace'
    BY <1>0, <1>9 DEF SetMaxNotify, InOnePlace, Holding, callVars, workVars, slotVars, queueVars
  <2>2. ClaimedOnce'
    BY <1>0, <1>9 DEF SetMaxNotify, ClaimedOnce, Unanswered, Holding, Paths, callVars, workVars, slotVars, queueVars
  <2>3. SlotStates'
    BY <1>9 DEF SetMaxNotify, SlotStates, SlotState, Paths, callVars, workVars, slotVars, queueVars
  <2> QED BY <2>1, <2>2, <2>3
<1>10. CASE UNCHANGED vars
  <2>1. InOnePlace'
    BY <1>0, <1>10 DEF vars, InOnePlace, Holding, callVars, workVars, slotVars, queueVars
  <2>2. ClaimedOnce'
    BY <1>0, <1>10 DEF vars, ClaimedOnce, Unanswered, Holding, Paths, callVars, workVars, slotVars, queueVars
  <2>3. SlotStates'
    BY <1>10 DEF vars, SlotStates, SlotState, Paths, callVars, workVars, slotVars, queueVars
  <2> QED BY <2>1, <2>2, <2>3
<1> QED BY <1>1, <1>2, <1>3, <1>4, <1>5, <1>6, <1>7, <1>8, <1>9, <1>10 DEF Next

\* A queued request is in the queue or in one worker's hands, it is claimed at
\* most once, and of stop, Drop, on_end and the error paths at most one is past
\* the guard of a slot.
THEOREM SlotsCorrect == Spec => []SlotInv
BY InitSlotInv, NextSlotInv, TypeCorrect, PTL DEF Spec

-----------------------------------------------------------------------------
(* What a step does to the occupied slots, the claims and active_count. *)

Neutral == UNCHANGED <<active_count, claimed>> /\ Occupied' = Occupied

Claims ==
    \E r \in Requests \ Occupied :
        /\ ~claimed[r]
        /\ claimed' = [claimed EXCEPT ![r] = TRUE]
        /\ Occupied' = Occupied \cup {r}
        /\ active_count' = active_count + 1
        /\ \E limit \in Limits : active_count < limit

Releases ==
    \E r \in Occupied : /\ UNCHANGED claimed
                        /\ Occupied' = Occupied \ {r}
                        /\ active_count' = FetchSub(active_count)

LEMMA NeutralStep ==
    ASSUME UNCHANGED <<active_count, claimed>>,
           \A r \in Requests : HoldsSlot(r)' <=> HoldsSlot(r)
    PROVE  Neutral
BY DEF Neutral, Occupied

LEMMA ClaimingStep ==
    ASSUME NEW r \in Requests, ~HoldsSlot(r), HoldsSlot(r)',
           ~claimed[r], claimed' = [claimed EXCEPT ![r] = TRUE],
           \A x \in Requests : x # r => (HoldsSlot(x)' <=> HoldsSlot(x)),
           active_count' = active_count + 1,
           \E limit \in Limits : active_count < limit
    PROVE  Claims
<1>1. r \notin Occupied /\ Occupied' = Occupied \cup {r}
  BY DEF Occupied
<1> QED BY <1>1 DEF Claims

LEMMA ReleasingStep ==
    ASSUME NEW r \in Requests, HoldsSlot(r), ~HoldsSlot(r)',
           UNCHANGED claimed,
           \A x \in Requests : x # r => (HoldsSlot(x)' <=> HoldsSlot(x)),
           active_count' = FetchSub(active_count)
    PROVE  Releases
<1>1. r \in Occupied /\ Occupied' = Occupied \ {r}
  BY DEF Occupied
<1> QED BY <1>1 DEF Releases

LEMMA UntouchedSlots ==
    ASSUME UNCHANGED <<slotVars, active_count>>
    PROVE  Neutral
BY NeutralStep DEF slotVars, HoldsSlot

\* Giving a slot back through the guard changes nothing yet: the path that
\* wins goes on to subtract.
LEMMA GuardKeepsSlots ==
    ASSUME TypeOK, SlotStates, NEW r \in Requests, NEW p \in Paths,
           closer[r][p] # "sub", CasGuard(r, p), opening[r] = "open"
    PROVE  Neutral
<1>1. UNCHANGED <<claimed, opening, active_count>>
  BY DEF CasGuard
<1>2. \A x \in Requests : x # r => UNCHANGED <<slot_released[x], closer[x]>>
  BY DEF CasGuard, TypeOK
<1>3. /\ slot_released'[r] = TRUE
      /\ closer'[r][p] = IF slot_released[r] THEN "done" ELSE "sub"
      /\ \A q \in Paths : q # p => closer'[r][q] = closer[r][q]
  BY DEF CasGuard, TypeOK
<1>4. HoldsSlot(r)' <=> HoldsSlot(r)
  BY <1>1, <1>3 DEF HoldsSlot
<1>5. \A x \in Requests : HoldsSlot(x)' <=> HoldsSlot(x)
  BY <1>1, <1>2, <1>4 DEF HoldsSlot
<1> QED BY <1>1, <1>5, NeutralStep

LEMMA OccupiedStep ==
    ASSUME TypeInv, SlotInv, [Next]_vars
    PROVE  Neutral \/ Claims \/ Releases
<1> USE DEF TypeInv, TypeOK, SlotInv
<1>1. ASSUME NEW r \in Requests, CallStep(r) PROVE Neutral \/ Claims
  <2>1. CASE TryClaim(r)
    <3>1. CASE active_count # seen_current[r]
      BY <2>1, <3>1, UntouchedSlots DEF TryClaim, slotVars
    <3>2. CASE active_count = seen_current[r]
      <4>1. /\ call[r] = "claim"
            /\ active_count' = active_count + 1
            /\ claimed' = [claimed EXCEPT ![r] = TRUE]
            /\ opening' = [opening EXCEPT ![r] = "requested"]
            /\ UNCHANGED <<slot_released, closer>>
        BY <2>1, <3>2 DEF TryClaim
      <4>2. ~claimed[r]
        BY <4>1 DEF ClaimedOnce
      <4>3. ~slot_released'[r] /\ claimed'[r]
        BY <4>1, <4>2 DEF SlotStates, SlotState
      <4>4. ~HoldsSlot(r) /\ HoldsSlot(r)'
        BY <4>2, <4>3 DEF HoldsSlot
      <4>5. \A x \in Requests : x # r => (HoldsSlot(x)' <=> HoldsSlot(x))
        BY <4>1 DEF HoldsSlot
      <4>6. \E limit \in Limits : active_count < limit
        BY <3>2, <4>1 DEF InProgress
      <4> QED BY <4>1, <4>2, <4>4, <4>5, <4>6, ClaimingStep
    <3> QED BY <3>1, <3>2
  <2>2. CASE ~TryClaim(r)
    BY <1>1, <2>2, UntouchedSlots DEF CallStep, LoadMax, LoadCurrent, Enqueue,
       KickWorker, CallReturns, ReceiveResult
  <2> QED BY <2>1, <2>2
<1>2. ASSUME NEW w \in Requests, WorkStep(w) PROVE Neutral \/ Claims
  <2>1. CASE WorkerClaim(w)
    <3>1. CASE active_count # worker_current[w]
      BY <2>1, <3>1, UntouchedSlots DEF WorkerClaim, slotVars
    <3>2. CASE active_count = worker_current[w]
      <4>1. /\ work[w] = "claim" /\ held[w] \in Requests
            /\ active_count' = active_count + 1
            /\ claimed' = [claimed EXCEPT ![held[w]] = TRUE]
            /\ opening' = [opening EXCEPT ![held[w]] = "requested"]
            /\ UNCHANGED <<slot_released, closer>>
        BY <2>1, <3>2 DEF WorkerClaim, InProgress
      <4>2. ~claimed[held[w]]
        BY <4>1 DEF ClaimedOnce
      <4>3. ~slot_released'[held[w]] /\ claimed'[held[w]]
        BY <4>1, <4>2 DEF SlotStates, SlotState
      <4> DEFINE r == held[w]
      <4>4. ~HoldsSlot(r) /\ claimed'[r] /\ ~slot_released'[r]
        BY <4>2, <4>3 DEF HoldsSlot
      <4>5. \A x \in Requests : x # r => (HoldsSlot(x)' <=> HoldsSlot(x))
        BY <4>1 DEF HoldsSlot
      <4>6. \E limit \in Limits : active_count < limit
        BY <3>2, <4>1 DEF InProgress
      <4>7. PICK x \in Requests : x = r
        BY <4>1
      <4>8. /\ ~claimed[x] /\ claimed' = [claimed EXCEPT ![x] = TRUE]
            /\ ~HoldsSlot(x) /\ HoldsSlot(x)'
            /\ \A y \in Requests : y # x => (HoldsSlot(y)' <=> HoldsSlot(y))
        BY <4>1, <4>2, <4>4, <4>5, <4>7 DEF HoldsSlot
      <4> QED BY <4>1, <4>6, <4>8, ClaimingStep
    <3> QED BY <3>1, <3>2
  <2>2. CASE WorkerReply(w)
    <3>1. /\ held[w] \in Requests /\ closer[held[w]]["handle"] = "idle"
      BY <2>2 DEF WorkerReply, InProgress, ClaimedOnce, Unanswered, Holding
    <3>2. UNCHANGED <<claimed, slot_released, opening, active_count>>
      BY <2>2 DEF WorkerReply
    <3>3. CASE UNCHANGED closer
      BY <3>2, <3>3, UntouchedSlots DEF slotVars
    <3>4. CASE closer' = [closer EXCEPT ![held[w]]["handle"] = "dropping"]
      <4>1. \A x \in Requests, p \in Paths :
              closer'[x][p] = "sub" <=> closer[x][p] = "sub"
        BY <3>1, <3>4 DEF Paths
      <4> QED BY <3>2, <4>1, NeutralStep DEF HoldsSlot
    <3> QED BY <2>2, <3>3, <3>4 DEF WorkerReply
  <2>3. CASE ~WorkerClaim(w) /\ ~WorkerReply(w)
    BY <1>2, <2>3, UntouchedSlots DEF WorkStep, WorkerLoadMax, WorkerLoadCurrent,
       WorkerWait, WorkerPop, WorkerRequeue, WorkerMarkIdle, WorkerRecheck,
       WorkerReactivate
  <2> QED BY <2>1, <2>2, <2>3
<1>3. ASSUME NEW r \in Requests, StartStep(r) PROVE Neutral \/ Releases
  <2>1. CASE StartFailsSub(r)
    <3>1. /\ opening[r] = "err_sub" /\ claimed[r] /\ slot_released[r]
          /\ \A p \in Paths : closer[r][p] # "sub"
      BY <2>1 DEF StartFailsSub, SlotStates, SlotState
    <3>2. /\ opening' = [opening EXCEPT ![r] = "err_notify"]
          /\ active_count' = FetchSub(active_count)
          /\ UNCHANGED <<claimed, slot_released, closer>>
      BY <2>1 DEF StartFailsSub
    <3>3. HoldsSlot(r) /\ ~HoldsSlot(r)'
      BY <3>1, <3>2 DEF HoldsSlot
    <3>4. \A x \in Requests : x # r => (HoldsSlot(x)' <=> HoldsSlot(x))
      BY <3>2 DEF HoldsSlot
    <3> QED BY <3>2, <3>3, <3>4, ReleasingStep
  <2>2. CASE ~StartFailsSub(r)
    <3>1. UNCHANGED <<claimed, closer, active_count>>
      BY <1>3, <2>2 DEF StartStep, StreamStarted, StartFails, StartFailsNotify
    <3>2. /\ opening[r] # "err_sub"
          /\ opening[r] = "requested" => ~slot_released[r]
          /\ \A x \in Requests : x # r =>
               UNCHANGED <<opening[x], slot_released[x]>>
          /\ \/ opening'[r] = "err_sub" /\ ~slot_released[r]
             \/ opening'[r] # "err_sub" /\ slot_released'[r] = slot_released[r]
      BY <1>3, <2>2 DEF StartStep, StreamStarted, StartFails, StartFailsNotify,
         SlotStates, SlotState
    <3>3. \A x \in Requests : HoldsSlot(x)' <=> HoldsSlot(x)
      BY <3>1, <3>2 DEF HoldsSlot
    <3> QED BY <3>1, <3>3, NeutralStep
  <2> QED BY <2>1, <2>2
<1>4. ASSUME NEW r \in Requests, CloseStep(r) PROVE Neutral \/ Releases
  <2>1. CASE HandleReleases(r)
    <3>1. /\ closer[r]["handle"] # "sub" /\ opening[r] = "open"
          /\ CasGuard(r, "handle") /\ "handle" \in Paths
      BY <2>1 DEF HandleReleases, SlotStates, SlotState, Paths
    <3> QED BY <3>1, GuardKeepsSlots
  <2>2. ASSUME NEW p \in Paths, StreamEndedSub(r, p) PROVE Releases
    <3>1. /\ closer[r][p] = "sub" /\ opening[r] = "open"
          /\ claimed[r] /\ slot_released[r]
          /\ \A q \in Paths : q # p => closer[r][q] # "sub"
      BY <2>2 DEF StreamEndedSub, SlotStates, SlotState, Paths
    <3>2. /\ UNCHANGED <<claimed, slot_released, opening>>
          /\ active_count' = FetchSub(active_count)
          /\ closer' = [closer EXCEPT ![r][p] = "notify"]
      BY <2>2 DEF StreamEndedSub
    <3>3. /\ \A q \in Paths : closer'[r][q] # "sub"
          /\ \A x \in Requests : x # r => closer'[x] = closer[x]
      BY <3>1, <3>2
    <3>4. HoldsSlot(r) /\ ~HoldsSlot(r)'
      BY <3>1, <3>2, <3>3 DEF HoldsSlot
    <3>5. \A x \in Requests : x # r => (HoldsSlot(x)' <=> HoldsSlot(x))
      BY <3>2, <3>3 DEF HoldsSlot
    <3> QED BY <3>2, <3>4, <3>5, ReleasingStep
  <2>3. ASSUME NEW p \in Paths, StreamEndedNotify(r, p) PROVE Neutral
    <3>1. /\ UNCHANGED <<claimed, slot_released, opening, active_count>>
          /\ closer[r][p] = "notify"
          /\ closer' = [closer EXCEPT ![r][p] = "done"]
      BY <2>3 DEF StreamEndedNotify
    <3>2. \A x \in Requests, q \in Paths :
            closer'[x][q] = "sub" <=> closer[x][q] = "sub"
      BY <3>1
    <3> QED BY <3>1, <3>2, NeutralStep, SMTT(60) DEF HoldsSlot
  <2> QED BY <1>4, <2>1, <2>2, <2>3 DEF CloseStep
<1>5. ASSUME NEW r \in Requests, CancelStep(r) \/ CloseHandle(r) PROVE Neutral
  <2>1. UNCHANGED <<claimed, slot_released, active_count>>
    BY <1>5 DEF CancelStep, CancelQueued, CancelStarting, CancelStop, CloseHandle
  <2>2. \A x \in Requests : opening'[x] = "err_sub" <=> opening[x] = "err_sub"
    BY <1>5 DEF CancelStep, CancelQueued, CancelStarting, CancelStop, CloseHandle
  <2>3. \A x \in Requests, p \in Paths :
          closer'[x][p] = "sub" <=> closer[x][p] = "sub"
    <3>1. CASE UNCHANGED closer
      BY <3>1
    <3>2. CASE /\ closer[r]["handle"] \in {"idle", "stopping"}
               /\ \E s \in {"stopping", "dropping", "abandoned"} :
                    closer' = [closer EXCEPT ![r]["handle"] = s]
      BY <3>2 DEF Paths
    <3>3. CASE CancelQueued(r)
      <4>1. closer[r]["handle"] = "idle"
        BY <3>3 DEF CancelQueued, ClaimedOnce
      <4> QED BY <3>1, <3>2, <3>3, <4>1 DEF CancelQueued
    <3> QED BY <1>5, <3>1, <3>2, <3>3 DEF CancelStep, CancelStarting, CancelStop,
               CloseHandle
  <2> QED BY <2>1, <2>2, <2>3, NeutralStep DEF HoldsSlot
<1>6. ASSUME NEW r \in Requests, OnEnd(r) PROVE Neutral
  <2>1. /\ closer[r]["on_end"] # "sub" /\ opening[r] = "open"
        /\ CasGuard(r, "on_end") /\ "on_end" \in Paths
    BY <1>6 DEF OnEnd, Paths
  <2> QED BY <2>1, GuardKeepsSlots
<1>7. CASE \/ \E max \in NewLimits : SetMaxStore(max)
           \/ SetMaxNotify
           \/ UNCHANGED vars
  BY <1>7, UntouchedSlots DEF SetMaxStore, SetMaxNotify, vars
<1> QED BY <1>1, <1>2, <1>3, <1>4, <1>5, <1>6, <1>7 DEF Next

-----------------------------------------------------------------------------
LEMMA OccupiedFinite == IsFiniteSet(Occupied) /\ IsFiniteSet(Occupied')
BY StreamManagerAssumption, FS_Subset DEF StreamManagerAssumption, Occupied

Accounted == SlotAccounting /\ WithinLimit

LEMMA InitAccounted == Init => Accounted
<1> SUFFICES ASSUME Init PROVE Accounted
  OBVIOUS
<1>1. Occupied = {} /\ active_count = 0
  BY DEF Init, Occupied, HoldsSlot
<1>2. Cardinality(Occupied) = 0
  BY <1>1, FS_EmptySet
<1> QED BY <1>1, <1>2, LimitsAreU32 DEF Accounted, SlotAccounting, WithinLimit

LEMMA NextAccounted ==
    ASSUME TypeInv, SlotInv, Accounted, [Next]_vars
    PROVE  Accounted'
<1>1. CASE Neutral
  BY <1>1 DEF Neutral, Accounted, SlotAccounting, WithinLimit
<1>2. CASE Claims
  <2>1. PICK r \in Requests \ Occupied :
          /\ Occupied' = Occupied \cup {r}
          /\ active_count' = active_count + 1
          /\ \E limit \in Limits : active_count < limit
    BY <1>2 DEF Claims
  <2>2. Cardinality(Occupied') = Cardinality(Occupied) + 1
    BY <2>1, OccupiedFinite, FS_AddElement
  <2>3. active_count = Cardinality(Occupied) /\ active_count \in Nat
    BY DEF Accounted, SlotAccounting, TypeInv, TypeOK
  <2>4. \E limit \in Limits : Cardinality(Occupied') <= limit
    BY <2>1, <2>2, <2>3, LimitsAreU32
  <2> QED BY <2>1, <2>2, <2>3, <2>4 DEF Accounted, SlotAccounting, WithinLimit
<1>3. CASE Releases
  <2>1. PICK r \in Occupied : /\ Occupied' = Occupied \ {r}
                              /\ active_count' = FetchSub(active_count)
    BY <1>3 DEF Releases
  <2>2. /\ Cardinality(Occupied') = Cardinality(Occupied) - 1
        /\ Cardinality(Occupied) \in Nat /\ Cardinality(Occupied') \in Nat
    BY <2>1, OccupiedFinite, FS_RemoveElement, FS_CardinalityType
  <2>3. active_count = Cardinality(Occupied)
    BY DEF Accounted, SlotAccounting
  <2>4. active_count # 0
    BY <2>2, <2>3
  <2>5. active_count' = active_count - 1
    BY <2>1, <2>4 DEF FetchSub
  <2>6. \E limit \in Limits : Cardinality(Occupied') <= limit
    BY <2>2, LimitsAreU32 DEF Accounted, WithinLimit
  <2> QED BY <2>2, <2>3, <2>5, <2>6 DEF Accounted, SlotAccounting, WithinLimit
<1> QED BY <1>1, <1>2, <1>3, OccupiedStep

\* active_count is always the number of streams that hold a slot: however
\* stop(), Drop, on_end and the error paths of start_stream_internal interleave,
\* and wherever calls are cancelled, no slot is given back twice.
THEOREM SlotsAccountedFor == Spec => []SlotAccounting
<1>1. Spec => []Accounted
  BY InitAccounted, NextAccounted, TypeCorrect, SlotsCorrect, PTL DEF Spec
<1>2. Accounted => SlotAccounting
  BY DEF Accounted
<1> QED BY <1>1, <1>2, PTL

\* No more streams hold a slot than the largest limit ever in force, although
\* callers and workers decide on values they loaded earlier.
THEOREM LimitRespected == Spec => []WithinLimit
<1>1. Spec => []Accounted
  BY InitAccounted, NextAccounted, TypeCorrect, SlotsCorrect, PTL DEF Spec
<1>2. Accounted => WithinLimit
  BY DEF Accounted
<1> QED BY <1>1, <1>2, PTL

-----------------------------------------------------------------------------
(* The pool of slots. *)

LEMMA OccupiedClaimed == Occupied \subseteq Claimed
BY DEF Occupied, Claimed, HoldsSlot

\* SlotPool counts with its own instance of Cardinality.
LEMMA PoolCardinality ==
    ASSUME NEW S
    PROVE  Pool!Cardinality(S) = Cardinality(S)
BY DEF Pool!Cardinality, Cardinality

\* A step on slots is a step of the pool, or leaves the pool as it is.
LEMMA PoolStep ==
    ASSUME TypeInv, Accounted, Neutral \/ Claims \/ Releases
    PROVE  [Pool!PoolNext]_(Pool!poolVars)
<1>1. CASE Neutral
  BY <1>1 DEF Neutral, Claimed, Pool!poolVars
<1>2. CASE Claims
  <2>1. PICK r \in Requests \ Occupied :
          /\ ~claimed[r]
          /\ claimed' = [claimed EXCEPT ![r] = TRUE]
          /\ Occupied' = Occupied \cup {r}
          /\ \E limit \in Limits : active_count < limit
    BY <1>2 DEF Claims
  <2>2. r \notin Claimed /\ Claimed' = Claimed \cup {r}
    BY <2>1 DEF Claimed, TypeInv, TypeOK
  <2>3. \E limit \in Limits : Pool!Cardinality(Occupied) < limit
    BY <2>1, PoolCardinality DEF Accounted, SlotAccounting
  <2>4. Claimed' \ Occupied' = Claimed \ Occupied
    BY <2>1, <2>2
  <2>5. r \notin Occupied \cup (Claimed \ Occupied)
    BY <2>1, <2>2
  <2>6. Pool!Take(r)
    BY <2>1, <2>3, <2>4, <2>5 DEF Pool!Take
  <2> QED BY <2>1, <2>6 DEF Pool!PoolNext
<1>3. CASE Releases
  <2>1. PICK r \in Occupied : UNCHANGED claimed /\ Occupied' = Occupied \ {r}
    BY <1>3 DEF Releases
  <2>2. Claimed' \ Occupied' = (Claimed \ Occupied) \cup {r}
    BY <2>1, OccupiedClaimed DEF Claimed
  <2>3. Pool!GiveBack(r)
    BY <2>1, <2>2 DEF Pool!GiveBack
  <2>4. r \in Requests
    BY <2>1 DEF Occupied
  <2> QED BY <2>3, <2>4 DEF Pool!PoolNext
<1> QED BY <1>1, <1>2, <1>3

\* StreamManager implements SlotPool: a slot is taken only while fewer are
\* taken than some limit that was in force, and given back exactly once.
THEOREM PoolImplemented == Spec => ImplementsPool
<1>1. Init => Pool!PoolInit
  BY DEF Init, Pool!PoolInit, Occupied, Claimed, HoldsSlot
<1>2. TypeInv /\ SlotInv /\ Accounted /\ [Next]_vars
        => [Pool!PoolNext]_(Pool!poolVars)
  BY OccupiedStep, PoolStep
<1>3. Spec => []Accounted
  BY InitAccounted, NextAccounted, TypeCorrect, SlotsCorrect, PTL DEF Spec
<1> QED BY <1>1, <1>2, <1>3, TypeCorrect, SlotsCorrect, PTL
       DEF Spec, ImplementsPool, Pool!PoolSpec
=============================================================================
