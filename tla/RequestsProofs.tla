---------------------------- MODULE RequestsProofs ----------------------------
(***************************************************************************)
(* Requests and responses, for every set of callers, every capacity of the *)
(* channel and every number of resumed streams: a caller gets its own      *)
(* answer or an error, exactly one place answers for a call, the task goes *)
(* through the phases of ConnectionLoop, and CallService is implemented.   *)
(***************************************************************************)
EXTENDS Requests, ConnectionLoopProofs, FiniteSetTheorems, SequenceTheorems

\* An answer is awaited only while streams are left to be resumed.
AwaitsInResuming == resume_id # 0 => loop = "resuming" /\ resume_left > 0

\* While streams are resumed an open socket has nothing but the request whose
\* answer is awaited, and afterwards nothing of resume_streams.
OnTheWire ==
    ws # "closed" =>
        \A m \in wire : IF loop = "resuming"
                        THEN m = [id |-> resume_id, who |-> NoCaller] /\ resume_id # 0
                        ELSE m.who \in Callers

Own(c) == [id |-> id[c], who |-> c]

\* Callers have distinct ids once they have one.
IdsDistinct ==
    /\ \A c \in Callers : /\ id[c] < next_id
                          /\ call[c] = "idle" => id[c] = 0
                          /\ call[c] = "sending" => id[c] # 0
    /\ \A c, d \in Callers : id[c] # 0 /\ id[c] = id[d] => c = d
    /\ \A m \in wire : m.who \in Callers => m = Own(m.who) /\ m.id # 0

\* A call is in the channel, in the map or replied to, and in one place only;
\* what is in the map is on the wire.
OnePlace ==
    /\ \A i, j \in 1..Len(channel) : channel[i] = channel[j] => i = j
    /\ \A c \in Callers :
          /\ InChannel(c) => c \notin pending /\ reply[c] = "none" /\ id[c] # 0
          /\ c \in pending => reply[c] = "none" /\ Own(c) \in wire
          /\ call[c] \in {"idle", "sending"} =>
                 ~InChannel(c) /\ c \notin pending /\ reply[c] = "none"
          /\ call[c] = "awaiting" =>
                 InChannel(c) \/ c \in pending \/ reply[c] # "none"

RequestsInv ==
    /\ RequestsTypeOK
    /\ PendingCleared
    /\ AwaitsInResuming
    /\ OnTheWire
    /\ IdsDistinct
    /\ OnePlace
    /\ OwnAnswer

-----------------------------------------------------------------------------
(* The steps of the task. *)

\* A step with requests is a step of the task or of its users, or one that
\* leaves both alone.
LEMMA LoopStep == [RequestsNext]_requestsVars => [LoopNext]_loopVars
<1> SUFFICES ASSUME [RequestsNext]_requestsVars PROVE [LoopNext]_loopVars
  OBVIOUS
<1>1. CASE \E c \in Callers : \/ CallStart(c) \/ CallSend(c) \/ CallReturns(c)
                              \/ CallCancelled(c)
  BY <1>1 DEF CallStart, CallSend, CallReturns, CallCancelled
<1>2. CASE RequestArm \/ ReadArm
  BY <1>2 DEF RequestArm, ReadArm
<1>3. CASE LeaveRequests
  BY <1>3 DEF LeaveRequests, LoopNext, LeaveStep
<1>4. CASE FailPendingRequests
  BY <1>4 DEF FailPendingRequests, LoopNext
<1>5. CASE Reconnected
  BY <1>5 DEF Reconnected, LoopNext, EstablishStep
<1>6. CASE ResumeNext \/ ResumeReads \/ ResumeSocketLost
  BY <1>6 DEF ResumeNext, ResumeReads, ResumeSocketLost
<1>7. CASE ResumeReturns
  BY <1>7 DEF ResumeReturns, LoopNext
<1>8. CASE CleanupRequests
  BY <1>8 DEF CleanupRequests, LoopNext
<1>9. CASE QuietStep
  BY <1>9 DEF QuietStep, LoopNext, EstablishStep, UserStep
<1>10. CASE UNCHANGED requestsVars
  BY <1>10 DEF requestsVars
<1> QED BY <1>1, <1>2, <1>3, <1>4, <1>5, <1>6, <1>7, <1>8, <1>9, <1>10
        DEF RequestsNext, ResumeStep

\* The task that Requests runs is the one of ConnectionLoop, so that what is
\* proved of that holds of this.
THEOREM RequestsRunLoop == RequestsSpec => LoopSpec
<1>1. RequestsInit => LoopInit
  BY DEF RequestsInit
<1> QED BY <1>1, LoopStep, PTL DEF RequestsSpec, LoopSpec

\* What the steps that leave requests alone do not do.
LEMMA QuietFacts ==
    ASSUME LeaveRequests \/ QuietStep \/ UNCHANGED requestsVars
    PROVE  /\ UNCHANGED <<next_id, id, call, reply, channel, pending,
                          request_id_counter, wire, resume_left, resume_id>>
           /\ loop' = "resuming" <=> loop = "resuming"
           /\ ws' # "closed" => ws # "closed"
           /\ loop \in {"running", "drain"} => loop' \in {"running", "drain"}
<1> USE DEF reqVars, callerVars, taskVars
<1>1. CASE LeaveRequests
  BY <1>1 DEF LeaveRequests, ShutdownArm, ConnectionLostArm, PongTimeoutArm,
              ChannelClosedArm, Leave
<1>2. CASE QuietStep
  BY <1>2 DEF QuietStep, DecideStep, StopLooping, GiveUp, StartReconnecting,
              BackoffElapsed, EstablishFails, PeerStep, PeerCloses, PeerSilent,
              PeerRecovers, ConnectReturns, Close, CancelToken,
              AnnounceShutdown, DropConnection
<1>3. CASE UNCHANGED requestsVars
  BY <1>3 DEF requestsVars, loopVars
<1> QED BY <1>1, <1>2, <1>3

-----------------------------------------------------------------------------
(* One lemma per part of the invariant, one step per action. *)

LEMMA NextTypeOK ==
    ASSUME RequestsTypeOK, AwaitsInResuming, [RequestsNext]_requestsVars
    PROVE  RequestsTypeOK'
<1> USE RequestsAssumption
    DEF RequestsAssumption, RequestsTypeOK, callerVars, taskVars, reqVars
<1>1. ASSUME NEW c \in Callers, CallStart(c) PROVE RequestsTypeOK'
  <2>1. call' \in [Callers -> {"idle", "sending", "awaiting", "done", "cancelled"}]
    BY <1>1 DEF CallStart
  <2>2. id' \in [Callers -> Nat] /\ next_id' \in Nat \ {0}
    BY <1>1 DEF CallStart
  <2> QED BY <1>1, <2>1, <2>2 DEF CallStart
<1>2. ASSUME NEW c \in Callers, CallSend(c) PROVE RequestsTypeOK'
  <2>1. Append(channel, c) \in Seq(Callers) /\ Len(channel) \in Nat
        /\ Len(Append(channel, c)) = Len(channel) + 1
    BY AppendProperties, LenProperties
  <2>2. call' \in [Callers -> {"idle", "sending", "awaiting", "done", "cancelled"}]
    BY <1>2 DEF CallSend
  <2>3. \/ channel' = channel
        \/ Len(channel) < ChannelCap /\ channel' = Append(channel, c)
    BY <1>2 DEF CallSend
  <2>4. channel' \in Seq(Callers)
    BY <2>1, <2>3
  <2>5. Len(channel') <= ChannelCap
    <3>1. CASE channel' = channel
      BY <3>1
    <3>2. CASE Len(channel) < ChannelCap /\ channel' = Append(channel, c)
      BY <2>1, <3>2
    <3> QED BY <2>3, <3>1, <3>2
  <2> QED BY <1>2, <2>2, <2>4, <2>5 DEF CallSend
<1>3. ASSUME NEW c \in Callers, CallReturns(c) \/ CallCancelled(c)
      PROVE  RequestsTypeOK'
  BY <1>3 DEF CallReturns, CallCancelled
<1>4. CASE RequestArm
  <2>1. /\ Head(channel) \in Callers /\ Tail(channel) \in Seq(Callers)
        /\ Len(Tail(channel)) = Len(channel) - 1 /\ Len(channel) \in Nat
    BY <1>4, HeadTailProperties, LenProperties DEF RequestArm
  <2>2. [id |-> id[Head(channel)], who |-> Head(channel)] \in Message
    BY <2>1 DEF Message
  <2>3. request_id_counter' \in Nat \ {0}
    BY <1>4, <2>1 DEF RequestArm
  <2>4. wire' \subseteq Message /\ pending' \subseteq Callers
    BY <1>4, <2>1, <2>2 DEF RequestArm
  <2>5. reply' \in [Callers -> {"none", "own", "foreign", "closed"}]
    BY <1>4 DEF RequestArm, Fail
  <2> QED BY <1>4, <2>1, <2>3, <2>4, <2>5 DEF RequestArm
<1>5. ASSUME NEW m, Deliver(m)
      PROVE  /\ reply' \in [Callers -> {"none", "own", "foreign", "closed"}]
             /\ pending' \subseteq Callers
  BY <1>5 DEF Deliver
<1>6. CASE ReadArm
  BY <1>5, <1>6 DEF ReadArm
<1>7. CASE LeaveRequests \/ QuietStep \/ UNCHANGED requestsVars
  BY <1>7, QuietFacts
<1>8. CASE FailPendingRequests
  BY <1>8 DEF FailPendingRequests, Fail
<1>9. CASE Reconnected
  BY <1>9 DEF Reconnected
<1>10. CASE ResumeNext
  <2>1. [id |-> request_id_counter, who |-> NoCaller] \in Message
    BY DEF Message
  <2> QED BY <1>10, <2>1 DEF ResumeNext
<1>11. CASE ResumeReads
  <2>1. resume_left - 1 \in 0..MaxResume
    BY <1>11 DEF ResumeReads, AwaitsInResuming
  <2>2. /\ reply' \in [Callers -> {"none", "own", "foreign", "closed"}]
        /\ pending' \subseteq Callers
    BY <1>5, <1>11 DEF ResumeReads
  <2> QED BY <1>11, <2>1, <2>2 DEF ResumeReads
<1>12. CASE ResumeSocketLost
  BY <1>12 DEF ResumeSocketLost, AwaitsInResuming
<1>13. CASE ResumeReturns
  BY <1>13 DEF ResumeReturns
<1>14. CASE CleanupRequests
  BY <1>14 DEF CleanupRequests, Fail
<1> QED BY <1>1, <1>2, <1>3, <1>4, <1>6, <1>7, <1>8, <1>9, <1>10, <1>11, <1>12,
           <1>13, <1>14 DEF RequestsNext, ResumeStep

\* The map is emptied on the way out of a session and stays so until the next.
LEMMA NextPending ==
    ASSUME RequestsTypeOK, PendingCleared, [RequestsNext]_requestsVars
    PROVE  PendingCleared'
<1> USE DEF PendingCleared
<1>1. CASE \E c \in Callers : \/ CallStart(c) \/ CallSend(c) \/ CallReturns(c)
                              \/ CallCancelled(c)
  BY <1>1 DEF CallStart, CallSend, CallReturns, CallCancelled, loopVars
<1>2. CASE RequestArm
  BY <1>2 DEF RequestArm, loopVars
<1>3. CASE ReadArm
  BY <1>3 DEF ReadArm, loopVars
<1>4. CASE LeaveRequests \/ QuietStep \/ UNCHANGED requestsVars
  BY <1>4, QuietFacts
<1>5. CASE FailPendingRequests \/ CleanupRequests
  BY <1>5 DEF FailPendingRequests, CleanupRequests
<1>6. CASE Reconnected
  BY <1>6 DEF Reconnected, EstablishOk
<1>7. CASE ResumeNext \/ ResumeSocketLost
  BY <1>7 DEF ResumeNext, ResumeSocketLost, loopVars
<1>8. CASE ResumeReads
  BY <1>8 DEF ResumeReads, Deliver, loopVars
<1>9. CASE ResumeReturns
  BY <1>9 DEF ResumeReturns, Resumed
<1> QED BY <1>1, <1>2, <1>3, <1>4, <1>5, <1>6, <1>7, <1>8, <1>9
        DEF RequestsNext, ResumeStep

LEMMA NextAwaits ==
    ASSUME RequestsTypeOK, AwaitsInResuming, [RequestsNext]_requestsVars
    PROVE  AwaitsInResuming'
<1> USE DEF AwaitsInResuming, RequestsTypeOK, taskVars, reqVars
<1>1. CASE \E c \in Callers : \/ CallStart(c) \/ CallSend(c) \/ CallReturns(c)
                              \/ CallCancelled(c)
  BY <1>1 DEF CallStart, CallSend, CallReturns, CallCancelled, loopVars
<1>2. CASE RequestArm \/ ReadArm
  BY <1>2 DEF RequestArm, ReadArm, loopVars
<1>3. CASE LeaveRequests \/ QuietStep \/ UNCHANGED requestsVars
  BY <1>3, QuietFacts
<1>4. CASE FailPendingRequests \/ CleanupRequests
  BY <1>4 DEF FailPendingRequests, CleanupRequests, FailPending, Cleanup
<1>5. CASE Reconnected
  BY <1>5 DEF Reconnected, EstablishOk
<1>6. CASE ResumeNext
  BY <1>6 DEF ResumeNext, loopVars
<1>7. CASE ResumeReads \/ ResumeSocketLost
  BY <1>7 DEF ResumeReads, ResumeSocketLost, loopVars
<1>8. CASE ResumeReturns
  BY <1>8 DEF ResumeReturns
<1> QED BY <1>1, <1>2, <1>3, <1>4, <1>5, <1>6, <1>7, <1>8
        DEF RequestsNext, ResumeStep

\* resume_streams leaves nothing behind on a socket that is still open.
LEMMA NextOnTheWire ==
    ASSUME RequestsTypeOK, AwaitsInResuming, OnTheWire, [RequestsNext]_requestsVars
    PROVE  OnTheWire'
<1> USE DEF OnTheWire, RequestsTypeOK, taskVars, reqVars
<1>1. CASE \E c \in Callers : \/ CallStart(c) \/ CallSend(c) \/ CallReturns(c)
                              \/ CallCancelled(c)
  BY <1>1 DEF CallStart, CallSend, CallReturns, CallCancelled, loopVars
<1>2. CASE RequestArm
  <2>1. Head(channel) \in Callers
    BY <1>2, HeadTailProperties DEF RequestArm
  <2> QED BY <1>2, <2>1 DEF RequestArm, loopVars
<1>3. CASE ReadArm
  BY <1>3 DEF ReadArm, loopVars
<1>4. CASE LeaveRequests \/ QuietStep \/ UNCHANGED requestsVars
  BY <1>4, QuietFacts
<1>5. CASE FailPendingRequests \/ CleanupRequests
  BY <1>5 DEF FailPendingRequests, CleanupRequests, FailPending, Cleanup
<1>6. CASE Reconnected
  BY <1>6 DEF Reconnected
<1>7. CASE ResumeNext
  BY <1>7 DEF ResumeNext, loopVars
<1>8. CASE ResumeReads
  BY <1>8 DEF ResumeReads, loopVars
<1>9. CASE ResumeSocketLost
  BY <1>9 DEF ResumeSocketLost, loopVars
<1>10. CASE ResumeReturns
  BY <1>10 DEF ResumeReturns, Resumed, AwaitsInResuming
<1> QED BY <1>1, <1>2, <1>3, <1>4, <1>5, <1>6, <1>7, <1>8, <1>9, <1>10
        DEF RequestsNext, ResumeStep

\* fetch_add never gives an id twice, and what is on the wire keeps its id.
LEMMA NextIds ==
    ASSUME RequestsTypeOK, IdsDistinct, OnePlace, [RequestsNext]_requestsVars
    PROVE  IdsDistinct'
<1> USE RequestsAssumption DEF RequestsAssumption, RequestsTypeOK, callerVars,
        taskVars, reqVars
<1>1. ASSUME NEW c \in Callers, CallStart(c) PROVE IdsDistinct'
  <2>1. CASE UNCHANGED <<id, next_id>> /\ call' = [call EXCEPT ![c] = "done"]
    BY <1>1, <2>1 DEF CallStart, IdsDistinct, Own
  <2>2. CASE /\ call' = [call EXCEPT ![c] = "sending"]
             /\ id' = [id EXCEPT ![c] = next_id] /\ next_id' = next_id + 1
    <3>1. id[c] = 0 /\ UNCHANGED wire
      BY <1>1 DEF CallStart, IdsDistinct
    <3>2. \A d \in Callers : /\ d = c => id'[d] = next_id
                             /\ d # c => id'[d] = id[d]
      BY <2>2
    <3>3. \A d \in Callers : id[d] \in Nat /\ id[d] < next_id
      BY DEF IdsDistinct
    <3>4. \A d \in Callers : /\ id'[d] < next_id'
                             /\ call'[d] = "idle" => id'[d] = 0
                             /\ call'[d] = "sending" => id'[d] # 0
      BY <2>2, <3>2, <3>3 DEF IdsDistinct
    <3>5. \A d, e \in Callers : id'[d] # 0 /\ id'[d] = id'[e] => d = e
      BY <3>2, <3>3 DEF IdsDistinct
    <3>6. \A m \in wire : m.who \in Callers => m.who # c
      BY <3>1 DEF IdsDistinct, Own
    <3>7. \A m \in wire' : m.who \in Callers => m = Own(m.who)' /\ m.id # 0
      BY <3>1, <3>2, <3>6 DEF IdsDistinct, Own
    <3> QED BY <3>4, <3>5, <3>7 DEF IdsDistinct
  <2> QED BY <1>1, <2>1, <2>2 DEF CallStart
<1>2. ASSUME NEW c \in Callers, CallSend(c) \/ CallReturns(c) \/ CallCancelled(c)
      PROVE  IdsDistinct'
  <2>1. /\ UNCHANGED <<id, next_id, wire>>
        /\ \A d \in Callers : call'[d] \in {"idle", "sending"} => call'[d] = call[d]
    BY <1>2 DEF CallSend, CallReturns, CallCancelled
  <2> QED BY <2>1 DEF IdsDistinct, Own
<1>3. CASE RequestArm
  <2>1. UNCHANGED <<id, next_id, call>> /\ wire' \subseteq wire \cup {Own(Head(channel))}
    BY <1>3 DEF RequestArm, Own
  <2>2. Head(channel) \in Callers /\ id[Head(channel)] # 0
    BY <1>3, HeadTailProperties, LenProperties DEF RequestArm, OnePlace, InChannel
  <2> QED BY <2>1, <2>2 DEF IdsDistinct, Own
<1>4. CASE ResumeNext
  <2>1. /\ UNCHANGED <<id, next_id, call>>
        /\ wire' \subseteq wire \cup {[id |-> request_id_counter, who |-> NoCaller]}
    BY <1>4 DEF ResumeNext
  <2> QED BY <2>1 DEF IdsDistinct, Own
<1>5. CASE \/ ReadArm \/ ResumeReads \/ Reconnected \/ FailPendingRequests
           \/ CleanupRequests \/ ResumeSocketLost \/ ResumeReturns
  <2>1. UNCHANGED <<id, next_id, call>> /\ wire' \subseteq wire
    BY <1>5 DEF ReadArm, ResumeReads, Reconnected, FailPendingRequests,
                CleanupRequests, ResumeSocketLost, ResumeReturns
  <2> QED BY <2>1 DEF IdsDistinct, Own
<1>6. CASE LeaveRequests \/ QuietStep \/ UNCHANGED requestsVars
  BY <1>6, QuietFacts DEF IdsDistinct, Own
<1> QED BY <1>1, <1>2, <1>3, <1>4, <1>5, <1>6 DEF RequestsNext, ResumeStep

\* The task takes the oldest request out of the channel, which is nowhere else.
LEMMA TakesOldest ==
    ASSUME RequestsTypeOK, OnePlace, RequestArm, NEW h, h = Head(channel)
    PROVE  /\ h \in Callers /\ InChannel(h) /\ ~InChannel(h)'
           /\ \A c \in Callers \ {h} : InChannel(c)' <=> InChannel(c)
           /\ \A i, j \in 1..Len(channel') : channel'[i] = channel'[j] => i = j
<1>1. /\ Len(channel) \in Nat /\ 1 \in 1..Len(channel)
      /\ h = channel[1] /\ h \in Callers
      /\ Len(channel') = Len(channel) - 1
      /\ \A i \in 1..Len(channel') : channel'[i] = channel[i + 1]
  BY HeadTailProperties, EmptySeq, LenProperties DEF RequestArm, RequestsTypeOK
<1>2. \A i \in 1..Len(channel') : i + 1 \in 1..Len(channel) /\ i + 1 # 1
  BY <1>1
<1>3. \A i \in 1..Len(channel) : i # 1 => i - 1 \in 1..Len(channel') /\ (i - 1) + 1 = i
  BY <1>1
<1>4. InChannel(h) /\ ~InChannel(h)'
  BY <1>1, <1>2 DEF InChannel, OnePlace
<1>5. \A c \in Callers \ {h} : InChannel(c)' <=> InChannel(c)
  <2> SUFFICES ASSUME NEW c \in Callers \ {h} PROVE InChannel(c)' <=> InChannel(c)
    OBVIOUS
  <2>1. InChannel(c)' => InChannel(c)
    BY <1>1, <1>2 DEF InChannel
  <2>2. ASSUME NEW i \in 1..Len(channel), channel[i] = c PROVE InChannel(c)'
    <3>1. i - 1 \in 1..Len(channel') /\ channel'[i - 1] = channel[(i - 1) + 1]
      BY <1>1, <1>3, <2>2
    <3> QED BY <1>3, <2>2, <3>1 DEF InChannel
  <2> QED BY <2>1, <2>2 DEF InChannel
<1>6. \A i, j \in 1..Len(channel') : channel'[i] = channel'[j] => i = j
  BY <1>1, <1>2 DEF OnePlace
<1> QED BY <1>1, <1>4, <1>5, <1>6

\* A caller puts its request behind the others.
LEMMA PutsLast ==
    ASSUME RequestsTypeOK, OnePlace, NEW c \in Callers, ~InChannel(c),
           channel' = Append(channel, c)
    PROVE  /\ InChannel(c)'
           /\ \A d \in Callers \ {c} : InChannel(d)' <=> InChannel(d)
           /\ \A i, j \in 1..Len(channel') : channel'[i] = channel'[j] => i = j
<1>1. /\ Len(channel) \in Nat /\ Len(channel') = Len(channel) + 1
      /\ channel'[Len(channel) + 1] = c
      /\ \A i \in 1..Len(channel) : channel'[i] = channel[i]
  BY AppendProperties, LenProperties DEF RequestsTypeOK
<1>2. \A i \in 1..Len(channel') : i \in 1..Len(channel) \/ i = Len(channel) + 1
  BY <1>1
<1>3. Len(channel) + 1 \in 1..Len(channel')
      /\ \A i \in 1..Len(channel) : i \in 1..Len(channel')
  BY <1>1
<1>4. InChannel(c)'
  BY <1>1, <1>3 DEF InChannel
<1>5. \A d \in Callers \ {c} : InChannel(d)' <=> InChannel(d)
  BY <1>1, <1>2, <1>3 DEF InChannel
<1>6. \A i, j \in 1..Len(channel') : channel'[i] = channel'[j] => i = j
  BY <1>1, <1>2 DEF InChannel, OnePlace
<1> QED BY <1>4, <1>5, <1>6

\* An answer read from an open socket finds the caller who sent the request,
\* and nobody else.
LEMMA DeliverFacts ==
    ASSUME OnTheWire, IdsDistinct, ws = "up", loop # "resuming" \/ pending = {},
           NEW m \in wire, Deliver(m), NEW c \in Callers
    PROVE  IF c \in pending /\ c \notin pending'
           THEN reply'[c] = "own"
           ELSE /\ c \in pending' <=> c \in pending
                /\ reply'[c] = reply[c]
                /\ c \in pending => Own(c) # m
<1>1. CASE c \notin pending
  BY <1>1 DEF Deliver
<1>2. CASE c \in pending /\ id[c] # m.id
  BY <1>2 DEF Deliver, Own
<1>3. CASE c \in pending /\ id[c] = m.id
  <2>1. m.who \in Callers
    BY <1>3 DEF OnTheWire
  <2>2. m.id = id[m.who] /\ m.id # 0
    BY <2>1 DEF IdsDistinct, Own
  <2>3. m.who = c
    BY <1>3, <2>1, <2>2 DEF IdsDistinct
  <2> QED BY <1>3, <2>3 DEF Deliver
<1> QED BY <1>1, <1>2, <1>3

\* A request is in one place, wherever it goes.
LEMMA NextOnePlace ==
    ASSUME RequestsTypeOK, PendingCleared, OnTheWire, IdsDistinct, OnePlace,
           OwnAnswer, [RequestsNext]_requestsVars
    PROVE  OnePlace' /\ OwnAnswer'
<1> DEFINE Place(c) ==
       /\ InChannel(c) => c \notin pending /\ reply[c] = "none" /\ id[c] # 0
       /\ c \in pending => reply[c] = "none" /\ Own(c) \in wire
       /\ call[c] \in {"idle", "sending"} =>
              ~InChannel(c) /\ c \notin pending /\ reply[c] = "none"
       /\ call[c] = "awaiting" =>
              InChannel(c) \/ c \in pending \/ reply[c] # "none"
       /\ reply[c] # "foreign"
    Once == \A i, j \in 1..Len(channel) : channel[i] = channel[j] => i = j
<1>1. \A c \in Callers : Place(c)
  BY DEF OnePlace, OwnAnswer
<1>2. Once
  BY DEF OnePlace
<1>3. SUFFICES Once' /\ \A c \in Callers : Place(c)'
  BY DEF OnePlace, OwnAnswer
<1>4. UNCHANGED channel => Once' /\ \A c \in Callers : InChannel(c)' <=> InChannel(c)
  BY <1>2 DEF InChannel
<1> HIDE DEF Once
<1> USE DEF callerVars, taskVars, reqVars
<1>5. ASSUME NEW c \in Callers, CallStart(c)
      PROVE  Once' /\ \A d \in Callers : Place(d)'
  <2>1. /\ UNCHANGED <<reply, channel, pending, wire>>
        /\ call[c] = "idle" /\ call'[c] \in {"sending", "done"}
        /\ \A d \in Callers : d # c => call'[d] = call[d] /\ id'[d] = id[d]
    BY <1>5 DEF CallStart, RequestsTypeOK
  <2>2. ~InChannel(c) /\ c \notin pending /\ reply[c] = "none"
    BY <1>1, <2>1
  <2> QED BY <1>1, <1>4, <2>1, <2>2 DEF Own
<1>6. ASSUME NEW c \in Callers, CallSend(c)
      PROVE  Once' /\ \A d \in Callers : Place(d)'
  <2>1. /\ UNCHANGED <<id, reply, pending, wire>> /\ call[c] = "sending"
        /\ \A d \in Callers : d # c => call'[d] = call[d]
    BY <1>6 DEF CallSend, RequestsTypeOK
  <2>2. ~InChannel(c) /\ c \notin pending /\ reply[c] = "none" /\ id[c] # 0
    BY <1>1, <2>1 DEF IdsDistinct
  <2>3. CASE UNCHANGED channel /\ call'[c] = "done"
    BY <1>1, <1>4, <2>1, <2>2, <2>3 DEF Own
  <2>4. CASE channel' = Append(channel, c) /\ call'[c] = "awaiting"
    <3>1. /\ InChannel(c)'
          /\ \A d \in Callers \ {c} : InChannel(d)' <=> InChannel(d)
          /\ Once'
      BY <2>2, <2>4, PutsLast DEF Once
    <3> QED BY <1>1, <2>1, <2>2, <2>4, <3>1 DEF Own
  <2> QED BY <1>6, <2>3, <2>4 DEF CallSend, RequestsTypeOK
<1>7. ASSUME NEW c \in Callers, CallReturns(c) \/ CallCancelled(c)
      PROVE  Once' /\ \A d \in Callers : Place(d)'
  <2>1. /\ UNCHANGED <<id, reply, channel, pending, wire>>
        /\ call'[c] \in {"done", "cancelled"}
        /\ \A d \in Callers : d # c => call'[d] = call[d]
    BY <1>7 DEF CallReturns, CallCancelled, RequestsTypeOK
  <2> QED BY <1>1, <1>4, <2>1 DEF Own
<1>8. CASE RequestArm
  <2> DEFINE h == Head(channel)
  <2>1. /\ h \in Callers /\ InChannel(h) /\ Once'
        /\ \A c \in Callers : InChannel(c)' <=> InChannel(c) /\ c # h
    BY <1>8, TakesOldest DEF Once
  <2>2. /\ UNCHANGED <<id, call>>
        /\ \/ /\ pending' = pending \cup {h} /\ wire' = wire \cup {Own(h)}
              /\ UNCHANGED reply
           \/ /\ UNCHANGED <<pending, wire>>
              /\ reply' = [c \in Callers |-> IF c = h THEN "closed" ELSE reply[c]]
    BY <1>8 DEF RequestArm, Own, Fail
  <2>3. h \notin pending /\ reply[h] = "none" /\ call[h] \notin {"idle", "sending"}
    BY <1>1, <2>1
  <2> HIDE DEF h
  <2> QED BY <1>1, <2>1, <2>2, <2>3 DEF Own
<1>9. ASSUME NEW m \in wire, ws = "up", loop # "resuming" \/ pending = {},
             Deliver(m), wire' = wire \ {m}, UNCHANGED <<id, call, channel>>
      PROVE  Once' /\ \A c \in Callers : Place(c)'
  <2>1. \A c \in Callers :
          IF c \in pending /\ c \notin pending'
          THEN reply'[c] = "own"
          ELSE /\ c \in pending' <=> c \in pending
               /\ reply'[c] = reply[c]
               /\ c \in pending => Own(c) # m
    BY <1>9, DeliverFacts
  <2> QED BY <1>1, <1>4, <1>9, <2>1 DEF Own
<1>10. CASE ReadArm
  BY <1>9, <1>10 DEF ReadArm
<1>11. CASE ResumeReads
  <2>1. pending = {}
    BY <1>11 DEF ResumeReads, PendingCleared
  <2>2. CASE UNCHANGED <<reply, pending>>
    BY <1>1, <1>4, <1>11, <2>1, <2>2 DEF ResumeReads, Own
  <2> QED BY <1>9, <1>11, <2>1, <2>2 DEF ResumeReads
<1>12. CASE FailPendingRequests
  BY <1>1, <1>4, <1>12 DEF FailPendingRequests, Fail, Own
<1>13. CASE CleanupRequests
  <2>1. channel' = <<>> /\ pending' = {} /\ UNCHANGED <<id, call, wire>>
    BY <1>13 DEF CleanupRequests
  <2>2. Once' /\ \A c \in Callers : ~InChannel(c)'
    BY <2>1 DEF Once, InChannel
  <2>3. \A c \in Callers : reply'[c] = IF InChannel(c) \/ c \in pending
                                       THEN "closed" ELSE reply[c]
    BY <1>13, LenProperties
       DEF CleanupRequests, Fail, InChannel, RequestsTypeOK
  <2> QED BY <1>1, <2>1, <2>2, <2>3
<1>14. CASE Reconnected
  <2>1. pending = {}
    BY <1>14 DEF Reconnected, EstablishOk, PendingCleared
  <2> QED BY <1>1, <1>4, <1>14, <2>1 DEF Reconnected
<1>15. CASE ResumeNext \/ ResumeSocketLost \/ ResumeReturns
  <2>1. UNCHANGED <<id, call, reply, channel, pending>> /\ wire \subseteq wire'
    BY <1>15 DEF ResumeNext, ResumeSocketLost, ResumeReturns
  <2> QED BY <1>1, <1>4, <2>1 DEF Own
<1>16. CASE LeaveRequests \/ QuietStep \/ UNCHANGED requestsVars
  <2>1. UNCHANGED <<id, call, reply, channel, pending, wire>>
    BY <1>16, QuietFacts
  <2> QED BY <1>1, <1>4, <2>1 DEF Own
<1> QED BY <1>5, <1>6, <1>7, <1>8, <1>10, <1>11, <1>12, <1>13, <1>14, <1>15,
           <1>16 DEF RequestsNext, ResumeStep

-----------------------------------------------------------------------------
LEMMA InitRequestsInv == RequestsInit => RequestsInv
<1> SUFFICES ASSUME RequestsInit PROVE RequestsInv
  OBVIOUS
<1> USE RequestsAssumption DEF RequestsAssumption, RequestsInit
<1>1. RequestsTypeOK
  BY LenProperties DEF RequestsTypeOK
<1>2. PendingCleared /\ AwaitsInResuming /\ OnTheWire /\ OwnAnswer
  BY DEF PendingCleared, AwaitsInResuming, OnTheWire, OwnAnswer
<1>3. IdsDistinct
  BY DEF IdsDistinct
<1>4. OnePlace
  BY DEF OnePlace, InChannel
<1> QED BY <1>1, <1>2, <1>3, <1>4 DEF RequestsInv

\* The whole invariant: where a call is, what is on the wire, and whose id it has.
THEOREM RequestsCorrect == RequestsSpec => []RequestsInv
<1>1. RequestsInv /\ [RequestsNext]_requestsVars => RequestsInv'
  BY NextTypeOK, NextPending, NextAwaits, NextOnTheWire, NextIds, NextOnePlace
     DEF RequestsInv
<1> QED BY <1>1, InitRequestsInv, PTL DEF RequestsSpec

\* Every variable of the calls keeps its type; the channel never holds more
\* than its capacity.
THEOREM RequestsTypeCorrect == RequestsSpec => []RequestsTypeOK
<1>1. RequestsInv => RequestsTypeOK
  BY DEF RequestsInv
<1> QED BY <1>1, RequestsCorrect, PTL

\* A caller only ever gets the answer to its own request, for any number of
\* callers, streams to resume and sessions.
THEOREM AnswersAreOwn == RequestsSpec => []OwnAnswer
<1>1. RequestsInv => OwnAnswer
  BY DEF RequestsInv
<1> QED BY <1>1, RequestsCorrect, PTL

\* No request stays in the map when its socket is given up.
THEOREM PendingIsCleared == RequestsSpec => []PendingCleared
<1>1. RequestsInv => PendingCleared
  BY DEF RequestsInv
<1> QED BY <1>1, RequestsCorrect, PTL

\* The ids on an open socket are distinct, although they are drawn from two
\* counters that know little of each other.
THEOREM WireIdsAreDistinct == RequestsSpec => []IdsOnWireDistinct
<1>1. RequestsInv => IdsOnWireDistinct
  <2> SUFFICES ASSUME RequestsInv, ws # "closed", NEW m \in wire, NEW n \in wire,
                      m.id = n.id
               PROVE  m = n
    BY DEF IdsOnWireDistinct
  <2>1. CASE loop = "resuming"
    BY <2>1 DEF RequestsInv, OnTheWire
  <2>2. CASE loop # "resuming"
    <3>1. m.who \in Callers /\ n.who \in Callers
      BY <2>2 DEF RequestsInv, OnTheWire
    <3>2. m = Own(m.who) /\ n = Own(n.who) /\ m.id # 0
      BY <3>1 DEF RequestsInv, IdsDistinct
    <3>3. m.who = n.who
      BY <3>1, <3>2 DEF RequestsInv, IdsDistinct, Own
    <3> QED BY <3>2, <3>3
  <2> QED BY <2>1, <2>2
<1> QED BY <1>1, RequestsCorrect, PTL

\* A call that awaits its answer is in exactly one place that will answer it.
THEOREM CallsAreAccounted == RequestsSpec => []CallAccounted
<1>1. RequestsInv => CallAccounted
  <2> SUFFICES ASSUME RequestsInv, NEW c \in Callers, call[c] = "awaiting"
               PROVE  Cardinality({i \in DOMAIN channel : channel[i] = c})
                        + (IF c \in pending THEN 1 ELSE 0)
                        + (IF reply[c] # "none" THEN 1 ELSE 0) = 1
    BY DEF CallAccounted
  <2> DEFINE At == {i \in DOMAIN channel : channel[i] = c}
  <2>1. DOMAIN channel = 1..Len(channel)
    BY LenProperties DEF RequestsInv, RequestsTypeOK
  <2>2. CASE InChannel(c)
    <3>1. PICK i \in 1..Len(channel) : channel[i] = c
      BY <2>2 DEF InChannel
    <3>2. At = {i}
      BY <2>1, <3>1 DEF RequestsInv, OnePlace
    <3>3. Cardinality(At) = 1
      BY <3>2, FS_Singleton
    <3>4. c \notin pending /\ reply[c] = "none"
      BY <2>2 DEF RequestsInv, OnePlace
    <3> QED BY <3>3, <3>4
  <2>3. CASE ~InChannel(c)
    <3>1. At = {}
      BY <2>1, <2>3 DEF InChannel
    <3>2. Cardinality(At) = 0
      BY <3>1, FS_EmptySet
    <3>3. /\ c \in pending => reply[c] = "none"
          /\ c \in pending \/ reply[c] # "none"
      BY <2>3 DEF RequestsInv, OnePlace
    <3> QED BY <3>2, <3>3
  <2> QED BY <2>2, <2>3
<1> QED BY <1>1, RequestsCorrect, PTL

-----------------------------------------------------------------------------
(* The refinement: what a step does to the status of the calls. *)

\* A step that changes the status of one call is that change in CallService.
LEMMA OneAdvances ==
    ASSUME NEW c \in Callers, NEW to, SessionStatus' = SessionStatus,
           \A d \in Callers : CallStatus(d)' = IF d = c THEN to ELSE CallStatus(d)
    PROVE  Service!Advance(c, CallStatus(c), to)
BY DEF Service!Advance

\* A step that changes the status of no call is a stutter of CallService.
LEMMA NoneAdvances ==
    ASSUME SessionStatus' = SessionStatus,
           \A d \in Callers : CallStatus(d)' = CallStatus(d)
    PROVE  UNCHANGED Service!serviceVars
BY DEF Service!serviceVars

\* The status depends on no variable but these.
LEMMA SameStatus ==
    ASSUME NEW c \in Callers, UNCHANGED <<reply, pending, channel>>,
           call'[c] = call[c]
    PROVE  CallStatus(c)' = CallStatus(c)
BY DEF CallStatus, InChannel

\* Who is sent waits in the map, which is empty outside a session.
LEMMA StatusOfPlace ==
    ASSUME RequestsInv, NEW c \in Callers
    PROVE  /\ CallStatus(c) = "sent" <=> c \in pending
           /\ InChannel(c) => CallStatus(c) = "queued"
           /\ call[c] = "idle" => CallStatus(c) = "idle"
           /\ call[c] = "sending" => CallStatus(c) = "queued"
BY DEF RequestsInv, RequestsTypeOK, OnePlace, OwnAnswer, CallStatus

LEMMA CallerSteps ==
    ASSUME RequestsInv, NEW c \in Callers,
           CallStart(c) \/ CallSend(c) \/ CallReturns(c) \/ CallCancelled(c)
    PROVE  [Service!ServiceNext]_Service!serviceVars
<1> USE DEF callerVars, taskVars
<1>1. SessionStatus' = SessionStatus
  BY DEF CallStart, CallSend, CallReturns, CallCancelled, loopVars, SessionStatus
<1>2. \A d \in Callers \ {c} : call'[d] = call[d]
  BY DEF CallStart, CallSend, CallReturns, CallCancelled, RequestsInv, RequestsTypeOK
<1>3. /\ call[c] = "idle" => ~InChannel(c) /\ c \notin pending /\ reply[c] = "none"
      /\ call[c] = "sending" => ~InChannel(c) /\ c \notin pending /\ reply[c] = "none"
      /\ call[c] = "awaiting" => InChannel(c) \/ c \in pending \/ reply[c] # "none"
      /\ reply[c] \in {"none", "own", "foreign", "closed"}
  BY DEF RequestsInv, OnePlace, RequestsTypeOK
<1>4. CASE CallStart(c)
  <2>1. /\ UNCHANGED <<reply, pending, channel>> /\ call[c] = "idle"
        /\ call'[c] \in {"sending", "done"}
    BY <1>4 DEF CallStart, RequestsInv, RequestsTypeOK
  <2>2. CallStatus(c) = "idle" /\ CallStatus(c)' \in {"queued", "failed"}
    BY <1>3, <2>1 DEF CallStatus, InChannel
  <2>3. \A d \in Callers \ {c} : CallStatus(d)' = CallStatus(d)
    BY <1>2, <2>1, SameStatus
  <2>4. Service!Advance(c, "idle", CallStatus(c)')
    BY <1>1, <2>2, <2>3, OneAdvances
  <2> QED BY <2>2, <2>4 DEF Service!ServiceNext, Service!Ask, Service!Refuse
<1>5. CASE CallSend(c) /\ loop # "exited"
  <2>1. /\ UNCHANGED <<reply, pending>> /\ call[c] = "sending"
        /\ call'[c] = "awaiting" /\ channel' = Append(channel, c)
    BY <1>5 DEF CallSend, RequestsInv, RequestsTypeOK
  <2>2. /\ InChannel(c)'
        /\ \A d \in Callers \ {c} : InChannel(d)' <=> InChannel(d)
    BY <1>3, <2>1, PutsLast DEF RequestsInv
  <2>3. \A d \in Callers : CallStatus(d)' = CallStatus(d)
    BY <1>2, <1>3, <2>1, <2>2 DEF CallStatus
  <2> QED BY <1>1, <2>3, NoneAdvances
<1>6. CASE \/ CallSend(c) /\ loop = "exited"
           \/ CallCancelled(c) /\ call[c] = "sending"
  <2>1. /\ UNCHANGED <<reply, pending, channel>> /\ call[c] = "sending"
        /\ call'[c] \in {"done", "cancelled"}
    BY <1>6 DEF CallSend, CallCancelled, RequestsInv, RequestsTypeOK
  <2>2. CallStatus(c) = "queued" /\ CallStatus(c)' = "failed"
    BY <1>3, <2>1 DEF CallStatus, InChannel
  <2>3. \A d \in Callers \ {c} : CallStatus(d)' = CallStatus(d)
    BY <1>2, <2>1, SameStatus
  <2>4. Service!GiveUp(c)
    BY <1>1, <2>2, <2>3, OneAdvances DEF Service!GiveUp
  <2> QED BY <2>4 DEF Service!ServiceNext
<1>7. CASE \/ CallReturns(c)
           \/ CallCancelled(c) /\ call[c] # "sending"
  <2>1. /\ UNCHANGED <<reply, pending, channel>> /\ call[c] = "awaiting"
        /\ call'[c] \in {"done", "cancelled"}
    BY <1>7 DEF CallReturns, CallCancelled, RequestsInv, RequestsTypeOK
  <2>2. CallStatus(c)' = CallStatus(c)
    BY <1>3, <2>1 DEF CallStatus, InChannel
  <2>3. \A d \in Callers : CallStatus(d)' = CallStatus(d)
    BY <1>2, <2>1, <2>2, SameStatus
  <2> QED BY <1>1, <2>3, NoneAdvances
<1> QED BY <1>4, <1>5, <1>6, <1>7

\* The request arm sends the oldest request or gives it up.
LEMMA RequestArmSteps ==
    ASSUME RequestsInv, RequestArm
    PROVE  Service!ServiceNext
<1> USE DEF callerVars
<1>0. PICK h : h = Head(channel)
  OBVIOUS
<1>1. /\ h \in Callers /\ InChannel(h) /\ ~InChannel(h)'
      /\ \A d \in Callers \ {h} : InChannel(d)' <=> InChannel(d)
  BY <1>0, TakesOldest DEF RequestsInv
<1>2. SessionStatus = "up" /\ SessionStatus' = SessionStatus
  BY DEF RequestArm, loopVars, SessionStatus
<1>3. /\ UNCHANGED call
      /\ \/ pending' = pending \cup {h} /\ UNCHANGED reply
         \/ /\ UNCHANGED pending
            /\ reply' = [d \in Callers |-> IF d = h THEN "closed" ELSE reply[d]]
  BY <1>0 DEF RequestArm, Fail
<1>4. CallStatus(h) = "queued" /\ h \notin pending /\ reply[h] = "none"
  BY <1>1, StatusOfPlace DEF RequestsInv, OnePlace
<1>5. \A d \in Callers \ {h} : CallStatus(d)' = CallStatus(d)
  BY <1>1, <1>3 DEF CallStatus
<1>6. CallStatus(h)' \in {"sent", "failed"}
  BY <1>1, <1>3, <1>4 DEF CallStatus
<1>7. Service!Advance(h, "queued", CallStatus(h)')
  BY <1>1, <1>2, <1>4, <1>5, OneAdvances
<1>8. Service!Send(h) \/ Service!GiveUp(h)
  BY <1>2, <1>6, <1>7 DEF Service!Send, Service!GiveUp
<1> QED BY <1>1, <1>8 DEF Service!ServiceNext

\* A frame answers the one call that sent the request, or nobody: the late
\* answer to a request whose session was lost finds no entry.
LEMMA ReadArmSteps ==
    ASSUME RequestsInv, ReadArm
    PROVE  [Service!ServiceNext]_Service!serviceVars
<1> USE DEF callerVars
<1>1. SessionStatus = "up" /\ SessionStatus' = SessionStatus
  BY DEF ReadArm, loopVars, SessionStatus
<1>2. PICK m \in wire : Deliver(m)
  BY DEF ReadArm
<1>3. ws = "up" /\ loop # "resuming" /\ UNCHANGED <<call, channel>>
  BY DEF ReadArm
<1>4. \A c \in Callers :
        IF c \in pending /\ c \notin pending'
        THEN reply'[c] = "own"
        ELSE /\ c \in pending' <=> c \in pending
             /\ reply'[c] = reply[c]
             /\ c \in pending => Own(c) # m
  BY <1>2, <1>3, DeliverFacts DEF RequestsInv
<1>5. ASSUME NEW c \in Callers, ~(c \in pending /\ c \notin pending')
      PROVE  CallStatus(c)' = CallStatus(c)
  BY <1>3, <1>4, <1>5 DEF CallStatus, InChannel
<1>6. CASE \E c \in Callers : c \in pending /\ c \notin pending'
  <2>1. PICK c \in Callers : c \in pending /\ c \notin pending'
    BY <1>6
  <2>2. \A d \in pending : id[d] # 0
    BY DEF RequestsInv, RequestsTypeOK, IdsDistinct, OnePlace, Own
  <2>3. \A d \in Callers : d \in pending /\ d \notin pending' => id[d] = id[c]
    BY <1>2, <2>1 DEF Deliver
  <2>4. \A d \in Callers : d \in pending /\ d \notin pending' => d = c
    BY <2>1, <2>2, <2>3 DEF RequestsInv, IdsDistinct
  <2>5. CallStatus(c) = "sent" /\ CallStatus(c)' = "answered"
    BY <1>4, <2>1, StatusOfPlace DEF CallStatus
  <2>6. Service!Advance(c, "sent", "answered")
    BY <1>1, <1>5, <2>4, <2>5, OneAdvances
  <2> QED BY <1>1, <2>6 DEF Service!ServiceNext, Service!Answer
<1>7. CASE \A c \in Callers : ~(c \in pending /\ c \notin pending')
  BY <1>1, <1>5, <1>7, NoneAdvances
<1> QED BY <1>6, <1>7

\* The loss of a session fails what was sent in it, and nothing else.
LEMMA FailPendingSteps ==
    ASSUME RequestsInv, FailPendingRequests
    PROVE  Service!ServiceNext
<1> USE DEF callerVars
<1>1. SessionStatus = "up" /\ SessionStatus' = "down"
  BY DEF FailPendingRequests, FailPending, SessionStatus
<1>2. /\ pending' = {} /\ UNCHANGED <<call, channel>>
      /\ \A c \in Callers : reply'[c] = IF c \in pending THEN "closed" ELSE reply[c]
  BY DEF FailPendingRequests, Fail
<1>3. \A c \in Callers : CallStatus(c)' = IF CallStatus(c) = "sent" THEN "failed"
                                                                   ELSE CallStatus(c)
  <2> SUFFICES ASSUME NEW c \in Callers
               PROVE  CallStatus(c)' = IF c \in pending THEN "failed" ELSE CallStatus(c)
    BY StatusOfPlace
  <2> QED BY <1>2 DEF CallStatus, InChannel
<1>4. Service!FailAll(Service!In("sent"))
  BY <1>3 DEF Service!FailAll, Service!In
<1> QED BY <1>1, <1>4 DEF Service!ServiceNext, Service!Lose

\* The end fails what is still in the channel; the map is empty by then.
LEMMA CleanupSteps ==
    ASSUME RequestsInv, CleanupRequests
    PROVE  Service!ServiceNext
<1> USE DEF callerVars
<1> DEFINE cs == {c \in Callers : InChannel(c)}
<1>1. SessionStatus = "down" /\ SessionStatus' = "ended" /\ pending = {}
  BY DEF CleanupRequests, Cleanup, SessionStatus, RequestsInv, PendingCleared
<1>2. channel' = <<>> /\ pending' = {} /\ UNCHANGED call
  BY DEF CleanupRequests
<1>3. \A c \in Callers : ~InChannel(c)'
  BY <1>2 DEF InChannel
<1>4. \A c \in Callers : reply'[c] = IF InChannel(c) THEN "closed" ELSE reply[c]
  BY <1>1, LenProperties
     DEF CleanupRequests, Fail, InChannel, RequestsInv, RequestsTypeOK
<1>5. \A c \in Callers : CallStatus(c)' = IF c \in cs THEN "failed" ELSE CallStatus(c)
  BY <1>1, <1>2, <1>3, <1>4 DEF CallStatus
<1>6. Service!FailAll(cs)
  BY <1>5 DEF Service!FailAll
<1>7. cs \in SUBSET Service!In("queued")
  BY StatusOfPlace DEF Service!In
<1> QED BY <1>1, <1>6, <1>7 DEF Service!ServiceNext, Service!End

\* Reconnecting and resuming streams change the status of no call.
LEMMA ResumingSteps ==
    ASSUME RequestsInv, Reconnected \/ ResumeStep
    PROVE  [Service!ServiceNext]_Service!serviceVars
<1> USE DEF callerVars, taskVars, reqVars
<1>1. pending = {} /\ SessionStatus = "down"
  BY DEF Reconnected, ResumeStep, ResumeNext, ResumeReads, ResumeSocketLost,
         ResumeReturns, EstablishOk, Resumed, RequestsInv, PendingCleared, SessionStatus
<1>2. UNCHANGED <<call, channel, pending>>
      /\ \A c \in Callers : reply'[c] = reply[c]
  <2>1. CASE ResumeReads
    BY <1>1, <2>1 DEF ResumeReads, Deliver
  <2> QED BY <2>1 DEF Reconnected, ResumeStep, ResumeNext, ResumeSocketLost, ResumeReturns
<1>3. \A c \in Callers : CallStatus(c)' = CallStatus(c)
  BY <1>2 DEF CallStatus, InChannel
<1>4. CASE ResumeReturns
  <2>1. SessionStatus' = "up"
    BY <1>4 DEF ResumeReturns, Resumed, SessionStatus
  <2> QED BY <1>1, <1>3, <2>1 DEF Service!ServiceNext, Service!Open
<1>5. CASE Reconnected \/ ResumeNext \/ ResumeReads \/ ResumeSocketLost
  <2>1. SessionStatus' = SessionStatus
    BY <1>5 DEF Reconnected, ResumeNext, ResumeReads, ResumeSocketLost,
                EstablishOk, loopVars, SessionStatus
  <2> QED BY <1>3, <2>1, NoneAdvances
<1> QED BY <1>4, <1>5 DEF ResumeStep

\* The other steps leave the calls alone; a failed attempt to reconnect opens
\* a session on the socket that was given up.
LEMMA QuietSteps ==
    ASSUME RequestsInv, LeaveRequests \/ QuietStep \/ UNCHANGED requestsVars
    PROVE  [Service!ServiceNext]_Service!serviceVars
<1>1. UNCHANGED <<call, reply, channel, pending>>
  BY QuietFacts
<1>2. \A c \in Callers : CallStatus(c)' = CallStatus(c)
  BY <1>1, SameStatus
<1>3. \/ SessionStatus' = SessionStatus
      \/ SessionStatus = "down" /\ SessionStatus' = "up"
  <2>1. CASE LeaveRequests
    BY <2>1 DEF LeaveRequests, ShutdownArm, ConnectionLostArm, PongTimeoutArm,
                ChannelClosedArm, Leave, SessionStatus
  <2>2. CASE QuietStep
    BY <2>2 DEF QuietStep, DecideStep, StopLooping, GiveUp, StartReconnecting,
                BackoffElapsed, EstablishFails, PeerStep, PeerCloses, PeerSilent,
                PeerRecovers, ConnectReturns, Close, CancelToken,
                AnnounceShutdown, DropConnection, SessionStatus, userVars
  <2>3. CASE UNCHANGED requestsVars
    BY <2>3 DEF requestsVars, loopVars, SessionStatus
  <2> QED BY <2>1, <2>2, <2>3
<1> QED BY <1>2, <1>3, NoneAdvances DEF Service!ServiceNext, Service!Open

\* Requests implements CallService: no call is taken up again, no outcome is
\* changed, and every loss of a session fails exactly what was sent in it.
THEOREM CallsAreServed == RequestsSpec => ImplementsCallService
<1>1. RequestsInit => Service!ServiceInit
  <2> SUFFICES ASSUME RequestsInit PROVE Service!ServiceInit
    OBVIOUS
  <2>1. \A c \in Callers : CallStatus(c) = "idle"
    BY DEF RequestsInit, CallStatus, InChannel
  <2>2. SessionStatus = "up"
    BY DEF RequestsInit, LoopInit, SessionStatus
  <2> QED BY <2>1, <2>2 DEF Service!ServiceInit
<1>2. RequestsInv /\ [RequestsNext]_requestsVars
        => [Service!ServiceNext]_Service!serviceVars
  BY CallerSteps, RequestArmSteps, ReadArmSteps, FailPendingSteps, CleanupSteps,
     ResumingSteps, QuietSteps DEF RequestsNext
<1> QED BY <1>1, <1>2, RequestsCorrect, PTL
        DEF RequestsSpec, ImplementsCallService, Service!ServiceSpec
=============================================================================
