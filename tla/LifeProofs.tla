------------------------------ MODULE LifeProofs ------------------------------
(***************************************************************************)
(* StreamResumption implements StreamLife, for every set of streams and    *)
(* any number of reconnections, if the server does not reuse ids; and what *)
(* follows for slots.                                                      *)
(***************************************************************************)
EXTENDS ResumptionProofs

\* Nobody stops a stream before the flag that says so.
StopIsFlagged ==
    \A s \in Streams : handle[s] \in Stopping \cup {"closed"} => stopped_flag[s]

\* The stop of a stream that is being given its new id does not get through:
\* it needs the task, or the lock, to be rid of its first id.
RemapHoldsStop ==
    loop = "remapping" =>
        LET s == current[2] IN
        \/ handle[s] \in {"open", "flagged", "loaded"}
        \/ handle[s] = "stopping" /\ ids[s] # <<>>

LifeInv == ResumptionInv /\ StopIsFlagged /\ RemapHoldsStop

-----------------------------------------------------------------------------
(* The invariant. *)

LEMMA InitLife == Init => LifeInv
<1> SUFFICES ASSUME Init PROVE LifeInv
  OBVIOUS
<1>1. ResumptionInv
  BY ResumptionInit
<1> QED BY <1>1 DEF LifeInv, Init, StopIsFlagged, RemapHoldsStop, Stopping

\* Only StopFlag begins a stop, and no step takes a flag back.
LEMMA FlagStep ==
    ASSUME TypeInv, TypeInv', StopIsFlagged, [Next]_vars
    PROVE  StopIsFlagged'
<1> USE DEF serverVars, resumeVars, stopVars, sharedVars, handleVars
<1> DEFINE Flagging(s) ==
             /\ stopped_flag[s] => stopped_flag'[s]
             /\ handle'[s] \in Stopping \cup {"closed"} =>
                   handle[s] \in Stopping \cup {"closed"} \/ stopped_flag'[s]
<1> SUFFICES ASSUME NEW s \in Streams PROVE Flagging(s)
  BY DEF StopIsFlagged
<1>1. CASE Reads
  BY <1>1, ReadCases
     DEF ReadsEnd, ReadsStarted, ReadsRefused, ReadsStopped, ReadsForNobody,
         EndEntry, OnEnd, StartAnswered, StartRefused, Stopping, TypeInv, ResumptionTypeOK
<1>2. CASE Disconnected
  BY <1>2, DisconnectedHandles DEF Disconnected, Stopping
<1>3. CASE UNCHANGED <<handle, stopped_flag>>
  BY <1>3
<1>4. CASE UNCHANGED handle /\ \E ss : OnEnd(ss)
  BY <1>4 DEF OnEnd
<1>5. CASE StartStep
  BY <1>5 DEF StartStep, RequestStart, Register, Stopping, TypeInv, ResumptionTypeOK
<1>6. CASE StopStep
  <2>1. ASSUME NEW t \in Streams, StopFlag(t) PROVE Flagging(s)
    BY <2>1 DEF StopFlag, TypeInv, ResumptionTypeOK
  <2>2. ASSUME NEW t \in Streams,
               \/ LoadFirst(t) \/ LoadSecond(t) \/ StopSend(t) \/ StopSendFails(t)
               \/ Unregister(t) \/ StopReleases(t)
        PROVE  Flagging(s)
    <3>1. /\ handle[t] \in Stopping /\ UNCHANGED stopped_flag
          /\ \A u \in Streams : u # t => handle'[u] = handle[u]
      BY <2>2 DEF LoadFirst, LoadSecond, StopSend, StopSendFails, Unregister,
                  StopReleases, Stopping, TypeInv, ResumptionTypeOK
    <3> QED BY <3>1
  <2> QED BY <1>6, <2>1, <2>2 DEF StopStep
<1>7. CASE TaskStep
  BY <1>1, <1>2, <1>3, <1>4, <1>7
     DEF TaskStep, ResumeStep, Reads, LoopEnds, EstablishOk, EstablishFails, ResumeSkip,
         ResumeSend, ResumeSendFails, ResumeRefused, ResumeUnwanted, ResumeAccepted,
         Remap, ResumeAborted, ResumeReturns, EndEntry
<1>8. CASE ServerStep \/ UNCHANGED vars
  BY <1>3, <1>8 DEF ServerStep, SessionDies, ServerEnds, vars
<1> QED BY <1>5, <1>6, <1>7, <1>8 DEF Next

LEMMA RemapStep ==
    ASSUME ResumptionInv, TypeInv', StopIsFlagged, RemapHoldsStop, [Next]_vars
    PROVE  RemapHoldsStop'
<1> USE DEF serverVars, resumeVars, stopVars, sharedVars, handleVars
<1>t. TypeInv /\ \A s \in Streams : s # NoStream
  BY StreamResumptionAssumption DEF ResumptionInv, StreamResumptionAssumption
<1>1. CASE Reads
  BY <1>t, <1>1, ReadCases DEF Reads, ReadArm, ResumeReadsOther, RemapHoldsStop
<1>2. CASE loop' # "remapping"
  BY <1>2 DEF RemapHoldsStop
<1>3. CASE UNCHANGED <<loop, current, handle, ids>>
  BY <1>3 DEF RemapHoldsStop
<1>4. CASE ResumeAccepted
  <2>1. PICK s : s = resumable_streams[current[1]]
    OBVIOUS
  <2>2. /\ s \in Streams /\ InUse(s) /\ ~stopped_flag[s]
        /\ current'[2] = s /\ UNCHANGED <<handle, ids>>
    BY <1>t, <1>4, <2>1 DEF ResumeAccepted, TypeInv, TableFields, ResumptionTypeOK
  <2>3. handle[s] = "open"
    BY <1>t, <2>2 DEF StopIsFlagged, InUse, NotYetOpen, TypeInv, ResumptionTypeOK
  <2> QED BY <2>2, <2>3 DEF RemapHoldsStop
<1>5. CASE StartStep \/ StopStep
  <2> SUFFICES ASSUME loop' = "remapping" PROVE RemapHoldsStop'
    BY <1>2
  <2>1. loop = "remapping" /\ UNCHANGED <<loop, current>>
    BY <1>5 DEF StartStep, RequestStart, Register, StopStep, StopFlag, LoadFirst,
                LoadSecond, StopSend, StopSendFails, Unregister, StopReleases, LockFree
  <2>2. PICK s : s = current[2]
    OBVIOUS
  <2>3. s \in Streams /\ InUse(s)
    BY <1>t, <2>1, <2>2 DEF TypeInv, TableFields
  <2>4. \/ handle[s] \in {"open", "flagged", "loaded"}
        \/ handle[s] = "stopping" /\ ids[s] # <<>>
    BY <2>1, <2>2 DEF RemapHoldsStop
  <2>5. ASSUME NEW t \in Streams,
               \/ RequestStart(t) \/ Register(t) \/ StopFlag(t) \/ LoadFirst(t)
               \/ StopSend(t) \/ StopSendFails(t) \/ Unregister(t) \/ StopReleases(t)
        PROVE  \/ handle'[s] \in {"open", "flagged", "loaded"}
               \/ handle'[s] = "stopping" /\ ids'[s] # <<>>
    BY <1>t, <2>1, <2>3, <2>4, <2>5
       DEF RequestStart, Register, StopFlag, LoadFirst, StopSend, StopSendFails,
           Unregister, StopReleases, LockFree, TypeInv, ResumptionTypeOK
  <2>6. ASSUME NEW t \in Streams, LoadSecond(t)
        PROVE  \/ handle'[s] \in {"open", "flagged", "loaded"}
               \/ handle'[s] = "stopping" /\ ids'[s] # <<>>
    <3>1. CASE t # s
      BY <1>t, <2>3, <2>4, <2>6, <3>1 DEF LoadSecond, TypeInv, ResumptionTypeOK
    <3>2. CASE t = s
      <4> DEFINE one == PushNew(ids[s], effective_id[s])
                 two == PushNew(one, stream_id[s])
      <4>1. effective_id[s] \in Ids /\ stream_id[s] \in Ids
            /\ ids[s] \in Seq(Ids) /\ IsInjective(ids[s])
        BY <1>t, <2>3, <2>6, <3>2, OpenIds DEF LoadSecond, TypeInv, ResumptionTypeOK
      <4>2. one \in Seq(Ids) /\ IsInjective(one)
        BY <4>1, PushNewTyped
      <4>3. stream_id[s] \in Range(two)
        BY <4>1, <4>2, PushNewTyped
      <4>4. two # <<>>
        BY <4>3 DEF Range
      <4>5. handle'[s] = "stopping" /\ ids'[s] = two
        BY <1>t, <2>3, <2>6, <3>2 DEF LoadSecond, TypeInv, ResumptionTypeOK
      <4> QED BY <4>4, <4>5
    <3> QED BY <3>1, <3>2
  <2> QED BY <1>5, <2>1, <2>2, <2>5, <2>6 DEF StartStep, StopStep, RemapHoldsStop
<1>6. CASE TaskStep
  BY <1>1, <1>2, <1>4, <1>6
     DEF TaskStep, ResumeStep, Reads, Disconnected, LoopEnds, EstablishOk, EstablishFails,
         ResumeSkip, ResumeSend, ResumeSendFails, ResumeRefused, ResumeUnwanted,
         Remap, ResumeAborted, ResumeReturns, NextStream
<1>7. CASE ServerStep \/ UNCHANGED vars
  BY <1>3, <1>7 DEF ServerStep, SessionDies, ServerEnds, vars
<1> QED BY <1>5, <1>6, <1>7 DEF Next

LEMMA LifeStep ==
    ASSUME FreshIds, LifeInv, [Next]_vars
    PROVE  LifeInv'
<1>1. ResumptionInv'
  BY ResumptionStep DEF LifeInv
<1> QED BY <1>1, FlagStep, RemapStep DEF LifeInv, ResumptionInv

-----------------------------------------------------------------------------
(* The mapping, stream by stream. *)

\* The entry of a stream is at its effective id, wherever it is looked for.
LEMMA ReachableAt ==
    ASSUME TypeInv, EntryIsEffective, NEW s \in Streams
    PROVE  Reachable(s) <=> \/ \E i \in Ids : resumable_streams[i] = s
                            \/ loop = "remapping" /\ current[2] = s
<1>1. s # NoStream
  BY StreamResumptionAssumption DEF StreamResumptionAssumption
<1> QED BY <1>1 DEF Reachable, Snapshot, EntryIsEffective

LEMMA ReachableAtNext ==
    ASSUME TypeInv', EntryIsEffective', NEW s \in Streams
    PROVE  Reachable(s)' <=> \/ \E i \in Ids : resumable_streams'[i] = s
                             \/ loop' = "remapping" /\ current'[2] = s
<1>1. s # NoStream
  BY StreamResumptionAssumption DEF StreamResumptionAssumption
<1> QED BY <1>1 DEF Reachable, Snapshot, EntryIsEffective

SameLife == \A s \in Streams : Life(s)' = Life(s)
SameReach == \A s \in Streams : Reachable(s)' <=> Reachable(s)

LEMMA LifeUnchanged ==
    ASSUME UNCHANGED <<handle, stopped_flag>>
    PROVE  SameLife
BY DEF SameLife, Life

LEMMA ReachUnchanged ==
    ASSUME LifeInv, LifeInv', UNCHANGED resumable_streams,
           loop # "remapping", loop' # "remapping"
    PROVE  SameReach
<1>1. TypeInv /\ EntryIsEffective /\ TypeInv' /\ EntryIsEffective'
  BY DEF LifeInv, ResumptionInv
<1> QED BY <1>1, ReachableAt, ReachableAtNext DEF SameReach

LEMMA Unseen ==
    ASSUME SameLife, SameReach, UNCHANGED <<effective_id, slot_released>>
    PROVE  UNCHANGED Lives!lifeVars
<1>1. UNCHANGED [s \in Streams |-> Life(s)]
  BY DEF SameLife
<1>2. UNCHANGED {s \in Streams : Reachable(s)}
  BY DEF SameReach
<1> QED BY <1>1, <1>2 DEF Lives!lifeVars

\* The streams ss become l, all others stay what they are.
LEMMA Becoming ==
    ASSUME NEW ss \in SUBSET Streams, NEW l,
           \A s \in Streams : Life(s)' = IF s \in ss THEN l ELSE Life(s)
    PROVE  Lives!Become(ss, l)
BY DEF Lives!Become

-----------------------------------------------------------------------------
(* What a step of the code is for StreamLife. *)

LifeStutters == UNCHANGED Lives!lifeVars

\* on_end of the streams ss, whose entries go.
LEMMA StreamsEnd ==
    ASSUME NEW ss \in SUBSET Streams,
           \A s \in ss : Reachable(s),
           \A s \in Streams : Reachable(s)' <=> Reachable(s) /\ s \notin ss,
           \A s \in Streams :
              /\ stopped_flag'[s] = (stopped_flag[s] \/ s \in ss)
              /\ slot_released'[s] = (slot_released[s] \/ s \in ss),
           UNCHANGED <<handle, effective_id>>
    PROVE  Lives!End(ss)
<1>1. \A s \in Streams :
         Life(s)' = IF s \in ss /\ Life(s) = "open" THEN "ended" ELSE Life(s)
  BY DEF Life, Stopping
<1>2. Lives!Become(ss \cap Lives!In("open"), "ended")
  BY <1>1 DEF Lives!Become, Lives!In
<1>3. {s \in Streams : Reachable(s)}' = {s \in Streams : Reachable(s)} \ ss
  OBVIOUS
<1>4. {s \in Streams : slot_released[s]}' = {s \in Streams : slot_released[s]} \cup ss
  OBVIOUS
<1>5. ss \subseteq {s \in Streams : Reachable(s)}
  OBVIOUS
<1> QED BY <1>2, <1>3, <1>4, <1>5 DEF Lives!End

LEMMA EndEntryEnds ==
    ASSUME LifeInv, LifeInv', NEW i \in Ids, EndEntry(i), UNCHANGED handle,
           loop # "remapping", loop' # "remapping"
    PROVE  [Lives!LifeNext]_Lives!lifeVars
<1>1. /\ TypeInv /\ EntryIsEffective /\ TypeInv' /\ EntryIsEffective'
      /\ NoStream \notin Streams
  BY StreamResumptionAssumption
     DEF StreamResumptionAssumption, LifeInv, ResumptionInv
<1>2. PICK ss : ss = {s \in Streams : s = resumable_streams[i]}
  OBVIOUS
<1>3. /\ ss \subseteq Streams /\ \A s \in ss : Reachable(s)
      /\ \A s \in Streams : s \in ss <=> s = resumable_streams[i]
  BY <1>1, <1>2, ReachableAt
<1>4. \A j \in Ids : resumable_streams'[j] = IF j = i THEN NoStream ELSE resumable_streams[j]
  BY <1>1 DEF EndEntry, TypeInv, ResumptionTypeOK
<1>5. \A s \in ss, j \in Ids : resumable_streams[j] = s => j = i
  BY <1>1, <1>3 DEF EntryIsEffective
<1>6. \A s \in Streams : Reachable(s)' <=> Reachable(s) /\ s \notin ss
  BY <1>1, <1>3, <1>4, <1>5, ReachableAt, ReachableAtNext
<1>7. /\ UNCHANGED <<handle, effective_id>>
      /\ \A s \in Streams :
            /\ stopped_flag'[s] = (stopped_flag[s] \/ s \in ss)
            /\ slot_released'[s] = (slot_released[s] \/ s \in ss)
  BY <1>3 DEF EndEntry, OnEnd
<1>8. Lives!End(ss)
  BY <1>3, <1>6, <1>7, StreamsEnd
<1> QED BY <1>3, <1>8 DEF Lives!LifeNext

\* The end of the task ends whatever is left in the table.
LEMMA LoopEndsEnds ==
    ASSUME LifeInv, LifeInv', LoopEnds
    PROVE  Lives!LifeNext
<1>1. /\ TypeInv /\ EntryIsEffective /\ TypeInv' /\ EntryIsEffective'
      /\ NoStream \notin Streams
  BY StreamResumptionAssumption
     DEF StreamResumptionAssumption, LifeInv, ResumptionInv
<1>2. PICK ss : ss = {s \in Streams : Registered(s)}
  OBVIOUS
<1>3. /\ ss \subseteq Streams
      /\ \A s \in Streams : s \in ss <=> \E i \in Ids : resumable_streams[i] = s
  BY <1>1, <1>2, RegisteredAt
<1>4. /\ UNCHANGED <<handle, effective_id>>
      /\ loop # "remapping" /\ loop' # "remapping"
      /\ \A i \in Ids : resumable_streams'[i] = NoStream
      /\ \A s \in Streams :
            /\ stopped_flag'[s] = (stopped_flag[s] \/ s \in ss)
            /\ slot_released'[s] = (slot_released[s] \/ s \in ss)
  BY <1>1, <1>2 DEF LoopEnds, OnEnd, Nowhere, Registered, handleVars
<1>5. /\ \A s \in ss : Reachable(s)
      /\ \A s \in Streams : Reachable(s)' <=> Reachable(s) /\ s \notin ss
  BY <1>1, <1>3, <1>4, ReachableAt, ReachableAtNext
<1>6. Lives!End(ss)
  BY <1>3, <1>4, <1>5, StreamsEnd
<1> QED BY <1>3, <1>6 DEF Lives!LifeNext

\* The streams ss get no stream, and their slots back.
LEMMA StreamsRefused ==
    ASSUME NEW ss \in SUBSET Streams, \A s \in ss : handle[s] = "requesting",
           \A s \in Streams :
              /\ Life(s)' = IF s \in ss THEN "failed" ELSE Life(s)
              /\ slot_released'[s] = (slot_released[s] \/ s \in ss),
           SameReach, UNCHANGED effective_id
    PROVE  Lives!LifeNext
<1>1. Lives!Become(ss, "failed")
  BY Becoming
<1>2. ss \subseteq Lives!In("requesting")
  BY DEF Lives!In, Life, Stopping
<1>3. UNCHANGED {s \in Streams : Reachable(s)}
  BY DEF SameReach
<1>4. {s \in Streams : slot_released[s]}' = {s \in Streams : slot_released[s]} \cup ss
  OBVIOUS
<1>5. Lives!Refuse(ss)
  BY <1>1, <1>2, <1>3, <1>4 DEF Lives!Refuse
<1> QED BY <1>5 DEF Lives!LifeNext

\* Stream s goes its way; tracking, ids and slots stay.
LEMMA MovesOn ==
    ASSUME NEW s \in Streams, NEW l,
           \A t \in Streams : Life(t)' = IF t = s THEN l ELSE Life(t),
           SameReach, UNCHANGED <<effective_id, slot_released>>
    PROVE  /\ Lives!Become({s}, l)
           /\ UNCHANGED <<effective_id, {t \in Streams : Reachable(t)},
                          {t \in Streams : slot_released[t]}>>
<1>1. Lives!Become({s}, l)
  BY Becoming
<1>2. UNCHANGED {t \in Streams : Reachable(t)}
  BY DEF SameReach
<1> QED BY <1>1, <1>2

LEMMA RequestStartAsks ==
    ASSUME LifeInv, LifeInv', NEW s \in Streams, RequestStart(s)
    PROVE  Lives!LifeNext
<1> USE DEF serverVars, resumeVars, stopVars, sharedVars, handleVars
<1>1. handle \in [Streams -> Stopping \cup {"idle", "requesting", "answered",
                                             "open", "closed", "failed"}]
  BY DEF LifeInv, ResumptionInv, TypeInv, ResumptionTypeOK
<1>2. /\ Life(s) = "idle"
      /\ \A t \in Streams : Life(t)' = IF t = s THEN "requesting" ELSE Life(t)
  BY <1>1 DEF RequestStart, Life, Stopping
<1>3. SameReach
  BY ReachUnchanged DEF RequestStart
<1>4. Lives!Ask(s)
  BY <1>2, <1>3, MovesOn DEF RequestStart, Lives!Ask
<1> QED BY <1>4 DEF Lives!LifeNext

\* The entry replaces nothing: an id belongs to one stream.
LEMMA RegisterTracks ==
    ASSUME LifeInv, LifeInv', NEW s \in Streams, Register(s)
    PROVE  Lives!LifeNext
<1> USE DEF serverVars, resumeVars, stopVars, sharedVars, handleVars
<1>1. /\ TypeInv /\ EntryIsEffective /\ TypeInv' /\ EntryIsEffective'
      /\ NoStream \notin Streams
  BY StreamResumptionAssumption
     DEF StreamResumptionAssumption, LifeInv, ResumptionInv
<1>2. /\ stream_id[s] \in Ids /\ effective_id[s] = stream_id[s] /\ ~stopped_flag[s]
      /\ handle[s] = "answered" /\ loop # "remapping" /\ loop' = loop
  BY <1>1, OpenIds DEF Register, LockFree, LifeInv, ResumptionInv, FlagFollowsUse, NotYetOpen
<1>3. /\ \A i \in Ids : resumable_streams'[i] =
            IF i = stream_id[s] THEN s ELSE resumable_streams[i]
      /\ \A t \in Streams : handle'[t] = IF t = s THEN "open" ELSE handle[t]
      /\ UNCHANGED <<stopped_flag, effective_id, slot_released>>
  BY <1>1, <1>2 DEF Register, TypeInv, ResumptionTypeOK
<1>4. resumable_streams[stream_id[s]] = NoStream
  <2> SUFFICES ASSUME resumable_streams[stream_id[s]] # NoStream PROVE FALSE
    OBVIOUS
  <2>1. PICK t \in Streams : resumable_streams[stream_id[s]] = t
    BY <1>1, <1>2 DEF TypeInv, ResumptionTypeOK
  <2>2. effective_id[t] = stream_id[s] /\ InUse(t)
    BY <1>1, <1>2, <2>1 DEF EntryIsEffective, TypeInv, TableFields
  <2>3. stream_id[s] # 0 /\ stream_id[s] \in Knows(s) /\ stream_id[s] \in Knows(t)
    BY <1>2, <2>2, StreamResumptionAssumption
       DEF Knows, Ids, StreamResumptionAssumption
  <2>4. s = t
    BY <2>3 DEF LifeInv, ResumptionInv, IdsOwned
  <2> QED BY <1>2, <2>2, <2>4 DEF InUse, NotYetOpen
<1>5. \A t \in Streams : Reachable(t)' <=> Reachable(t) \/ t = s
  BY <1>1, <1>2, <1>3, <1>4, ReachableAt, ReachableAtNext
<1>6. /\ Life(s) = "answered"
      /\ \A t \in Streams : Life(t)' = IF t = s THEN "open" ELSE Life(t)
  BY <1>2, <1>3 DEF Life, Stopping
<1>7. Lives!Become({s}, "open")
  BY <1>6, Becoming
<1>8. {t \in Streams : Reachable(t)}' = {t \in Streams : Reachable(t)} \cup {s}
  BY <1>5
<1>9. Lives!Track(s)
  BY <1>3, <1>6, <1>7, <1>8 DEF Lives!Track
<1> QED BY <1>9 DEF Lives!LifeNext

\* The id of an answer is new to every stream.
LEMMA ReadsStartedAccepts ==
    ASSUME LifeInv, LifeInv', Reads, NEW s \in Streams, ReadsStarted(Head(down), s)
    PROVE  Lives!LifeNext
<1> USE DEF serverVars, resumeVars, stopVars, sharedVars, handleVars
<1>1. TypeInv /\ DownTyped /\ AnswersFresh
  BY DEF LifeInv, ResumptionInv, TypeInv, ResumptionTypeOK, DownTyped
<1>2. PICK m : m = Head(down)
  OBVIOUS
<1>3. down # <<>> /\ UNCHANGED <<loop, current>> /\ loop # "remapping"
  BY <1>1, ReadCases DEF Reads, ReadArm, ResumeReadsOther
<1>4. m.kind = "started" /\ m.id \in Ids /\ m.id # 0
  BY <1>1, <1>2, <1>3, HeadTyped, IdNotZero DEF ReadsStarted
<1>5. 1 \in 1..Len(down) /\ down[1] = m
  BY <1>1, <1>2, <1>3, DownTail, HeadTailProperties, EmptySeq DEF DownTyped
<1>6. \A t \in Streams : effective_id[t] # m.id
  BY <1>1, <1>4, <1>5 DEF AnswersFresh, Known, Knows
<1>7. /\ handle[s] = "requesting" /\ UNCHANGED <<resumable_streams, stopped_flag, slot_released>>
      /\ effective_id' = [effective_id EXCEPT ![s] = m.id]
      /\ \A t \in Streams : handle'[t] = IF t = s THEN "answered" ELSE handle[t]
  BY <1>1, <1>2 DEF ReadsStarted, StartAnswered, TypeInv, ResumptionTypeOK
<1>8. /\ Life(s) = "requesting"
      /\ \A t \in Streams : Life(t)' = IF t = s THEN "answered" ELSE Life(t)
  BY <1>7 DEF Life, Stopping
<1>9. SameReach
  BY <1>3, <1>7, ReachUnchanged
<1>10. UNCHANGED {t \in Streams : Reachable(t)}
  BY <1>9 DEF SameReach
<1>11. Lives!Become({s}, "answered")
  BY <1>8, Becoming
<1>12. Lives!GetsId(s)
  BY <1>4, <1>6, <1>7 DEF Lives!GetsId
<1>13. Lives!Accept(s)
  BY <1>7, <1>8, <1>10, <1>11, <1>12 DEF Lives!Accept
<1> QED BY <1>13 DEF Lives!LifeNext

LEMMA ReadsRefine ==
    ASSUME LifeInv, LifeInv', Reads
    PROVE  [Lives!LifeNext]_Lives!lifeVars
<1> USE DEF serverVars, resumeVars, stopVars, sharedVars, handleVars
<1>1. TypeInv /\ DownTyped
  BY DEF LifeInv, ResumptionInv, TypeInv, ResumptionTypeOK, DownTyped
<1>2. down # <<>> /\ UNCHANGED <<loop, current>> /\ loop # "remapping"
  BY <1>1, ReadCases DEF Reads, ReadArm, ResumeReadsOther
<1>3. CASE ReadsEnd(Head(down))
  <2>1. Head(down).id \in Ids
    BY <1>1, <1>2, <1>3, HeadTyped, IdNotZero DEF ReadsEnd
  <2> QED BY <1>2, <1>3, <2>1, EndEntryEnds DEF ReadsEnd
<1>4. ASSUME NEW s \in Streams, ReadsRefused(Head(down), s) PROVE Lives!LifeNext
  <2>1. /\ handle[s] = "requesting"
        /\ \A t \in Streams :
              /\ handle'[t] = IF t = s THEN "failed" ELSE handle[t]
              /\ slot_released'[t] = (slot_released[t] \/ t \in {s})
        /\ UNCHANGED <<resumable_streams, effective_id, stopped_flag>>
    BY <1>1, <1>4 DEF ReadsRefused, StartRefused, TypeInv, ResumptionTypeOK
  <2>2. \A t \in Streams : Life(t)' = IF t \in {s} THEN "failed" ELSE Life(t)
    BY <2>1 DEF Life, Stopping
  <2>3. SameReach
    BY <1>2, <2>1, ReachUnchanged
  <2>4. PICK ss : ss = {s}
    OBVIOUS
  <2> QED BY <2>1, <2>2, <2>3, <2>4, StreamsRefused
<1>5. ASSUME NEW s \in Streams, ReadsStopped(Head(down), s) PROVE LifeStutters
  <2>1. /\ \A t \in Streams :
              handle'[t] = handle[t] \/ {handle[t], handle'[t]} \subseteq Stopping
        /\ UNCHANGED sharedVars
    BY <1>1, <1>5 DEF ReadsStopped, Stopping, TypeInv, ResumptionTypeOK
  <2>2. SameLife
    BY <2>1 DEF SameLife, Life
  <2> QED BY <1>2, <2>1, <2>2, ReachUnchanged, Unseen DEF LifeStutters
<1>6. CASE ReadsForNobody(Head(down))
  BY <1>2, <1>6, LifeUnchanged, ReachUnchanged, Unseen DEF ReadsForNobody
<1> QED BY <1>1, ReadCases, <1>3, <1>4, <1>5, <1>6, ReadsStartedAccepts DEF LifeStutters

LEMMA DisconnectedRefuses ==
    ASSUME LifeInv, LifeInv', Disconnected
    PROVE  Lives!LifeNext
<1> USE DEF serverVars, resumeVars, stopVars, sharedVars, handleVars
<1>1. PICK ss : ss = {s \in Streams : handle[s] = "requesting"}
  OBVIOUS
<1>2. /\ \A s \in Streams : slot_released'[s] = (slot_released[s] \/ s \in ss)
      /\ UNCHANGED <<resumable_streams, effective_id, stopped_flag>>
      /\ loop # "remapping" /\ loop' # "remapping"
  BY <1>1 DEF Disconnected
<1>3. \A s \in Streams : Life(s)' = IF s \in ss THEN "failed" ELSE Life(s)
  BY <1>1, <1>2, DisconnectedHandles DEF Life, Stopping
<1>4. SameReach
  BY <1>2, ReachUnchanged
<1> QED BY <1>1, <1>2, <1>3, <1>4, StreamsRefused

\* The task has the stream in hand.
LEMMA ResumeAcceptedStutters ==
    ASSUME LifeInv, LifeInv', ResumeAccepted
    PROVE  LifeStutters
<1> USE DEF serverVars, resumeVars, stopVars, sharedVars, handleVars
<1>1. /\ TypeInv /\ EntryIsEffective /\ TypeInv' /\ EntryIsEffective'
      /\ NoStream \notin Streams
  BY StreamResumptionAssumption
     DEF StreamResumptionAssumption, LifeInv, ResumptionInv
<1>2. PICK s, i : s = resumable_streams[current[1]] /\ i = current[1]
  OBVIOUS
<1>3. /\ i \in Ids /\ resumable_streams[i] = s /\ s # NoStream
      /\ loop # "remapping" /\ loop' = "remapping" /\ current'[2] = s
      /\ UNCHANGED <<handle, stopped_flag, effective_id, slot_released>>
      /\ \A j \in Ids : resumable_streams'[j] = IF j = i THEN NoStream ELSE resumable_streams[j]
  BY <1>1, <1>2 DEF ResumeAccepted, TypeInv, ResumptionTypeOK
<1>4. SameReach
  BY <1>1, <1>3, ReachableAt, ReachableAtNext DEF SameReach
<1> QED BY <1>3, <1>4, LifeUnchanged, Unseen DEF LifeStutters

\* The stream in hand is in the table again, and its handle knows where.
LEMMA RemapMoves ==
    ASSUME LifeInv, LifeInv', Remap
    PROVE  Lives!LifeNext
<1> USE DEF serverVars, resumeVars, stopVars, sharedVars, handleVars
<1>1. /\ TypeInv /\ EntryIsEffective /\ TypeInv' /\ EntryIsEffective'
      /\ NoStream \notin Streams
  BY StreamResumptionAssumption
     DEF StreamResumptionAssumption, LifeInv, ResumptionInv
<1>2. PICK s : s = current[2]
  OBVIOUS
<1>3. /\ loop = "remapping" /\ loop' = "resuming"
      /\ s \in Streams /\ <<current[1], s>> = current /\ current[1] \in Ids
      /\ new_id \in Ids
  BY <1>1, <1>2, StreamResumptionAssumption
     DEF Remap, NextStream, TypeInv, ResumptionTypeOK, Ids, StreamResumptionAssumption
<1>4. /\ effective_id' = [effective_id EXCEPT ![s] = new_id]
      /\ \A i \in Ids : resumable_streams'[i] = IF i = new_id THEN s ELSE resumable_streams[i]
      /\ UNCHANGED <<handle, stopped_flag, slot_released>>
  BY <1>1, <1>2, <1>3 DEF Remap, TypeInv, ResumptionTypeOK
<1>5. \A t \in Streams : effective_id[t] # new_id
  BY <1>3, StreamResumptionAssumption
     DEF LifeInv, ResumptionInv, AnswersFresh, Known, Knows, Ids, StreamResumptionAssumption
<1>6. resumable_streams[new_id] = NoStream
  BY <1>1, <1>3, <1>5 DEF EntryIsEffective, TypeInv, ResumptionTypeOK
<1>7. SameReach
  BY <1>1, <1>2, <1>3, <1>4, <1>6, ReachableAt, ReachableAtNext DEF SameReach
<1>8. UNCHANGED {t \in Streams : Reachable(t)} /\ Reachable(s)
  BY <1>1, <1>2, <1>3, <1>7, ReachableAt DEF SameReach
<1>9. handle[s] = "open" => ~stopped_flag[s]
  <2>1. <<current[1], s>> \in Pending
    BY <1>3 DEF Pending
  <2> QED BY <1>3, <2>1 DEF LifeInv, ResumptionInv, PendingPairs, PendingPair
<1>10. Life(s) \in {"open", "stopping"}
  BY <1>2, <1>3, <1>9 DEF LifeInv, RemapHoldsStop, Life, Stopping
<1>11. SameLife
  BY <1>4, LifeUnchanged
<1>12. UNCHANGED [t \in Streams |-> Life(t)]
  BY <1>11 DEF SameLife
<1>13. Lives!GetsId(s)
  BY <1>3, <1>4, <1>5 DEF Lives!GetsId
<1>14. Lives!Move(s)
  BY <1>3, <1>4, <1>8, <1>10, <1>12, <1>13 DEF Lives!Move
<1> QED BY <1>3, <1>14 DEF Lives!LifeNext

\* Entries are resumed, ended or left where they are.
LEMMA ResumeStepRefines ==
    ASSUME LifeInv, LifeInv', ResumeStep
    PROVE  [Lives!LifeNext]_Lives!lifeVars
<1> USE DEF serverVars, resumeVars, stopVars, sharedVars, handleVars
<1>1. TypeInv
  BY DEF LifeInv, ResumptionInv
<1>2. ASSUME NEW i \in Ids, NEW s \in Streams, ResumeSkip(i, s) \/ ResumeSendFails(i, s)
      PROVE  [Lives!LifeNext]_Lives!lifeVars
  BY <1>2, EndEntryEnds DEF ResumeSkip, ResumeSendFails
<1>3. CASE ResumeRefused \/ ResumeUnwanted
  <2>1. /\ current[1] \in Ids /\ EndEntry(current[1]) /\ UNCHANGED handle
        /\ loop # "remapping" /\ loop' # "remapping"
    BY <1>1, <1>3 DEF ResumeRefused, ResumeUnwanted, NextStream, TypeInv
  <2> QED BY <2>1, EndEntryEnds
<1>4. ASSUME NEW i \in Ids, NEW s \in Streams, ResumeSend(i, s) PROVE LifeStutters
  BY <1>4, LifeUnchanged, ReachUnchanged, Unseen DEF ResumeSend, LifeStutters
<1>5. CASE ResumeAborted \/ ResumeReturns
  BY <1>5, LifeUnchanged, ReachUnchanged, Unseen
     DEF ResumeAborted, ResumeReturns, NextStream, LifeStutters
<1>6. CASE ResumeReadsOther
  BY <1>6, ReadsRefine DEF Reads
<1> QED BY <1>2, <1>3, <1>4, <1>5, <1>6, ResumeAcceptedStutters, RemapMoves
        DEF ResumeStep, LifeStutters

LEMMA StopFlagStops ==
    ASSUME LifeInv, LifeInv', NEW s \in Streams, StopFlag(s)
    PROVE  Lives!LifeNext
<1> USE DEF serverVars, resumeVars, stopVars, sharedVars, handleVars
<1>1. TypeInv /\ EntryIsEffective /\ TypeInv' /\ EntryIsEffective'
  BY DEF LifeInv, ResumptionInv
<1>2. /\ handle[s] = "open"
      /\ \A t \in Streams : handle'[t] = IF t = s THEN "flagged" ELSE handle[t]
      /\ \A t \in Streams : t # s => stopped_flag'[t] = stopped_flag[t]
      /\ UNCHANGED <<loop, current, resumable_streams, effective_id, slot_released>>
  BY <1>1 DEF StopFlag, TypeInv, ResumptionTypeOK
<1>3. /\ Life(s) \in {"open", "ended"}
      /\ \A t \in Streams : Life(t)' = IF t = s THEN "stopping" ELSE Life(t)
  BY <1>2 DEF Life, Stopping
<1>4. SameReach
  BY <1>1, <1>2, ReachableAt, ReachableAtNext DEF SameReach
<1>5. Lives!Stop(s)
  BY <1>2, <1>3, <1>4, MovesOn DEF Lives!Stop
<1> QED BY <1>5 DEF Lives!LifeNext

\* What is removed under an id of the handle is its own entry, or nothing.
LEMMA UnregisterForgets ==
    ASSUME LifeInv, LifeInv', NEW s \in Streams, Unregister(s)
    PROVE  [Lives!LifeNext]_Lives!lifeVars
<1> USE DEF serverVars, resumeVars, stopVars, sharedVars, handleVars
<1>1. /\ TypeInv /\ EntryIsEffective /\ TypeInv' /\ EntryIsEffective'
      /\ NoStream \notin Streams
  BY StreamResumptionAssumption
     DEF StreamResumptionAssumption, LifeInv, ResumptionInv
<1>2. PICK k : k = Head(ids[s])
  OBVIOUS
<1>3. k \in Ids /\ k \in Range(ids[s])
  BY <1>1, <1>2, TailTyped DEF Unregister, TypeInv, ResumptionTypeOK, HandleFields
<1>4. /\ handle[s] = "unregistering"
      /\ \A t \in Streams : handle'[t] = IF t = s THEN "stopping" ELSE handle[t]
      /\ \A i \in Ids : resumable_streams'[i] = IF i = k THEN NoStream ELSE resumable_streams[i]
      /\ UNCHANGED <<stopped_flag, effective_id, slot_released>>
      /\ loop # "remapping" /\ loop' = loop
  BY <1>1, <1>2, <1>3 DEF Unregister, LockFree, TypeInv, ResumptionTypeOK
<1>5. SameLife /\ Life(s) = "stopping"
  BY <1>4 DEF SameLife, Life, Stopping
<1>6. CASE resumable_streams[k] = NoStream
  <2>1. SameReach
    BY <1>1, <1>4, <1>6, ReachableAt, ReachableAtNext DEF SameReach
  <2> QED BY <1>4, <1>5, <2>1, Unseen
<1>7. CASE resumable_streams[k] # NoStream
  <2>1. resumable_streams[k] = s
    <3>1. PICK t \in Streams : resumable_streams[k] = t
      BY <1>1, <1>3, <1>7 DEF TypeInv, ResumptionTypeOK
    <3>2. k \in Knows(s) /\ k \in Knows(t)
      BY <1>1, <1>3, <3>1, StreamResumptionAssumption
         DEF EntryIsEffective, Knows, Ids, StreamResumptionAssumption
    <3> QED BY <3>1, <3>2 DEF LifeInv, ResumptionInv, IdsOwned
  <2>2. \A i \in Ids : resumable_streams[i] = s => i = k
    BY <1>1, <1>3, <2>1 DEF EntryIsEffective
  <2>3. \A t \in Streams : Reachable(t)' <=> Reachable(t) /\ t # s
    BY <1>1, <1>3, <1>4, <2>1, <2>2, ReachableAt, ReachableAtNext
  <2>4. {t \in Streams : Reachable(t)}' = {t \in Streams : Reachable(t)} \ {s}
    BY <2>3
  <2>5. UNCHANGED [t \in Streams |-> Life(t)]
    BY <1>5 DEF SameLife
  <2>6. Lives!Forget(s)
    BY <1>4, <1>5, <2>4, <2>5 DEF Lives!Forget
  <2> QED BY <2>6 DEF Lives!LifeNext
<1> QED BY <1>6, <1>7

LEMMA StopReleasesCloses ==
    ASSUME LifeInv, LifeInv', NEW s \in Streams, StopReleases(s)
    PROVE  Lives!LifeNext
<1> USE DEF serverVars, resumeVars, stopVars, sharedVars, handleVars
<1>1. TypeInv /\ EntryIsEffective /\ TypeInv' /\ EntryIsEffective'
  BY DEF LifeInv, ResumptionInv
<1>2. /\ handle[s] = "stopping"
      /\ \A t \in Streams : handle'[t] = IF t = s THEN "closed" ELSE handle[t]
      /\ \A t \in Streams : slot_released'[t] = (slot_released[t] \/ t = s)
      /\ UNCHANGED <<loop, current, resumable_streams, effective_id, stopped_flag>>
  BY <1>1 DEF StopReleases, TypeInv, ResumptionTypeOK
<1>3. /\ Life(s) = "stopping"
      /\ \A t \in Streams : Life(t)' = IF t = s THEN "closed" ELSE Life(t)
  BY <1>2 DEF Life, Stopping
<1>4. SameReach
  BY <1>1, <1>2, ReachableAt, ReachableAtNext DEF SameReach
<1>5. /\ UNCHANGED {t \in Streams : Reachable(t)}
      /\ {t \in Streams : slot_released[t]}' = {t \in Streams : slot_released[t]} \cup {s}
  BY <1>2, <1>4 DEF SameReach
<1>6. Lives!Become({s}, "closed")
  BY <1>3, Becoming
<1>7. Lives!Close(s)
  BY <1>2, <1>3, <1>5, <1>6 DEF Lives!Close
<1> QED BY <1>7 DEF Lives!LifeNext

LEMMA StopStepRefines ==
    ASSUME LifeInv, LifeInv', StopStep
    PROVE  [Lives!LifeNext]_Lives!lifeVars
<1> USE DEF serverVars, resumeVars, stopVars, sharedVars, handleVars
<1>1. TypeInv /\ EntryIsEffective /\ TypeInv' /\ EntryIsEffective'
  BY DEF LifeInv, ResumptionInv
<1>2. ASSUME NEW s \in Streams,
             LoadFirst(s) \/ LoadSecond(s) \/ StopSend(s) \/ StopSendFails(s)
      PROVE  LifeStutters
  <2>1. /\ UNCHANGED <<loop, current, sharedVars>>
        /\ \A t \in Streams :
              handle'[t] = handle[t] \/ {handle[t], handle'[t]} \subseteq Stopping
    BY <1>1, <1>2 DEF LoadFirst, LoadSecond, StopSend, StopSendFails, Stopping,
                      TypeInv, ResumptionTypeOK
  <2>2. SameLife
    BY <2>1 DEF SameLife, Life
  <2>3. SameReach
    BY <1>1, <2>1, ReachableAt, ReachableAtNext DEF SameReach
  <2> QED BY <2>1, <2>2, <2>3, Unseen DEF LifeStutters
<1> QED BY <1>2, StopFlagStops, UnregisterForgets, StopReleasesCloses DEF StopStep, LifeStutters

LEMMA LifeStepRefines ==
    ASSUME LifeInv, LifeInv', [Next]_vars
    PROVE  [Lives!LifeNext]_Lives!lifeVars
<1> USE DEF serverVars, resumeVars, stopVars, sharedVars, handleVars
<1>1. TypeInv /\ EntryIsEffective /\ TypeInv' /\ EntryIsEffective'
  BY DEF LifeInv, ResumptionInv
<1>2. CASE StartStep
  BY <1>2, RequestStartAsks, RegisterTracks DEF StartStep
<1>3. CASE EstablishOk \/ EstablishFails
  BY <1>3, LifeUnchanged, ReachUnchanged, Unseen DEF EstablishOk, EstablishFails
<1>4. CASE TaskStep
  BY <1>3, <1>4, ReadsRefine, DisconnectedRefuses, LoopEndsEnds, ResumeStepRefines DEF TaskStep, Reads
<1>5. CASE StopStep
  BY <1>5, StopStepRefines
<1>6. CASE ServerStep \/ UNCHANGED vars
  <2>1. UNCHANGED <<handle, loop, current, sharedVars>>
    BY <1>6 DEF ServerStep, SessionDies, ServerEnds, vars
  <2>2. SameReach
    BY <1>1, <2>1, ReachableAt, ReachableAtNext DEF SameReach
  <2> QED BY <2>1, <2>2, LifeUnchanged, Unseen
<1> QED BY <1>2, <1>4, <1>5, <1>6 DEF Next

LEMMA LifeInitRefines == Init => Lives!LifeInit
<1> SUFFICES ASSUME Init PROVE Lives!LifeInit
  OBVIOUS
<1>1. /\ NoStream \notin Streams
      /\ \A s \in Streams : Life(s) = "idle" /\ ~slot_released[s] /\ ~Reachable(s)
  BY StreamResumptionAssumption
     DEF StreamResumptionAssumption, Init, Life, Stopping, Reachable, Snapshot, Nowhere
<1> QED BY <1>1 DEF Lives!LifeInit, Init

-----------------------------------------------------------------------------
(* The theorems. *)

\* Also while a stream is moved to its new id its stop does not get through,
\* and only flagged streams are being stopped: with ResumptionInv, what the
\* refinement needs of every state.
THEOREM LifeInvariant ==
    ASSUME FreshIds
    PROVE  Spec => []LifeInv
BY InitLife, LifeStep, PTL DEF Spec

\* StreamResumption implements StreamLife: whatever is lost, resumed or stopped
\* in between, a stream is tracked under the one id its handle knows from
\* register_stream until it is ended or stopped, no stream gets the id of
\* another, and none is brought back.
THEOREM StreamsLive ==
    ASSUME FreshIds
    PROVE  Spec => ImplementsStreamLife
<1>1. LifeInv /\ LifeInv' /\ [Next]_vars => [Lives!LifeNext]_Lives!lifeVars
  BY LifeStepRefines
<1> QED BY <1>1, LifeInitRefines, LifeInvariant, PTL DEF Spec, ImplementsStreamLife, Lives!LifeSpec

\* What a step does to one stream.
LEMMA SlotsFollowStep ==
    ASSUME Lives!SlotsFollow, [Lives!LifeNext]_Lives!lifeVars
    PROVE  Lives!SlotsFollow'
<1> USE DEF Lives!Become, Lives!In, Lives!SlotsFollow
<1>1. ASSUME NEW s \in Streams, Lives!Ask(s) PROVE Lives!SlotsFollow'
  BY <1>1 DEF Lives!Ask
<1>2. ASSUME NEW s \in Streams, Lives!Accept(s) PROVE Lives!SlotsFollow'
  BY <1>2 DEF Lives!Accept
<1>3. ASSUME NEW s \in Streams, Lives!Track(s) PROVE Lives!SlotsFollow'
  BY <1>3 DEF Lives!Track
<1>4. ASSUME NEW s \in Streams, Lives!Move(s) PROVE Lives!SlotsFollow'
  BY <1>4 DEF Lives!Move
<1>5. ASSUME NEW s \in Streams, Lives!Stop(s) PROVE Lives!SlotsFollow'
  BY <1>5 DEF Lives!Stop
<1>6. ASSUME NEW s \in Streams, Lives!Forget(s) PROVE Lives!SlotsFollow'
  BY <1>6 DEF Lives!Forget
<1>7. ASSUME NEW s \in Streams, Lives!Close(s) PROVE Lives!SlotsFollow'
  BY <1>7 DEF Lives!Close
<1>8. ASSUME NEW ss \in SUBSET Streams, Lives!Refuse(ss) PROVE Lives!SlotsFollow'
  BY <1>8 DEF Lives!Refuse
<1>9. ASSUME NEW ss \in SUBSET Streams, Lives!End(ss) PROVE Lives!SlotsFollow'
  BY <1>9 DEF Lives!End
<1>10. CASE UNCHANGED Lives!lifeVars
  BY <1>10 DEF Lives!lifeVars
<1> QED BY <1>1, <1>2, <1>3, <1>4, <1>5, <1>6, <1>7, <1>8, <1>9, <1>10 DEF Lives!LifeNext

\* StreamLife keeps slots and tracking together: what is open is tracked, what
\* ended or failed is not, and no slot is given back before its time.
THEOREM SlotsFollowLives == Lives!LifeSpec => []Lives!SlotsFollow
<1>1. Lives!LifeInit => Lives!SlotsFollow
  BY DEF Lives!LifeInit, Lives!SlotsFollow
<1> QED BY <1>1, SlotsFollowStep, PTL DEF Lives!LifeSpec

\* A stream whose data still reach its handle keeps its slot until its stop is
\* through: no new stream takes it too early (SlotGuard, on_end, Drop).
THEOREM SlotsAreHeld ==
    ASSUME FreshIds
    PROVE  Spec => []SlotHeldWhileReachable
<1>1. Lives!SlotsFollow => SlotHeldWhileReachable
  BY DEF Lives!SlotsFollow, SlotHeldWhileReachable, Life
<1> QED BY <1>1, StreamsLive, SlotsFollowLives, PTL DEF ImplementsStreamLife
=============================================================================
