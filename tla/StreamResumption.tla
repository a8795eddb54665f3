--------------------------- MODULE StreamResumption ---------------------------
(***************************************************************************)
(* Quote streams from their request to their end: the table of streams a   *)
(* Connection keeps to resume them (resumable_streams in                   *)
(* src/src/connection.rs), their registration (src/src/queue.rs), their    *)
(* resumption on a new session, and stop or Drop of a QuoteStream          *)
(* (src/src/stream.rs) at any moment of it.                                *)
(*                                                                         *)
(* The server acts on a request when it is sent; its messages travel in    *)
(* order.  Quotes themselves are left out.  sender.is_closed() implies     *)
(* stopped: only a dropped QuoteStream closes the channel.                 *)
(***************************************************************************)
EXTENDS Naturals, FiniteSets, Sequences, SequencesExt, Functions

CONSTANTS
    Streams,        \* calls of start_stream_internal, and their QuoteStreams
    NoStream,
    MaxId,          \* bound: stream ids the server hands out
    MaxReconnects,  \* bound: successful reconnections
    FreshIds        \* the server does not reuse ids on a later session

ASSUME StreamResumptionAssumption ==
    /\ NoStream \notin Streams
    /\ MaxId \in Nat \ {0}
    /\ MaxReconnects \in Nat
    /\ FreshIds \in BOOLEAN

Ids == 1..MaxId

VARIABLES
    loop,        \* the background task; "remapping" holds the lock of the table
    session,     \* the socket the task holds is up, or dead
    reconnects,
    server,      \* the streams the server runs on the session, by id
    next_id,     \* the next id the server hands out
    down,        \* messages of the server not read yet
    resumable_streams,  \* by id, as the task knows them
    to_resume,   \* ids of the snapshot that resume_streams has not come to
    current,     \* the old id it is at, and whose stream that was
    new_id,      \* the id being mapped
    handle,      \* progress of each call and of its QuoteStream
    stream_id, effective_id, stopped_flag, slot_released,
    ids,         \* what stop or Drop still has to stop
    late,        \* registered after the stream had ended (history)
    disturbed    \* the session was lost during stop or Drop (history)

serverVars == <<session, server, next_id, down>>
resumeVars == <<to_resume, current, new_id>>
stopVars   == <<ids, disturbed>>
sharedVars == <<resumable_streams, effective_id, stopped_flag, slot_released>>
handleVars == <<handle, stream_id, late>>
vars == <<loop, reconnects, serverVars, resumeVars, stopVars, sharedVars,
          handleVars>>

Stopping == {"flagged", "loaded", "stopping", "awaiting", "unregistering"}

Messages ==
    [kind : {"started", "refused", "stopped", "end"},
     who : Streams \cup {NoStream}, id : 0..MaxId]

\* One type invariant, with what the fields of a handle always satisfy: an id
\* is stopped once.
ResumptionTypeOK ==
    /\ loop \in {"running", "reconnecting", "resuming", "awaiting",
                 "remapping", "exited"}
    /\ session \in {"up", "dead"}
    /\ reconnects \in 0..MaxReconnects
    /\ server \in [Ids -> Streams \cup {NoStream}]
    /\ next_id \in 1..(MaxId + 1)
    /\ down \in Seq(Messages)
    /\ resumable_streams \in [Ids -> Streams \cup {NoStream}]
    /\ to_resume \subseteq Ids \X Streams
    /\ current \in (Ids \X Streams) \cup {<<0, NoStream>>}
    /\ new_id \in 0..MaxId
    /\ handle \in [Streams -> Stopping \cup {"idle", "requesting", "answered",
                                             "open", "closed", "failed"}]
    /\ stream_id \in [Streams -> 0..MaxId]
    /\ effective_id \in [Streams -> 0..MaxId]
    /\ stopped_flag \in [Streams -> BOOLEAN]
    /\ slot_released \in [Streams -> BOOLEAN]
    /\ late \in [Streams -> BOOLEAN]
    /\ disturbed \in [Streams -> BOOLEAN]
    /\ \A s \in Streams :
          ids[s] \in Seq(Ids) /\ Len(ids[s]) <= 3 /\ IsInjective(ids[s])

Nowhere == [i \in Ids |-> NoStream]

Init ==
    /\ loop = "running"
    /\ session = "up"
    /\ reconnects = 0
    /\ server = Nowhere
    /\ next_id = 1
    /\ down = <<>>
    /\ resumable_streams = Nowhere
    /\ to_resume = {}
    /\ current = <<0, NoStream>>
    /\ new_id = 0
    /\ handle = [s \in Streams |-> "idle"]
    /\ stream_id = [s \in Streams |-> 0]
    /\ effective_id = [s \in Streams |-> 0]
    /\ stopped_flag = [s \in Streams |-> FALSE]
    /\ slot_released = [s \in Streams |-> FALSE]
    /\ ids = [s \in Streams |-> <<>>]
    /\ late = [s \in Streams |-> FALSE]
    /\ disturbed = [s \in Streams |-> FALSE]

-----------------------------------------------------------------------------
(* The server. *)

Message(k, s, i) == [kind |-> k, who |-> s, id |-> i]

\* It answers NewSwapQuoteStream with a stream or an error; nothing comes back
\* over a dead session.
ServeStart(s) ==
    /\ UNCHANGED session
    /\ \/ /\ session = "up" /\ next_id <= MaxId
          /\ server' = [server EXCEPT ![next_id] = s]
          /\ next_id' = next_id + 1
          /\ down' = Append(down, Message("started", s, next_id))
       \/ /\ session = "up"
          /\ down' = Append(down, Message("refused", s, 0))
          /\ UNCHANGED <<server, next_id>>
       \/ session = "dead" /\ UNCHANGED <<server, next_id, down>>

\* StopStream is answered also when the id is unknown.
ServeStop(s, i) ==
    /\ UNCHANGED <<session, next_id>>
    /\ \/ /\ session = "up"
          /\ server' = [server EXCEPT ![i] = NoStream]
          /\ down' = Append(down, Message("stopped", s, i))
       \/ session = "dead" /\ UNCHANGED <<server, down>>

ServerEnds(i) ==
    /\ session = "up"
    /\ server[i] # NoStream
    /\ server' = [server EXCEPT ![i] = NoStream]
    /\ down' = Append(down, Message("end", NoStream, i))
    /\ UNCHANGED <<loop, reconnects, session, next_id, resumeVars, stopVars,
                   sharedVars, handleVars>>

\* What is still on its way when a session dies is lost from some point on.
SessionDies ==
    /\ session = "up"
    /\ session' = "dead"
    /\ \E n \in 0..Len(down) : down' = SubSeq(down, 1, n)
    /\ disturbed' = [s \in Streams |-> disturbed[s] \/ handle[s] \in Stopping]
    /\ UNCHANGED <<loop, reconnects, server, next_id, resumeVars, ids,
                   sharedVars, handleVars>>

-----------------------------------------------------------------------------
(* The table and the on_end callback. *)

\* on_end of the streams ss: the flag, and the slot if nobody released it yet.
OnEnd(ss) ==
    /\ stopped_flag' = [s \in Streams |-> stopped_flag[s] \/ s \in ss]
    /\ slot_released' = [s \in Streams |-> slot_released[s] \/ s \in ss]

\* Mutant of EndEntry: the callback is forgotten.
EndEntryQuietly(i) ==
    /\ resumable_streams' = [resumable_streams EXCEPT ![i] = NoStream]
    /\ UNCHANGED <<effective_id, stopped_flag, slot_released>>

\* Removes the entry of i, if there is one, and calls its on_end.
EndEntry(i) ==
    /\ resumable_streams' = [resumable_streams EXCEPT ![i] = NoStream]
    /\ OnEnd({resumable_streams[i]})
    /\ UNCHANGED effective_id

LockFree == loop # "remapping"

-----------------------------------------------------------------------------
(* Starting a stream. *)

RequestStart(s) ==
    /\ handle[s] = "idle"
    /\ loop = "running"
    /\ ServeStart(s)
    /\ handle' = [handle EXCEPT ![s] = "requesting"]
    /\ UNCHANGED <<loop, reconnects, resumeVars, stopVars, sharedVars,
                   stream_id, late>>

StartRefused(s) ==
    /\ handle' = [handle EXCEPT ![s] = "failed"]
    /\ slot_released' = [slot_released EXCEPT ![s] = TRUE]
    /\ UNCHANGED <<stream_id, resumable_streams, effective_id, stopped_flag>>

StartAnswered(s, i) ==
    /\ handle' = [handle EXCEPT ![s] = "answered"]
    /\ stream_id' = [stream_id EXCEPT ![s] = i]
    /\ effective_id' = [effective_id EXCEPT ![s] = i]
    /\ UNCHANGED <<resumable_streams, stopped_flag, slot_released>>

\* The server's StreamEnd for i has not been read.
EndComing(i) == Message("end", NoStream, i) \in Range(down)

\* register_stream, after the answer was handed over: the task may have read
\* more since, or may have ended.
Register(s) ==
    LET i == stream_id[s] IN
    /\ handle[s] = "answered"
    /\ LockFree
    /\ handle' = [handle EXCEPT ![s] = "open"]
    /\ resumable_streams' = [resumable_streams EXCEPT ![i] = s]
    /\ late' = [late EXCEPT ![s] =
                  \/ loop = "exited"
                  \/ session = "up" /\ server[i] # s /\ ~EndComing(i)]
    /\ UNCHANGED <<loop, reconnects, serverVars, resumeVars, stopVars,
                   stream_id, effective_id, stopped_flag, slot_released>>

-----------------------------------------------------------------------------
(* Reading from the server. *)

\* The call that waits for m: by its request id in the code.
Expects(s, m) ==
    /\ m.who = s
    /\ \/ m.kind \in {"started", "refused"} /\ handle[s] = "requesting"
       \/ m.kind = "stopped" /\ handle[s] = "awaiting" /\ m.id = Head(ids[s])

\* An answer goes to its caller, if the caller still waits for it; StreamEnd
\* ends the entry.
HandleServerMessage(m) ==
    \/ /\ m.kind = "end"
       /\ EndEntry(m.id)
       /\ UNCHANGED <<handle, stream_id>>
    \/ \E s \in Streams :
          /\ Expects(s, m)
          /\ \/ m.kind = "started" /\ StartAnswered(s, m.id)
             \/ m.kind = "refused" /\ StartRefused(s) /\ UNCHANGED stream_id
             \/ /\ m.kind = "stopped"
                /\ handle' = [handle EXCEPT ![s] = "unregistering"]
                /\ UNCHANGED <<stream_id, sharedVars>>
    \/ /\ m.kind # "end"
       /\ \A s \in Streams : ~Expects(s, m)
       /\ UNCHANGED <<handle, stream_id, sharedVars>>

ReadArm ==
    /\ loop = "running"
    /\ down # <<>>
    /\ down' = Tail(down)
    /\ HandleServerMessage(Head(down))
    /\ UNCHANGED <<loop, reconnects, session, server, next_id, resumeVars,
                   stopVars, late>>

\* The session is given up: it was closed, or it seems silent.  Everyone who
\* waits for an answer hears of it.
Disconnected ==
    /\ loop = "running"
    /\ loop' = "reconnecting"
    /\ handle' = [s \in Streams |->
                    CASE handle[s] = "requesting" -> "failed"
                      [] handle[s] = "awaiting"   -> "unregistering"
                      [] OTHER                    -> handle[s]]
    /\ slot_released' = [s \in Streams |->
                           slot_released[s] \/ handle[s] = "requesting"]
    /\ disturbed' = [s \in Streams |-> disturbed[s] \/ handle[s] \in Stopping]
    /\ UNCHANGED <<reconnects, serverVars, resumeVars, ids, stream_id, late,
                   resumable_streams, effective_id, stopped_flag>>

\* Mutant of LoopEnds: the table is not drained.
LoopEndsKeepingStreams ==
    /\ loop = "reconnecting"
    /\ loop' = "exited"
    /\ UNCHANGED <<reconnects, serverVars, resumeVars, stopVars, sharedVars,
                   handleVars>>

\* The loop ends for good; cleanup_resumable_streams drains the table.
LoopEnds ==
    /\ loop = "reconnecting"
    /\ loop' = "exited"
    /\ resumable_streams' = Nowhere
    /\ OnEnd(Range(resumable_streams))
    /\ UNCHANGED <<reconnects, serverVars, resumeVars, stopVars, handleVars,
                   effective_id>>

-----------------------------------------------------------------------------
(* Reconnection and resume_streams. *)

Snapshot ==
    {<<i, resumable_streams[i]>> :
        i \in {j \in Ids : resumable_streams[j] # NoStream}}

EstablishOk ==
    /\ loop = "reconnecting"
    /\ reconnects < MaxReconnects
    /\ reconnects' = reconnects + 1
    /\ session' = "up"
    /\ server' = Nowhere
    /\ next_id' = IF FreshIds THEN next_id ELSE 1
    /\ down' = <<>>
    /\ loop' = "resuming"
    /\ to_resume' = Snapshot
    /\ UNCHANGED <<current, new_id, stopVars, sharedVars, handleVars>>

\* The loop goes round with the socket it already had.
EstablishFails ==
    /\ loop = "reconnecting"
    /\ loop' = "running"
    /\ UNCHANGED <<reconnects, serverVars, resumeVars, stopVars, sharedVars,
                   handleVars>>

\* A stream that was stopped meanwhile is not resumed.
ResumeSkip(i, s) ==
    /\ loop = "resuming"
    /\ <<i, s>> \in to_resume
    /\ stopped_flag[s]
    /\ to_resume' = to_resume \ {<<i, s>>}
    /\ EndEntry(i)
    /\ UNCHANGED <<loop, reconnects, serverVars, current, new_id, stopVars,
                   handleVars>>

ResumeSend(i, s) ==
    /\ loop = "resuming"
    /\ <<i, s>> \in to_resume
    /\ ~stopped_flag[s]
    /\ ServeStart(s)
    /\ to_resume' = to_resume \ {<<i, s>>}
    /\ current' = <<i, s>>
    /\ loop' = "awaiting"
    /\ UNCHANGED <<reconnects, new_id, stopVars, sharedVars, handleVars>>

\* The socket was closed while an earlier stream was resumed.
ResumeSendFails(i, s) ==
    /\ loop = "resuming"
    /\ session = "dead"
    /\ <<i, s>> \in to_resume
    /\ ~stopped_flag[s]
    /\ to_resume' = to_resume \ {<<i, s>>}
    /\ EndEntry(i)
    /\ UNCHANGED <<loop, reconnects, serverVars, current, new_id, stopVars,
                   handleVars>>

OwnAnswer(m) == m.who = current[2] /\ m.kind \in {"started", "refused"}

NextStream == loop' = "resuming" /\ current' = <<0, NoStream>>

ResumeReadsOther ==
    /\ loop = "awaiting"
    /\ down # <<>>
    /\ ~OwnAnswer(Head(down))
    /\ down' = Tail(down)
    /\ HandleServerMessage(Head(down))
    /\ UNCHANGED <<loop, reconnects, session, server, next_id, resumeVars,
                   stopVars, late>>

\* The server does not resume the stream.
ResumeRefused ==
    /\ loop = "awaiting"
    /\ down # <<>>
    /\ OwnAnswer(Head(down))
    /\ Head(down).kind = "refused"
    /\ down' = Tail(down)
    /\ EndEntry(current[1])
    /\ NextStream
    /\ UNCHANGED <<reconnects, session, server, next_id, to_resume, new_id,
                   stopVars, handleVars>>

\* The server resumed it, but its entry is gone or it was stopped meanwhile.
ResumeUnwanted ==
    LET s == resumable_streams[current[1]] IN
    /\ loop = "awaiting"
    /\ down # <<>>
    /\ OwnAnswer(Head(down))
    /\ Head(down).kind = "started"
    /\ s = NoStream \/ stopped_flag[s]
    /\ down' = Tail(down)
    /\ EndEntry(current[1])
    /\ NextStream
    /\ UNCHANGED <<reconnects, session, server, next_id, to_resume, new_id,
                   stopVars, handleVars>>

\* The entry is taken out, under the lock, to be mapped to the new id.
ResumeAccepted ==
    LET s == resumable_streams[current[1]] IN
    /\ loop = "awaiting"
    /\ down # <<>>
    /\ OwnAnswer(Head(down))
    /\ Head(down).kind = "started"
    /\ s # NoStream /\ ~stopped_flag[s]
    /\ down' = Tail(down)
    /\ resumable_streams' = [resumable_streams EXCEPT ![current[1]] = NoStream]
    /\ current' = <<current[1], s>>
    /\ new_id' = Head(down).id
    /\ loop' = "remapping"
    /\ UNCHANGED <<reconnects, session, server, next_id, to_resume, stopVars,
                   effective_id, stopped_flag, slot_released, handleVars>>

\* Mutant of Remap: the handle is not told.
RemapEntryOnly ==
    /\ loop = "remapping"
    /\ resumable_streams' = [resumable_streams EXCEPT ![new_id] = current[2]]
    /\ late' = [late EXCEPT ![current[2]] = FALSE]
    /\ new_id' = 0
    /\ NextStream
    /\ UNCHANGED <<reconnects, serverVars, to_resume, stopVars, effective_id,
                   stopped_flag, slot_released, handle, stream_id>>

\* Mutant of Remap: the entry stays where it was.
RemapHandleOnly ==
    /\ loop = "remapping"
    /\ effective_id' = [effective_id EXCEPT ![current[2]] = new_id]
    /\ resumable_streams' = [resumable_streams EXCEPT ![current[1]] = current[2]]
    /\ late' = [late EXCEPT ![current[2]] = FALSE]
    /\ new_id' = 0
    /\ NextStream
    /\ UNCHANGED <<reconnects, serverVars, to_resume, stopVars,
                   stopped_flag, slot_released, handle, stream_id>>

\* The id is stored for the handle and the entry inserted; the lock is freed.
Remap ==
    /\ loop = "remapping"
    /\ effective_id' = [effective_id EXCEPT ![current[2]] = new_id]
    /\ resumable_streams' = [resumable_streams EXCEPT ![new_id] = current[2]]
    /\ late' = [late EXCEPT ![current[2]] = FALSE]
    /\ new_id' = 0
    /\ NextStream
    /\ UNCHANGED <<reconnects, serverVars, to_resume, stopVars,
                   stopped_flag, slot_released, handle, stream_id>>

\* The session died: this entry is left for the next reconnection.
ResumeAborted ==
    /\ loop = "awaiting"
    /\ session = "dead" /\ down = <<>>
    /\ NextStream
    /\ UNCHANGED <<reconnects, serverVars, to_resume, new_id, stopVars,
                   sharedVars, handleVars>>

ResumeReturns ==
    /\ loop = "resuming"
    /\ to_resume = {}
    /\ loop' = "running"
    /\ UNCHANGED <<reconnects, serverVars, resumeVars, stopVars, sharedVars,
                   handleVars>>

-----------------------------------------------------------------------------
(* QuoteStream::stop and Drop. *)

StopFlag(s) ==
    /\ handle[s] = "open"
    /\ handle' = [handle EXCEPT ![s] = "flagged"]
    /\ stopped_flag' = [stopped_flag EXCEPT ![s] = TRUE]
    /\ disturbed' = [disturbed EXCEPT ![s] =
                       loop # "running" \/ session = "dead" \/ late[s]]
    /\ UNCHANGED <<loop, reconnects, serverVars, resumeVars, ids, stream_id,
                   late, resumable_streams, effective_id, slot_released>>

LoadFirst(s) ==
    /\ handle[s] = "flagged"
    /\ handle' = [handle EXCEPT ![s] = "loaded"]
    /\ ids' = [ids EXCEPT ![s] = <<effective_id[s]>>]
    /\ UNCHANGED <<loop, reconnects, serverVars, resumeVars, disturbed,
                   sharedVars, stream_id, late>>

\* seq with i at its end, unless it is there.
PushNew(seq, i) == IF i \in Range(seq) THEN seq ELSE Append(seq, i)

\* Mutant of LoadSecond: the second id is pushed in any case.
LoadSecondAlways(s) ==
    /\ handle[s] = "loaded"
    /\ handle' = [handle EXCEPT ![s] = "stopping"]
    /\ ids' = [ids EXCEPT ![s] = PushNew(Append(@, effective_id[s]), stream_id[s])]
    /\ UNCHANGED <<loop, reconnects, serverVars, resumeVars, disturbed,
                   sharedVars, stream_id, late>>

LoadSecond(s) ==
    /\ handle[s] = "loaded"
    /\ handle' = [handle EXCEPT ![s] = "stopping"]
    /\ ids' = [ids EXCEPT ![s] = PushNew(PushNew(@, effective_id[s]), stream_id[s])]
    /\ UNCHANGED <<loop, reconnects, serverVars, resumeVars, disturbed,
                   sharedVars, stream_id, late>>

\* The request waits in the channel until the task takes it.
StopSend(s) ==
    /\ handle[s] = "stopping" /\ ids[s] # <<>>
    /\ loop = "running"
    /\ ServeStop(s, Head(ids[s]))
    /\ handle' = [handle EXCEPT ![s] = "awaiting"]
    /\ UNCHANGED <<loop, reconnects, resumeVars, stopVars, sharedVars,
                   stream_id, late>>

\* The task has ended, or the send fails.
StopSendFails(s) ==
    /\ handle[s] = "stopping" /\ ids[s] # <<>>
    /\ loop = "exited" \/ (loop = "running" /\ session = "dead")
    /\ handle' = [handle EXCEPT ![s] = "unregistering"]
    /\ UNCHANGED <<loop, reconnects, serverVars, resumeVars, stopVars,
                   sharedVars, stream_id, late>>

Unregister(s) ==
    /\ handle[s] = "unregistering"
    /\ LockFree
    /\ handle' = [handle EXCEPT ![s] = "stopping"]
    /\ resumable_streams' = [resumable_streams EXCEPT ![Head(ids[s])] = NoStream]
    /\ ids' = [ids EXCEPT ![s] = Tail(@)]
    /\ UNCHANGED <<loop, reconnects, serverVars, resumeVars, disturbed,
                   stream_id, late, effective_id, stopped_flag, slot_released>>

StopReleases(s) ==
    /\ handle[s] = "stopping" /\ ids[s] = <<>>
    /\ handle' = [handle EXCEPT ![s] = "closed"]
    /\ slot_released' = [slot_released EXCEPT ![s] = TRUE]
    /\ UNCHANGED <<loop, reconnects, serverVars, resumeVars, stopVars,
                   stream_id, late, resumable_streams, effective_id,
                   stopped_flag>>

-----------------------------------------------------------------------------
StartStep == \E s \in Streams : RequestStart(s) \/ Register(s)

ResumeStep ==
    \/ \E i \in Ids, s \in Streams :
          ResumeSkip(i, s) \/ ResumeSend(i, s) \/ ResumeSendFails(i, s)
    \/ ResumeReadsOther \/ ResumeRefused \/ ResumeUnwanted \/ ResumeAccepted
    \/ Remap \/ ResumeAborted \/ ResumeReturns

TaskStep ==
    \/ ReadArm \/ Disconnected \/ LoopEnds \/ EstablishOk \/ EstablishFails
    \/ ResumeStep

StopStep ==
    \E s \in Streams :
       \/ StopFlag(s) \/ LoadFirst(s) \/ LoadSecond(s) \/ StopSend(s)
       \/ StopSendFails(s) \/ Unregister(s) \/ StopReleases(s)

ServerStep == SessionDies \/ \E i \in Ids : ServerEnds(i)

Next == StartStep \/ TaskStep \/ StopStep \/ ServerStep

Spec == Init /\ [][Next]_vars

-----------------------------------------------------------------------------
(* Safety. *)

\* While the task runs on a live session, an open stream that was registered in
\* time is known by the id the server runs it under, to the task (so its quotes
\* arrive) and to its handle (so stop reaches it), or its end is about to be
\* read.  Holds through any number of losses and half-done resumptions.
StreamsAreLive ==
    (loop = "running" /\ session = "up") =>
        \A i \in Ids : LET s == resumable_streams[i] IN
            (s # NoStream /\ handle[s] = "open" /\ ~late[s]) =>
                /\ server[i] = s \/ EndComing(i)
                /\ effective_id[s] = i

Registered(s) == s \in Range(resumable_streams)

\* A stream whose user still holds it is in the table, or its slot has been
\* given back and its receiver ended: none is dropped without on_end, whichever
\* way a resumption goes wrong.
EndedIsReleased ==
    LockFree => \A s \in Streams :
        handle[s] = "open" =>
            Registered(s) \/ (slot_released[s] /\ stopped_flag[s])

\* When the task has ended nobody waits for quotes that cannot come, and all
\* slots are back, but for a stream that is registered too late.
ExitEndsStreams ==
    loop = "exited" =>
        \A s \in Streams : (handle[s] = "open" /\ ~late[s]) =>
            ~Registered(s) /\ slot_released[s]

\* A stop or Drop that no loss of the session disturbs leaves nothing behind:
\* the server no longer runs the stream and the table has no entry of it, also
\* after the stream was resumed under other ids.
StopIsComplete ==
    \A s \in Streams : (handle[s] = "closed" /\ ~disturbed[s]) =>
        s \notin Range(server) /\ ~Registered(s)

\* "When dropped, automatically sends StopStream to the server": once stop or
\* Drop is through and the task runs, the server does not run the stream.
StoppedAtServer ==
    (loop = "running" /\ session = "up") =>
        \A s \in Streams : handle[s] = "closed" => s \notin Range(server)

-----------------------------------------------------------------------------
(* Refinement. *)

Life(s) ==
    IF handle[s] \in Stopping THEN "stopping"
    ELSE IF handle[s] = "open" /\ stopped_flag[s] THEN "ended"
    ELSE handle[s]

\* The stream is in the table under the id its handle knows, or the task has it
\* in hand, under the lock, to give both the new id.
Reachable(s) ==
    \/ effective_id[s] \in Ids /\ resumable_streams[effective_id[s]] = s
    \/ loop = "remapping" /\ current[2] = s

Lives == INSTANCE StreamLife WITH
    NoId     <- 0,
    life     <- [s \in Streams |-> Life(s)],
    id       <- effective_id,
    tracked  <- {s \in Streams : Reachable(s)},
    released <- {s \in Streams : slot_released[s]}

\* Every stream lives as StreamLife promises: through losses and half-done
\* resumptions, stops at any moment of them and ends by the server, task and
\* handle agree on one id, and an ended stream is not brought back.
ImplementsStreamLife == Lives!LifeSpec

\* The slot of a stream whose data still reach its handle is not given back
\* before its stop is through: a new stream cannot take it too early.  Follows
\* from ImplementsStreamLife.
SlotHeldWhileReachable ==
    \A s \in Streams : (Reachable(s) /\ slot_released[s]) => handle[s] = "closed"
=============================================================================
