------------------------------- MODULE Requests -------------------------------
(***************************************************************************)
(* Requests and responses over the reconnecting connection                 *)
(* (src/src/connection.rs): callers of send_request, the request channel,  *)
(* the pending_requests map, the requests that resume_streams sends with   *)
(* ids of its own, and the peer that answers.                              *)
(*                                                                         *)
(* The background task is the one of ConnectionLoop: each action here is   *)
(* an action of ConnectionLoop with what it does to requests, or leaves    *)
(* the task's variables alone.  Receivers of the state are left out.       *)
(***************************************************************************)
EXTENDS ConnectionLoop, Sequences, FiniteSets

CONSTANTS
    Callers,      \* calls of send_request
    NoCaller,     \* who sends the requests of resume_streams
    ChannelCap,   \* capacity of the request channel (32)
    MaxResume,    \* bound: streams resumed after one reconnection
    IdCap         \* bound: no stream is resumed with an id from here on

ASSUME RequestsAssumption ==
    /\ NoCaller \notin Callers
    /\ ChannelCap \in Nat \ {0}
    /\ MaxResume \in Nat
    /\ IdCap \in Nat

VARIABLES
    next_id,             \* Connection.request_id
    id, call, reply,     \* per caller: its id, progress, and oneshot channel
    channel,             \* the mpsc channel of PendingRequests
    pending,             \* callers whose response_tx is in pending_requests
    request_id_counter,  \* the task's own counter
    wire,                \* requests the peer has got on ws and not answered
    resume_left,         \* streams resume_streams still has to go through
    resume_id            \* the id whose answer it awaits, or 0

callerVars == <<next_id, id, call>>
taskVars   == <<request_id_counter, wire, resume_left, resume_id>>
reqVars    == <<callerVars, reply, channel, pending, taskVars>>
requestsVars == <<loopVars, reqVars>>

Message == [id : Nat, who : Callers \cup {NoCaller}]

RequestsTypeOK ==
    /\ next_id \in Nat \ {0}
    /\ id \in [Callers -> Nat]
    /\ call \in [Callers -> {"idle", "sending", "awaiting", "done", "cancelled"}]
    /\ reply \in [Callers -> {"none", "own", "foreign", "closed"}]
    /\ channel \in Seq(Callers)
    /\ Len(channel) <= ChannelCap
    /\ pending \subseteq Callers
    /\ request_id_counter \in Nat \ {0}
    /\ wire \subseteq Message
    /\ resume_left \in 0..MaxResume
    /\ resume_id \in Nat

RequestsInit ==
    /\ LoopInit
    /\ next_id = 1
    /\ id = [c \in Callers |-> 0]
    /\ call = [c \in Callers |-> "idle"]
    /\ reply = [c \in Callers |-> "none"]
    /\ channel = <<>>
    /\ pending = {}
    /\ request_id_counter = 1
    /\ wire = {}
    /\ resume_left = 0
    /\ resume_id = 0

-----------------------------------------------------------------------------
(* send_request, executed by a caller, which holds an Arc<Connection>. *)

\* Mutant of CallStart: request_id is loaded and never advanced.
CallStartSameId(c) ==
    /\ constructed /\ ~sender_dropped
    /\ call[c] = "idle"
    /\ ~shutdown
    /\ call' = [call EXCEPT ![c] = "sending"]
    /\ id' = [id EXCEPT ![c] = next_id]
    /\ UNCHANGED <<loopVars, next_id, reply, channel, pending, taskVars>>

\* The check of the token, then fetch_add on request_id.
CallStart(c) ==
    /\ constructed /\ ~sender_dropped
    /\ call[c] = "idle"
    /\ \/ /\ shutdown
          /\ call' = [call EXCEPT ![c] = "done"]
          /\ UNCHANGED <<id, next_id>>
       \/ /\ ~shutdown
          /\ call' = [call EXCEPT ![c] = "sending"]
          /\ id' = [id EXCEPT ![c] = next_id]
          /\ next_id' = next_id + 1
    /\ UNCHANGED <<loopVars, reply, channel, pending, taskVars>>

\* Mutant of CallSend: an unbounded channel.
CallSendUnbounded(c) ==
    /\ call[c] = "sending"
    /\ loop # "exited"
    /\ channel' = Append(channel, c)
    /\ call' = [call EXCEPT ![c] = "awaiting"]
    /\ UNCHANGED <<loopVars, next_id, id, reply, pending, taskVars>>

\* sender.send: waits for room; fails once the task dropped the receiver.
CallSend(c) ==
    /\ call[c] = "sending"
    /\ \/ /\ loop = "exited"
          /\ call' = [call EXCEPT ![c] = "done"]
          /\ UNCHANGED channel
       \/ /\ loop # "exited"
          /\ Len(channel) < ChannelCap
          /\ channel' = Append(channel, c)
          /\ call' = [call EXCEPT ![c] = "awaiting"]
    /\ UNCHANGED <<loopVars, next_id, id, reply, pending, taskVars>>

\* response_rx.await
CallReturns(c) ==
    /\ call[c] = "awaiting"
    /\ reply[c] # "none"
    /\ call' = [call EXCEPT ![c] = "done"]
    /\ UNCHANGED <<loopVars, next_id, id, reply, channel, pending, taskVars>>

\* The caller drops its future; what it has sent stays where it is.
CallCancelled(c) ==
    /\ call[c] \in {"sending", "awaiting"}
    /\ call' = [call EXCEPT ![c] = "cancelled"]
    /\ UNCHANGED <<loopVars, next_id, id, reply, channel, pending, taskVars>>

InCall == {c \in Callers : call[c] \in {"sending", "awaiting"}}

-----------------------------------------------------------------------------
(* The background task. *)

\* Every call of cs gets an error instead of an answer.
Fail(cs) == reply' = [c \in Callers |-> IF c \in cs THEN "closed" ELSE reply[c]]

\* Mutant of RequestArm: a request that cannot be sent is answered with an
\* error and stays in the map.
RequestArmKeepsFailed ==
    /\ loop = "running"
    /\ channel # <<>>
    /\ channel' = Tail(channel)
    /\ LET c == Head(channel) IN
         /\ request_id_counter' =
                1 + (IF id[c] > request_id_counter THEN id[c]
                                                   ELSE request_id_counter)
         /\ pending' = pending \cup {c}
         /\ \/ /\ wire' = wire \cup {[id |-> id[c], who |-> c]}
               /\ UNCHANGED reply
            \/ /\ Fail({c})
               /\ UNCHANGED wire
    /\ UNCHANGED <<loopVars, callerVars, resume_left, resume_id>>

\* The request arm of run_single_connection.  A send on a closed socket may
\* still succeed, and encoding or sending may fail on any; a failure takes the
\* entry out of the map again.
RequestArm ==
    /\ loop = "running"
    /\ channel # <<>>
    /\ channel' = Tail(channel)
    /\ LET c == Head(channel) IN
         /\ request_id_counter' =
                1 + (IF id[c] > request_id_counter THEN id[c]
                                                   ELSE request_id_counter)
         /\ \/ /\ pending' = pending \cup {c}
               /\ wire' = wire \cup {[id |-> id[c], who |-> c]}
               /\ UNCHANGED reply
            \/ /\ Fail({c})
               /\ UNCHANGED <<pending, wire>>
    /\ UNCHANGED <<loopVars, callerVars, resume_left, resume_id>>

\* handle_server_message for a Response or an Error: the id alone decides who
\* gets it, and an id that is not pending is ignored.
Deliver(m) ==
    /\ reply' = [c \in Callers |->
                    IF c \in pending /\ id[c] = m.id
                    THEN IF m.who = c THEN "own" ELSE "foreign"
                    ELSE reply[c]]
    /\ pending' = {c \in pending : id[c] # m.id}

ReadArm ==
    /\ loop = "running"
    /\ ws = "up"
    /\ \E m \in wire :
         /\ wire' = wire \ {m}
         /\ Deliver(m)
    /\ UNCHANGED <<loopVars, callerVars, channel, request_id_counter,
                   resume_left, resume_id>>

\* Mutant of FailPendingRequests: the map survives the connection.
FailNoPendingRequests ==
    /\ FailPending
    /\ UNCHANGED reqVars

\* fail_pending_requests
FailPendingRequests ==
    /\ FailPending
    /\ Fail(pending)
    /\ pending' = {}
    /\ UNCHANGED <<callerVars, channel, taskVars>>

\* The new socket knows no request; the streams to resume are those registered.
Reconnected ==
    /\ EstablishOk
    /\ wire' = {}
    /\ resume_left' \in {n \in 0..MaxResume : n = 0 \/ request_id_counter + n <= IdCap}
    /\ UNCHANGED <<callerVars, reply, channel, pending, request_id_counter,
                   resume_id>>

\* Mutant of ResumeNext: the requests are sent and their answers not awaited.
ResumeNextWithoutWaiting ==
    /\ loop = "resuming"
    /\ resume_left > 0
    /\ resume_left' = resume_left - 1
    /\ request_id_counter' = request_id_counter + 1
    /\ wire' = wire \cup {[id |-> request_id_counter, who |-> NoCaller]}
    /\ UNCHANGED <<loopVars, callerVars, reply, channel, pending, resume_id>>

\* resume_streams: skip a stopped stream, or fail to send its request, or send
\* it with an id from the task's counter and go on to await the answer.
ResumeNext ==
    /\ loop = "resuming"
    /\ resume_left > 0 /\ resume_id = 0
    /\ \/ /\ resume_left' = resume_left - 1
          /\ UNCHANGED <<request_id_counter, wire, resume_id>>
       \/ /\ ws = "closed"
          /\ resume_left' = resume_left - 1
          /\ request_id_counter' = request_id_counter + 1
          /\ UNCHANGED <<wire, resume_id>>
       \/ /\ resume_id' = request_id_counter
          /\ request_id_counter' = request_id_counter + 1
          /\ wire' = wire \cup {[id |-> request_id_counter, who |-> NoCaller]}
          /\ UNCHANGED resume_left
    /\ UNCHANGED <<loopVars, callerVars, reply, channel, pending>>

\* A frame read while the answer to resume_id is awaited.
ResumeReads ==
    /\ loop = "resuming"
    /\ resume_id # 0 /\ ws = "up"
    /\ \E m \in wire :
         /\ wire' = wire \ {m}
         /\ \/ /\ m.id = resume_id
               /\ resume_id' = 0
               /\ resume_left' = resume_left - 1
               /\ UNCHANGED <<reply, pending>>
            \/ /\ m.id # resume_id
               /\ Deliver(m)
               /\ UNCHANGED <<resume_id, resume_left>>
    /\ UNCHANGED <<loopVars, callerVars, channel, request_id_counter>>

\* A Close frame or an error ends the waiting for this stream.
ResumeSocketLost ==
    /\ loop = "resuming"
    /\ resume_id # 0 /\ ws = "closed"
    /\ resume_id' = 0
    /\ resume_left' = resume_left - 1
    /\ UNCHANGED <<loopVars, callerVars, reply, channel, pending,
                   request_id_counter, wire>>

ResumeReturns ==
    /\ Resumed
    /\ resume_left = 0
    /\ UNCHANGED reqVars


\* cleanup_pending_requests, then the task ends and drops its receiver with
\* the requests still in the channel.
CleanupRequests ==
    /\ Cleanup
    /\ Fail(pending \cup {channel[i] : i \in DOMAIN channel})
    /\ pending' = {}
    /\ channel' = <<>>
    /\ UNCHANGED <<callerVars, taskVars>>

-----------------------------------------------------------------------------
LeaveRequests ==
    /\ \/ ShutdownArm \/ ConnectionLostArm \/ PongTimeoutArm
       \/ (ChannelClosedArm /\ channel = <<>>)
    /\ UNCHANGED reqVars

\* Steps of the task and of the others that leave the requests alone.
QuietStep ==
    /\ \/ DecideStep \/ BackoffElapsed \/ EstablishFails
       \/ PeerStep
       \/ ConnectReturns \/ Close \/ CancelToken \/ AnnounceShutdown
       \/ (DropConnection /\ InCall = {})
    /\ UNCHANGED reqVars

ResumeStep == ResumeNext \/ ResumeReads \/ ResumeSocketLost \/ ResumeReturns

RequestsNext ==
    \/ \E c \in Callers : \/ CallStart(c) \/ CallSend(c) \/ CallReturns(c)
                          \/ CallCancelled(c)
    \/ RequestArm \/ ReadArm \/ LeaveRequests \/ FailPendingRequests
    \/ Reconnected \/ ResumeStep \/ CleanupRequests
    \/ QuietStep

RequestsSpec == RequestsInit /\ [][RequestsNext]_requestsVars

\* As in ConnectionLoop.  Room in the channel is granted in the order it was
\* asked for, and select polls its arms in random order: hence SF.  Nothing
\* makes a peer answer, so ReadArm and ResumeReads, which stand for its answer
\* and the reading of it, have no fairness.
RequestsFairness ==
    /\ \A c \in Callers : /\ SF_requestsVars(CallSend(c))
                          /\ WF_requestsVars(CallReturns(c))
    /\ SF_requestsVars(RequestArm)
    /\ WF_requestsVars(LeaveRequests)
    /\ WF_requestsVars(FailPendingRequests)
    /\ WF_requestsVars(Reconnected \/ (EstablishFails /\ UNCHANGED reqVars))
    /\ WF_requestsVars((DecideStep \/ BackoffElapsed) /\ UNCHANGED reqVars)
    /\ WF_requestsVars(ResumeNext \/ ResumeSocketLost \/ ResumeReturns)
    /\ WF_requestsVars(CleanupRequests)

FairRequestsSpec == RequestsSpec /\ RequestsFairness

-----------------------------------------------------------------------------
(* Safety. *)

\* A caller only ever gets the answer to its own request, although
\* resume_streams sends ids that callers use later, and late answers arrive
\* when the task has gone back to an old socket after a failed reconnection.
OwnAnswer == \A c \in Callers : reply[c] # "foreign"

\* A call that awaits its answer is not forgotten: its oneshot sender is in the
\* channel or in the map, and in one of them only, or has been used.
CallAccounted ==
    \A c \in Callers :
        call[c] = "awaiting" =>
            Cardinality({i \in DOMAIN channel : channel[i] = c})
              + (IF c \in pending THEN 1 ELSE 0)
              + (IF reply[c] # "none" THEN 1 ELSE 0) = 1

\* No request waits in the map for an answer from a socket that is given up:
\* when the task decides, sleeps, reconnects or has ended, the map is empty.
PendingCleared == loop \notin {"running", "drain"} => pending = {}

\* No two requests that await their answer on one open socket have the same id,
\* although the task and the callers draw ids from different counters.
IdsOnWireDistinct ==
    ws # "closed" => \A m, n \in wire : m.id = n.id => m = n

InChannel(c) == \E i \in 1..Len(channel) : channel[i] = c

\* What has become of a call, as its caller and the peer see it.  A caller that
\* went away while it waited for room has sent nothing.
CallStatus(c) ==
    IF reply[c] = "own" THEN "answered"
    ELSE IF reply[c] = "closed" THEN "failed"
    ELSE IF reply[c] = "foreign" THEN "mixed up"
    ELSE IF c \in pending THEN "sent"
    ELSE IF call[c] \in {"sending", "awaiting"} \/ InChannel(c) THEN "queued"
    ELSE IF call[c] = "idle" THEN "idle" ELSE "failed"

\* A session lasts until its requests were failed.
SessionStatus ==
    IF loop \in {"running", "drain"} THEN "up"
    ELSE IF loop = "exited" THEN "ended" ELSE "down"

Service == INSTANCE CallService WITH
    Calls   <- Callers,
    status  <- [c \in Callers |-> CallStatus(c)],
    session <- SessionStatus

\* Calls are served as CallService promises: a call whose session was lost is
\* failed then and not taken up again, and no late answer changes its outcome,
\* although a failed reconnection goes back to the socket on which it may come.
ImplementsCallService == Service!ServiceSpec

(* Liveness. *)

Asked(i, who) == [id |-> i, who |-> who] \in wire

\* The peer keeps its connection and has not answered this call, or a
\* resumption that holds up the task.  Neither wait has a timeout.
PeerOwes(c) ==
    /\ ws # "closed"
    /\ \/ loop = "running" /\ c \in pending /\ Asked(id[c], c)
       \/ loop = "resuming" /\ resume_id # 0 /\ Asked(resume_id, NoCaller)

=============================================================================
