---------------------------- MODULE ConnectionLoop ----------------------------
(***************************************************************************)
(* The background task of a Connection (run_connection_loop_with_reconnect *)
(* in src/src/connection.rs), the connection state it publishes on a       *)
(* tokio watch channel, and the users of that channel: Connection::connect *)
(* and shutdown, TitanClient::close and wait_for_connected.                *)
(*                                                                         *)
(* Requests and streams are left to the modules that extend this one.      *)
(*                                                                         *)
(* watch::Sender::send stores nothing when no receiver exists; send_replace*)
(* always stores.  Only connect uses send_replace.                         *)
(***************************************************************************)
EXTENDS Naturals

CONSTANTS
    MaxReconnectAttempts,  \* max_reconnect_attempts, or NoLimit
    NoLimit,
    AttemptCap,            \* bound: reconnect_attempt is not counted beyond it
    SilentPhases           \* phases of the task in which the peer may fall
                           \* silent: stop answering without closing

Phase == {"running", "drain", "decide", "backoff", "connecting", "resuming",
          "cleanup", "exited"}

ASSUME ConnectionLoopAssumption ==
    /\ AttemptCap \in Nat \ {0}
    /\ NoLimit \notin Nat
    /\ \/ MaxReconnectAttempts = NoLimit
       \/ /\ MaxReconnectAttempts \in Nat
          /\ MaxReconnectAttempts < AttemptCap
    /\ SilentPhases \subseteq Phase

VARIABLES
    loop,            \* where the background task is
    ws,              \* the socket the task holds
    reconnect_attempt,
    failures,        \* failed establish_connection calls in a row (history)
    state,           \* the value stored in the watch channel
    lost,            \* the last update of state was not stored (history)
    watching,        \* the user holds a receiver
    constructed,     \* connect has returned
    shutdown,        \* the CancellationToken
    closing,         \* progress of TitanClient::close
    sender_dropped,  \* the last Arc<Connection> is gone
    waiter, unseen   \* one call of wait_for_connected and its receiver

userVars  == <<watching, constructed, shutdown, closing, sender_dropped>>
watchVars == <<state, lost, waiter, unseen>>
loopVars  == <<loop, ws, reconnect_attempt, failures, userVars, watchVars>>

\* Disconnected{reason} is split by the reasons the code distinguishes.
States == {"Connecting", "Connected", "Reconnecting", "Disconnected",
           "GaveUp", "Shutdown"}

LoopTypeOK ==
    /\ loop \in Phase
    /\ ws \in {"up", "silent", "closed"}
    /\ reconnect_attempt \in 0..AttemptCap
    /\ failures \in 0..AttemptCap
    /\ state \in States
    /\ lost \in BOOLEAN
    /\ watching \in BOOLEAN
    /\ constructed \in BOOLEAN
    /\ shutdown \in BOOLEAN
    /\ closing \in {"idle", "stopping", "announcing", "cleared"}
    /\ sender_dropped \in BOOLEAN
    /\ waiter \in {"idle", "checking", "waiting", "ok", "failed"}
    /\ unseen \in BOOLEAN

LoopInit ==
    /\ loop = "running"
    /\ ws = "up"
    /\ reconnect_attempt = 0
    /\ failures = 0
    /\ state = "Connecting"
    /\ lost = FALSE
    /\ watching = FALSE
    /\ constructed = FALSE
    /\ shutdown = FALSE
    /\ closing = "idle"
    /\ sender_dropped = FALSE
    /\ waiter = "idle"
    /\ unseen = FALSE

Capped(n) == IF n < AttemptCap THEN n + 1 ELSE n

-----------------------------------------------------------------------------
(* The watch channel. *)

\* The _state_rx of connect lives until connect returns.
HasReceiver == ~constructed \/ watching \/ waiter \in {"checking", "waiting"}

Store(s) ==
    /\ state' = s
    /\ unseen' = (waiter \in {"checking", "waiting"})
    /\ UNCHANGED waiter

\* watch::Sender::send
Send(s) ==
    /\ lost' = ~HasReceiver
    /\ IF HasReceiver THEN Store(s) ELSE UNCHANGED <<state, waiter, unseen>>

-----------------------------------------------------------------------------
(* run_single_connection, as far as it ends. *)

\* return without an update of the state.
Leave == loop' = "drain" /\ UNCHANGED watchVars

ShutdownArm ==
    /\ loop = "running"
    /\ shutdown
    /\ Leave
    /\ UNCHANGED <<ws, reconnect_attempt, failures, userVars>>

\* request_rx.recv() gives None.
ChannelClosedArm ==
    /\ loop = "running"
    /\ sender_dropped
    /\ Leave
    /\ UNCHANGED <<ws, reconnect_attempt, failures, userVars>>

\* A Close frame, a read error, or a ping that cannot be sent.  The first tick
\* of a fresh ping timer is immediate, so a dead socket is always noticed.
ConnectionLostArm ==
    /\ loop = "running"
    /\ ws = "closed"
    /\ loop' = "drain"
    /\ Send("Disconnected")
    /\ UNCHANGED <<ws, reconnect_attempt, failures, userVars>>

PongTimeoutArm ==
    /\ loop = "running"
    /\ ws = "silent"
    /\ loop' = "drain"
    /\ Send("Disconnected")
    /\ UNCHANGED <<ws, reconnect_attempt, failures, userVars>>

-----------------------------------------------------------------------------
(* run_connection_loop_with_reconnect. *)

FailPending ==
    /\ loop = "drain"
    /\ loop' = "decide"
    /\ UNCHANGED <<ws, reconnect_attempt, failures, userVars, watchVars>>

\* Mutant of StopLooping: the token is not looked at.
StopLoopingWhenDropped ==
    /\ loop = "decide"
    /\ sender_dropped
    /\ loop' = "cleanup"
    /\ UNCHANGED <<ws, reconnect_attempt, failures, userVars, watchVars>>

\* shutdown.is_cancelled(), or request_rx.is_closed().
StopLooping ==
    /\ loop = "decide"
    /\ shutdown \/ sender_dropped
    /\ loop' = "cleanup"
    /\ UNCHANGED <<ws, reconnect_attempt, failures, userVars, watchVars>>

\* Mutant of LimitReached: one attempt too few.
LimitReachedEarly ==
    /\ MaxReconnectAttempts # NoLimit
    /\ reconnect_attempt + 1 >= MaxReconnectAttempts

\* The attempt about to be numbered is one too many.
LimitReached ==
    /\ MaxReconnectAttempts # NoLimit
    /\ reconnect_attempt + 1 > MaxReconnectAttempts

GiveUp ==
    /\ loop = "decide"
    /\ ~shutdown /\ ~sender_dropped
    /\ LimitReached
    /\ reconnect_attempt' = Capped(reconnect_attempt)
    /\ loop' = "cleanup"
    /\ Send("GaveUp")
    /\ UNCHANGED <<ws, failures, userVars>>

\* Mutant of StartReconnecting: the state is not published.
StartReconnectingQuietly ==
    /\ loop = "decide"
    /\ ~shutdown /\ ~sender_dropped
    /\ ~LimitReached
    /\ reconnect_attempt' = Capped(reconnect_attempt)
    /\ loop' = "backoff"
    /\ UNCHANGED <<ws, failures, userVars, watchVars>>

StartReconnecting ==
    /\ loop = "decide"
    /\ ~shutdown /\ ~sender_dropped
    /\ ~LimitReached
    /\ reconnect_attempt' = Capped(reconnect_attempt)
    /\ loop' = "backoff"
    /\ Send("Reconnecting")
    /\ UNCHANGED <<ws, failures, userVars>>

BackoffElapsed ==
    /\ loop = "backoff"
    /\ loop' = "connecting"
    /\ UNCHANGED <<ws, reconnect_attempt, failures, userVars, watchVars>>

\* Mutant of EstablishOk: the attempts go on being counted.
EstablishOkWithoutReset ==
    /\ loop = "connecting"
    /\ ws' = "up"
    /\ failures' = 0
    /\ loop' = "resuming"
    /\ Send("Connected")
    /\ UNCHANGED <<reconnect_attempt, userVars>>

EstablishOk ==
    /\ loop = "connecting"
    /\ ws' = "up"
    /\ reconnect_attempt' = 0
    /\ failures' = 0
    /\ loop' = "resuming"
    /\ Send("Connected")
    /\ UNCHANGED userVars

\* Mutant of EstablishFails: the old socket was given away for the attempt.
EstablishFailsWithoutSocket ==
    /\ loop = "connecting"
    /\ ws' = "none"
    /\ failures' = Capped(failures)
    /\ loop' = "running"
    /\ UNCHANGED <<reconnect_attempt, userVars, watchVars>>

\* The loop goes round with the socket it already had.
EstablishFails ==
    /\ loop = "connecting"
    /\ failures' = Capped(failures)
    /\ loop' = "running"
    /\ UNCHANGED <<ws, reconnect_attempt, userVars, watchVars>>

\* resume_streams returns.
Resumed ==
    /\ loop = "resuming"
    /\ loop' = "running"
    /\ UNCHANGED <<ws, reconnect_attempt, failures, userVars, watchVars>>

Cleanup ==
    /\ loop = "cleanup"
    /\ loop' = "exited"
    /\ UNCHANGED <<ws, reconnect_attempt, failures, userVars, watchVars>>

-----------------------------------------------------------------------------
(* The peer and the network. *)

PeerCloses ==
    /\ ws # "closed"
    /\ ws' = "closed"
    /\ UNCHANGED <<loop, reconnect_attempt, failures, userVars, watchVars>>

\* The connection stalls: what is sent is accepted and nothing comes back.
PeerSilent ==
    /\ loop \in SilentPhases
    /\ ws = "up"
    /\ ws' = "silent"
    /\ UNCHANGED <<loop, reconnect_attempt, failures, userVars, watchVars>>

PeerRecovers ==
    /\ ws = "silent"
    /\ ws' = "up"
    /\ UNCHANGED <<loop, reconnect_attempt, failures, userVars, watchVars>>

-----------------------------------------------------------------------------
(* The user of the client. *)

\* The end of connect: send_replace(Connected), after the task was spawned.
ConnectReturns ==
    /\ ~constructed
    /\ constructed' = TRUE
    /\ lost' = (state # "Connecting")
    /\ Store("Connected")
    /\ UNCHANGED <<loop, ws, reconnect_attempt, failures, watching, shutdown,
                   closing, sender_dropped>>

\* state_receiver() while the client is open, and dropping that receiver.
Watch ==
    /\ constructed /\ ~sender_dropped /\ closing # "cleared"
    /\ watching' = ~watching
    /\ UNCHANGED <<loop, ws, reconnect_attempt, failures, constructed,
                   shutdown, closing, sender_dropped, watchVars>>

Close ==
    /\ constructed /\ ~sender_dropped
    /\ closing = "idle"
    /\ closing' = "stopping"
    /\ UNCHANGED <<loop, ws, reconnect_attempt, failures, watching,
                   constructed, shutdown, sender_dropped, watchVars>>

\* stop_all_streams has returned: cancel the token.
CancelToken ==
    /\ closing = "stopping"
    /\ shutdown' = TRUE
    /\ closing' = "announcing"
    /\ UNCHANGED <<loop, ws, reconnect_attempt, failures, watching,
                   constructed, sender_dropped, watchVars>>

\* shutdown publishes the state, then close clears the client.
AnnounceShutdown ==
    /\ closing = "announcing"
    /\ closing' = "cleared"
    /\ Send("Shutdown")
    /\ UNCHANGED <<loop, ws, reconnect_attempt, failures, watching,
                   constructed, shutdown, sender_dropped>>

\* The last Arc<Connection> goes: QuoteStreams may keep one after close, and
\* a client may be dropped without close, but not while a call borrows it.
DropConnection ==
    /\ constructed /\ ~sender_dropped
    /\ \/ closing = "cleared"
       \/ closing = "idle" /\ waiter \notin {"checking", "waiting"}
    /\ sender_dropped' = TRUE
    /\ UNCHANGED <<loop, ws, reconnect_attempt, failures, watching,
                   constructed, shutdown, closing, watchVars>>

(* wait_for_connected. *)

\* After close, state_receiver() gives a receiver whose sender is gone.
WaitStart ==
    /\ constructed /\ ~sender_dropped
    /\ waiter \in {"idle", "ok", "failed"}
    /\ waiter' = IF closing = "cleared" THEN "failed" ELSE "checking"
    /\ unseen' = FALSE
    /\ UNCHANGED <<loop, ws, reconnect_attempt, failures, userVars, state, lost>>

\* Mutant of WaitCheck: the reason of the end is not recognised.
WaitCheckConnectedOnly ==
    /\ waiter = "checking"
    /\ waiter' = IF state = "Connected" THEN "ok" ELSE "waiting"
    /\ unseen' = FALSE
    /\ UNCHANGED <<loop, ws, reconnect_attempt, failures, userVars, state, lost>>

WaitCheck ==
    /\ waiter = "checking"
    /\ waiter' = CASE state = "Connected" -> "ok"
                   [] state = "GaveUp"    -> "failed"
                   [] OTHER               -> "waiting"
    /\ unseen' = FALSE
    /\ UNCHANGED <<loop, ws, reconnect_attempt, failures, userVars, state, lost>>

\* receiver.changed(): a newer value, or an error once both senders are gone.
WaitChanged ==
    /\ waiter = "waiting"
    /\ \/ unseen /\ waiter' = "checking"
       \/ ~unseen /\ loop = "exited" /\ sender_dropped /\ waiter' = "failed"
    /\ UNCHANGED <<loop, ws, reconnect_attempt, failures, userVars, state,
                   lost, unseen>>

-----------------------------------------------------------------------------
LeaveStep == \/ ShutdownArm \/ ChannelClosedArm
             \/ ConnectionLostArm \/ PongTimeoutArm

DecideStep == StopLooping \/ GiveUp \/ StartReconnecting

EstablishStep == EstablishOk \/ EstablishFails

PeerStep == PeerCloses \/ PeerSilent \/ PeerRecovers

UserStep == \/ ConnectReturns \/ Watch \/ Close \/ CancelToken
            \/ AnnounceShutdown \/ DropConnection

WaiterStep == WaitStart \/ WaitCheck \/ WaitChanged

LoopNext ==
    \/ LeaveStep \/ FailPending \/ DecideStep \/ BackoffElapsed
    \/ EstablishStep \/ Resumed \/ Cleanup
    \/ PeerStep \/ UserStep \/ WaiterStep

LoopSpec == LoopInit /\ [][LoopNext]_loopVars

\* The task is polled whenever it can go on; sleeps end; the handshake ends one
\* way or the other; connect runs to its end, and so does close once it has
\* cancelled the token (before, it waits for answers of the peer).  The select
\* polls its arms in random order, so an arm that is ready again and again is
\* taken in the end (SF).  resume_streams waits for the peer's answers without
\* a timeout: on a silent socket nothing forces it to return.
LoopFairness ==
    /\ WF_loopVars(LeaveStep) /\ SF_loopVars(ShutdownArm)
    /\ WF_loopVars(FailPending) /\ WF_loopVars(DecideStep)
    /\ WF_loopVars(BackoffElapsed) /\ WF_loopVars(EstablishStep)
    /\ WF_loopVars(Resumed /\ ws # "silent") /\ WF_loopVars(Cleanup)
    /\ WF_loopVars(ConnectReturns) /\ WF_loopVars(AnnounceShutdown)
    /\ WF_loopVars(WaitCheck) /\ WF_loopVars(WaitChanged)

FairLoopSpec == LoopSpec /\ LoopFairness

-----------------------------------------------------------------------------
(* Safety. *)

\* reconnect_attempt numbers the attempts since the last success: it is one
\* more than the failures while an attempt is under way, and the failures while
\* the old socket is tried again, so the limit counts consecutive attempts only.
AttemptsCounted ==
    CASE loop \in {"backoff", "connecting"} ->
             reconnect_attempt = Capped(failures)
      [] loop \in {"cleanup", "exited"}     -> failures <= reconnect_attempt
      [] OTHER                              -> reconnect_attempt = failures

\* The loop gives up after exactly max_reconnect_attempts failures in a row.
GivesUpAtLimit ==
    state = "GaveUp" => failures = MaxReconnectAttempts

\* Whatever interleaving of the task with connect, close and the receivers: if
\* the last update was stored and close has not announced the shutdown, the
\* published state is the one of the phase the task is in.
PublishedState ==
    (~lost /\ constructed /\ closing # "cleared") =>
        /\ loop \in {"backoff", "connecting"} => state = "Reconnecting"
        /\ loop = "resuming" => state = "Connected"
        /\ (loop = "running" /\ state = "Reconnecting") => failures > 0
        /\ state \in {"Connected", "Reconnecting", "Disconnected", "GaveUp"}

\* "Returns true if currently connected": never while the task reconnects.  Not
\* so when an update was lost for want of a receiver; PublishedState says what
\* is left of it.
ConnectedIsCurrent ==
    (constructed /\ loop \in {"backoff", "connecting"}) => state # "Connected"

\* wait_for_connected does not sleep on an answer: when it waits and no newer
\* value has come, the stored state is neither Connected nor the end.
WaitMissesNothing ==
    (waiter = "waiting" /\ ~unseen) => state \notin {"Connected", "GaveUp"}

-----------------------------------------------------------------------------
(* Liveness. *)

\* close ends the background task.
ShutdownEndsTask == shutdown ~> loop = "exited"
=============================================================================
