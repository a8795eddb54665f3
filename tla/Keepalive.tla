------------------------------ MODULE Keepalive ------------------------------
(***************************************************************************)
(* The keepalive of run_single_connection (src/src/connection.rs): a ping  *)
(* at every tick of an interval timer, and a check at the same tick that   *)
(* the last ping was answered in time.                                     *)
(*                                                                         *)
(* Time is discrete.  The variables are distances in time, not dates, and  *)
(* Elapse moves all of them.  The task handles one event of its select at  *)
(* a time, so an event may wait for the task, up to MaxDelay, and of two   *)
(* events that wait either may be handled first.                           *)
(***************************************************************************)
EXTENDS Integers

CONSTANTS
    PingInterval,  \* ping_interval_ms, or its default
    PongTimeout,   \* pong_timeout_ms; 0 switches the check off
    RoundTrip,     \* the slowest pong of a live peer
    MaxDelay,      \* the longest an event waits for the task
    Horizon        \* bound: dead_for is not counted beyond it

ASSUME KeepaliveAssumption ==
    /\ PingInterval \in Nat \ {0}
    /\ PongTimeout \in Nat
    /\ RoundTrip \in Nat
    /\ MaxDelay \in Nat
    /\ MaxDelay < PingInterval
    /\ Horizon \in Nat
    /\ 2 * (PingInterval + MaxDelay) < Horizon

VARIABLES
    tick,           \* time to the next tick; negative while it waits
    awaiting_pong,
    since_ping,     \* last_ping.elapsed()
    pongs,          \* time to the arrival of each pong; negative while it waits
    dead,           \* the peer has died without closing
    dead_for,       \* how long ago (history)
    timed_out       \* the task returned "Pong timeout"

keepaliveVars == <<tick, awaiting_pong, since_ping, pongs, dead, dead_for, timed_out>>

KeepaliveTypeOK ==
    /\ tick \in (-MaxDelay)..PingInterval
    /\ awaiting_pong \in BOOLEAN
    /\ since_ping \in Nat
    /\ pongs \subseteq (-MaxDelay)..RoundTrip
    /\ dead \in BOOLEAN
    /\ dead_for \in 0..Horizon
    /\ timed_out \in BOOLEAN

\* The first tick of an interval is immediate.
KeepaliveInit ==
    /\ tick = 0
    /\ awaiting_pong = FALSE
    /\ since_ping = 0
    /\ pongs = {}
    /\ dead = FALSE
    /\ dead_for = 0
    /\ timed_out = FALSE

\* One unit of time, unless an event has already waited for MaxDelay.
Elapse ==
    /\ ~timed_out
    /\ tick > -MaxDelay
    /\ \A p \in pongs : p > -MaxDelay
    /\ tick' = tick - 1
    /\ since_ping' = since_ping + 1
    /\ pongs' = {p - 1 : p \in pongs}
    /\ dead_for' = IF dead /\ dead_for < Horizon THEN dead_for + 1 ELSE dead_for
    /\ UNCHANGED <<awaiting_pong, dead, timed_out>>

\* Mutant of PongOverdue: the timeout starts at the ping after the missed one.
PongOverdueLate ==
    /\ PongTimeout > 0
    /\ awaiting_pong
    /\ since_ping > PingInterval + PongTimeout

\* The condition under which the ping arm gives the connection up.
PongOverdue ==
    /\ PongTimeout > 0
    /\ awaiting_pong
    /\ since_ping > PongTimeout

PingTimesOut ==
    /\ ~timed_out
    /\ tick <= 0
    /\ PongOverdue
    /\ timed_out' = TRUE
    /\ UNCHANGED <<tick, awaiting_pong, since_ping, pongs, dead, dead_for>>

\* Mutant of PingTick: the next ping waits for the timeout as well.
PingTickSlow ==
    /\ ~timed_out
    /\ tick <= 0
    /\ ~PongOverdue
    /\ tick' = tick + PingInterval + PongTimeout
    /\ awaiting_pong' = TRUE
    /\ since_ping' = 0
    /\ \/ dead /\ UNCHANGED pongs
       \/ ~dead /\ \E delay \in 0..RoundTrip : pongs' = pongs \cup {delay}
    /\ UNCHANGED <<dead, dead_for, timed_out>>

\* Otherwise it sends a ping, which a live peer answers.  The timer skips
\* missed ticks and keeps its schedule, so the next one is a period later.
PingTick ==
    /\ ~timed_out
    /\ tick <= 0
    /\ ~PongOverdue
    /\ tick' = tick + PingInterval
    /\ awaiting_pong' = TRUE
    /\ since_ping' = 0
    /\ \/ dead /\ UNCHANGED pongs
       \/ ~dead /\ \E delay \in 0..RoundTrip : pongs' = pongs \cup {delay}
    /\ UNCHANGED <<dead, dead_for, timed_out>>

\* Mutant of ReadPong: the pong is read and awaiting_pong stays set.
ReadPongIgnored ==
    /\ ~timed_out
    /\ \E p \in pongs :
         /\ p <= 0
         /\ pongs' = pongs \ {p}
    /\ UNCHANGED <<tick, awaiting_pong, since_ping, dead, dead_for, timed_out>>

\* Any pong will do: pings carry no payload to tell them apart.
ReadPong ==
    /\ ~timed_out
    /\ \E p \in pongs :
         /\ p <= 0
         /\ pongs' = pongs \ {p}
    /\ awaiting_pong' = FALSE
    /\ UNCHANGED <<tick, since_ping, dead, dead_for, timed_out>>

\* The peer dies; the pongs that have not arrived never will.
PeerDies ==
    /\ ~timed_out
    /\ ~dead
    /\ dead' = TRUE
    /\ pongs' = {p \in pongs : p <= 0}
    /\ UNCHANGED <<tick, awaiting_pong, since_ping, dead_for, timed_out>>

KeepaliveNext == Elapse \/ PingTimesOut \/ PingTick \/ ReadPong \/ PeerDies

KeepaliveSpec == KeepaliveInit /\ [][KeepaliveNext]_keepaliveVars

\* Time goes on and the task handles what is ready.
FairKeepaliveSpec ==
    /\ KeepaliveSpec
    /\ WF_keepaliveVars(Elapse)
    /\ WF_keepaliveVars(PingTimesOut \/ PingTick \/ ReadPong)

-----------------------------------------------------------------------------
\* A dead peer is noticed within two intervals and the waiting they allow.
\* The task returns at a tick only, and a pong that was already waiting when
\* the peer died may answer for the first ping after it.
DeadPeerNoticed ==
    (dead /\ ~timed_out) => dead_for <= 2 * (PingInterval + MaxDelay)

\* A live peer that answers within RoundTrip is never given up.
NoFalseTimeout == timed_out => dead

\* "If the server doesn't respond with a pong within pong_timeout_ms, the
\* client treats the connection as dead": it really comes to that, which
\* DeadPeerNoticed would not notice if no tick came any more.
DeadPeerTimesOut == dead ~> timed_out
=============================================================================
