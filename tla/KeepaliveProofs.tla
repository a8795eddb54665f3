--------------------------- MODULE KeepaliveProofs ---------------------------
(***************************************************************************)
(* For which intervals and timeouts the keepalive works, for every value   *)
(* of the constants: it notices a dead peer when the timeout is shorter    *)
(* than the interval, and spares a live one when the timeout covers the    *)
(* round trip and the waiting.                                             *)
(***************************************************************************)
EXTENDS Keepalive, TLAPS

\* What type correctness needs: a tick and a pong never wait beyond MaxDelay.
THEOREM KeepaliveTypeCorrect == KeepaliveSpec => []KeepaliveTypeOK
<1> USE KeepaliveAssumption DEF KeepaliveAssumption
<1>1. KeepaliveInit => KeepaliveTypeOK
  <2> SUFFICES ASSUME KeepaliveInit PROVE KeepaliveTypeOK
    OBVIOUS
  <2>1. /\ awaiting_pong \in BOOLEAN
        /\ dead \in BOOLEAN
        /\ timed_out \in BOOLEAN
    BY DEF KeepaliveInit
  <2>2. /\ tick \in (-MaxDelay)..PingInterval
        /\ since_ping \in Nat
        /\ pongs \subseteq (-MaxDelay)..RoundTrip
        /\ dead_for \in 0..Horizon
    BY DEF KeepaliveInit
  <2> QED BY <2>1, <2>2 DEF KeepaliveTypeOK
<1>2. KeepaliveTypeOK /\ [KeepaliveNext]_keepaliveVars => KeepaliveTypeOK'
  <2> SUFFICES ASSUME KeepaliveTypeOK, [KeepaliveNext]_keepaliveVars
               PROVE  KeepaliveTypeOK'
    OBVIOUS
  <2> USE DEF KeepaliveTypeOK
  <2>1. CASE Elapse
    <3>1. pongs' \subseteq (-MaxDelay)..RoundTrip
      BY <2>1 DEF Elapse
    <3> QED BY <2>1, <3>1 DEF Elapse
  <2>2. CASE PingTimesOut
    BY <2>2 DEF PingTimesOut
  <2>3. CASE PingTick
    <3>1. CASE UNCHANGED pongs
      BY <2>3, <3>1 DEF PingTick
    <3>2. CASE ~dead
      <4>1. PICK delay \in 0..RoundTrip : pongs' = pongs \cup {delay}
        BY <2>3, <3>2 DEF PingTick
      <4>2. pongs' \subseteq (-MaxDelay)..RoundTrip
        BY <4>1
      <4> QED BY <2>3, <4>2 DEF PingTick
    <3> QED BY <2>3, <3>1, <3>2 DEF PingTick
  <2>4. CASE ReadPong
    BY <2>4 DEF ReadPong
  <2>5. CASE PeerDies
    BY <2>5 DEF PeerDies
  <2>6. CASE UNCHANGED keepaliveVars
    BY <2>6 DEF keepaliveVars
  <2> QED BY <2>1, <2>2, <2>3, <2>4, <2>5, <2>6 DEF KeepaliveNext
<1> QED BY <1>1, <1>2, PTL DEF KeepaliveSpec

-----------------------------------------------------------------------------
\* While the peer lives, the pong to the last ping is on its way or waits to be
\* read, and it will be read before RoundTrip + MaxDelay have gone by.
PongOnItsWay ==
    (~dead /\ awaiting_pong) => \E p \in pongs : p + since_ping <= RoundTrip

\* A peer that answers every ping within RoundTrip is never given up by the
\* ping arm, whatever the interval, if the timeout also covers the time a pong
\* may wait for the task.
THEOREM LivePeerSpared ==
    ASSUME RoundTrip + MaxDelay <= PongTimeout
    PROVE  KeepaliveSpec => []NoFalseTimeout
<1> USE KeepaliveAssumption DEF KeepaliveAssumption
<1> DEFINE IInv == PongOnItsWay /\ NoFalseTimeout
<1>1. KeepaliveInit => IInv
  BY DEF KeepaliveInit, PongOnItsWay, NoFalseTimeout
<1>2. KeepaliveTypeOK /\ IInv /\ [KeepaliveNext]_keepaliveVars => IInv'
  <2> SUFFICES ASSUME KeepaliveTypeOK, IInv, [KeepaliveNext]_keepaliveVars
               PROVE  IInv'
    OBVIOUS
  <2> USE DEF KeepaliveTypeOK, PongOnItsWay, NoFalseTimeout
  <2>1. CASE Elapse
    <3>1. ASSUME ~dead', awaiting_pong'
          PROVE  \E p \in pongs' : p + since_ping' <= RoundTrip
      <4>1. PICK p \in pongs : p + since_ping <= RoundTrip
        BY <2>1, <3>1 DEF Elapse
      <4>2. p - 1 \in pongs'
        BY <2>1 DEF Elapse
      <4>3. (p - 1) + since_ping' = p + since_ping
        BY <2>1 DEF Elapse
      <4> QED BY <4>1, <4>2, <4>3
    <3> QED BY <2>1, <3>1 DEF Elapse
  <2>2. CASE PingTimesOut
    \* The pong would have had to wait for more than MaxDelay.
    <3>1. ASSUME ~dead PROVE FALSE
      <4>1. PICK p \in pongs : p + since_ping <= RoundTrip
        BY <2>2, <3>1 DEF PingTimesOut, PongOverdue
      <4>2. p \in Int /\ p >= -MaxDelay
        BY <4>1
      <4> QED BY <2>2, <4>1, <4>2 DEF PingTimesOut, PongOverdue
    <3> QED BY <2>2, <3>1 DEF PingTimesOut
  <2>3. CASE PingTick
    <3>1. ASSUME ~dead'
          PROVE  \E p \in pongs' : p + since_ping' <= RoundTrip
      <4>1. PICK delay \in 0..RoundTrip : pongs' = pongs \cup {delay}
        BY <2>3, <3>1 DEF PingTick
      <4> QED BY <2>3, <4>1 DEF PingTick
    <3> QED BY <2>3, <3>1 DEF PingTick
  <2>4. CASE ReadPong
    BY <2>4 DEF ReadPong
  <2>5. CASE PeerDies
    BY <2>5 DEF PeerDies
  <2>6. CASE UNCHANGED keepaliveVars
    BY <2>6 DEF keepaliveVars
  <2> QED BY <2>1, <2>2, <2>3, <2>4, <2>5, <2>6 DEF KeepaliveNext
<1> QED BY <1>1, <1>2, KeepaliveTypeCorrect, PTL DEF KeepaliveSpec

-----------------------------------------------------------------------------
\* The age of the last ping when the next tick comes, and how far the check can
\* lag behind a death: by one interval until a ping has been sent to the dead
\* peer and nothing is left that could answer for it, and by two from then on.
DeathNoticedInTime ==
    /\ ~dead => dead_for = 0
    /\ awaiting_pong => since_ping + tick >= PingInterval - MaxDelay
    /\ dead => /\ \A p \in pongs : p + dead_for <= 0
               /\ dead_for + tick <= 2 * PingInterval + MaxDelay
               /\ (~awaiting_pong \/ pongs # {}) =>
                      dead_for + tick <= PingInterval + MaxDelay

\* A dead peer is noticed within two intervals and the waiting, for every
\* timeout that is shorter than the interval by more than a ping may wait for
\* the task.  (With a timeout as long as the interval it never is.)
THEOREM DeadPeerIsNoticed ==
    ASSUME 0 < PongTimeout, PongTimeout + MaxDelay < PingInterval
    PROVE  KeepaliveSpec => []DeadPeerNoticed
<1> USE KeepaliveAssumption DEF KeepaliveAssumption
<1> DEFINE IInv == ~timed_out => DeathNoticedInTime
<1>1. KeepaliveInit => IInv
  BY DEF KeepaliveInit, DeathNoticedInTime
<1>2. KeepaliveTypeOK /\ IInv /\ [KeepaliveNext]_keepaliveVars => IInv'
  <2> SUFFICES ASSUME KeepaliveTypeOK, IInv, [KeepaliveNext]_keepaliveVars
               PROVE  IInv'
    OBVIOUS
  <2> USE DEF KeepaliveTypeOK, DeathNoticedInTime
  <2>1. CASE Elapse
    <3>1. ASSUME dead' PROVE \A p \in pongs' : p + dead_for' <= 0
      BY <2>1, <3>1 DEF Elapse
    <3>2. pongs' # {} => pongs # {}
      BY <2>1 DEF Elapse
    <3> QED BY <2>1, <3>1, <3>2 DEF Elapse
  <2>2. CASE PingTimesOut
    BY <2>2 DEF PingTimesOut
  <2>3. CASE PingTick
    \* A dead peer that is awaited, with no pong left to read, is given up here.
    <3>1. ASSUME dead PROVE ~awaiting_pong \/ pongs # {}
      BY <2>3, <3>1 DEF PingTick, PongOverdue
    <3>2. ASSUME dead, pongs # {} PROVE dead_for <= MaxDelay
      <4>1. PICK p \in pongs : p + dead_for <= 0
        BY <2>3, <3>2 DEF PingTick
      <4> QED BY <4>1
    <3>3. dead_for' = dead_for /\ tick' = tick + PingInterval /\ tick <= 0
      BY <2>3 DEF PingTick
    <3>4. since_ping' + tick' >= PingInterval - MaxDelay
      BY <2>3 DEF PingTick
    <3>5. ASSUME dead
          PROVE  /\ \A p \in pongs' : p + dead_for' <= 0
                 /\ dead_for' + tick' <= 2 * PingInterval + MaxDelay
                 /\ pongs' # {} => dead_for' + tick' <= PingInterval + MaxDelay
      <4>1. pongs' = pongs
        BY <2>3, <3>5 DEF PingTick
      <4>2. CASE pongs = {}
        BY <2>3, <3>1, <3>3, <3>5, <4>1, <4>2 DEF PingTick
      <4>3. CASE pongs # {}
        BY <2>3, <3>2, <3>3, <3>5, <4>1, <4>3 DEF PingTick
      <4> QED BY <4>2, <4>3
    <3> QED BY <2>3, <3>4, <3>5 DEF PingTick
  <2>4. CASE ReadPong
    BY <2>4 DEF ReadPong
  <2>5. CASE PeerDies
    BY <2>5 DEF PeerDies
  <2>6. CASE UNCHANGED keepaliveVars
    BY <2>6 DEF keepaliveVars
  <2> QED BY <2>1, <2>2, <2>3, <2>4, <2>5, <2>6 DEF KeepaliveNext
<1>3. KeepaliveTypeOK /\ IInv => DeadPeerNoticed
  BY DEF KeepaliveTypeOK, DeathNoticedInTime, DeadPeerNoticed
<1> QED BY <1>1, <1>2, <1>3, KeepaliveTypeCorrect, PTL DEF KeepaliveSpec

-----------------------------------------------------------------------------
\* The last ping is never older than the interval and the waiting.
PingIsRecent == awaiting_pong => since_ping + tick <= PingInterval

\* The converse, which the configuration does not rule out: when the timeout is
\* as long as the interval and the waiting, every tick finds a ping that is too
\* young, sends another, and no peer is ever given up, dead or alive.
THEOREM LongTimeoutNeverFires ==
    ASSUME PingInterval + MaxDelay <= PongTimeout
    PROVE  KeepaliveSpec => []~timed_out
<1> USE KeepaliveAssumption DEF KeepaliveAssumption
<1> DEFINE IInv == PingIsRecent /\ ~timed_out
<1>1. KeepaliveInit => IInv
  BY DEF KeepaliveInit, PingIsRecent
<1>2. KeepaliveTypeOK /\ IInv /\ [KeepaliveNext]_keepaliveVars => IInv'
  <2> SUFFICES ASSUME KeepaliveTypeOK, IInv, [KeepaliveNext]_keepaliveVars
               PROVE  IInv'
    OBVIOUS
  <2> USE DEF KeepaliveTypeOK, PingIsRecent
  <2>1. CASE Elapse
    BY <2>1 DEF Elapse
  <2>2. CASE PingTimesOut
    BY <2>2 DEF PingTimesOut, PongOverdue
  <2>3. CASE PingTick
    BY <2>3 DEF PingTick
  <2>4. CASE ReadPong
    BY <2>4 DEF ReadPong
  <2>5. CASE PeerDies
    BY <2>5 DEF PeerDies
  <2>6. CASE UNCHANGED keepaliveVars
    BY <2>6 DEF keepaliveVars
  <2> QED BY <2>1, <2>2, <2>3, <2>4, <2>5, <2>6 DEF KeepaliveNext
<1> QED BY <1>1, <1>2, KeepaliveTypeCorrect, PTL DEF KeepaliveSpec
=============================================================================
