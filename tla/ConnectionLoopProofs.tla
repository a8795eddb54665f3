------------------------ MODULE ConnectionLoopProofs ------------------------
(***************************************************************************)
(* For every limit of attempts, and wherever the peer falls silent: the    *)
(* attempts are counted right, the published state is the one of the phase *)
(* the task is in, and wait_for_connected does not sleep on an answer.     *)
(***************************************************************************)
EXTENDS ConnectionLoop, TLAPS

\* The limit is kept: an attempt is only begun below it, and GaveUp is only
\* published by a task on its way out, after as many failures.
LimitKept ==
    /\ MaxReconnectAttempts # NoLimit =>
           /\ failures <= MaxReconnectAttempts
           /\ loop \in {"backoff", "connecting"} =>
                  reconnect_attempt <= MaxReconnectAttempts
    /\ state = "GaveUp" =>
           loop \in {"cleanup", "exited"} /\ failures = MaxReconnectAttempts

\* What PublishedState says, without its condition.
StateOfPhase ==
    /\ loop \in {"backoff", "connecting"} => state = "Reconnecting"
    /\ loop = "resuming" => state = "Connected"
    /\ (loop = "running" /\ state = "Reconnecting") => failures > 0
    /\ state \in {"Connected", "Reconnecting", "Disconnected", "GaveUp"}

\* Until connect returns its receiver lives, so nothing is lost, and nobody
\* else has the connection; Connecting is the state until the first update.
BeforeConstructed ==
    ~constructed =>
        /\ ~lost
        /\ closing = "idle"
        /\ state = "Connecting" =>
               loop \notin {"backoff", "connecting", "resuming"}
        /\ state # "Connecting" => StateOfPhase

AfterConstructed ==
    (constructed /\ ~lost /\ closing # "cleared") => StateOfPhase

\* The invariant: neither GivesUpAtLimit nor PublishedState is inductive.
LoopInv ==
    /\ LoopTypeOK
    /\ AttemptsCounted
    /\ LimitKept
    /\ BeforeConstructed
    /\ AfterConstructed
    /\ WaitMissesNothing

-----------------------------------------------------------------------------
(* One lemma per part of the invariant, one step per action. *)

\* An update of the watch channel keeps the types of its variables.
LEMMA StoreTypes ==
    ASSUME LoopTypeOK, NEW s \in States, Store(s)
    PROVE  /\ state' \in States
           /\ waiter' \in {"idle", "checking", "waiting", "ok", "failed"}
           /\ unseen' \in BOOLEAN
<1>1. unseen' \in BOOLEAN
  <2> DEFINE listening == waiter \in {"checking", "waiting"}
  <2>1. unseen' = listening
    BY DEF Store
  <2>2. listening \in BOOLEAN
    OBVIOUS
  <2> QED BY <2>1, <2>2
<1>2. waiter \in {"idle", "checking", "waiting", "ok", "failed"}
  BY DEF LoopTypeOK
<1>3. state' \in States
  BY DEF Store
<1>4. waiter' = waiter
  BY DEF Store
<1> QED BY <1>1, <1>2, <1>3, <1>4

LEMMA SendTypes ==
    ASSUME LoopTypeOK, NEW s \in States, Send(s)
    PROVE  /\ state' \in States
           /\ lost' \in BOOLEAN
           /\ waiter' \in {"idle", "checking", "waiting", "ok", "failed"}
           /\ unseen' \in BOOLEAN
<1>1. lost' \in BOOLEAN
  BY Zenon DEF Send, HasReceiver
<1>2. CASE HasReceiver
  BY <1>1, <1>2, StoreTypes DEF Send
<1>3. CASE ~HasReceiver
  BY <1>1, <1>3 DEF Send, LoopTypeOK
<1> QED BY <1>2, <1>3

\* Types.
LEMMA NextTypes == LoopTypeOK /\ [LoopNext]_loopVars => LoopTypeOK'
<1> SUFFICES ASSUME LoopTypeOK, [LoopNext]_loopVars PROVE LoopTypeOK'
  OBVIOUS
<1> USE ConnectionLoopAssumption
        DEF ConnectionLoopAssumption, Phase, userVars, watchVars
<1>1. CASE ShutdownArm
  BY <1>1 DEF ShutdownArm, Leave, LoopTypeOK
<1>2. CASE ChannelClosedArm
  BY <1>2 DEF ChannelClosedArm, Leave, LoopTypeOK
<1>3. CASE ConnectionLostArm
  <2>1. "Disconnected" \in States
    BY DEF States
  <2>2. Send("Disconnected")
    BY <1>3 DEF ConnectionLostArm
  <2> QED BY <1>3, <2>1, <2>2, SendTypes DEF ConnectionLostArm, LoopTypeOK
<1>4. CASE PongTimeoutArm
  <2>1. "Disconnected" \in States
    BY DEF States
  <2>2. Send("Disconnected")
    BY <1>4 DEF PongTimeoutArm
  <2> QED BY <1>4, <2>1, <2>2, SendTypes DEF PongTimeoutArm, LoopTypeOK
<1>5. CASE FailPending
  BY <1>5 DEF FailPending, LoopTypeOK
<1>6. CASE StopLooping
  BY <1>6 DEF StopLooping, LoopTypeOK
<1>7. CASE GiveUp
  <2>1. "GaveUp" \in States
    BY DEF States
  <2>2. Send("GaveUp")
    BY <1>7 DEF GiveUp
  <2> QED BY <1>7, <2>1, <2>2, SendTypes DEF GiveUp, Capped, LoopTypeOK
<1>8. CASE StartReconnecting
  <2>1. "Reconnecting" \in States
    BY DEF States
  <2>2. Send("Reconnecting")
    BY <1>8 DEF StartReconnecting
  <2> QED BY <1>8, <2>1, <2>2, SendTypes
          DEF StartReconnecting, Capped, LoopTypeOK
<1>9. CASE BackoffElapsed
  BY <1>9 DEF BackoffElapsed, LoopTypeOK
<1>10. CASE EstablishOk
  <2>1. "Connected" \in States
    BY DEF States
  <2>2. Send("Connected")
    BY <1>10 DEF EstablishOk
  <2> QED BY <1>10, <2>1, <2>2, SendTypes DEF EstablishOk, LoopTypeOK
<1>11. CASE EstablishFails
  BY <1>11 DEF EstablishFails, Capped, LoopTypeOK
<1>12. CASE Resumed
  BY <1>12 DEF Resumed, LoopTypeOK
<1>13. CASE Cleanup
  BY <1>13 DEF Cleanup, LoopTypeOK
<1>14. CASE PeerCloses
  BY <1>14 DEF PeerCloses, LoopTypeOK
<1>15. CASE PeerSilent
  BY <1>15 DEF PeerSilent, LoopTypeOK
<1>16. CASE PeerRecovers
  BY <1>16 DEF PeerRecovers, LoopTypeOK
<1>17. CASE ConnectReturns
  <2>1. "Connected" \in States
    BY DEF States
  <2>2. Store("Connected")
    BY <1>17 DEF ConnectReturns
  <2>3. lost' \in BOOLEAN
    BY <1>17, Zenon DEF ConnectReturns
  <2> QED BY <1>17, <2>1, <2>2, <2>3, StoreTypes DEF ConnectReturns, LoopTypeOK
<1>18. CASE Watch
  <2>1. watching' \in BOOLEAN
    BY <1>18, Zenon DEF Watch
  <2> QED BY <1>18, <2>1 DEF Watch, LoopTypeOK
<1>19. CASE Close
  BY <1>19 DEF Close, LoopTypeOK
<1>20. CASE CancelToken
  BY <1>20 DEF CancelToken, LoopTypeOK
<1>21. CASE AnnounceShutdown
  <2>1. "Shutdown" \in States
    BY DEF States
  <2>2. Send("Shutdown")
    BY <1>21 DEF AnnounceShutdown
  <2> QED BY <1>21, <2>1, <2>2, SendTypes DEF AnnounceShutdown, LoopTypeOK
<1>22. CASE DropConnection
  BY <1>22 DEF DropConnection, LoopTypeOK
<1>23. CASE WaitStart
  <2>1. waiter' \in {"idle", "checking", "waiting", "ok", "failed"}
    BY <1>23 DEF WaitStart
  <2> QED BY <1>23, <2>1 DEF WaitStart, LoopTypeOK
<1>24. CASE WaitCheck
  <2>1. CASE state = "Connected"
    BY <1>24, <2>1 DEF WaitCheck, LoopTypeOK
  <2>2. CASE state = "GaveUp"
    BY <1>24, <2>2 DEF WaitCheck, LoopTypeOK
  <2>3. CASE state \notin {"Connected", "GaveUp"}
    BY <1>24, <2>3 DEF WaitCheck, LoopTypeOK
  <2> QED BY <2>1, <2>2, <2>3
<1>25. CASE WaitChanged
  BY <1>25 DEF WaitChanged, LoopTypeOK
<1>26. CASE UNCHANGED loopVars
  BY <1>26 DEF loopVars, LoopTypeOK
<1> QED
  BY <1>1, <1>2, <1>3, <1>4, <1>5, <1>6, <1>7, <1>8, <1>9, <1>10, <1>11,
     <1>12, <1>13, <1>14, <1>15, <1>16, <1>17, <1>18, <1>19, <1>20, <1>21,
     <1>22, <1>23, <1>24, <1>25, <1>26
     DEF LoopNext, LeaveStep, DecideStep, EstablishStep, PeerStep, UserStep,
         WaiterStep

\* The attempts and the limit.
LEMMA NextCounted ==
    LoopTypeOK /\ AttemptsCounted /\ LimitKept /\ [LoopNext]_loopVars
        => (AttemptsCounted /\ LimitKept)'
<1> SUFFICES ASSUME LoopTypeOK, AttemptsCounted, LimitKept, [LoopNext]_loopVars
             PROVE  (AttemptsCounted /\ LimitKept)'
  OBVIOUS
<1> USE ConnectionLoopAssumption
        DEF ConnectionLoopAssumption, LoopTypeOK, Phase, AttemptsCounted,
            LimitKept, Capped,
           LimitReached, userVars, watchVars
<1>1. CASE ShutdownArm
  BY <1>1 DEF ShutdownArm, Leave
<1>2. CASE ChannelClosedArm
  BY <1>2 DEF ChannelClosedArm, Leave
<1>3. CASE ConnectionLostArm
  BY <1>3 DEF ConnectionLostArm, Send, Store
<1>4. CASE PongTimeoutArm
  BY <1>4 DEF PongTimeoutArm, Send, Store
<1>5. CASE FailPending
  BY <1>5 DEF FailPending
<1>6. CASE StopLooping
  BY <1>6 DEF StopLooping
<1>7. CASE GiveUp
  BY <1>7 DEF GiveUp, Send, Store, Capped
<1>8. CASE StartReconnecting
  BY <1>8 DEF StartReconnecting, Send, Store, Capped
<1>9. CASE BackoffElapsed
  BY <1>9 DEF BackoffElapsed
<1>10. CASE EstablishOk
  BY <1>10 DEF EstablishOk, Send, Store
<1>11. CASE EstablishFails
  BY <1>11 DEF EstablishFails, Capped
<1>12. CASE Resumed
  BY <1>12 DEF Resumed
<1>13. CASE Cleanup
  BY <1>13 DEF Cleanup
<1>14. CASE PeerCloses
  BY <1>14 DEF PeerCloses
<1>15. CASE PeerSilent
  BY <1>15 DEF PeerSilent
<1>16. CASE PeerRecovers
  BY <1>16 DEF PeerRecovers
<1>17. CASE ConnectReturns
  BY <1>17 DEF ConnectReturns, Store
<1>18. CASE Watch
  BY <1>18 DEF Watch
<1>19. CASE Close
  BY <1>19 DEF Close
<1>20. CASE CancelToken
  BY <1>20 DEF CancelToken
<1>21. CASE AnnounceShutdown
  BY <1>21 DEF AnnounceShutdown, Send, Store
<1>22. CASE DropConnection
  BY <1>22 DEF DropConnection
<1>23. CASE WaitStart
  BY <1>23 DEF WaitStart
<1>24. CASE WaitCheck
  BY <1>24 DEF WaitCheck
<1>25. CASE WaitChanged
  BY <1>25 DEF WaitChanged
<1>26. CASE UNCHANGED loopVars
  BY <1>26 DEF loopVars
<1> QED
  BY <1>1, <1>2, <1>3, <1>4, <1>5, <1>6, <1>7, <1>8, <1>9, <1>10, <1>11,
     <1>12, <1>13, <1>14, <1>15, <1>16, <1>17, <1>18, <1>19, <1>20, <1>21,
     <1>22, <1>23, <1>24, <1>25, <1>26
     DEF LoopNext, LeaveStep, DecideStep, EstablishStep, PeerStep, UserStep,
         WaiterStep

\* The published state.
LEMMA NextPublished ==
    LoopTypeOK /\ BeforeConstructed /\ AfterConstructed /\ [LoopNext]_loopVars
        => (BeforeConstructed /\ AfterConstructed)'
<1> SUFFICES ASSUME LoopTypeOK, BeforeConstructed, AfterConstructed,
                    [LoopNext]_loopVars
             PROVE  (BeforeConstructed /\ AfterConstructed)'
  OBVIOUS
<1> USE ConnectionLoopAssumption
        DEF ConnectionLoopAssumption, LoopTypeOK, Phase, BeforeConstructed,
            AfterConstructed,
           StateOfPhase, HasReceiver, userVars, watchVars
<1>1. CASE ShutdownArm
  BY <1>1 DEF ShutdownArm, Leave
<1>2. CASE ChannelClosedArm
  BY <1>2 DEF ChannelClosedArm, Leave
<1>3. CASE ConnectionLostArm
  BY <1>3 DEF ConnectionLostArm, Send, Store
<1>4. CASE PongTimeoutArm
  BY <1>4 DEF PongTimeoutArm, Send, Store
<1>5. CASE FailPending
  BY <1>5 DEF FailPending
<1>6. CASE StopLooping
  BY <1>6 DEF StopLooping
<1>7. CASE GiveUp
  BY <1>7 DEF GiveUp, Send, Store, Capped
<1>8. CASE StartReconnecting
  BY <1>8 DEF StartReconnecting, Send, Store, Capped
<1>9. CASE BackoffElapsed
  BY <1>9 DEF BackoffElapsed
<1>10. CASE EstablishOk
  BY <1>10 DEF EstablishOk, Send, Store
<1>11. CASE EstablishFails
  BY <1>11 DEF EstablishFails, Capped
<1>12. CASE Resumed
  BY <1>12 DEF Resumed
<1>13. CASE Cleanup
  BY <1>13 DEF Cleanup
<1>14. CASE PeerCloses
  BY <1>14 DEF PeerCloses
<1>15. CASE PeerSilent
  BY <1>15 DEF PeerSilent
<1>16. CASE PeerRecovers
  BY <1>16 DEF PeerRecovers
<1>17. CASE ConnectReturns
  BY <1>17 DEF ConnectReturns, Store
<1>18. CASE Watch
  BY <1>18 DEF Watch
<1>19. CASE Close
  BY <1>19 DEF Close
<1>20. CASE CancelToken
  BY <1>20 DEF CancelToken
<1>21. CASE AnnounceShutdown
  BY <1>21 DEF AnnounceShutdown, Send, Store
<1>22. CASE DropConnection
  BY <1>22 DEF DropConnection
<1>23. CASE WaitStart
  BY <1>23 DEF WaitStart
<1>24. CASE WaitCheck
  BY <1>24 DEF WaitCheck
<1>25. CASE WaitChanged
  BY <1>25 DEF WaitChanged
<1>26. CASE UNCHANGED loopVars
  BY <1>26 DEF loopVars
<1> QED
  BY <1>1, <1>2, <1>3, <1>4, <1>5, <1>6, <1>7, <1>8, <1>9, <1>10, <1>11,
     <1>12, <1>13, <1>14, <1>15, <1>16, <1>17, <1>18, <1>19, <1>20, <1>21,
     <1>22, <1>23, <1>24, <1>25, <1>26
     DEF LoopNext, LeaveStep, DecideStep, EstablishStep, PeerStep, UserStep,
         WaiterStep

\* The waiter.
LEMMA NextWait ==
    LoopTypeOK /\ WaitMissesNothing /\ [LoopNext]_loopVars => WaitMissesNothing'
<1> SUFFICES ASSUME LoopTypeOK, WaitMissesNothing, [LoopNext]_loopVars
             PROVE  WaitMissesNothing'
  OBVIOUS
<1> USE ConnectionLoopAssumption
        DEF ConnectionLoopAssumption, LoopTypeOK, WaitMissesNothing,
            HasReceiver, userVars, watchVars
<1>1. CASE ShutdownArm
  BY <1>1 DEF ShutdownArm, Leave
<1>2. CASE ChannelClosedArm
  BY <1>2 DEF ChannelClosedArm, Leave
<1>3. CASE ConnectionLostArm
  BY <1>3 DEF ConnectionLostArm, Send, Store
<1>4. CASE PongTimeoutArm
  BY <1>4 DEF PongTimeoutArm, Send, Store
<1>5. CASE FailPending
  BY <1>5 DEF FailPending
<1>6. CASE StopLooping
  BY <1>6 DEF StopLooping
<1>7. CASE GiveUp
  BY <1>7 DEF GiveUp, Send, Store, Capped
<1>8. CASE StartReconnecting
  BY <1>8 DEF StartReconnecting, Send, Store, Capped
<1>9. CASE BackoffElapsed
  BY <1>9 DEF BackoffElapsed
<1>10. CASE EstablishOk
  BY <1>10 DEF EstablishOk, Send, Store
<1>11. CASE EstablishFails
  BY <1>11 DEF EstablishFails, Capped
<1>12. CASE Resumed
  BY <1>12 DEF Resumed
<1>13. CASE Cleanup
  BY <1>13 DEF Cleanup
<1>14. CASE PeerCloses
  BY <1>14 DEF PeerCloses
<1>15. CASE PeerSilent
  BY <1>15 DEF PeerSilent
<1>16. CASE PeerRecovers
  BY <1>16 DEF PeerRecovers
<1>17. CASE ConnectReturns
  BY <1>17 DEF ConnectReturns, Store
<1>18. CASE Watch
  BY <1>18 DEF Watch
<1>19. CASE Close
  BY <1>19 DEF Close
<1>20. CASE CancelToken
  BY <1>20 DEF CancelToken
<1>21. CASE AnnounceShutdown
  BY <1>21 DEF AnnounceShutdown, Send, Store
<1>22. CASE DropConnection
  BY <1>22 DEF DropConnection
<1>23. CASE WaitStart
  BY <1>23 DEF WaitStart
<1>24. CASE WaitCheck
  BY <1>24 DEF WaitCheck
<1>25. CASE WaitChanged
  BY <1>25 DEF WaitChanged
<1>26. CASE UNCHANGED loopVars
  BY <1>26 DEF loopVars
<1> QED
  BY <1>1, <1>2, <1>3, <1>4, <1>5, <1>6, <1>7, <1>8, <1>9, <1>10, <1>11,
     <1>12, <1>13, <1>14, <1>15, <1>16, <1>17, <1>18, <1>19, <1>20, <1>21,
     <1>22, <1>23, <1>24, <1>25, <1>26
     DEF LoopNext, LeaveStep, DecideStep, EstablishStep, PeerStep, UserStep,
         WaiterStep

-----------------------------------------------------------------------------
LEMMA InitLoopInv == LoopInit => LoopInv
<1> SUFFICES ASSUME LoopInit PROVE LoopInv
  OBVIOUS
<1>1. LoopTypeOK
  <2>1. reconnect_attempt \in 0..AttemptCap /\ failures \in 0..AttemptCap
    BY ConnectionLoopAssumption DEF ConnectionLoopAssumption, LoopInit
  <2>2. /\ lost \in BOOLEAN /\ watching \in BOOLEAN /\ constructed \in BOOLEAN
        /\ shutdown \in BOOLEAN /\ sender_dropped \in BOOLEAN
        /\ unseen \in BOOLEAN
    BY DEF LoopInit
  <2> QED BY <2>1, <2>2 DEF LoopInit, LoopTypeOK, Phase, States
<1>2. AttemptsCounted
  <2>1. loop = "running" /\ reconnect_attempt = failures
    BY DEF LoopInit
  <2> QED BY <2>1, SMTT(30) DEF AttemptsCounted
<1>3. LimitKept
  BY ConnectionLoopAssumption
     DEF ConnectionLoopAssumption, LoopInit, LimitKept
<1>4. BeforeConstructed /\ AfterConstructed
  BY DEF LoopInit, BeforeConstructed, AfterConstructed
<1>5. WaitMissesNothing
  BY DEF LoopInit, WaitMissesNothing
<1> QED BY <1>1, <1>2, <1>3, <1>4, <1>5 DEF LoopInv

LEMMA NextLoopInv == LoopInv /\ [LoopNext]_loopVars => LoopInv'
  BY NextTypes, NextCounted, NextPublished, NextWait DEF LoopInv

\* The whole invariant, for every limit, cap and set of silent phases.
THEOREM LoopCorrect == LoopSpec => []LoopInv
  BY InitLoopInv, NextLoopInv, PTL DEF LoopSpec

\* The variables of the background task and of those who watch it keep their
\* types, the number of attempts among them.
THEOREM LoopTypeCorrect == LoopSpec => []LoopTypeOK
<1>1. LoopInv => LoopTypeOK
  BY DEF LoopInv
<1> QED BY <1>1, LoopCorrect, PTL

\* reconnect_attempt numbers the attempts since the last success.
THEOREM AttemptsAreCounted == LoopSpec => []AttemptsCounted
<1>1. LoopInv => AttemptsCounted
  BY DEF LoopInv
<1> QED BY <1>1, LoopCorrect, PTL

\* The loop gives up after exactly max_reconnect_attempts failures in a row,
\* whatever the limit, and never without one.
THEOREM GivesUpExactlyAtLimit == LoopSpec => []GivesUpAtLimit
<1>1. LoopInv => GivesUpAtLimit
  BY DEF LoopInv, LimitKept, GivesUpAtLimit
<1> QED BY <1>1, LoopCorrect, PTL

\* If the last update was stored, the published state is that of the phase.
THEOREM PublishedStateIsRight == LoopSpec => []PublishedState
<1>1. LoopInv => PublishedState
  BY DEF LoopInv, AfterConstructed, StateOfPhase, PublishedState
<1> QED BY <1>1, LoopCorrect, PTL

\* wait_for_connected does not sleep on an answer.
THEOREM WaiterMissesNothing == LoopSpec => []WaitMissesNothing
<1>1. LoopInv => WaitMissesNothing
  BY DEF LoopInv
<1> QED BY <1>1, LoopCorrect, PTL
=============================================================================
