--------------------------- MODULE MCConnectionLoop ---------------------------
(* Instances of ConnectionLoop for TLC; the constants are set in the cfgs. *)
EXTENDS ConnectionLoop, Backoff

\* The peer may fall silent except while streams are resumed.
AllButResuming == Phase \ {"resuming"}

\* The last attempt whose delay is computed without overflow: 58 in the code,
\* for an initial delay of 100 and 64 bits.
LastExact == CHOOSE a \in 1..Width :
                /\ InitialBackoff * 2 ^ (a - 1) < 2 ^ Width
                /\ InitialBackoff * 2 ^ a >= 2 ^ Width

\* Whatever failed or succeeded before, the task sleeps for the delay that its
\* place in the present series of failures asks for, short of the overflow.
BackoffDoubles ==
    (loop = "backoff" /\ failures < LastExact) =>
        CalculateBackoff(reconnect_attempt) = DocumentedBackoff[failures + 1]
=============================================================================
