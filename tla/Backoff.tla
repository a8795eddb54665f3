------------------------------- MODULE Backoff -------------------------------
(***************************************************************************)
(* calculate_backoff (src/src/connection.rs) in unsigned arithmetic of     *)
(* Width bits, 64 in the code, as a release build computes it: the product *)
(* wraps, only the power saturates.  (A debug build panics instead.)       *)
(***************************************************************************)
EXTENDS Naturals

CONSTANTS
    Width,
    InitialBackoff,   \* INITIAL_BACKOFF_MS
    MaxBackoff        \* max_reconnect_delay_ms

ASSUME BackoffAssumption ==
    /\ Width \in Nat \ {0}
    /\ InitialBackoff \in Nat \ {0} /\ MaxBackoff \in Nat
    /\ {InitialBackoff, MaxBackoff} \subseteq 0..(2 ^ Width - 1)

AtMost(n, bound) == IF n <= bound THEN n ELSE bound

SaturatingPow2(n) == IF n < Width THEN 2 ^ n ELSE 2 ^ Width - 1

\* Mutant of CalculateBackoff: the power is bounded and not the product.
CalculateBackoffUncapped(attempt) ==
    (InitialBackoff * AtMost(SaturatingPow2(IF attempt = 0 THEN 0 ELSE attempt - 1),
                             MaxBackoff)) % (2 ^ Width)

CalculateBackoff(attempt) ==
    AtMost((InitialBackoff * SaturatingPow2(IF attempt = 0 THEN 0 ELSE attempt - 1))
               % (2 ^ Width),
           MaxBackoff)

\* "100ms -> 200ms -> 400ms -> ... -> max 30s": every delay is twice the one
\* before, until the greatest is reached.
DocumentedBackoff[attempt \in Nat] ==
    IF attempt <= 1 THEN AtMost(InitialBackoff, MaxBackoff)
    ELSE AtMost(2 * DocumentedBackoff[attempt - 1], MaxBackoff)
=============================================================================
