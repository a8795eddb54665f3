--------------------------- MODULE MCStreamManager ---------------------------
(* Instances of StreamManager for TLC. *)
EXTENDS StreamManager, TLC

CONSTANTS r1, r2, r3

ThreeRequests == {r1, r2, r3}
TwoRequests == {r1, r2}

Symmetry == Permutations(Requests)

\* The state without the locals of request_stream and process_queue that are
\* no longer read: states that differ in them alone behave alike.
LiveState ==
    <<max_concurrent, setter, active_count, queueVars, permit,
      queue_worker_active, call, result_ready, work, held, slotVars,
      [r \in Requests |-> IF call[r] \in {"load_current", "claim"}
                          THEN <<seen_max[r], seen_current[r]>> ELSE <<>>],
      [w \in Requests |-> IF work[w] \in {"load_current", "pop", "claim"}
                          THEN <<worker_max[w], worker_current[w]>> ELSE <<>>]>>
=============================================================================
