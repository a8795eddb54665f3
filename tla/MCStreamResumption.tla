-------------------------- MODULE MCStreamResumption --------------------------
(* Instances of StreamResumption for TLC. *)
EXTENDS StreamResumption, TLC

CONSTANTS s1, s2

TwoStreams == {s1, s2}
OneStream == {s1}

StreamSymmetry == Permutations(Streams)

\* The state without what is no longer read: the original id after stop or Drop
\* has loaded it, and whether a stream that is not open was registered late.
LiveState ==
    <<loop, reconnects, serverVars, resumeVars, stopVars, sharedVars, handle,
      [s \in Streams |-> IF handle[s] \in {"answered", "open", "flagged", "loaded"}
                         THEN stream_id[s] ELSE 0],
      [s \in Streams |-> handle[s] = "open" /\ late[s]]>>
=============================================================================
