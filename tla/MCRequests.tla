------------------------------ MODULE MCRequests ------------------------------
(* Instances of Requests for TLC. *)
EXTENDS Requests, TLC

CONSTANTS c1, c2

TwoCallers == {c1, c2}
OneCaller == {c1}

CallerSymmetry == Permutations(Callers)
=============================================================================
