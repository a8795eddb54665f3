------------------------------ MODULE SlotPool ------------------------------
(***************************************************************************)
(* What StreamManager promises about stream slots: a pool from which a     *)
(* request takes a slot while fewer are taken than some limit ever in      *)
(* force, and gives it back once, and no request ever takes a second one.  *)
(***************************************************************************)
EXTENDS Naturals, FiniteSets

CONSTANTS Requests, Limits

VARIABLES taken, returned

poolVars == <<taken, returned>>

PoolInit == taken = {} /\ returned = {}

Take(r) ==
    /\ r \notin taken \cup returned
    /\ \E limit \in Limits : Cardinality(taken) < limit
    /\ taken' = taken \cup {r}
    /\ UNCHANGED returned

GiveBack(r) ==
    /\ r \in taken
    /\ taken' = taken \ {r}
    /\ returned' = returned \cup {r}

PoolNext == \E r \in Requests : Take(r) \/ GiveBack(r)

PoolSpec == PoolInit /\ [][PoolNext]_poolVars
=============================================================================
