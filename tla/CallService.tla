----------------------------- MODULE CallService -----------------------------
(***************************************************************************)
(* What a connection promises its calls: a call is sent in a session, once *)
(* and for all; it gets one outcome and keeps it; its answer comes in the  *)
(* session it was sent in, whose loss fails all calls that were sent in it *)
(* and not answered.                                                       *)
(***************************************************************************)
CONSTANT Calls

VARIABLES
    status,    \* per call: where it has got to
    session    \* "up" while there is a session, "ended" when there is no more

serviceVars == <<status, session>>

ServiceInit ==
    /\ status = [c \in Calls |-> "idle"]
    /\ session = "up"

Advance(c, from, to) ==
    /\ status[c] = from
    /\ status' = [status EXCEPT ![c] = to]
    /\ UNCHANGED session

Ask(c) == Advance(c, "idle", "queued")
Refuse(c) == Advance(c, "idle", "failed")
GiveUp(c) == Advance(c, "queued", "failed")
Send(c) == session = "up" /\ Advance(c, "queued", "sent")
Answer(c) == session = "up" /\ Advance(c, "sent", "answered")

FailAll(cs) == status' = [c \in Calls |-> IF c \in cs THEN "failed" ELSE status[c]]
In(s) == {c \in Calls : status[c] = s}

Lose ==
    /\ session = "up" /\ session' = "down"
    /\ FailAll(In("sent"))

Open ==
    /\ session = "down" /\ session' = "up"
    /\ UNCHANGED status

\* Those that have not got into the queue yet find out by themselves.
End ==
    /\ session = "down" /\ session' = "ended"
    /\ \E cs \in SUBSET In("queued") : FailAll(cs)

ServiceNext ==
    \/ \E c \in Calls : Ask(c) \/ Refuse(c) \/ GiveUp(c) \/ Send(c) \/ Answer(c)
    \/ Lose \/ Open \/ End

ServiceSpec == ServiceInit /\ [][ServiceNext]_serviceVars
=============================================================================
