------------------------------ MODULE StreamLife ------------------------------
(***************************************************************************)
(* What the library promises about a quote stream, whatever happens to its *)
(* connection: it is tracked, under the one id its handle knows, from its  *)
(* registration until it is ended or stopped; resumptions move it to other *)
(* ids; once ended it never comes back; and its slot is given back when it *)
(* is no longer tracked.                                                   *)
(***************************************************************************)
CONSTANTS Streams, Ids, NoId

VARIABLES
    life,      \* how far each stream, or its handle, is
    id,        \* the id under which the task and the handle know it
    tracked,   \* streams whose data reach their handles
    released   \* streams whose slot was given back

lifeVars == <<life, id, tracked, released>>

LifeInit ==
    /\ life = [s \in Streams |-> "idle"]
    /\ id = [s \in Streams |-> NoId]
    /\ tracked = {}
    /\ released = {}

In(l) == {s \in Streams : life[s] = l}

Become(ss, l) == life' = [s \in Streams |-> IF s \in ss THEN l ELSE life[s]]

\* The stream gets an id that no other has.
GetsId(s) ==
    \E i \in Ids : /\ \A t \in Streams : id[t] # i
                   /\ id' = [id EXCEPT ![s] = i]

Ask(s) ==
    /\ life[s] = "idle"
    /\ Become({s}, "requesting")
    /\ UNCHANGED <<id, tracked, released>>

\* All who wait for an answer may hear of a loss at once.
Refuse(ss) ==
    /\ ss \subseteq In("requesting")
    /\ Become(ss, "failed")
    /\ released' = released \cup ss
    /\ UNCHANGED <<id, tracked>>

Accept(s) ==
    /\ life[s] = "requesting"
    /\ Become({s}, "answered")
    /\ GetsId(s)
    /\ UNCHANGED <<tracked, released>>

Track(s) ==
    /\ life[s] = "answered"
    /\ Become({s}, "open")
    /\ tracked' = tracked \cup {s}
    /\ UNCHANGED <<id, released>>

\* The resumption of a stream may overtake the beginning of its stop.
Move(s) ==
    /\ s \in tracked /\ life[s] \in {"open", "stopping"}
    /\ GetsId(s)
    /\ UNCHANGED <<life, tracked, released>>

End(ss) ==
    /\ ss \subseteq tracked
    /\ tracked' = tracked \ ss
    /\ released' = released \cup ss
    /\ Become(ss \cap In("open"), "ended")
    /\ UNCHANGED id

Stop(s) ==
    /\ life[s] \in {"open", "ended"}
    /\ Become({s}, "stopping")
    /\ UNCHANGED <<id, tracked, released>>

Forget(s) ==
    /\ life[s] = "stopping"
    /\ tracked' = tracked \ {s}
    /\ UNCHANGED <<life, id, released>>

Close(s) ==
    /\ life[s] = "stopping"
    /\ Become({s}, "closed")
    /\ released' = released \cup {s}
    /\ UNCHANGED <<id, tracked>>

LifeNext ==
    \/ \E ss \in SUBSET Streams : Refuse(ss) \/ End(ss)
    \/ \E s \in Streams : \/ Ask(s) \/ Accept(s) \/ Track(s) \/ Move(s)
                          \/ Stop(s) \/ Forget(s) \/ Close(s)

LifeSpec == LifeInit /\ [][LifeNext]_lifeVars

-----------------------------------------------------------------------------
\* What this means for slots: an open stream is tracked, one that ended is not,
\* and a slot is given back while its stream is tracked only by Close.
SlotsFollow ==
    \A s \in Streams :
        /\ life[s] = "open" => s \in tracked
        /\ life[s] \in {"ended", "failed"} => s \notin tracked
        /\ life[s] \in {"idle", "requesting", "answered"} =>
               s \notin tracked /\ s \notin released
        /\ (s \in tracked /\ s \in released) => life[s] = "closed"
=============================================================================
