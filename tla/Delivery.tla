------------------------------- MODULE Delivery -------------------------------
(***************************************************************************)
(* Quotes on their way to their consumers, and close: the background task  *)
(* reads a datum for a stream and sends it into the raw channel of the     *)
(* stream's entry, holding the read lock of resumable_streams meanwhile    *)
(* (src/src/connection.rs); an adapter task moves it to the channel that   *)
(* QuoteStream::recv reads (src/src/queue.rs).  Both channels are bounded, *)
(* so a consumer that does not read holds up the task, and with it every   *)
(* request and everyone who needs the write lock.                          *)
(*                                                                         *)
(* One session; the order of what the server sends is the order in which   *)
(* the task reads it.  Reconnection and the ids of streams are left to     *)
(* StreamResumption, slots waited for to StreamManager.                    *)
(***************************************************************************)
EXTENDS Naturals, Sequences

CONSTANTS
    Streams,
    Readers,    \* streams that are open at the start, and whose users read as
                \* long as quotes come
    RawCap, QuoteCap,   \* room in the two channels (32 each in the code)
    Others,     \* the data, by number, whose payload is not a quote
    Window,     \* Window[s]: most data of s that are unread at a time
    MaxData     \* bound: MaxData[s] data the server sends on s

ASSUME DeliveryAssumption ==
    /\ Readers \subseteq Streams
    /\ RawCap \in Nat \ {0} /\ QuoteCap \in Nat \ {0}
    /\ Others \subseteq Nat
    /\ Window \in [Streams -> Nat]
    /\ MaxData \in [Streams -> Nat]

VARIABLES
    task,        \* the background task; "sending" holds the read lock
    sending,     \* the stream and the datum it sends
    server,      \* what the server does for a stream
    data,        \* how many data of a stream the task took for its entry
    registered,  \* the entry of the stream, with raw_tx and on_end
    raw,         \* the raw channel
    adapter, held,   \* the adapter task, and the quote in its hand
    quotes,      \* the channel of the QuoteStream
    receiver,    \* its receiving end: "ended" once recv gave None
    last,        \* the last quote received
    handle,      \* progress of the call and of its QuoteStream
    price,       \* the call is get_swap_price
    slot_released,
    closing, to_stop, shutdown   \* close, its stop_all_streams, the token

taskVars   == <<task, sending>>
pipeVars   == <<data, registered, raw, adapter, held, quotes>>
userVars   == <<receiver, last, handle, price>>
closeVars  == <<closing, to_stop, shutdown>>
vars == <<taskVars, server, pipeVars, userVars, slot_released, closeVars>>

Nothing == <<>>
Data(s) == 1..MaxData[s]
Stopping == {"stopping", "unregistering"}

DeliveryTypeOK ==
    /\ task \in {"running", "sending", "exited"}
    /\ sending = Nothing \/ \E s \in Streams : sending \in {s} \X Data(s)
    /\ (task = "sending") = (sending # Nothing)
    /\ server \in [Streams -> {"none", "running", "ended"}]
    /\ registered \in [Streams -> BOOLEAN]
    /\ adapter \in [Streams -> {"none", "recv", "send", "unregister", "done"}]
    /\ \A s \in Streams :
          /\ {data[s], held[s], last[s]} \subseteq Data(s) \cup {0}
          /\ raw[s] \in Seq(Data(s)) /\ Len(raw[s]) <= RawCap
          /\ quotes[s] \in Seq(Data(s) \ Others) /\ Len(quotes[s]) <= QuoteCap
    /\ receiver \in [Streams -> {"open", "ended", "dropped"}]
    /\ handle \in [Streams -> Stopping \cup {"idle", "requesting", "answered",
                                             "open", "closed", "failed"}]
    /\ price \in [Streams -> BOOLEAN]
    /\ slot_released \in [Streams -> BOOLEAN]
    /\ closing \in {"idle", "stopping", "cancelling", "closed"}
    /\ to_stop \subseteq Streams
    /\ shutdown \in BOOLEAN

Init ==
    /\ task = "running" /\ sending = Nothing
    /\ server = [s \in Streams |-> IF s \in Readers THEN "running" ELSE "none"]
    /\ data = [s \in Streams |-> 0]
    /\ registered = [s \in Streams |-> s \in Readers]
    /\ raw = [s \in Streams |-> <<>>]
    /\ adapter = [s \in Streams |-> IF s \in Readers THEN "recv" ELSE "none"]
    /\ held = [s \in Streams |-> 0]
    /\ quotes = [s \in Streams |-> <<>>]
    /\ receiver = [s \in Streams |-> "open"]
    /\ last = [s \in Streams |-> 0]
    /\ handle = [s \in Streams |-> IF s \in Readers THEN "open" ELSE "idle"]
    /\ price = [s \in Streams |-> FALSE]
    /\ slot_released = [s \in Streams |-> FALSE]
    /\ closing = "idle" /\ to_stop = {} /\ shutdown = FALSE

\* No reader holds the lock of resumable_streams for longer than a step.
LockFree == task # "sending"

-----------------------------------------------------------------------------
(* The background task. *)

\* Read by the task and not by the user, who after a drop reads no more.
Unread(s) == data[s] - last[s]

\* Mutant of ReadData: the channel is unbounded.
ReadDataUnbounded(s) ==
    /\ task = "running"
    /\ server[s] = "running" /\ registered[s]
    /\ data[s] < MaxData[s] /\ Unread(s) < Window[s]
    /\ data' = [data EXCEPT ![s] = @ + 1]
    /\ raw' = [raw EXCEPT ![s] = Append(@, data'[s])]
    /\ UNCHANGED <<taskVars, server, registered, adapter, held, quotes, userVars,
                   slot_released, closeVars>>

\* A datum of s is read and put into the raw channel; if that is full the task
\* waits for room.  Without an entry the datum is dropped.
ReadData(s) ==
    /\ task = "running"
    /\ server[s] = "running" /\ registered[s]
    /\ data[s] < MaxData[s] /\ Unread(s) < Window[s]
    /\ data' = [data EXCEPT ![s] = @ + 1]
    /\ IF Len(raw[s]) < RawCap
       THEN /\ raw' = [raw EXCEPT ![s] = Append(@, data'[s])]
            /\ UNCHANGED taskVars
       ELSE /\ task' = "sending" /\ sending' = <<s, data'[s]>>
            /\ UNCHANGED raw
    /\ UNCHANGED <<server, registered, adapter, held, quotes, userVars,
                   slot_released, closeVars>>

\* sender.send goes on when the adapter has made room.  (The adapter does not
\* drop raw_rx before it unregistered, for which it needs the lock.)
SendCompletes ==
    LET s == sending[1] IN
    /\ task = "sending"
    /\ Len(raw[s]) < RawCap
    /\ raw' = [raw EXCEPT ![s] = Append(@, sending[2])]
    /\ task' = "running" /\ sending' = Nothing
    /\ UNCHANGED <<server, data, registered, adapter, held, quotes, userVars,
                   slot_released, closeVars>>

\* Mutant of EndEntries: the callbacks are forgotten.
EndEntriesQuietly(ss, failed) ==
    /\ registered' = [s \in Streams |-> registered[s] /\ s \notin ss]
    /\ slot_released' = [s \in Streams |-> slot_released[s] \/ s \in failed]

\* The entries of ss are removed and their on_end is called; the slots of the
\* starts in failed are given back too.  The code calls on_end before it drops
\* the entry's sender, so nobody sees the sender gone and the slot taken.
EndEntries(ss, failed) ==
    /\ registered' = [s \in Streams |-> registered[s] /\ s \notin ss]
    /\ slot_released' = [s \in Streams |-> \/ slot_released[s]
                                           \/ registered[s] /\ s \in ss
                                           \/ s \in failed]

\* StreamEnd.
ReadStreamEnd(s) ==
    /\ task = "running"
    /\ server[s] = "running"
    /\ server' = [server EXCEPT ![s] = "ended"]
    /\ EndEntries({s}, {})
    /\ UNCHANGED <<taskVars, data, raw, adapter, held, quotes, userVars,
                   closeVars>>

\* Mutant of Exit: nobody who waits hears of it.
ExitKeepsPending ==
    /\ task = "running"
    /\ task' = "exited"
    /\ server' = [s \in Streams |-> "ended"]
    /\ EndEntries(Streams, {})
    /\ UNCHANGED <<sending, data, raw, adapter, held, quotes, userVars, closeVars>>

\* The loop ends, of itself or because of the token: who waits for an answer
\* gets an error, the table is drained, and the socket goes.
Exit ==
    /\ task = "running"
    /\ task' = "exited"
    /\ server' = [s \in Streams |-> "ended"]
    /\ EndEntries(Streams, {s \in Streams : handle[s] = "requesting"})
    /\ handle' = [s \in Streams |->
                    CASE handle[s] = "requesting" -> "failed"
                      [] handle[s] = "stopping"   -> "unregistering"
                      [] OTHER                    -> handle[s]]
    /\ UNCHANGED <<sending, data, raw, adapter, held, quotes, receiver, last,
                   price, closeVars>>

-----------------------------------------------------------------------------
(* The adapter. *)

HasRoom(s) == receiver[s] # "dropped" /\ Len(quotes[s]) < QuoteCap

\* Mutant of AdapterTakes: try_send, a quote that finds no room is dropped.
AdapterTakesOrDrops(s) ==
    /\ adapter[s] = "recv" /\ raw[s] # <<>>
    /\ raw' = [raw EXCEPT ![s] = Tail(@)]
    /\ IF Head(raw[s]) \notin Others /\ HasRoom(s)
       THEN quotes' = [quotes EXCEPT ![s] = Append(@, Head(raw[s]))]
       ELSE UNCHANGED quotes
    /\ UNCHANGED <<taskVars, server, data, registered, adapter, held, userVars,
                   slot_released, closeVars>>

\* A payload of another kind is dropped; a quote goes on, or waits for room.
AdapterTakes(s) ==
    /\ adapter[s] = "recv" /\ raw[s] # <<>>
    /\ raw' = [raw EXCEPT ![s] = Tail(@)]
    /\ CASE Head(raw[s]) \in Others -> UNCHANGED <<adapter, held, quotes>>
         [] Head(raw[s]) \notin Others /\ HasRoom(s) ->
               /\ quotes' = [quotes EXCEPT ![s] = Append(@, Head(raw[s]))]
               /\ UNCHANGED <<adapter, held>>
         [] OTHER ->
               /\ adapter' = [adapter EXCEPT ![s] = "send"]
               /\ held' = [held EXCEPT ![s] = Head(raw[s])]
               /\ UNCHANGED quotes
    /\ UNCHANGED <<taskVars, server, data, registered, userVars, slot_released,
                   closeVars>>

\* Mutant of AdapterForwards: it looks at the table first.
AdapterForwardsLocked(s) ==
    /\ adapter[s] = "send"
    /\ HasRoom(s) /\ LockFree
    /\ quotes' = [quotes EXCEPT ![s] = Append(@, held[s])]
    /\ held' = [held EXCEPT ![s] = 0]
    /\ adapter' = [adapter EXCEPT ![s] = "recv"]
    /\ UNCHANGED <<taskVars, server, data, registered, raw, userVars,
                   slot_released, closeVars>>

AdapterForwards(s) ==
    /\ adapter[s] = "send"
    /\ HasRoom(s)
    /\ quotes' = [quotes EXCEPT ![s] = Append(@, held[s])]
    /\ held' = [held EXCEPT ![s] = 0]
    /\ adapter' = [adapter EXCEPT ![s] = "recv"]
    /\ UNCHANGED <<taskVars, server, data, registered, raw, userVars,
                   slot_released, closeVars>>

\* The QuoteStream is gone: unregister_stream, and only then raw_rx is dropped.
AdapterRefused(s) ==
    /\ adapter[s] = "send"
    /\ receiver[s] = "dropped"
    /\ held' = [held EXCEPT ![s] = 0]
    /\ adapter' = [adapter EXCEPT ![s] = "unregister"]
    /\ UNCHANGED <<taskVars, server, data, registered, raw, quotes, userVars,
                   slot_released, closeVars>>

AdapterUnregisters(s) ==
    /\ adapter[s] = "unregister"
    /\ LockFree
    /\ registered' = [registered EXCEPT ![s] = FALSE]
    /\ raw' = [raw EXCEPT ![s] = <<>>]
    /\ adapter' = [adapter EXCEPT ![s] = "done"]
    /\ UNCHANGED <<taskVars, server, data, held, quotes, userVars,
                   slot_released, closeVars>>

\* Mutant of AdapterEnds: a clone of raw_tx lives as long as the client.
AdapterEndsWithClient(s) ==
    /\ adapter[s] = "recv" /\ raw[s] = <<>>
    /\ ~registered[s] /\ shutdown
    /\ adapter' = [adapter EXCEPT ![s] = "done"]
    /\ UNCHANGED <<taskVars, server, data, registered, raw, held, quotes,
                   userVars, slot_released, closeVars>>

\* raw_rx.recv() gives None.
AdapterEnds(s) ==
    /\ adapter[s] = "recv" /\ raw[s] = <<>>
    /\ ~registered[s]
    /\ adapter' = [adapter EXCEPT ![s] = "done"]
    /\ UNCHANGED <<taskVars, server, data, registered, raw, held, quotes,
                   userVars, slot_released, closeVars>>

-----------------------------------------------------------------------------
(* Starting a stream: new_swap_quote_stream, or get_swap_price. *)

RequestStart(s) ==
    /\ handle[s] = "idle"
    /\ ~shutdown /\ task # "exited"
    /\ handle' = [handle EXCEPT ![s] = "requesting"]
    /\ \E b \in BOOLEAN : price' = [price EXCEPT ![s] = b]
    /\ UNCHANGED <<taskVars, server, pipeVars, receiver, last, slot_released,
                   closeVars>>

\* The task takes the request and reads the server's answer to it.
StartAnswered(s) ==
    /\ task = "running"
    /\ handle[s] = "requesting"
    /\ \/ /\ handle' = [handle EXCEPT ![s] = "answered"]
          /\ server' = [server EXCEPT ![s] = "running"]
          /\ UNCHANGED slot_released
       \/ /\ handle' = [handle EXCEPT ![s] = "failed"]
          /\ slot_released' = [slot_released EXCEPT ![s] = TRUE]
          /\ UNCHANGED server
    /\ UNCHANGED <<taskVars, pipeVars, receiver, last, price, closeVars>>

\* register_stream, and the adapter is spawned.
Register(s) ==
    /\ handle[s] = "answered"
    /\ LockFree
    /\ handle' = [handle EXCEPT ![s] = "open"]
    /\ registered' = [registered EXCEPT ![s] = TRUE]
    /\ adapter' = [adapter EXCEPT ![s] = "recv"]
    /\ UNCHANGED <<taskVars, server, data, raw, held, quotes, receiver, last,
                   price, slot_released, closeVars>>

-----------------------------------------------------------------------------
(* The consumer. *)

TakesQuote(s) ==
    /\ receiver[s] = "open" /\ quotes[s] # <<>>
    /\ last' = [last EXCEPT ![s] = Head(quotes[s])]

Recv(s) ==
    /\ handle[s] \in {"open", "closed"} /\ ~price[s]
    /\ TakesQuote(s)
    /\ quotes' = [quotes EXCEPT ![s] = Tail(@)]
    /\ UNCHANGED <<taskVars, server, data, registered, raw, adapter, held,
                   receiver, handle, price, slot_released, closeVars>>

AllReceived(s) == receiver[s] = "open" /\ quotes[s] = <<>> /\ adapter[s] = "done"

RecvNone(s) ==
    /\ handle[s] \in {"open", "closed"} /\ ~price[s]
    /\ AllReceived(s)
    /\ receiver' = [receiver EXCEPT ![s] = "ended"]
    /\ UNCHANGED <<taskVars, server, pipeVars, last, handle, price,
                   slot_released, closeVars>>

\* stop or Drop begins: StopStream is sent, unless send_request fails at once.
BeginStop(s) ==
    /\ handle[s] = "open"
    /\ handle' = [handle EXCEPT ![s] =
                    IF shutdown \/ task = "exited" THEN "unregistering"
                                                   ELSE "stopping"]

DropReceiver(s) ==
    /\ receiver' = [receiver EXCEPT ![s] = "dropped"]
    /\ quotes' = [quotes EXCEPT ![s] = <<>>]

Stop(s) ==
    /\ s \notin Readers /\ ~price[s]
    /\ BeginStop(s)
    /\ UNCHANGED <<taskVars, server, pipeVars, receiver, last, price,
                   slot_released, closeVars>>

Drop(s) ==
    /\ s \notin Readers /\ ~price[s]
    /\ BeginStop(s)
    /\ DropReceiver(s)
    /\ UNCHANGED <<taskVars, server, data, registered, raw, adapter, held, last,
                   price, slot_released, closeVars>>

\* get_swap_price: a quote came, or the time is up; or the stream has ended,
\* and is dropped.
PriceQuote(s) ==
    /\ price[s]
    /\ TakesQuote(s)
    /\ quotes' = [quotes EXCEPT ![s] = Tail(@)]
    /\ BeginStop(s)
    /\ UNCHANGED <<taskVars, server, data, registered, raw, adapter, held,
                   receiver, price, slot_released, closeVars>>

\* Mutant of PriceTimeout: the time starts with the first datum.
PriceTimeoutLate(s) ==
    /\ price[s] /\ data[s] > 0
    /\ BeginStop(s)
    /\ UNCHANGED <<taskVars, server, pipeVars, receiver, last, price,
                   slot_released, closeVars>>

PriceTimeout(s) ==
    /\ price[s]
    /\ BeginStop(s)
    /\ UNCHANGED <<taskVars, server, pipeVars, receiver, last, price,
                   slot_released, closeVars>>

PriceNone(s) ==
    /\ price[s]
    /\ AllReceived(s)
    /\ BeginStop(s)
    /\ DropReceiver(s)
    /\ UNCHANGED <<taskVars, server, data, registered, raw, adapter, held, last,
                   price, slot_released, closeVars>>

\* The task takes StopStream and reads the answer to it.
StopAnswered(s) ==
    /\ task = "running"
    /\ handle[s] = "stopping"
    /\ handle' = [handle EXCEPT ![s] = "unregistering"]
    /\ server' = [server EXCEPT ![s] = "ended"]
    /\ UNCHANGED <<taskVars, pipeVars, receiver, last, price, slot_released,
                   closeVars>>

\* unregister_stream, and the slot; get_swap_price returns.
Unregister(s) ==
    /\ handle[s] = "unregistering"
    /\ LockFree
    /\ handle' = [handle EXCEPT ![s] = "closed"]
    /\ registered' = [registered EXCEPT ![s] = FALSE]
    /\ slot_released' = [slot_released EXCEPT ![s] = TRUE]
    /\ IF price[s] THEN DropReceiver(s) ELSE UNCHANGED <<receiver, quotes>>
    /\ UNCHANGED <<taskVars, server, data, raw, adapter, held, last, price,
                   closeVars>>

\* Drop of a QuoteStream that was stopped.
Discard(s) ==
    /\ handle[s] = "closed" /\ receiver[s] # "dropped"
    /\ DropReceiver(s)
    /\ UNCHANGED <<taskVars, server, data, registered, raw, adapter, held, last,
                   handle, price, slot_released, closeVars>>

-----------------------------------------------------------------------------
(* TitanClient::close: stop_all_streams, then the token. *)

\* A reader of the lock waits behind the writers that wait already.
WaitsToWrite(s) ==
    handle[s] \in {"answered", "unregistering"} \/ adapter[s] = "unregister"

\* close is called, and gets the ids of the streams.
Close ==
    /\ closing = "idle"
    /\ LockFree \/ \A s \in Streams : ~WaitsToWrite(s)
    /\ to_stop' = {s \in Streams : registered[s]}
    /\ closing' = IF to_stop' = {} THEN "cancelling" ELSE "stopping"
    /\ UNCHANGED <<taskVars, server, pipeVars, userVars, slot_released, shutdown>>

\* StopStream for one of them, answered, or failed because the task has ended.
StopOne(s) ==
    /\ closing = "stopping" /\ s \in to_stop
    /\ task # "sending"
    /\ to_stop' = to_stop \ {s}
    /\ server' = [server EXCEPT ![s] = "ended"]
    /\ UNCHANGED <<taskVars, pipeVars, userVars, slot_released, closing, shutdown>>

DrainTable ==
    /\ closing = "stopping" /\ to_stop = {}
    /\ LockFree
    /\ EndEntries(Streams, {})
    /\ closing' = "cancelling"
    /\ UNCHANGED <<taskVars, server, data, raw, adapter, held, quotes, userVars,
                   to_stop, shutdown>>

\* The token is cancelled; then the client forgets manager and connection.
Cancel ==
    /\ closing = "cancelling"
    /\ shutdown' = TRUE
    /\ closing' = "closed"
    /\ UNCHANGED <<taskVars, server, pipeVars, userVars, slot_released, to_stop>>

-----------------------------------------------------------------------------
TaskStep ==
    \/ SendCompletes \/ Exit
    \/ \E s \in Streams : ReadData(s) \/ ReadStreamEnd(s)

AdapterStep(s) ==
    \/ AdapterTakes(s) \/ AdapterForwards(s) \/ AdapterRefused(s)
    \/ AdapterUnregisters(s) \/ AdapterEnds(s)

StartStep(s) == RequestStart(s) \/ StartAnswered(s) \/ Register(s)

ReadStep(s) == Recv(s) \/ RecvNone(s)

PriceStep(s) == PriceQuote(s) \/ PriceTimeout(s) \/ PriceNone(s)

StopStep(s) ==
    \/ Stop(s) \/ Drop(s) \/ StopAnswered(s) \/ Unregister(s) \/ Discard(s)

CloseStep ==
    \/ Close \/ DrainTable \/ Cancel
    \/ \E s \in Streams : StopOne(s)

Next ==
    \/ TaskStep \/ CloseStep
    \/ \E s \in Streams : \/ AdapterStep(s) \/ StartStep(s) \/ ReadStep(s)
                          \/ PriceStep(s) \/ StopStep(s)

Spec == Init /\ [][Next]_vars

\* What happens of itself: tasks are polled when they can go on, timeouts elapse,
\* readers read, and the server answers NewSwapQuoteStream and StopStream in the
\* end, which is assumed: send_request has no timeout.  Nothing is assumed of the
\* other users, nor of the server's data.  The data are bounded and every action
\* moves something on for good, so one weak fairness condition makes each of
\* these happen or be disabled.
Progress ==
    \/ SendCompletes \/ (shutdown /\ Exit)
    \/ DrainTable \/ Cancel
    \/ \E s \in Streams :
          \/ AdapterStep(s) \/ StartAnswered(s) \/ Register(s) \/ PriceStep(s)
          \/ StopAnswered(s) \/ Unregister(s) \/ StopOne(s)
          \/ s \in Readers /\ ReadStep(s)

Fairness == WF_vars(Progress)

FairSpec == Spec /\ Fairness

-----------------------------------------------------------------------------
(* Safety. *)

Fifo == INSTANCE QuoteFifo WITH
            Capacity <- RawCap + QuoteCap + 2,
            count <- data,
            got <- last,
            shut <- [s \in Streams |-> adapter[s] # "none" /\ ~registered[s]],
            gone <- [s \in Streams |-> receiver[s] # "open"]

\* Task, adapter and the two channels together are one FIFO channel: no quote
\* the task took for a stream is lost, doubled or overtaken on its way to recv,
\* and recv gives None only when all of them were received.
ImplementsFifo == Fifo!FifoSpec

\* When recv gives None the slot of the stream is free again, so a loop that
\* opens the next stream then need not queue.
NoneMeansReleased ==
    \A s \in Streams : receiver[s] = "ended" => slot_released[s]

-----------------------------------------------------------------------------
(* Liveness. *)

\* stop returns, and the cleanup that Drop spawned ends.
StopEnds ==
    \A s \in Streams \ Readers :
       handle[s] \in Stopping ~> handle[s] = "closed"

\* get_swap_price returns once it asked for its stream, whether the server
\* sends a quote, sends none, ends the stream or refuses it.
PriceReturns ==
    \A s \in Streams \ Readers :
       (price[s] /\ handle[s] = "requesting") ~> handle[s] \in {"closed", "failed"}

\* A reader of a stream that is no longer registered gets None.
RecvEnds ==
    \A s \in Readers :
       (handle[s] = "open" /\ ~registered[s]) ~> receiver[s] = "ended"

\* close returns and the task ends: a full channel holds neither up for ever.
CloseEnds == closing # "idle" ~> (closing = "closed" /\ task = "exited")

\* "When dropped, automatically sends StopStream to the server."
DropStopsStream ==
    \A s \in Streams :
       (handle[s] = "stopping" /\ receiver[s] = "dropped") ~> server[s] # "running"
=============================================================================
