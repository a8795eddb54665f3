---------------------------- MODULE DeliveryProofs ----------------------------
(***************************************************************************)
(* Proofs about Delivery: the data of a stream keep their order from the   *)
(* background task to QuoteStream::recv, whoever waits for room, and the   *)
(* way as a whole implements QuoteFifo.                                    *)
(***************************************************************************)
EXTENDS Delivery, FiniteSetTheorems, TLAPS

-----------------------------------------------------------------------------
(* The inductive invariant. *)

IsSent(s) == sending # Nothing /\ sending[1] = s

\* How many data of s went through the adapter's hand.
OnHand(s) == IF IsSent(s) THEN 1 ELSE 0
Taken(s) == data[s] - Len(raw[s]) - OnHand(s)

ControlTyped ==
    /\ server \in [Streams -> {"none", "running", "ended"}]
    /\ registered \in [Streams -> BOOLEAN]
    /\ adapter \in [Streams -> {"none", "recv", "send", "unregister", "done"}]
    /\ receiver \in [Streams -> {"open", "ended", "dropped"}]
    /\ handle \in [Streams -> Stopping \cup {"idle", "requesting", "answered",
                                             "open", "closed", "failed"}]
    /\ price \in [Streams -> BOOLEAN]
    /\ slot_released \in [Streams -> BOOLEAN]
    /\ closing \in {"idle", "stopping", "cancelling", "closed"}
    /\ to_stop \subseteq Streams
    /\ shutdown \in BOOLEAN

SentTyped ==
    /\ task \in {"running", "sending", "exited"}
    /\ sending = Nothing \/ \E s \in Streams : sending \in {s} \X Data(s)
    /\ (task = "sending") = (sending # Nothing)

NumbersTyped(s) ==
    /\ {data[s], held[s], last[s]} \subseteq Data(s) \cup {0}
    /\ raw[s] \in Seq(Data(s)) /\ Len(raw[s]) <= RawCap
    /\ quotes[s] \in Seq(Data(s) \ Others) /\ Len(quotes[s]) <= QuoteCap
    /\ adapter[s] = "send" <=> held[s] # 0
    /\ held[s] # 0 => held[s] \notin Others

Typed ==
    /\ ControlTyped
    /\ SentTyped
    /\ data \in [Streams -> Nat] /\ held \in [Streams -> Nat]
    /\ last \in [Streams -> Nat]
    /\ raw \in [Streams -> Seq(Nat)] /\ quotes \in [Streams -> Seq(Nat)]
    /\ \A s \in Streams : NumbersTyped(s)

\* A datum waits for room only in the channel of an entry, and is its latest.
SentIsLatest ==
    \A s \in Streams : IsSent(s) => registered[s] /\ sending[2] = data[s]

\* The order of the stages of one stream's entry, adapter and receiver.
Staged(s) ==
    /\ handle[s] \in {"idle", "requesting", "answered", "failed"}
         => adapter[s] = "none"
    /\ adapter[s] \in {"none", "done"} => ~registered[s]
    /\ receiver[s] = "ended" => adapter[s] = "done"
    /\ receiver[s] # "dropped" =>
         /\ adapter[s] # "unregister"
         /\ adapter[s] = "done" => raw[s] = <<>>
         /\ adapter[s] # "none" /\ ~registered[s] => slot_released[s]

Follows(seq, n) == \A i \in 1..Len(seq) : seq[i] = n + i

\* The raw channel holds the latest data without a gap, after the adapter's.
Consecutive(s) ==
    /\ Taken(s) \in Nat
    /\ Follows(raw[s], Taken(s))
    /\ adapter[s] = "send" => held[s] = Taken(s)

Increasing(seq) == \A i, j \in DOMAIN seq : i < j => seq[i] < seq[j]

\* The numbers in q are, in order, those of the quotes after l up to n but h.
Queued(q, l, h, n) ==
    /\ Range(q) = ((l + 1)..n) \ (Others \cup {h})
    /\ Increasing(q)
    /\ l <= n /\ (l = h => h = 0)

\* While somebody reads, the quotes channel holds exactly the quotes the
\* adapter passed on and the reader has not yet got, in order.
InOrder(s) ==
    receiver[s] = "open" => Queued(quotes[s], last[s], held[s], Taken(s))

DeliveryInv ==
    /\ Typed
    /\ SentIsLatest
    /\ \A s \in Streams : Staged(s) /\ Consecutive(s) /\ InOrder(s)

-----------------------------------------------------------------------------
(* Constants, pairs and sequences. *)

LEMMA Constants ==
    /\ RawCap \in Nat \ {0} /\ QuoteCap \in Nat \ {0}
    /\ \A s \in Streams : MaxData[s] \in Nat /\ Window[s] \in Nat
    /\ \A s \in Streams : Data(s) \subseteq Nat /\ 0 \notin Data(s)
    /\ \A s \in Streams, n \in Nat : n # 0 /\ n <= MaxData[s] <=> n \in Data(s)
BY DeliveryAssumption DEF DeliveryAssumption, Data

LEMMA PairNotNothing == \A a, b : <<a, b>> # Nothing
BY DEF Nothing

LEMMA Appended ==
    ASSUME NEW S, NEW seq \in Seq(S), NEW x \in S
    PROVE  /\ Append(seq, x) \in Seq(S)
           /\ Len(Append(seq, x)) = Len(seq) + 1
           /\ \A i \in 1..(Len(seq) + 1) :
                Append(seq, x)[i] = IF i = Len(seq) + 1 THEN x ELSE seq[i]
OBVIOUS

LEMMA Shortened ==
    ASSUME NEW S, NEW seq \in Seq(S), seq # <<>>
    PROVE  /\ Head(seq) \in S /\ Head(seq) = seq[1]
           /\ Tail(seq) \in Seq(S)
           /\ Len(seq) \in Nat \ {0}
           /\ Len(Tail(seq)) = Len(seq) - 1
           /\ \A i \in 1..(Len(seq) - 1) : Tail(seq)[i] = seq[i + 1]
OBVIOUS

LEMMA Widened ==
    ASSUME NEW s \in Streams
    PROVE  Seq(Data(s)) \subseteq Seq(Nat) /\ Seq(Data(s) \ Others) \subseteq Seq(Nat)
BY Constants

-----------------------------------------------------------------------------
(* Types. *)

LEMMA InitTyped == Init => Typed
<1> SUFFICES ASSUME Init PROVE Typed
  OBVIOUS
<1>1. ControlTyped
  <2>1. /\ server \in [Streams -> {"none", "running", "ended"}]
        /\ registered \in [Streams -> BOOLEAN]
    BY DEF Init
  <2>2. adapter \in [Streams -> {"none", "recv", "send", "unregister", "done"}]
    BY DEF Init
  <2>3. handle \in [Streams -> Stopping \cup {"idle", "requesting", "answered",
                                                "open", "closed", "failed"}]
    BY DEF Init
  <2>4. /\ receiver \in [Streams -> {"open", "ended", "dropped"}]
        /\ price \in [Streams -> BOOLEAN] /\ slot_released \in [Streams -> BOOLEAN]
    BY DEF Init
  <2> QED BY <2>1, <2>2, <2>3, <2>4 DEF Init, ControlTyped
<1>2. SentTyped
  BY DEF Init, SentTyped
<1>3. ASSUME NEW s \in Streams PROVE NumbersTyped(s)
  <2>1. /\ data[s] = 0 /\ held[s] = 0 /\ last[s] = 0
        /\ raw[s] = <<>> /\ quotes[s] = <<>> /\ adapter[s] # "send"
    BY DEF Init
  <2>2. \A S : <<>> \in Seq(S) /\ Len(<<>>) = 0
    OBVIOUS
  <2> QED BY <2>1, <2>2, Constants DEF NumbersTyped
<1>4. <<>> \in Seq(Nat)
  OBVIOUS
<1> QED BY <1>1, <1>2, <1>3, <1>4 DEF Init, Typed

LEMMA ControlStep ==
    ASSUME Typed, [Next]_vars
    PROVE  ControlTyped'
<1> USE DEF ControlTyped, Stopping, taskVars, pipeVars, userVars, closeVars
<1>1. CASE TaskStep
  <2>1. CASE Exit
    <3>1. /\ server' \in [Streams -> {"ended"}]
          /\ registered' \in [Streams -> BOOLEAN]
          /\ slot_released' \in [Streams -> BOOLEAN]
      BY <2>1 DEF Exit, EndEntries, Typed
    <3>2. \A s \in Streams : handle'[s] \in {"failed", "unregistering", handle[s]}
      BY <2>1 DEF Exit
    <3>3. handle' = [s \in Streams |-> handle'[s]]
      BY <2>1 DEF Exit
    <3> QED BY <2>1, <3>1, <3>2, <3>3 DEF Exit, Typed
  <2>2. ASSUME NEW s \in Streams, ReadStreamEnd(s) PROVE ControlTyped'
    BY <2>2 DEF ReadStreamEnd, EndEntries, Typed
  <2> QED BY <1>1, <2>1, <2>2 DEF Typed, TaskStep, SendCompletes, ReadData
<1>2. CASE CloseStep
  <2>1. CASE DrainTable
    BY <2>1 DEF DrainTable, EndEntries, Typed
  <2>2. CASE Close
    BY <2>2 DEF Close, Typed
  <2> QED BY <1>2, <2>1, <2>2 DEF Typed, CloseStep, Cancel, StopOne
<1>3. ASSUME NEW s \in Streams, AdapterStep(s) PROVE ControlTyped'
  BY <1>3 DEF Typed, AdapterStep, AdapterTakes, AdapterForwards, AdapterRefused,
              AdapterUnregisters, AdapterEnds
<1>4. ASSUME NEW s \in Streams, StartStep(s) PROVE ControlTyped'
  BY ZenonT(30), <1>4 DEF Typed, StartStep, RequestStart, StartAnswered, Register
<1>5. ASSUME NEW s \in Streams, ReadStep(s) PROVE ControlTyped'
  BY <1>5 DEF Typed, ReadStep, Recv, RecvNone, TakesQuote
<1>6. ASSUME NEW s \in Streams, PriceStep(s) PROVE ControlTyped'
  BY ZenonT(30), <1>6 DEF Typed, PriceStep, PriceQuote, PriceTimeout, PriceNone, TakesQuote,
              BeginStop, DropReceiver
<1>7. ASSUME NEW s \in Streams, StopStep(s) PROVE ControlTyped'
  BY <1>7 DEF Typed, StopStep, Stop, Drop, StopAnswered, Unregister, Discard,
              BeginStop, DropReceiver
<1>8. CASE UNCHANGED vars
  BY <1>8 DEF Typed, vars
<1> QED BY <1>1, <1>2, <1>3, <1>4, <1>5, <1>6, <1>7, <1>8 DEF Next

LEMMA SentStep ==
    ASSUME Typed, [Next]_vars
    PROVE  SentTyped'
<1> USE DEF SentTyped, taskVars, pipeVars, userVars, closeVars
<1>1. CASE TaskStep
  <2>1. ASSUME NEW s \in Streams, ReadData(s) PROVE SentTyped'
    <3>1. data'[s] \in Data(s)
      BY <2>1, Constants DEF ReadData, Typed
    <3> QED BY <2>1, <3>1, PairNotNothing DEF ReadData, Typed
  <2>2. ASSUME NEW s \in Streams, ReadStreamEnd(s) PROVE SentTyped'
    BY <2>2 DEF ReadStreamEnd, EndEntries, Typed
  <2> QED BY <1>1, <2>1, <2>2 DEF TaskStep, SendCompletes, Exit, Typed
<1>2. CASE UNCHANGED taskVars
  BY <1>2 DEF Typed
<1> QED
  BY <1>1, <1>2
     DEF Next, vars, CloseStep, Close, DrainTable, Cancel, StopOne, EndEntries,
         AdapterStep, AdapterTakes, AdapterForwards, AdapterRefused,
         AdapterUnregisters, AdapterEnds, StartStep, RequestStart, StartAnswered,
         Register, ReadStep, Recv, RecvNone, PriceStep, PriceQuote, PriceTimeout,
         PriceNone, StopStep, Stop, Drop, StopAnswered, Unregister, Discard

-----------------------------------------------------------------------------
(* How a step moves the data of one stream. *)

\* Nothing moves before the quotes channel of s.
StillBehind(s) ==
    /\ data'[s] = data[s] /\ raw'[s] = raw[s] /\ held'[s] = held[s]
    /\ IsSent(s)' <=> IsSent(s)
    /\ IsSent(s) => sending' = sending
    /\ adapter'[s] = "send" <=> adapter[s] = "send"

Rests(s) ==
    /\ StillBehind(s)
    /\ quotes'[s] = quotes[s] /\ last'[s] = last[s]
    /\ receiver'[s] = "open" => receiver[s] = "open"

IsLeft(s) ==
    /\ StillBehind(s)
    /\ quotes'[s] = <<>> /\ last'[s] = last[s]
    /\ receiver'[s] = "dropped"

IsRead(s) ==
    /\ StillBehind(s)
    /\ TakesQuote(s)
    /\ quotes'[s] = Tail(quotes[s])
    /\ UNCHANGED receiver

LEMMA UnsentWhenIdle ==
    ASSUME Typed, task # "sending", NEW s \in Streams
    PROVE  sending = Nothing /\ ~IsSent(s)
BY DEF Typed, SentTyped, IsSent

LEMMA SentPair ==
    ASSUME Typed, task = "sending"
    PROVE  /\ sending[1] \in Streams /\ sending[2] \in Data(sending[1])
           /\ sending # Nothing
           /\ \A s \in Streams : IsSent(s) <=> s = sending[1]
BY DEF Typed, SentTyped, IsSent

\* The other streams do not move.
LEMMA TaskMoves ==
    ASSUME Typed, TaskStep, NEW s \in Streams
    PROVE  \/ Rests(s) \/ ReadData(s) \/ (SendCompletes /\ IsSent(s))
<1> USE DEF Rests, StillBehind, IsSent, taskVars, userVars, closeVars
<1>1. CASE SendCompletes
  <2>1. CASE sending[1] = s
    BY <1>1, <2>1, SentPair DEF SendCompletes
  <2>2. CASE sending[1] # s
    BY <1>1, <2>2, SentPair DEF SendCompletes, Typed
  <2> QED BY <2>1, <2>2
<1>2. CASE Exit
  BY <1>2, UnsentWhenIdle DEF Exit
<1>3. ASSUME NEW t \in Streams, ReadStreamEnd(t) PROVE Rests(s)
  BY <1>3, UnsentWhenIdle DEF ReadStreamEnd
<1>4. ASSUME NEW t \in Streams, ReadData(t), t # s PROVE Rests(s)
  BY SMTT(30), <1>4, UnsentWhenIdle, PairNotNothing DEF ReadData, Typed
<1> QED BY <1>1, <1>2, <1>3, <1>4 DEF TaskStep

LEMMA AdapterMoves ==
    ASSUME Typed, NEW t \in Streams, AdapterStep(t), NEW s \in Streams
    PROVE  \/ Rests(s) \/ AdapterTakes(s) \/ AdapterForwards(s)
           \/ AdapterRefused(s) \/ AdapterUnregisters(s)
<1> USE DEF Rests, StillBehind, IsSent, taskVars, userVars, closeVars, Typed,
            ControlTyped
<1>1. CASE AdapterTakes(t)
  BY <1>1 DEF AdapterTakes
<1>2. CASE AdapterForwards(t)
  BY <1>2 DEF AdapterForwards
<1>3. CASE AdapterRefused(t)
  BY <1>3 DEF AdapterRefused
<1>4. CASE AdapterUnregisters(t)
  BY <1>4 DEF AdapterUnregisters
<1>5. CASE AdapterEnds(t)
  BY <1>5 DEF AdapterEnds
<1> QED BY <1>1, <1>2, <1>3, <1>4, <1>5 DEF AdapterStep

\* Those who only ask, answer, register or close move no data.
LEMMA ControlMoves ==
    ASSUME Typed, \A t \in Streams : Staged(t), NEW s \in Streams,
           CloseStep \/ \E t \in Streams : StartStep(t)
    PROVE  Rests(s)
<1> USE DEF Rests, StillBehind, IsSent, taskVars, pipeVars, userVars, closeVars
<1>1. CASE CloseStep
  BY <1>1 DEF CloseStep, Close, DrainTable, Cancel, StopOne
<1>2. ASSUME NEW t \in Streams, RequestStart(t) \/ StartAnswered(t) PROVE Rests(s)
  BY <1>2 DEF RequestStart, StartAnswered
<1>3. ASSUME NEW t \in Streams, Register(t) PROVE Rests(s)
  <2>1. adapter[t] = "none" /\ adapter'[t] = "recv"
    BY <1>3 DEF Register, Staged, Typed, ControlTyped
  <2> QED BY <1>3, <2>1 DEF Register, Typed, ControlTyped
<1> QED BY <1>1, <1>2, <1>3 DEF StartStep

LEMMA UserMoves ==
    ASSUME Typed, NEW s \in Streams, NEW t \in Streams,
           ReadStep(t) \/ PriceStep(t) \/ StopStep(t)
    PROVE  Rests(s) \/ IsLeft(s) \/ IsRead(s)
<1> USE DEF StillBehind, IsSent, taskVars, pipeVars, userVars, closeVars,
            Typed, ControlTyped
<1>1. CASE Recv(t) \/ PriceQuote(t)
  <2>1. /\ TakesQuote(t) /\ quotes' = [quotes EXCEPT ![t] = Tail(@)]
        /\ UNCHANGED <<taskVars, data, registered, raw, adapter, held, receiver>>
    BY <1>1 DEF Recv, PriceQuote
  <2>2. CASE s = t
    BY <2>1, <2>2 DEF IsRead
  <2>3. CASE s # t
    BY <2>1, <2>3 DEF Rests, TakesQuote
  <2> QED BY <2>2, <2>3
<1>2. CASE RecvNone(t) \/ PriceTimeout(t) \/ Stop(t) \/ StopAnswered(t)
  BY <1>2 DEF RecvNone, PriceTimeout, Stop, StopAnswered, AllReceived, Rests,
              BeginStop
<1>3. CASE Drop(t) \/ PriceNone(t) \/ Discard(t)
  BY <1>3 DEF Drop, PriceNone, Discard, DropReceiver, Rests, IsLeft, BeginStop
<1>4. CASE Unregister(t)
  BY <1>4 DEF Unregister, DropReceiver, Rests, IsLeft
<1> QED BY <1>1, <1>2, <1>3, <1>4 DEF ReadStep, PriceStep, StopStep

\* Of one stream, a step moves the data in one of these ways, or not at all.
LEMMA Moves ==
    ASSUME Typed, \A t \in Streams : Staged(t), NEW s \in Streams, [Next]_vars
    PROVE  \/ Rests(s) \/ IsLeft(s) \/ IsRead(s)
           \/ ReadData(s) \/ (SendCompletes /\ IsSent(s))
           \/ AdapterTakes(s) \/ AdapterForwards(s)
           \/ AdapterRefused(s) \/ AdapterUnregisters(s)
<1>1. CASE UNCHANGED vars
  BY <1>1 DEF vars, taskVars, pipeVars, userVars, Rests, StillBehind, IsSent
<1> QED BY <1>1, TaskMoves, AdapterMoves, ControlMoves, UserMoves DEF Next

-----------------------------------------------------------------------------
(* Types, continued. *)

LEMMA FunctionsStep ==
    ASSUME Typed, [Next]_vars
    PROVE  /\ data' \in [Streams -> Nat] /\ held' \in [Streams -> Nat]
           /\ last' \in [Streams -> Nat]
           /\ raw' \in [Streams -> Seq(Nat)] /\ quotes' \in [Streams -> Seq(Nat)]
<1> DEFINE Goal == /\ data' \in [Streams -> Nat] /\ held' \in [Streams -> Nat]
                   /\ last' \in [Streams -> Nat]
                   /\ raw' \in [Streams -> Seq(Nat)]
                   /\ quotes' \in [Streams -> Seq(Nat)]
<1> USE DEF Typed, pipeVars, userVars
<1>1. ASSUME NEW s \in Streams, ReadData(s) PROVE Goal
  <2>1. /\ data' \in [Streams -> Nat] /\ data'[s] \in Nat
        /\ raw[s] \in Seq(Nat)
    BY <1>1 DEF ReadData
  <2>2. Append(raw[s], data'[s]) \in Seq(Nat)
    BY <2>1, Appended
  <2> QED BY <1>1, <2>1, <2>2 DEF ReadData
<1>2. CASE SendCompletes
  <2>1. sending[1] \in Streams /\ sending[2] \in Nat
    BY <1>2, SentPair, Constants DEF SendCompletes
  <2>2. Append(raw[sending[1]], sending[2]) \in Seq(Nat)
    BY <2>1, Appended
  <2> QED BY <1>2, <2>1, <2>2 DEF SendCompletes
<1>3. CASE Exit \/ \E s \in Streams : ReadStreamEnd(s)
  BY <1>3 DEF Exit, ReadStreamEnd
<1>4. ASSUME NEW s \in Streams, AdapterTakes(s) PROVE Goal
  <2>1. /\ raw[s] \in Seq(Nat) /\ quotes[s] \in Seq(Nat) /\ raw[s] # <<>>
    BY <1>4 DEF AdapterTakes
  <2>2. Head(raw[s]) \in Nat /\ Tail(raw[s]) \in Seq(Nat)
    BY <2>1, Shortened
  <2>3. Append(quotes[s], Head(raw[s])) \in Seq(Nat)
    BY <2>1, <2>2, Appended
  <2> QED BY <1>4, <2>2, <2>3 DEF AdapterTakes
<1>5. ASSUME NEW s \in Streams, AdapterForwards(s) PROVE Goal
  <2>1. Append(quotes[s], held[s]) \in Seq(Nat)
    BY Appended
  <2> QED BY <1>5, <2>1 DEF AdapterForwards
<1>6. ASSUME NEW s \in Streams,
             AdapterRefused(s) \/ AdapterUnregisters(s) \/ AdapterEnds(s)
      PROVE  Goal
  <2>1. <<>> \in Seq(Nat)
    OBVIOUS
  <2>2. CASE AdapterUnregisters(s)
    <3>1. raw' = [raw EXCEPT ![s] = <<>>] /\ UNCHANGED <<data, held, last, quotes>>
      BY <2>2 DEF AdapterUnregisters
    <3> QED BY <2>1, <3>1
  <2>3. CASE AdapterRefused(s) \/ AdapterEnds(s)
    BY <2>3 DEF AdapterRefused, AdapterEnds
  <2> QED BY <1>6, <2>2, <2>3
<1>7. ASSUME NEW s \in Streams, StartStep(s) PROVE Goal
  BY <1>7 DEF StartStep, RequestStart, StartAnswered, Register
<1>8. ASSUME NEW s \in Streams, TakesQuote(s),
             quotes' = [quotes EXCEPT ![s] = Tail(@)],
             UNCHANGED <<data, held, raw>>
      PROVE  Goal
  <2>1. Head(quotes[s]) \in Nat /\ Tail(quotes[s]) \in Seq(Nat)
    BY <1>8, Shortened DEF TakesQuote
  <2> QED BY <1>8, <2>1 DEF TakesQuote
<1>9. ASSUME NEW s \in Streams, ReadStep(s) \/ PriceStep(s) \/ StopStep(s)
      PROVE  Goal
  <2>1. <<>> \in Seq(Nat)
    OBVIOUS
  <2>2. CASE Recv(s) \/ PriceQuote(s)
    BY <1>8, <2>2 DEF Recv, PriceQuote
  <2>3. CASE RecvNone(s) \/ PriceTimeout(s) \/ Stop(s) \/ StopAnswered(s)
    BY <2>3 DEF RecvNone, PriceTimeout, Stop, StopAnswered
  <2>4. CASE Drop(s) \/ PriceNone(s) \/ Discard(s) \/ Unregister(s)
    BY <2>1, <2>4 DEF Drop, PriceNone, Discard, Unregister, DropReceiver
  <2> QED BY <1>9, <2>2, <2>3, <2>4 DEF ReadStep, PriceStep, StopStep
<1>10. CASE CloseStep
  BY <1>10 DEF CloseStep, Close, DrainTable, Cancel, StopOne
<1>11. CASE UNCHANGED vars
  BY <1>11 DEF vars
<1> QED
  BY <1>1, <1>2, <1>3, <1>4, <1>5, <1>6, <1>7, <1>9, <1>10, <1>11
     DEF Next, TaskStep, AdapterStep

LEMMA NumbersStep ==
    ASSUME Typed, \A t \in Streams : Staged(t), NEW s \in Streams, [Next]_vars
    PROVE  NumbersTyped(s)'

<1>1. /\ data[s] \in Nat /\ data[s] \in Data(s) \cup {0}
      /\ held[s] \in Data(s) \cup {0} /\ last[s] \in Data(s) \cup {0}
      /\ raw[s] \in Seq(Data(s)) /\ Len(raw[s]) <= RawCap
      /\ quotes[s] \in Seq(Data(s) \ Others) /\ Len(quotes[s]) <= QuoteCap
      /\ adapter[s] = "send" <=> held[s] # 0
      /\ held[s] # 0 => held[s] \in Data(s) \ Others
  BY DEF Typed, NumbersTyped
<1>2. RawCap \in Nat /\ QuoteCap \in Nat /\ 0 \notin Data(s)
  BY Constants
<1>3. CASE Rests(s)
  BY <1>1, <1>3 DEF Rests, StillBehind, NumbersTyped
<1>4. CASE IsLeft(s)
  <2>1. <<>> \in Seq(Data(s) \ Others) /\ Len(<<>>) = 0
    OBVIOUS
  <2> QED BY <1>1, <1>2, <1>4, <2>1 DEF IsLeft, StillBehind, NumbersTyped
<1>5. CASE IsRead(s)
  <2>1. /\ Head(quotes[s]) \in Data(s) \ Others
        /\ Tail(quotes[s]) \in Seq(Data(s) \ Others)
        /\ Len(Tail(quotes[s])) <= QuoteCap
    BY <1>1, <1>2, <1>5, Shortened DEF IsRead, TakesQuote
  <2>2. last'[s] = Head(quotes[s]) /\ quotes'[s] = Tail(quotes[s])
    BY <1>5 DEF IsRead, TakesQuote, Typed
  <2> QED BY <1>1, <1>5, <2>1, <2>2 DEF IsRead, StillBehind, NumbersTyped
<1>6. CASE ReadData(s)
  <2>1. data'[s] \in Data(s)
    <3>1. data'[s] = data[s] + 1 /\ data[s] < MaxData[s]
      BY <1>6 DEF ReadData, Typed
    <3> QED BY <1>1, <3>1, Constants DEF Data
  <2>2. raw'[s] \in Seq(Data(s)) /\ Len(raw'[s]) <= RawCap
    <3>1. CASE Len(raw[s]) < RawCap
      <4>1. raw'[s] = Append(raw[s], data'[s])
        BY <1>6, <3>1 DEF ReadData, Typed
      <4>2. Len(raw[s]) \in Nat
        BY <1>1
      <4> QED BY <1>1, <1>2, <2>1, <3>1, <4>1, <4>2, Appended
    <3>2. CASE ~(Len(raw[s]) < RawCap)
      BY <1>1, <1>6, <3>2 DEF ReadData
    <3> QED BY <3>1, <3>2
  <2> QED BY <1>1, <1>6, <2>1, <2>2 DEF ReadData, NumbersTyped, userVars
<1>7. CASE SendCompletes /\ IsSent(s)
  <2>1. sending[1] = s /\ sending[2] \in Data(s)
    BY <1>7, SentPair DEF SendCompletes
  <2>2. raw'[s] = Append(raw[s], sending[2]) /\ Len(raw[s]) < RawCap
    BY <1>7, <2>1 DEF SendCompletes, Typed
  <2>3. raw'[s] \in Seq(Data(s)) /\ Len(raw'[s]) <= RawCap
    <3>1. Len(raw[s]) \in Nat
      BY <1>1
    <3> QED BY <1>1, <1>2, <2>1, <2>2, <3>1, Appended
  <2> QED BY <1>1, <1>7, <2>3 DEF SendCompletes, NumbersTyped, userVars
<1>8. CASE AdapterTakes(s)
  <2>1. /\ Head(raw[s]) \in Data(s) /\ Tail(raw[s]) \in Seq(Data(s))
        /\ Len(Tail(raw[s])) <= RawCap
    BY <1>1, <1>2, <1>8, Shortened DEF AdapterTakes
  <2>2. raw'[s] = Tail(raw[s])
    BY <1>8 DEF AdapterTakes, Typed
  <2>3. CASE Head(raw[s]) \in Others
    BY <1>1, <1>8, <2>1, <2>2, <2>3 DEF AdapterTakes, NumbersTyped, userVars
  <2>4. CASE Head(raw[s]) \notin Others /\ HasRoom(s)
    <3>1. quotes'[s] = Append(quotes[s], Head(raw[s])) /\ UNCHANGED <<adapter, held>>
      BY <1>8, <2>4 DEF AdapterTakes, Typed
    <3>2. quotes'[s] \in Seq(Data(s) \ Others) /\ Len(quotes'[s]) <= QuoteCap
      <4>1. Len(quotes[s]) \in Nat /\ Len(quotes[s]) < QuoteCap
        BY <1>1, <2>4 DEF HasRoom
      <4> QED BY <1>1, <1>2, <2>1, <2>4, <3>1, <4>1, Appended
    <3> QED BY <1>1, <1>8, <2>1, <2>2, <3>1, <3>2
            DEF AdapterTakes, NumbersTyped, userVars
  <2>5. CASE Head(raw[s]) \notin Others /\ ~HasRoom(s)
    <3>1. adapter'[s] = "send" /\ held'[s] = Head(raw[s]) /\ UNCHANGED quotes
      BY <1>8, <2>5 DEF AdapterTakes, Typed, ControlTyped
    <3> QED BY <1>1, <1>2, <1>8, <2>1, <2>2, <2>5, <3>1
            DEF AdapterTakes, NumbersTyped, userVars
  <2> QED BY <2>3, <2>4, <2>5
<1>9. CASE AdapterForwards(s)
  <2>1. /\ quotes'[s] = Append(quotes[s], held[s])
        /\ held'[s] = 0 /\ adapter'[s] = "recv"
    BY <1>9 DEF AdapterForwards, Typed, ControlTyped
  <2>2. held[s] \in Data(s) \ Others
    BY <1>1, <1>9 DEF AdapterForwards
  <2>3. quotes'[s] \in Seq(Data(s) \ Others) /\ Len(quotes'[s]) <= QuoteCap
    <3>1. Len(quotes[s]) \in Nat /\ Len(quotes[s]) < QuoteCap
      BY <1>1, <1>9 DEF AdapterForwards, HasRoom
    <3> QED BY <1>1, <1>2, <2>1, <2>2, <3>1, Appended
  <2> QED BY <1>1, <1>9, <2>1, <2>3 DEF AdapterForwards, NumbersTyped, userVars
<1>10. CASE AdapterRefused(s)
  BY <1>1, <1>10 DEF AdapterRefused, NumbersTyped, userVars, Typed, ControlTyped
<1>11. CASE AdapterUnregisters(s)
  <2>1. <<>> \in Seq(Data(s)) /\ Len(<<>>) = 0
    OBVIOUS
  <2>2. raw'[s] = <<>> /\ adapter'[s] = "done" /\ adapter[s] = "unregister"
    BY <1>11 DEF AdapterUnregisters, Typed, ControlTyped
  <2> QED BY <1>1, <1>2, <1>11, <2>1, <2>2
          DEF AdapterUnregisters, NumbersTyped, userVars
<1> QED
  BY <1>3, <1>4, <1>5, <1>6, <1>7, <1>8, <1>9, <1>10, <1>11, Moves

LEMMA TypedStep ==
    ASSUME Typed, \A t \in Streams : Staged(t), [Next]_vars
    PROVE  Typed'
BY ControlStep, SentStep, FunctionsStep, NumbersStep DEF Typed

-----------------------------------------------------------------------------
(* The datum the task holds, and the stages of a stream. *)

LEMMA LatestStep ==
    ASSUME Typed, SentIsLatest, [Next]_vars
    PROVE  SentIsLatest'
<1>1. CASE task = "sending"
  <2>1. sending' = sending \/ sending' = Nothing
    BY <1>1 DEF Next, vars, taskVars, TaskStep, SendCompletes, Exit, ReadData,
         ReadStreamEnd, CloseStep, Close, DrainTable, Cancel, StopOne,
         AdapterStep, AdapterTakes, AdapterForwards, AdapterRefused,
         AdapterUnregisters, AdapterEnds, StartStep, RequestStart, StartAnswered,
         Register, ReadStep, Recv, RecvNone, PriceStep, PriceQuote, PriceTimeout,
         PriceNone, StopStep, Stop, Drop, StopAnswered, Unregister, Discard
  <2>2. UNCHANGED <<data, registered>>
    BY <1>1 DEF Next, vars, pipeVars, TaskStep, SendCompletes, Exit, ReadData,
         ReadStreamEnd, CloseStep, Close, DrainTable, Cancel, StopOne, LockFree,
         AdapterStep, AdapterTakes, AdapterForwards, AdapterRefused,
         AdapterUnregisters, AdapterEnds, StartStep, RequestStart, StartAnswered,
         Register, ReadStep, Recv, RecvNone, PriceStep, PriceQuote, PriceTimeout,
         PriceNone, StopStep, Stop, Drop, StopAnswered, Unregister, Discard
  <2> QED BY <2>1, <2>2 DEF SentIsLatest, IsSent
<1>2. ASSUME task # "sending", NEW s \in Streams, ReadData(s) PROVE SentIsLatest'
  <2>1. sending = Nothing
    BY <1>2 DEF Typed, SentTyped
  <2>2. \/ sending' = Nothing
        \/ sending' = <<s, data'[s]>> /\ UNCHANGED registered /\ registered[s]
    BY <1>2, <2>1 DEF ReadData, taskVars
  <2> QED BY <2>2 DEF SentIsLatest, IsSent
<1>3. CASE task # "sending" /\ ~\E s \in Streams : ReadData(s)
  <2>1. sending = Nothing
    BY <1>3 DEF Typed, SentTyped
  <2>2. sending' = sending
    BY <1>3 DEF Next, vars, taskVars, TaskStep, SendCompletes, Exit,
         ReadStreamEnd, CloseStep, Close, DrainTable, Cancel, StopOne,
         AdapterStep, AdapterTakes, AdapterForwards, AdapterRefused,
         AdapterUnregisters, AdapterEnds, StartStep, RequestStart, StartAnswered,
         Register, ReadStep, Recv, RecvNone, PriceStep, PriceQuote, PriceTimeout,
         PriceNone, StopStep, Stop, Drop, StopAnswered, Unregister, Discard
  <2> QED BY <2>1, <2>2 DEF SentIsLatest, IsSent
<1> QED BY <1>1, <1>2, <1>3

LEMMA StagedTask ==
    ASSUME Typed, SentIsLatest, NEW s \in Streams, Staged(s), TaskStep
    PROVE  Staged(s)'
<1> USE DEF Staged, Typed, ControlTyped, taskVars, pipeVars, userVars, closeVars
<1>1. CASE SendCompletes
  <2>1. CASE sending[1] = s
    <3>1. registered[s]
      BY <1>1, <2>1, SentPair DEF SendCompletes, SentIsLatest
    <3>2. UNCHANGED <<handle, adapter, registered, receiver, slot_released>>
      BY <1>1 DEF SendCompletes
    <3> QED BY <3>1, <3>2
  <2>2. CASE sending[1] # s
    <3>1. UNCHANGED <<handle, adapter, registered, receiver, slot_released>>
      BY <1>1 DEF SendCompletes
    <3>2. raw'[s] = raw[s]
      BY <1>1, <2>2 DEF SendCompletes
    <3> QED BY <3>1, <3>2
  <2> QED BY <2>1, <2>2
<1>2. CASE Exit
  <2>1. /\ UNCHANGED <<adapter, receiver, raw>>
        /\ ~registered'[s]
        /\ slot_released'[s] = (slot_released[s] \/ registered[s]
                                \/ handle[s] = "requesting")
        /\ handle'[s] \in {"idle", "answered", "failed"} =>
              handle[s] \in {"idle", "requesting", "answered", "failed"}
        /\ handle'[s] # "requesting"
    BY <1>2 DEF Exit, EndEntries
  <2> QED BY <2>1
<1>3. ASSUME NEW t \in Streams, ReadStreamEnd(t) PROVE Staged(s)'
  <2>1. /\ UNCHANGED <<adapter, receiver, raw, handle>>
        /\ registered'[s] = (registered[s] /\ s # t)
        /\ slot_released'[s] = (slot_released[s] \/ (registered[s] /\ s = t))
    BY <1>3 DEF ReadStreamEnd, EndEntries
  <2> QED BY <2>1
<1>4. ASSUME NEW t \in Streams, ReadData(t) PROVE Staged(s)'
  <2>1. UNCHANGED <<handle, adapter, registered, receiver, slot_released>>
    BY <1>4 DEF ReadData
  <2>2. raw'[s] = raw[s] \/ registered[s]
    BY <1>4 DEF ReadData
  <2> QED BY <2>1, <2>2
<1> QED BY <1>1, <1>2, <1>3, <1>4 DEF TaskStep

LEMMA StagedStep ==
    ASSUME Typed, SentIsLatest, NEW s \in Streams, Staged(s), [Next]_vars
    PROVE  Staged(s)'
<1> USE DEF Staged, Typed, ControlTyped, taskVars, pipeVars, userVars, closeVars
<1>1. CASE CloseStep
  <2>1. CASE DrainTable
    <3>1. /\ UNCHANGED <<adapter, receiver, raw, handle>>
          /\ ~registered'[s]
          /\ slot_released'[s] = (slot_released[s] \/ registered[s])
      BY <2>1 DEF DrainTable, EndEntries
    <3> QED BY <3>1
  <2> QED BY <1>1, <2>1 DEF CloseStep, Close, Cancel, StopOne
<1>2. ASSUME NEW t \in Streams, AdapterStep(t) PROVE Staged(s)'
  <2>1. CASE AdapterTakes(t)
    BY SMTT(30), <2>1 DEF AdapterTakes
  <2>2. CASE AdapterForwards(t)
    BY <2>2 DEF AdapterForwards
  <2>3. CASE AdapterRefused(t)
    BY <2>3 DEF AdapterRefused
  <2>4. CASE AdapterUnregisters(t)
    BY <2>4 DEF AdapterUnregisters
  <2>5. CASE AdapterEnds(t)
    BY <2>5 DEF AdapterEnds
  <2> QED BY <1>2, <2>1, <2>2, <2>3, <2>4, <2>5 DEF AdapterStep
<1>3. ASSUME NEW t \in Streams, StartStep(t) PROVE Staged(s)'
  BY <1>3 DEF StartStep, RequestStart, StartAnswered, Register
<1>4. ASSUME NEW t \in Streams, ReadStep(t) PROVE Staged(s)'
  BY <1>4 DEF ReadStep, Recv, RecvNone, TakesQuote, AllReceived
<1>5. ASSUME NEW t \in Streams, PriceStep(t) PROVE Staged(s)'
  BY <1>5 DEF PriceStep, PriceQuote, PriceTimeout, PriceNone, BeginStop,
              DropReceiver
<1>6. ASSUME NEW t \in Streams, StopStep(t) PROVE Staged(s)'
  <2>1. CASE Unregister(t)
    <3>1. /\ UNCHANGED <<adapter, raw>>
          /\ handle'[s] = IF s = t THEN "closed" ELSE handle[s]
          /\ registered'[s] = (registered[s] /\ s # t)
          /\ slot_released'[s] = (slot_released[s] \/ s = t)
          /\ receiver'[s] \in {receiver[s], "dropped"}
      BY <2>1 DEF Unregister, DropReceiver
    <3> QED BY <3>1
  <2>2. CASE Discard(t) \/ Drop(t) \/ Stop(t) \/ StopAnswered(t)
    BY ZenonT(30), <2>2 DEF Stop, Drop, StopAnswered, Discard, BeginStop, DropReceiver
  <2> QED BY <1>6, <2>1, <2>2 DEF StopStep
<1>7. CASE UNCHANGED vars
  BY <1>7 DEF vars
<1> QED BY <1>1, <1>2, <1>3, <1>4, <1>5, <1>6, <1>7, StagedTask DEF Next

-----------------------------------------------------------------------------
(* The data behind the quotes channel. *)

LEMMA RawTyped ==
    ASSUME Typed, NEW s \in Streams
    PROVE  /\ data[s] \in Nat /\ held[s] \in Nat /\ last[s] \in Nat
           /\ raw[s] \in Seq(Nat) /\ Len(raw[s]) \in Nat /\ quotes[s] \in Seq(Nat)
           /\ DOMAIN quotes[s] = 1..Len(quotes[s])
BY DEF Typed

LEMMA AppendConsecutive ==
    ASSUME NEW seq \in Seq(Nat), NEW n \in Nat, NEW x \in Nat,
           Follows(seq, n), x = n + Len(seq) + 1
    PROVE  /\ Len(Append(seq, x)) = Len(seq) + 1
           /\ Follows(Append(seq, x), n)
<1>1. /\ Len(seq) \in Nat /\ Len(Append(seq, x)) = Len(seq) + 1
      /\ \A i \in 1..(Len(seq) + 1) :
            Append(seq, x)[i] = IF i = Len(seq) + 1 THEN x ELSE seq[i]
  BY Appended
<1> SUFFICES ASSUME NEW i \in 1..(Len(seq) + 1)
             PROVE  Append(seq, x)[i] = n + i
  BY <1>1 DEF Follows
<1>2. CASE i = Len(seq) + 1
  BY <1>1, <1>2
<1>3. CASE i \in 1..Len(seq)
  BY <1>1, <1>3 DEF Follows
<1> QED BY <1>1, <1>2, <1>3

LEMMA TailConsecutive ==
    ASSUME NEW seq \in Seq(Nat), seq # <<>>, NEW n \in Nat,
           Follows(seq, n)
    PROVE  /\ Head(seq) = n + 1
           /\ Len(Tail(seq)) = Len(seq) - 1
           /\ Follows(Tail(seq), n + 1)
<1>1. /\ Len(seq) \in Nat \ {0} /\ Len(Tail(seq)) = Len(seq) - 1
      /\ Head(seq) = seq[1]
      /\ \A i \in 1..(Len(seq) - 1) : Tail(seq)[i] = seq[i + 1]
  BY Shortened
<1>2. ASSUME NEW i \in 1..(Len(seq) - 1) PROVE Tail(seq)[i] = (n + 1) + i
  <2>1. i + 1 \in 1..Len(seq)
    BY <1>1
  <2> QED BY <1>1, <2>1 DEF Follows
<1> QED BY <1>1, <1>2 DEF Follows

\* What the adapter's hand has passed changes only when it takes a datum, or
\* when it gives up and drops the raw channel.
LEMMA TakenStep ==
    ASSUME Typed, SentIsLatest, \A t \in Streams : Staged(t),
           NEW s \in Streams, Consecutive(s), NEW n \in Nat, Taken(s) = n,
           [Next]_vars
    PROVE  /\ Consecutive(s)'
           /\ AdapterTakes(s) => Taken(s)' = n + 1 /\ Head(raw[s]) = n + 1
           /\ ~AdapterTakes(s) /\ ~AdapterUnregisters(s) => Taken(s)' = n
<1> DEFINE Goal == /\ Consecutive(s)'
                   /\ AdapterTakes(s) => Taken(s)' = n + 1 /\ Head(raw[s]) = n + 1
                   /\ ~AdapterTakes(s) /\ ~AdapterUnregisters(s) => Taken(s)' = n
<1>1. /\ data[s] \in Nat /\ raw[s] \in Seq(Nat) /\ Len(raw[s]) \in Nat
      /\ Follows(raw[s], n)
      /\ adapter[s] = "send" => held[s] = n
      /\ data[s] = n + Len(raw[s]) + OnHand(s) /\ OnHand(s) \in Nat
  <2>1. OnHand(s) \in Nat
    BY DEF OnHand
  <2>2. data[s] \in Nat /\ raw[s] \in Seq(Nat) /\ Len(raw[s]) \in Nat
    BY RawTyped
  <2>3. data[s] = n + Len(raw[s]) + OnHand(s)
    BY SMTT(30), <2>1, <2>2 DEF Taken
  <2> QED BY <2>1, <2>2, <2>3 DEF Consecutive
<1>2. ASSUME NEW m \in Nat, Taken(s)' = m,
             Follows(raw'[s], m),
             adapter'[s] = "send" => held'[s] = m
      PROVE  Consecutive(s)'
  BY <1>2 DEF Consecutive
<1>3. ASSUME StillBehind(s), ~AdapterTakes(s) PROVE Goal
  <2>1. Taken(s)' = n
    BY <1>3 DEF Taken, OnHand, StillBehind
  <2> QED BY <1>1, <1>2, <1>3, <2>1 DEF StillBehind
<1>4. CASE ReadData(s)
  <2>1. /\ ~IsSent(s) /\ data'[s] = data[s] + 1
        /\ UNCHANGED <<adapter, held>> /\ ~AdapterTakes(s)
    BY <1>4, UnsentWhenIdle, RawTyped DEF ReadData, AdapterTakes, Typed
  <2>0. OnHand(s) = 0
    BY <2>1 DEF OnHand
  <2>2. data'[s] = n + Len(raw[s]) + 1
    BY <1>1, <2>0, <2>1
  <2>3. CASE Len(raw[s]) < RawCap
    <3>1. raw'[s] = Append(raw[s], data'[s]) /\ OnHand(s)' = 0
      BY <1>4, <2>1, <2>3 DEF ReadData, Typed, IsSent, OnHand, taskVars
    <3>2. /\ Len(raw'[s]) = Len(raw[s]) + 1
          /\ Follows(raw'[s], n)
      <4>1. data'[s] \in Nat
        BY <1>1, <2>2
      <4> QED BY ZenonT(30), <1>1, <2>2, <3>1, <4>1, AppendConsecutive
    <3>3. Taken(s)' = n
      BY <1>1, <2>2, <3>1, <3>2 DEF Taken
    <3> QED BY <1>1, <1>2, <2>1, <3>2, <3>3
  <2>4. CASE ~(Len(raw[s]) < RawCap)
    <3>1. raw'[s] = raw[s] /\ Len(raw'[s]) = Len(raw[s]) /\ OnHand(s)' = 1
      BY <1>4, <2>4, PairNotNothing DEF ReadData, IsSent, OnHand
    <3>2. Taken(s)' = n
      BY <1>1, <2>2, <3>1 DEF Taken
    <3> QED BY <1>1, <1>2, <2>1, <3>1, <3>2
  <2> QED BY <2>3, <2>4
<1>5. CASE SendCompletes /\ IsSent(s)
  <2>1. /\ sending[1] = s /\ sending[2] = data[s]
        /\ raw'[s] = Append(raw[s], data[s]) /\ OnHand(s) = 1 /\ OnHand(s)' = 0
        /\ UNCHANGED <<data, adapter, held>> /\ ~AdapterTakes(s)
    BY <1>5, SentPair DEF SendCompletes, SentIsLatest, Typed, IsSent, AdapterTakes,
                          OnHand, taskVars
  <2>2. data[s] = n + Len(raw[s]) + 1
    BY <1>1, <2>1
  <2>3. /\ Len(raw'[s]) = Len(raw[s]) + 1
        /\ Follows(raw'[s], n)
    <3>1. /\ Len(Append(raw[s], data[s])) = Len(raw[s]) + 1
          /\ Follows(Append(raw[s], data[s]), n)
      BY <1>1, <2>2, AppendConsecutive
    <3> QED BY <2>1, <3>1
  <2>4. Taken(s)' = n
    BY <1>1, <2>1, <2>2, <2>3 DEF Taken
  <2> QED BY <1>1, <1>2, <2>1, <2>3, <2>4
<1>6. CASE AdapterTakes(s)
  <2>1. /\ raw[s] # <<>> /\ raw'[s] = Tail(raw[s])
        /\ UNCHANGED <<data, task, sending>> /\ adapter[s] = "recv"
        /\ adapter'[s] = "send" => held'[s] = Head(raw[s])
        /\ ~AdapterUnregisters(s)
    BY <1>6 DEF AdapterTakes, AdapterUnregisters, Typed, ControlTyped, taskVars
  <2>2. /\ Head(raw[s]) = n + 1
        /\ Len(raw'[s]) = Len(raw[s]) - 1
        /\ Follows(raw'[s], n + 1)
    BY <1>1, <2>1, TailConsecutive
  <2>3. Taken(s)' = n + 1
    <3>1. OnHand(s)' = OnHand(s) /\ data'[s] = data[s]
      BY <2>1 DEF OnHand, IsSent
    <3> QED BY <1>1, <2>2, <3>1 DEF Taken
  <2>4. n + 1 \in Nat
    OBVIOUS
  <2>5. Consecutive(s)'
    BY <1>2, <2>1, <2>2, <2>3, <2>4
  <2> QED BY <1>6, <2>2, <2>3, <2>5
<1>7. CASE AdapterForwards(s) \/ AdapterRefused(s)
  <2>1. /\ UNCHANGED <<data, task, sending, raw>> /\ adapter'[s] # "send"
        /\ ~AdapterTakes(s)
    BY <1>7 DEF AdapterForwards, AdapterRefused, AdapterTakes, Typed, ControlTyped,
                taskVars
  <2>2. Taken(s)' = n
    BY <2>1 DEF Taken, OnHand, IsSent
  <2> QED BY <1>1, <1>2, <2>1, <2>2
<1>8. CASE AdapterUnregisters(s)
  <2>1. /\ UNCHANGED <<data, task, sending>> /\ adapter'[s] # "send"
        /\ raw'[s] = <<>> /\ ~AdapterTakes(s) /\ OnHand(s)' = 0
    BY <1>8, UnsentWhenIdle
       DEF AdapterUnregisters, AdapterTakes, Typed, ControlTyped, taskVars, LockFree,
           OnHand, IsSent
  <2>2. Taken(s)' = data[s]
    BY <1>1, <2>1 DEF Taken
  <2>3. Follows(<<>>, data[s])
    BY DEF Follows
  <2> QED BY <2>3, <1>1, <1>2, <1>8, <2>1, <2>2
<1>9. CASE AdapterTakes(s) \/ ~StillBehind(s)
  BY <1>4, <1>5, <1>6, <1>7, <1>8, <1>9, Moves DEF Rests, IsLeft, IsRead
<1> QED BY <1>3, <1>9

-----------------------------------------------------------------------------
(* The quotes channel. *)

LEMMA AppendInOrder ==
    ASSUME NEW seq \in Seq(Nat), Increasing(seq), NEW x \in Nat,
           \A y \in Range(seq) : y < x
    PROVE  /\ Range(Append(seq, x)) = Range(seq) \cup {x}
           /\ Increasing(Append(seq, x))
<1>1. /\ DOMAIN seq = 1..Len(seq) /\ Len(seq) \in Nat
      /\ DOMAIN Append(seq, x) = 1..(Len(seq) + 1)
      /\ \A i \in 1..(Len(seq) + 1) :
            Append(seq, x)[i] = IF i = Len(seq) + 1 THEN x ELSE seq[i]
      /\ \A i \in 1..Len(seq) : seq[i] \in Nat
  BY Appended
<1>2. \A i \in 1..Len(seq) : seq[i] < x
  BY <1>1 DEF Range
<1>3. Increasing(Append(seq, x))
  BY <1>1, <1>2 DEF Increasing
<1>4. ASSUME NEW y \in Range(seq) \cup {x} PROVE y \in Range(Append(seq, x))
  <2>1. PICK i \in 1..(Len(seq) + 1) : Append(seq, x)[i] = y
    BY <1>1, <1>4 DEF Range
  <2> QED BY <1>1, <2>1 DEF Range
<1>5. ASSUME NEW y \in Range(Append(seq, x)) PROVE y \in Range(seq) \cup {x}
  <2>1. PICK i \in 1..(Len(seq) + 1) : Append(seq, x)[i] = y
    BY <1>1, <1>5 DEF Range
  <2>2. i = Len(seq) + 1 \/ i \in 1..Len(seq)
    BY <1>1
  <2> QED BY <1>1, <2>1, <2>2 DEF Range
<1> QED BY <1>3, <1>4, <1>5

LEMMA TailInOrder ==
    ASSUME NEW seq \in Seq(Nat), seq # <<>>, Increasing(seq)
    PROVE  /\ Head(seq) \in Range(seq) /\ \A y \in Range(seq) : Head(seq) <= y
           /\ Range(Tail(seq)) = Range(seq) \ {Head(seq)}
           /\ Increasing(Tail(seq))
<1>1. /\ DOMAIN seq = 1..Len(seq) /\ Len(seq) \in Nat \ {0}
      /\ DOMAIN Tail(seq) = 1..(Len(seq) - 1)
      /\ \A i \in 1..(Len(seq) - 1) : Tail(seq)[i] = seq[i + 1]
      /\ Head(seq) = seq[1]
      /\ \A i \in 1..Len(seq) : seq[i] \in Nat
  BY Shortened
<1>2. Head(seq) \in Range(seq)
  BY <1>1 DEF Range
<1>3. \A i \in 1..Len(seq) : i # 1 => seq[1] < seq[i]
  BY <1>1 DEF Increasing
<1>4. ASSUME NEW y \in Range(seq) PROVE Head(seq) <= y
  <2>1. PICK i \in 1..Len(seq) : seq[i] = y
    BY <1>1, <1>4 DEF Range
  <2> QED BY <1>1, <1>3, <2>1
<1>5. Increasing(Tail(seq))
  BY <1>1 DEF Increasing
<1>6. ASSUME NEW y \in Range(Tail(seq)) PROVE y \in Range(seq) \ {Head(seq)}
  <2>1. PICK i \in 1..(Len(seq) - 1) : seq[i + 1] = y
    BY <1>1, <1>6 DEF Range
  <2>2. i + 1 \in 1..Len(seq) /\ i + 1 # 1
    BY <1>1
  <2>3. y \in Range(seq)
    BY <1>1, <2>1, <2>2 DEF Range
  <2>4. y # seq[1]
    BY <1>1, <1>3, <2>1, <2>2
  <2> QED BY <1>1, <2>3, <2>4
<1>7. ASSUME NEW y \in Range(seq) \ {Head(seq)} PROVE y \in Range(Tail(seq))
  <2>1. PICK i \in 1..Len(seq) : seq[i] = y
    BY <1>1, <1>7 DEF Range
  <2>2. i - 1 \in 1..(Len(seq) - 1) /\ Tail(seq)[i - 1] = seq[i]
    <3>1. i # 1
      BY <1>1, <1>7, <2>1
    <3> QED BY <1>1, <3>1
  <2> QED BY <1>1, <2>1, <2>2 DEF Range
<1> QED BY <1>2, <1>4, <1>5, <1>6, <1>7

\* The reader takes the first of them.
LEMMA QueuedRead ==
    ASSUME NEW q \in Seq(Nat), q # <<>>, NEW l \in Nat, NEW h \in Nat,
           NEW n \in Nat, h # 0 => h = n, Queued(q, l, h, n)
    PROVE  Head(q) \in Nat /\ Queued(Tail(q), Head(q), h, n)
<1>1. PICK x \in Nat : x = Head(q)
  BY Shortened
<1>2. /\ x \in Range(q) /\ \A y \in Range(q) : x <= y
      /\ Range(Tail(q)) = Range(q) \ {x}
      /\ Increasing(Tail(q))
  BY <1>1, TailInOrder DEF Queued
<1>3. Range(q) = ((l + 1)..n) \ (Others \cup {h})
  BY DEF Queued
<1>4. x \in (l + 1)..n /\ x # h
  BY <1>2, <1>3
<1>5. ASSUME NEW y \in Range(Tail(q)) PROVE y \in ((x + 1)..n) \ (Others \cup {h})
  <2>1. y \in Range(q) /\ y # x
    BY <1>2, <1>5
  <2>2. y \in (l + 1)..n /\ x <= y /\ y \notin Others \cup {h}
    BY <1>2, <1>3, <2>1
  <2> QED BY <1>4, <2>1, <2>2
<1>6. ASSUME NEW y \in ((x + 1)..n) \ (Others \cup {h}) PROVE y \in Range(Tail(q))
  <2>1. y \in (l + 1)..n /\ y # x
    BY <1>4, <1>6
  <2> QED BY <1>2, <1>3, <1>6, <2>1
<1>7. Range(Tail(q)) = ((x + 1)..n) \ (Others \cup {h})
  BY <1>5, <1>6
<1>8. x <= n
  BY <1>4
<1> QED BY <1>1, <1>2, <1>4, <1>7, <1>8 DEF Queued

\* A payload of another kind is dropped.
LEMMA QueuedSkips ==
    ASSUME NEW q \in Seq(Nat), NEW l \in Nat, NEW n \in Nat, Queued(q, l, 0, n),
           n + 1 \in Others
    PROVE  Queued(q, l, 0, n + 1)
<1>1. l <= n + 1
  BY DEF Queued
<1>2. ((l + 1)..(n + 1)) \ (Others \cup {0}) = ((l + 1)..n) \ (Others \cup {0})
  OBVIOUS
<1> QED BY <1>1, <1>2 DEF Queued

\* The next quote goes on.
LEMMA QueuedPasses ==
    ASSUME NEW q \in Seq(Nat), NEW l \in Nat, NEW n \in Nat, Queued(q, l, 0, n),
           n + 1 \notin Others
    PROVE  Queued(Append(q, n + 1), l, 0, n + 1)
<1>1. Range(q) = ((l + 1)..n) \ (Others \cup {0}) /\ l <= n /\ Increasing(q)
  BY DEF Queued
<1>2. \A y \in Range(q) : y < n + 1
  BY <1>1
<1>3. /\ Range(Append(q, n + 1)) = Range(q) \cup {n + 1}
      /\ Increasing(Append(q, n + 1))
  BY <1>1, <1>2, AppendInOrder
<1>4. (((l + 1)..n) \ (Others \cup {0})) \cup {n + 1}
        = ((l + 1)..(n + 1)) \ (Others \cup {0})
  BY <1>1
<1>5. l <= n + 1
  BY <1>1
<1> QED BY <1>1, <1>3, <1>4, <1>5 DEF Queued

\* The next quote is held until there is room.
LEMMA QueuedHolds ==
    ASSUME NEW q \in Seq(Nat), NEW l \in Nat, NEW n \in Nat, Queued(q, l, 0, n)
    PROVE  Queued(q, l, n + 1, n + 1)
<1>1. l <= n /\ l <= n + 1 /\ l # n + 1
  BY DEF Queued
<1>2. ((l + 1)..(n + 1)) \ (Others \cup {n + 1}) = ((l + 1)..n) \ (Others \cup {0})
  OBVIOUS
<1> QED BY <1>1, <1>2 DEF Queued

\* There is room for the quote that is held.
LEMMA QueuedForwards ==
    ASSUME NEW q \in Seq(Nat), NEW l \in Nat, NEW n \in Nat \ {0},
           Queued(q, l, n, n), n \notin Others
    PROVE  Queued(Append(q, n), l, 0, n)
<1>1. /\ Range(q) = ((l + 1)..n) \ (Others \cup {n}) /\ Increasing(q)
      /\ l <= n /\ l # n
  BY DEF Queued
<1>2. \A y \in Range(q) : y < n
  BY <1>1
<1>3. /\ Range(Append(q, n)) = Range(q) \cup {n} /\ Increasing(Append(q, n))
  BY <1>1, <1>2, AppendInOrder
<1>4. (((l + 1)..n) \ (Others \cup {n})) \cup {n} = ((l + 1)..n) \ (Others \cup {0})
  BY <1>1
<1> QED BY <1>1, <1>3, <1>4 DEF Queued

LEMMA InOrderStep ==
    ASSUME Typed, SentIsLatest, \A t \in Streams : Staged(t),
           NEW s \in Streams, Consecutive(s), InOrder(s), [Next]_vars
    PROVE  InOrder(s)'
<1> SUFFICES ASSUME receiver'[s] = "open"
             PROVE  Queued(quotes[s], last[s], held[s], Taken(s))'
  BY DEF InOrder
<1>1. PICK n \in Nat : Taken(s) = n
  BY DEF Consecutive
<1>2. /\ held[s] \in Nat /\ last[s] \in Nat /\ quotes[s] \in Seq(Nat)
      /\ adapter[s] = "send" <=> held[s] # 0
      /\ held[s] # 0 => held[s] = n /\ held[s] \notin Others
  BY <1>1, RawTyped DEF Typed, NumbersTyped, Consecutive
<1>3. /\ AdapterTakes(s) => Taken(s)' = n + 1 /\ Head(raw[s]) = n + 1
      /\ ~AdapterTakes(s) /\ ~AdapterUnregisters(s) => Taken(s)' = n
  BY <1>1, TakenStep
<1>4. receiver[s] = "open" => Queued(quotes[s], last[s], held[s], n)
  BY <1>1 DEF InOrder
<1>5. SUFFICES Queued(quotes'[s], last'[s], held'[s], Taken(s)')
  BY DEF Queued, Increasing, Range
<1>6. StillBehind(s) => ~AdapterTakes(s)
  <2>1. AdapterTakes(s) => raw[s] \in Seq(Nat) /\ raw[s] # <<>> /\ raw'[s] = Tail(raw[s])
    BY DEF AdapterTakes, Typed
  <2>2. ASSUME AdapterTakes(s) PROVE Len(raw'[s]) # Len(raw[s])
    <3>1. Len(raw[s]) \in Nat /\ Len(Tail(raw[s])) = Len(raw[s]) - 1
      BY <2>1, <2>2, Shortened
    <3>2. raw'[s] = Tail(raw[s])
      BY <2>1, <2>2
    <3> QED BY <3>1, <3>2
  <2> QED BY <2>2 DEF StillBehind
<1>7. ~AdapterUnregisters(s)
  BY DEF AdapterUnregisters, userVars, Staged
<1>8. CASE Rests(s)
  BY <1>3, <1>4, <1>6, <1>7, <1>8 DEF Rests, StillBehind
<1>9. CASE IsRead(s)
  <2>1. /\ receiver[s] = "open" /\ quotes[s] # <<>> /\ held'[s] = held[s]
        /\ last'[s] = Head(quotes[s]) /\ quotes'[s] = Tail(quotes[s])
    BY <1>9 DEF IsRead, TakesQuote, StillBehind, Typed
  <2>2. Taken(s)' = n
    BY <1>3, <1>6, <1>7, <1>9 DEF IsRead
  <2> QED BY <1>2, <1>4, <2>1, <2>2, QueuedRead
<1>10. CASE ReadData(s) \/ SendCompletes
  <2>1. UNCHANGED <<last, quotes, receiver, held>>
    BY <1>10 DEF ReadData, SendCompletes, userVars
  <2>2. ~AdapterTakes(s)
    <3>1. CASE ReadData(s)
      <4>1. data'[s] = data[s] + 1 /\ data[s] \in Nat
        BY <3>1 DEF ReadData, Typed
      <4> QED BY <4>1 DEF AdapterTakes
    <3>2. CASE SendCompletes
      BY <3>2 DEF SendCompletes, AdapterTakes, taskVars
    <3> QED BY <1>10, <3>1, <3>2
  <2> QED BY <1>3, <1>4, <1>7, <2>1, <2>2
<1>11. CASE AdapterTakes(s)
  <2>1. /\ UNCHANGED <<last, receiver>> /\ receiver[s] = "open"
        /\ held[s] = 0 /\ Taken(s)' = n + 1 /\ Head(raw[s]) = n + 1
    BY <1>2, <1>3, <1>11 DEF AdapterTakes, userVars
  <2>2. Queued(quotes[s], last[s], 0, n)
    BY <1>4, <2>1
  <2>3. CASE n + 1 \in Others
    <3>1. UNCHANGED <<held, quotes>>
      BY <1>11, <2>1, <2>3 DEF AdapterTakes
    <3> QED BY <1>2, <2>1, <2>2, <2>3, <3>1, QueuedSkips
  <2>4. CASE n + 1 \notin Others /\ HasRoom(s)
    <3>1. UNCHANGED held /\ quotes'[s] = Append(quotes[s], n + 1)
      BY <1>11, <2>1, <2>4 DEF AdapterTakes, Typed
    <3> QED BY <1>2, <2>1, <2>2, <2>4, <3>1, QueuedPasses
  <2>5. CASE n + 1 \notin Others /\ ~HasRoom(s)
    <3>1. UNCHANGED quotes /\ held'[s] = n + 1
      BY <1>11, <2>1, <2>5 DEF AdapterTakes, Typed
    <3> QED BY <1>2, <2>1, <2>2, <3>1, QueuedHolds
  <2> QED BY <2>3, <2>4, <2>5
<1>12. CASE AdapterForwards(s)
  <2>1. /\ UNCHANGED <<last, receiver>> /\ receiver[s] = "open"
        /\ held'[s] = 0 /\ held[s] = n /\ n # 0 /\ n \notin Others
        /\ quotes'[s] = Append(quotes[s], n) /\ ~AdapterTakes(s)
    BY <1>2, <1>12 DEF AdapterForwards, AdapterTakes, userVars, Typed
  <2> QED BY <1>2, <1>3, <1>4, <1>7, <2>1, QueuedForwards
<1>13. ~IsLeft(s) /\ ~AdapterRefused(s)
  BY DEF IsLeft, AdapterRefused, userVars
<1> QED BY <1>7, <1>8, <1>9, <1>10, <1>11, <1>12, <1>13, Moves

-----------------------------------------------------------------------------
(* What is read off from the invariant. *)

LEMMA InitInv == Init => DeliveryInv
<1> SUFFICES ASSUME Init PROVE DeliveryInv
  OBVIOUS
<1>1. SentIsLatest
  BY DEF Init, SentIsLatest, IsSent
<1>2. ASSUME NEW s \in Streams PROVE Staged(s) /\ Consecutive(s) /\ InOrder(s)
  <2>1. /\ data[s] = 0 /\ held[s] = 0 /\ last[s] = 0 /\ raw[s] = <<>>
        /\ quotes[s] = <<>> /\ adapter[s] # "send"
    BY <1>2 DEF Init
  <2>2. Taken(s) = 0
    BY <2>1 DEF Init, Taken, OnHand, IsSent
  <2>3. Consecutive(s)
    BY <2>1, <2>2 DEF Consecutive, Follows
  <2>4. Queued(<<>>, 0, 0, 0)
    BY DEF Queued, Increasing, Range
  <2>5. Staged(s)
    BY <1>2 DEF Init, Staged
  <2> QED BY <2>1, <2>2, <2>3, <2>4, <2>5 DEF InOrder
<1> QED BY <1>1, <1>2, InitTyped DEF DeliveryInv

LEMMA InvStep == DeliveryInv /\ [Next]_vars => DeliveryInv'
<1> SUFFICES ASSUME DeliveryInv, [Next]_vars PROVE DeliveryInv'
  OBVIOUS
<1>1. Typed' /\ SentIsLatest'
  BY TypedStep, LatestStep DEF DeliveryInv
<1>2. ASSUME NEW s \in Streams PROVE (Staged(s) /\ Consecutive(s) /\ InOrder(s))'
  <2>1. Typed /\ SentIsLatest /\ \A t \in Streams : Staged(t)
    BY DEF DeliveryInv
  <2>2. Staged(s) /\ Consecutive(s) /\ InOrder(s)
    BY <1>2 DEF DeliveryInv
  <2>3. Staged(s)'
    BY <1>2, <2>1, <2>2, StagedStep
  <2>4. PICK n \in Nat : Taken(s) = n
    BY <2>2 DEF Consecutive
  <2>5. Consecutive(s)'
    BY <1>2, <2>1, <2>2, <2>4, TakenStep
  <2>6. InOrder(s)'
    BY <1>2, <2>1, <2>2, InOrderStep
  <2> QED BY <2>3, <2>5, <2>6
<1> QED BY <1>1, <1>2 DEF DeliveryInv

\* At every moment the numbers of the data of a stream are where the code's
\* order puts them: read, then in the quotes channel, in the adapter's hand, in
\* the raw channel, in the task's hand.  The next three theorems use it.
THEOREM DeliveryInvariant == Spec => []DeliveryInv
BY InitInv, InvStep, PTL DEF Spec

\* Neither channel ever holds more than its capacity, the quotes channel holds
\* quotes only, and the task waits exactly while it has a datum in its hand.
THEOREM DeliveryTypeCorrect == Spec => []DeliveryTypeOK
<1>1. DeliveryInv => DeliveryTypeOK
  BY DEF DeliveryInv, Typed, ControlTyped, SentTyped, NumbersTyped, DeliveryTypeOK
<1> QED BY <1>1, DeliveryInvariant, PTL

\* recv gives None only when the slot of the stream was given back: the adapter
\* that unregisters a stream without on_end does so for no reader.
THEOREM NoneOnlyAfterRelease == Spec => []NoneMeansReleased
<1>1. DeliveryInv => NoneMeansReleased
  BY DEF DeliveryInv, Staged, NoneMeansReleased
<1> QED BY <1>1, DeliveryInvariant, PTL

-----------------------------------------------------------------------------
(* The refinement of QuoteFifo. *)

\* QuoteFifo counts with its own instance of Cardinality.
LEMMA FifoCardinality ==
    ASSUME NEW S
    PROVE  Fifo!Cardinality(S) = Cardinality(S)
BY DEF Fifo!Cardinality, Cardinality

\* While somebody reads: every quote on its way is in the quotes channel, or it
\* is the one in the adapter's hand, or it comes later.
LEMMA PendingQuotes ==
    ASSUME DeliveryInv, NEW s \in Streams, receiver[s] = "open"
    PROVE  /\ Taken(s) \in Nat /\ data[s] = Taken(s) + Len(raw[s]) + OnHand(s)
           /\ OnHand(s) \in {0, 1}
           /\ Range(quotes[s]) \subseteq Fifo!Pending(s)
           /\ \A n \in Range(quotes[s]) : n <= Taken(s)
           /\ \A n \in Fifo!Pending(s) :
                \/ n \in Range(quotes[s]) \/ n > Taken(s)
                \/ n = Taken(s) /\ held[s] # 0
<1>1. PICK n \in Nat : n = Taken(s)
  BY DEF DeliveryInv, Consecutive
<1>2. /\ data[s] \in Nat /\ last[s] \in Nat /\ held[s] \in Nat /\ Len(raw[s]) \in Nat
  BY RawTyped DEF DeliveryInv
<1>3. OnHand(s) \in {0, 1}
  BY DEF OnHand
<1>4. data[s] = n + Len(raw[s]) + OnHand(s)
  BY <1>1, <1>2, <1>3 DEF Taken
<1>5. held[s] # 0 => held[s] = n
  BY <1>1 DEF DeliveryInv, Typed, NumbersTyped, Consecutive
<1>6. Range(quotes[s]) = ((last[s] + 1)..n) \ (Others \cup {held[s]})
  BY <1>1 DEF DeliveryInv, InOrder, Queued
<1>7. n <= data[s]
  BY <1>2, <1>3, <1>4
<1>8. Range(quotes[s]) \subseteq ((last[s] + 1)..data[s]) \ Others
  BY <1>2, <1>6, <1>7
<1>9. ASSUME NEW m \in ((last[s] + 1)..data[s]) \ Others
      PROVE  m \in Range(quotes[s]) \/ m > n \/ (m = n /\ held[s] # 0)
  BY <1>2, <1>5, <1>6, <1>9
<1>10. \A m \in Range(quotes[s]) : m <= n
  BY <1>2, <1>6
<1> QED BY <1>1, <1>3, <1>4, <1>8, <1>9, <1>10 DEF Fifo!Pending

LEMMA QuotesCounted ==
    ASSUME NEW q \in Seq(Nat)
    PROVE  IsFiniteSet(Range(q)) /\ Cardinality(Range(q)) <= Len(q)
<1>1. Len(q) \in Nat /\ DOMAIN q = 1..Len(q)
  OBVIOUS
<1>2. IsFiniteSet(1..Len(q)) /\ Cardinality(1..Len(q)) = Len(q)
  BY SMTT(30), <1>1, FS_Interval
<1>3. q \in Surjection(1..Len(q), Range(q))
  BY <1>1 DEF Surjection, Range
<1> QED BY <1>2, <1>3, FS_Surjection

\* The two channels and the two hands are all the room there is.
LEMMA PutStep ==
    ASSUME DeliveryInv, NEW s \in Streams, ReadData(s)
    PROVE  Fifo!Put(s)
<1>1. /\ data' = [data EXCEPT ![s] = @ + 1] /\ registered[s]
      /\ UNCHANGED <<last, adapter, registered, receiver>>
  BY DEF ReadData, userVars
<1>2. ASSUME receiver[s] = "open"
      PROVE  Fifo!Cardinality(Fifo!Pending(s)') <= RawCap + QuoteCap + 2
  <2>1. PICK n \in Nat : n = Taken(s)
    BY <1>2, PendingQuotes
  <2>2. PICK k \in Nat : k = Len(raw[s])
    BY RawTyped DEF DeliveryInv
  <2>3. /\ data'[s] = n + k + 1 /\ last'[s] = last[s] /\ last[s] \in Nat
    <3>1. OnHand(s) = 0
      BY UnsentWhenIdle DEF ReadData, OnHand, DeliveryInv
    <3>2. data[s] = n + k + OnHand(s) /\ data'[s] = data[s] + 1
      BY <1>1, <1>2, <2>1, <2>2, PendingQuotes DEF DeliveryInv, Typed
    <3>3. last[s] \in Nat
      BY DEF DeliveryInv, Typed
    <3> QED BY <1>1, <3>1, <3>2, <3>3
  <2>4. Fifo!Pending(s)' \subseteq Range(quotes[s]) \cup (n..(n + k + 1))
    <3> SUFFICES ASSUME NEW m \in ((last[s] + 1)..(n + k + 1)) \ Others
                 PROVE  m \in Range(quotes[s]) \cup (n..(n + k + 1))
      BY <2>3 DEF Fifo!Pending
    <3>1. CASE m >= n
      BY <2>3, <3>1
    <3>2. CASE m < n
      <4>1. m \in Fifo!Pending(s)
        <5>1. data[s] >= n /\ data[s] \in Nat
          BY <1>2, <2>1, <2>2, PendingQuotes
        <5> QED BY <2>3, <3>2, <5>1 DEF Fifo!Pending
      <4> QED BY <1>2, <2>1, <2>3, <3>2, <4>1, PendingQuotes
    <3> QED BY <2>3, <3>1, <3>2
  <2>5. k <= RawCap /\ Len(quotes[s]) <= QuoteCap /\ quotes[s] \in Seq(Nat)
    BY <2>2, RawTyped DEF DeliveryInv, Typed, NumbersTyped
  <2>6. IsFiniteSet(n..(n + k + 1)) /\ Cardinality(n..(n + k + 1)) = k + 2
    BY FS_Interval
  <2>7. IsFiniteSet(Range(quotes[s])) /\ Cardinality(Range(quotes[s])) <= Len(quotes[s])
    BY <2>5, QuotesCounted
  <2> DEFINE Room == Range(quotes[s]) \cup (n..(n + k + 1))
  <2>8. /\ IsFiniteSet(Room)
        /\ Cardinality(Room) = Cardinality(Range(quotes[s])) + (k + 2)
             - Cardinality(Range(quotes[s]) \cap (n..(n + k + 1)))
    BY <2>6, <2>7, FS_Union
  <2>9. Cardinality(Room) <= RawCap + QuoteCap + 2
    <3>1. IsFiniteSet(Range(quotes[s]) \cap (n..(n + k + 1)))
      BY <2>7, FS_Intersection
    <3>2. /\ Cardinality(Range(quotes[s]) \cap (n..(n + k + 1))) \in Nat
          /\ Cardinality(Range(quotes[s])) \in Nat
      BY <2>7, <3>1, FS_CardinalityType
    <3>3. Len(quotes[s]) \in Nat /\ RawCap \in Nat /\ QuoteCap \in Nat
      BY <2>5, Constants
    <3> HIDE DEF Room
    <3> QED BY <2>5, <2>7, <2>8, <3>2, <3>3
  <2>10. /\ Cardinality(Fifo!Pending(s)') <= Cardinality(Room)
         /\ Cardinality(Fifo!Pending(s)') \in Nat /\ Cardinality(Room) \in Nat
    <3> HIDE DEF Room
    <3>1. Fifo!Pending(s)' \in SUBSET Room
      BY <2>4 DEF Room
    <3>2. PICK P : P = Fifo!Pending(s)'
      OBVIOUS
    <3>3. IsFiniteSet(P) /\ Cardinality(P) <= Cardinality(Room)
      BY <2>8, <3>1, <3>2, FS_Subset
    <3> QED BY <2>8, <3>2, <3>3, FS_CardinalityType
  <2> HIDE DEF Room
  <2> QED BY <2>9, <2>10, FifoCardinality, Constants
<1> QED BY <1>1, <1>2 DEF Fifo!Put

LEMMA GetStep ==
    ASSUME DeliveryInv, NEW s \in Streams, TakesQuote(s),
           UNCHANGED <<data, adapter, registered, receiver>>
    PROVE  Fifo!Get(s)
<1>1. /\ receiver[s] = "open" /\ quotes[s] # <<>> /\ quotes[s] \in Seq(Nat)
      /\ last' = [last EXCEPT ![s] = Head(quotes[s])]
      /\ Increasing(quotes[s])
  BY RawTyped DEF TakesQuote, DeliveryInv, InOrder, Queued
<1>2. PICK h \in Nat : h = Head(quotes[s])
  BY <1>1, Shortened
<1>3. h \in Range(quotes[s]) /\ \A m \in Range(quotes[s]) : h <= m
  BY <1>1, <1>2, TailInOrder
<1>4. h \in Fifo!Pending(s) /\ h <= Taken(s)
  BY <1>1, <1>3, PendingQuotes
<1>5. ASSUME NEW m \in Fifo!Pending(s) PROVE h <= m
  <2>1. m \in Int /\ Taken(s) \in Nat
    <3>1. last[s] \in Nat /\ data[s] \in Nat
      BY DEF DeliveryInv, Typed
    <3> QED BY <1>1, <1>5, <3>1, PendingQuotes DEF Fifo!Pending
  <2>2. m \in Range(quotes[s]) \/ m >= Taken(s)
    BY <1>1, <2>1, PendingQuotes
  <2> QED BY <1>3, <1>4, <2>1, <2>2
<1> QED BY <1>1, <1>2, <1>4, <1>5 DEF Fifo!Get

LEMMA TellEndStep ==
    ASSUME DeliveryInv, NEW s \in Streams, AllReceived(s),
           receiver' = [receiver EXCEPT ![s] = "ended"],
           UNCHANGED <<data, last, adapter, registered>>
    PROVE  Fifo!TellEnd(s)
<1>1. /\ receiver[s] = "open" /\ quotes[s] = <<>> /\ adapter[s] = "done"
      /\ ~registered[s] /\ raw[s] = <<>>
  BY DEF AllReceived, DeliveryInv, Staged
<1>2. OnHand(s) = 0 /\ held[s] = 0
  BY <1>1 DEF DeliveryInv, SentIsLatest, OnHand, Typed, NumbersTyped
<1>3. data[s] = Taken(s)
  BY <1>1, <1>2, PendingQuotes
<1>4. Range(quotes[s]) = {}
  BY <1>1 DEF Range
<1>5. Fifo!Pending(s) = {}
  <2> SUFFICES ASSUME NEW m \in Fifo!Pending(s) PROVE FALSE
    OBVIOUS
  <2>1. m > data[s]
    BY <1>1, <1>2, <1>3, <1>4, PendingQuotes
  <2>2. last[s] \in Nat /\ data[s] \in Nat
    BY DEF DeliveryInv, Typed
  <2> QED BY <2>1, <2>2 DEF Fifo!Pending
<1>6. [t \in Streams |-> receiver'[t] # "open"]
        = [[t \in Streams |-> receiver[t] # "open"] EXCEPT ![s] = TRUE]
  BY DEF DeliveryInv, Typed, ControlTyped
<1> QED BY <1>1, <1>5, <1>6 DEF Fifo!TellEnd

LEMMA LeaveStep ==
    ASSUME DeliveryInv, NEW s \in Streams, DropReceiver(s),
           registered' \in {registered, [registered EXCEPT ![s] = FALSE]},
           UNCHANGED <<data, last, adapter>>
    PROVE  Fifo!Leave(s)
<1> DEFINE Closed == [t \in Streams |-> adapter[t] # "none" /\ ~registered[t]]
<1>1. [t \in Streams |-> receiver'[t] # "open"]
        = [[t \in Streams |-> receiver[t] # "open"] EXCEPT ![s] = TRUE]
  BY DEF DropReceiver, DeliveryInv, Typed, ControlTyped
<1>2. Closed' \in {Closed, [Closed EXCEPT ![s] = TRUE]}
  <2>1. CASE registered' = registered
    BY <2>1
  <2>2. CASE registered' = [registered EXCEPT ![s] = FALSE] /\ adapter[s] = "none"
    BY <2>2 DEF DeliveryInv, Typed, ControlTyped
  <2>3. CASE registered' = [registered EXCEPT ![s] = FALSE] /\ adapter[s] # "none"
    BY <2>3 DEF DeliveryInv, Typed, ControlTyped
  <2> QED BY <2>1, <2>2, <2>3
<1> QED BY <1>1, <1>2 DEF Fifo!Leave

\* Everything else leaves the channel alone, or shuts it for some streams.
LEMMA ShutStep ==
    ASSUME UNCHANGED <<data, last, receiver>>,
           \A s \in Streams : adapter[s] # "none" /\ ~registered[s]
                                => adapter'[s] # "none" /\ ~registered'[s]
    PROVE  Fifo!Shut
BY DEF Fifo!Shut

LEMMA FifoStep ==
    ASSUME DeliveryInv, [Next]_vars
    PROVE  [Fifo!FifoNext]_Fifo!fifoVars
<1> USE DEF taskVars, pipeVars, userVars, closeVars
<1>1. CASE TaskStep
  <2>1. CASE SendCompletes \/ Exit \/ \E s \in Streams : ReadStreamEnd(s)
    BY <2>1, ShutStep
       DEF SendCompletes, Exit, ReadStreamEnd, EndEntries, Fifo!FifoNext
  <2> QED BY <1>1, <2>1, PutStep DEF TaskStep, Fifo!FifoNext
<1>2. CASE CloseStep
  BY <1>2, ShutStep
     DEF CloseStep, Close, DrainTable, Cancel, StopOne, EndEntries, Fifo!FifoNext
<1>3. ASSUME NEW s \in Streams, AdapterStep(s) PROVE Fifo!FifoNext
  <2>1. UNCHANGED <<data, last, receiver>>
    BY <1>3 DEF AdapterStep, AdapterTakes, AdapterForwards, AdapterRefused,
                AdapterUnregisters, AdapterEnds
  <2>2. \A t \in Streams : /\ adapter[t] # "none" => adapter'[t] # "none"
                           /\ registered'[t] => registered[t]
    BY ZenonT(30), <1>3 DEF DeliveryInv, Typed, ControlTyped, AdapterStep, AdapterTakes,
         AdapterForwards, AdapterRefused, AdapterUnregisters, AdapterEnds
  <2> QED BY <2>1, <2>2, ShutStep DEF Fifo!FifoNext
<1>4. ASSUME NEW s \in Streams, StartStep(s) PROVE Fifo!FifoNext
  <2>1. CASE Register(s)
    <3>1. adapter[s] = "none"
      BY <2>1 DEF Register, DeliveryInv, Staged
    <3> QED BY <2>1, <3>1, ShutStep DEF Register, Fifo!FifoNext
  <2> QED BY <1>4, <2>1, ShutStep
          DEF StartStep, RequestStart, StartAnswered, Fifo!FifoNext
<1>5. ASSUME NEW s \in Streams, ReadStep(s) \/ PriceStep(s) PROVE Fifo!FifoNext
  <2>1. CASE Recv(s) \/ PriceQuote(s)
    BY <2>1, GetStep DEF Recv, PriceQuote, Fifo!FifoNext
  <2>2. CASE RecvNone(s)
    BY <2>2, TellEndStep DEF RecvNone, Fifo!FifoNext
  <2>3. CASE PriceNone(s)
    BY <2>3, LeaveStep DEF PriceNone, Fifo!FifoNext
  <2>4. CASE PriceTimeout(s)
    BY <2>4, ShutStep DEF PriceTimeout, Fifo!FifoNext
  <2> QED BY <1>5, <2>1, <2>2, <2>3, <2>4 DEF ReadStep, PriceStep
<1>6. ASSUME NEW s \in Streams, StopStep(s) PROVE Fifo!FifoNext
  <2>1. CASE Stop(s) \/ StopAnswered(s)
    BY <2>1, ShutStep DEF Stop, StopAnswered, Fifo!FifoNext
  <2>2. CASE Drop(s) \/ Discard(s)
    BY <2>2, LeaveStep DEF Drop, Discard, Fifo!FifoNext
  <2>3. CASE Unregister(s) /\ price[s]
    BY <2>3, LeaveStep DEF Unregister, Fifo!FifoNext
  <2>4. CASE Unregister(s) /\ ~price[s]
    BY <2>4, ShutStep DEF Unregister, Fifo!FifoNext, DeliveryInv, Typed, ControlTyped
  <2> QED BY <1>6, <2>1, <2>2, <2>3, <2>4 DEF StopStep
<1>7. CASE UNCHANGED vars
  BY <1>7 DEF vars, Fifo!fifoVars
<1> QED BY <1>1, <1>2, <1>3, <1>4, <1>5, <1>6, <1>7 DEF Next

\* Task, adapter and the two channels are one bounded first-in first-out
\* channel: for any number of streams, any room in the channels, any pauses of
\* the reader and any way a stream ends, no quote the task took is lost,
\* doubled or overtaken before recv, and recv gives None only after the last.
THEOREM DeliveryIsFifo == Spec => ImplementsFifo
<1>1. Init => Fifo!FifoInit
  <2> SUFFICES ASSUME Init PROVE Fifo!FifoInit
    OBVIOUS
  <2>1. \A s \in Streams : (adapter[s] # "none" /\ ~registered[s]) = FALSE
    BY DEF Init
  <2>2. \A s \in Streams : (receiver[s] # "open") = FALSE
    BY DEF Init
  <2>3. /\ data = [s \in Streams |-> 0] /\ last = [s \in Streams |-> 0]
    BY DEF Init
  <2> QED BY <2>1, <2>2, <2>3 DEF Fifo!FifoInit
<1>2. DeliveryInv /\ [Next]_vars => [Fifo!FifoNext]_Fifo!fifoVars
  BY FifoStep
<1> QED BY <1>1, <1>2, DeliveryInvariant, PTL DEF Spec, ImplementsFifo, Fifo!FifoSpec
=============================================================================
