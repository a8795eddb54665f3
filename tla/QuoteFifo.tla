------------------------------ MODULE QuoteFifo ------------------------------
(***************************************************************************)
(* What the way of quotes from the connection to QuoteStream::recv         *)
(* promises: per stream, a bounded first-in first-out channel.  What is    *)
(* put in is numbered; the reader gets the quotes among it in order and    *)
(* without a gap, and is told of the end only when the channel is shut and *)
(* empty.                                                                  *)
(***************************************************************************)
EXTENDS Naturals, FiniteSets

CONSTANTS
    Streams, Capacity,
    Others   \* the data, by number, whose payload is not a quote

VARIABLES
    count,  \* how many data were put in
    got,    \* the number of the last quote read
    shut,   \* nothing more is put in
    gone    \* the reader was told of the end, or left

fifoVars == <<count, got, shut, gone>>

\* The quotes that are on their way.
Pending(s) == ((got[s] + 1)..count[s]) \ Others

FifoInit ==
    /\ count = [s \in Streams |-> 0]
    /\ got = [s \in Streams |-> 0]
    /\ shut = [s \in Streams |-> FALSE]
    /\ gone = [s \in Streams |-> FALSE]

Put(s) ==
    /\ ~shut[s]
    /\ count' = [count EXCEPT ![s] = @ + 1]
    /\ gone[s] \/ Cardinality(Pending(s)') <= Capacity
    /\ UNCHANGED <<got, shut, gone>>

Get(s) ==
    /\ ~gone[s]
    /\ \E n \in Pending(s) :
          /\ \A m \in Pending(s) : n <= m
          /\ got' = [got EXCEPT ![s] = n]
    /\ UNCHANGED <<count, shut, gone>>

\* Any number of streams at once, as when the connection ends.
Shut ==
    /\ \A s \in Streams : shut[s] => shut'[s]
    /\ shut' \in [Streams -> BOOLEAN]
    /\ UNCHANGED <<count, got, gone>>

TellEnd(s) ==
    /\ shut[s] /\ Pending(s) = {}
    /\ gone' = [gone EXCEPT ![s] = TRUE]
    /\ UNCHANGED <<count, got, shut>>

\* The way may be shut at the same time.
Leave(s) ==
    /\ gone' = [gone EXCEPT ![s] = TRUE]
    /\ shut' \in {shut, [shut EXCEPT ![s] = TRUE]}
    /\ UNCHANGED <<count, got>>

FifoNext ==
    \/ Shut
    \/ \E s \in Streams : Put(s) \/ Get(s) \/ TellEnd(s) \/ Leave(s)

FifoSpec == FifoInit /\ [][FifoNext]_fifoVars
=============================================================================
