----------------------------- MODULE MCDelivery -----------------------------
(* Instances of Delivery for TLC. *)
EXTENDS Delivery

CONSTANTS s1, s2

TwoStreams == {s1, s2}
OneStream == {s1}

FourData == [s \in Streams |-> 4]
FewerForLeaver == [s \in Streams |-> IF s \in Readers THEN 4 ELSE 3]

\* A stream that is left has no more unread data than the raw channel and the
\* adapter's hand can take; one that is read for ever may have any number.
FitsForLeaver == [s \in Streams |->
                    IF s \in Readers THEN MaxData[s] ELSE RawCap + 1]

\* Both channels, the adapter's hand and the task's hand are full.
AllFull == [s \in Streams |-> RawCap + QuoteCap + 2]
=============================================================================
