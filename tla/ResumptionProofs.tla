--------------------------- MODULE ResumptionProofs ---------------------------
(***************************************************************************)
(* Streams from their request to their end, for every set of streams and   *)
(* any number of reconnections: types, and, if the server does not reuse   *)
(* ids, that streams stay known by the id the server runs them under, that *)
(* none is forgotten, and that a stop leaves nothing behind.               *)
(***************************************************************************)
EXTENDS StreamResumption, SequenceTheorems, TLAPS

NotYetOpen == {"idle", "requesting", "answered", "failed"}
Resuming == {"resuming", "awaiting", "remapping"}

\* What the fields of a handle are, by its progress, and those of a resumption.
HandleFields(s) ==
    /\ IF handle[s] \in {"idle", "requesting", "failed"}
       THEN stream_id[s] = 0 /\ effective_id[s] = 0
       ELSE stream_id[s] # 0 /\ effective_id[s] # 0
    /\ handle[s] \in NotYetOpen \cup {"open", "flagged"} => ids[s] = <<>>
    /\ handle[s] = "loaded" => Len(ids[s]) = 1
    /\ handle[s] \in {"awaiting", "unregistering"} => ids[s] # <<>>

InUse(s) == handle[s] \notin NotYetOpen

\* Only streams that were opened are in the table.
TableFields ==
    /\ \A i \in Ids : resumable_streams[i] # NoStream => InUse(resumable_streams[i])
    /\ \A e \in to_resume : InUse(e[2])
    /\ current[2] # NoStream => InUse(current[2])

MessageFields(m) ==
    /\ m.kind # "refused" => m.id # 0
    /\ (m.kind = "end") = (m.who = NoStream)

TypeInv ==
    /\ ResumptionTypeOK
    /\ ids \in [Streams -> Seq(Ids)]
    /\ \A s \in Streams : HandleFields(s)
    /\ TableFields
    /\ \A p \in 1..Len(down) : MessageFields(down[p])
    /\ loop \in {"awaiting", "remapping"} => current \in Ids \X Streams
    /\ (loop = "remapping") = (new_id # 0)

-----------------------------------------------------------------------------
(* Ids. *)

\* The ids by which a stream is, or was, known to its handle.
Knows(s) == ({stream_id[s], effective_id[s]} \cup Range(ids[s])) \ {0}

Known(i) == \E s \in Streams : i \in Knows(s)

\* No two streams know the same id, and all ids were handed out by the server.
IdsOwned ==
    /\ \A s, t \in Streams : \A i \in Knows(s) : i \in Knows(t) => s = t
    /\ \A s \in Streams : \A i \in Knows(s) : i < next_id
    /\ \A i \in Ids : server[i] # NoStream => i < next_id
    /\ \A p \in 1..Len(down) : down[p].id < next_id
    /\ new_id < next_id

Started(p, i) == down[p].kind = "started" /\ down[p].id = i

\* An id that is on its way with an answer is known to nobody yet.
AnswersFresh ==
    /\ \A p \in 1..Len(down) : down[p].kind = "started" =>
          /\ ~Known(down[p].id)
          /\ down[p].id # new_id
          /\ \A q \in 1..Len(down) : Started(q, down[p].id) => p = q
    /\ ~Known(new_id)

IsAnswer(m) == m.kind \in {"started", "refused"}

\* Each stream has one answer on its way at most; while streams are resumed,
\* only the answer that is awaited.
OneAnswer ==
    /\ \A p, q \in 1..Len(down) :
          (IsAnswer(down[p]) /\ IsAnswer(down[q]) /\ down[p].who = down[q].who) => p = q
    /\ \A p \in 1..Len(down) : IsAnswer(down[p]) =>
          /\ handle[down[p].who] # "idle"
          /\ loop \in Resuming => loop = "awaiting" /\ down[p].who = current[2]
    /\ \A s \in Streams : handle[s] = "requesting" => loop = "running"

\* The entry of a stream is at its effective id, and a stream in use that is
\* in the table was not ended.
EntryIsEffective ==
    \A i \in Ids : LET s == resumable_streams[i] IN s # NoStream =>
        /\ effective_id[s] = i
        /\ handle[s] = "open" => ~stopped_flag[s]

\* Nobody can have stopped a stream that is not open yet.
FlagFollowsUse ==
    \A s \in Streams :
        /\ handle[s] \in NotYetOpen => ~stopped_flag[s]
        /\ handle[s] = "answered" => effective_id[s] = stream_id[s]

-----------------------------------------------------------------------------
(* Resumption. *)

\* The streams that are still to be resumed, or are being resumed.
Pending ==
    to_resume \cup (IF loop \in {"awaiting", "remapping"} THEN {current} ELSE {})

\* They are in the table if still in use, and the server has not heard of
\* their old ids on this session.
PendingPair(i, s) ==
    /\ effective_id[s] = i
    /\ server[i] = NoStream /\ ~EndComing(i)
    /\ handle[s] = "open" =>
          /\ ~stopped_flag[s]
          /\ \/ resumable_streams[i] = s
             \/ loop = "remapping" /\ current = <<i, s>>
    /\ handle[s] = "closed" => disturbed[s]

PendingPairs ==
    /\ \A i \in Ids, s \in Streams : <<i, s>> \in Pending => PendingPair(i, s)
    /\ loop \in {"awaiting", "remapping"} => current \notin to_resume
    /\ loop = "remapping" => current[2] \notin Range(resumable_streams)
    /\ loop \notin Resuming => to_resume = {}

\* The id under which the server runs a stream is the one its handle knows, or
\* is about to be told.
ServedKnown(i) ==
    LET s == server[i] IN s # NoStream =>
        /\ handle[s] # "idle"
        /\ session = "up" =>
              /\ handle[s] = "requesting" =>
                    \E p \in 1..Len(down) : Started(p, i) /\ down[p].who = s
              /\ handle[s] = "answered" => effective_id[s] = i
              /\ handle[s] = "open" =>
                    \/ effective_id[s] = i
                    \/ /\ loop = "awaiting" /\ current[2] = s
                       /\ \E p \in 1..Len(down) : Started(p, i) /\ down[p].who = s
                    \/ loop = "remapping" /\ current[2] = s /\ new_id = i

ServerIdIsKnown == \A i \in Ids : ServedKnown(i)

-----------------------------------------------------------------------------
(* The safety properties, made inductive. *)

EndsAfter(p, i) == \E q \in (p + 1)..Len(down) : down[q].kind = "end" /\ down[q].id = i

LiveAnswers ==
    \A p \in 1..Len(down) : down[p].kind = "started" =>
        server[down[p].id] = down[p].who \/ EndsAfter(p, down[p].id)

LiveRemap ==
    loop = "remapping" => server[new_id] = current[2] \/ EndComing(new_id)

LiveEntry(i) ==
    LET s == resumable_streams[i] IN
    (s # NoStream /\ handle[s] = "open" /\ ~late[s]) =>
        <<i, s>> \in Pending \/ server[i] = s \/ EndComing(i)

\* A stream that was started runs, or the message that it ended is behind.
LiveInv ==
    session = "up" => LiveAnswers /\ LiveRemap /\ \A i \in Ids : LiveEntry(i)

EndInv ==
    \A s \in Streams : handle[s] = "open" =>
        \/ Registered(s)
        \/ slot_released[s] /\ stopped_flag[s]
        \/ loop = "remapping" /\ current[2] = s

ExitInv ==
    loop = "exited" =>
        \A i \in Ids : resumable_streams[i] # NoStream => late[resumable_streams[i]]

ServedUnder(s) == {i \in Ids : server[i] = s}
EntriesOf(s) == {i \in Ids : resumable_streams[i] = s}

\* What an undisturbed stop has still to do is in ids.
StopOf(s) ==
    ~disturbed[s] =>
        /\ handle[s] \in Stopping => loop = "running" /\ session = "up"
        /\ handle[s] \in {"flagged", "loaded"} =>
              ServedUnder(s) \cup EntriesOf(s) \subseteq {effective_id[s]}
        /\ handle[s] = "loaded" => effective_id[s] \in Range(ids[s])
        /\ handle[s] = "stopping" =>
              ServedUnder(s) \cup EntriesOf(s) \subseteq Range(ids[s])
        /\ handle[s] \in {"awaiting", "unregistering"} =>
              /\ EntriesOf(s) \subseteq Range(ids[s])
              /\ ServedUnder(s) \subseteq Range(Tail(ids[s]))
        /\ handle[s] = "closed" => ServedUnder(s) \cup EntriesOf(s) = {}

StopInv == \A s \in Streams : StopOf(s)

ResumptionInv ==
    /\ TypeInv /\ IdsOwned /\ AnswersFresh /\ OneAnswer
    /\ EntryIsEffective /\ FlagFollowsUse /\ PendingPairs /\ ServerIdIsKnown
    /\ LiveInv /\ EndInv /\ ExitInv /\ StopInv

-----------------------------------------------------------------------------
(* Types. *)

\* What a new message, a message read or a loss do to the messages under way.
LEMMA DownAppend ==
    ASSUME down \in Seq(Messages), NEW m \in Messages, down' = Append(down, m)
    PROVE  /\ down' \in Seq(Messages)
           /\ Len(down') = Len(down) + 1
           /\ \A p \in 1..Len(down) : down'[p] = down[p]
           /\ down'[Len(down')] = m
BY AppendProperties

LEMMA DownTail ==
    ASSUME down \in Seq(Messages), down # <<>>, down' = Tail(down)
    PROVE  /\ down' \in Seq(Messages)
           /\ Len(down') = Len(down) - 1
           /\ Len(down) \in Nat \ {0}
           /\ \A p \in 1..Len(down') : down'[p] = down[p + 1]
           /\ Head(down) = down[1]
           /\ Head(down) \in Messages
BY HeadTailProperties, EmptySeq

LEMMA DownPrefix ==
    ASSUME down \in Seq(Messages), NEW n \in 0..Len(down), down' = SubSeq(down, 1, n)
    PROVE  /\ down' \in Seq(Messages)
           /\ Len(down') = n
           /\ \A p \in 1..n : down'[p] = down[p]
<1>1. Len(down) \in Nat /\ \A i \in 1..n : down[i] \in Messages
  BY LenProperties, ElementOfSeq
<1>2. n \in Nat
  BY <1>1
<1> QED BY <1>1, <1>2, SubSeqProperties

DownTyped ==
    down \in Seq(Messages) /\ \A p \in 1..Len(down) : MessageFields(down[p])

LEMMA HeadTyped ==
    ASSUME DownTyped, down # <<>>
    PROVE  Head(down) \in Messages /\ MessageFields(Head(down))
<1>1. Len(down) \in Nat \ {0} /\ Head(down) = down[1]
  BY EmptySeq DEF DownTyped
<1>2. 1 \in 1..Len(down)
  BY <1>1
<1> QED BY <1>1, <1>2, ElementOfSeq DEF DownTyped

LEMMA DownStaysTyped ==
    ASSUME DownTyped,
           \/ UNCHANGED down
           \/ down' = <<>>
           \/ down # <<>> /\ down' = Tail(down)
           \/ \E n \in 0..Len(down) : down' = SubSeq(down, 1, n)
           \/ \E m \in Messages : MessageFields(m) /\ down' = Append(down, m)
    PROVE  DownTyped'
<1>1. CASE UNCHANGED down
  BY <1>1 DEF DownTyped
<1>2. CASE down' = <<>>
  BY <1>2, EmptySeq DEF DownTyped
<1>3. CASE down # <<>> /\ down' = Tail(down)
  <2>1. /\ down' \in Seq(Messages) /\ Len(down') = Len(down) - 1
        /\ Len(down) \in Nat \ {0}
        /\ \A p \in 1..Len(down') : down'[p] = down[p + 1]
    BY <1>3, DownTail DEF DownTyped
  <2>2. \A p \in 1..Len(down') : p + 1 \in 1..Len(down)
    BY <2>1
  <2> QED BY <2>1, <2>2 DEF DownTyped
<1>4. CASE \E n \in 0..Len(down) : down' = SubSeq(down, 1, n)
  <2>1. PICK n \in 0..Len(down) : down' = SubSeq(down, 1, n)
    BY <1>4
  <2>2. Len(down) \in Nat
    BY LenProperties DEF DownTyped
  <2> QED BY <2>1, <2>2, DownPrefix DEF DownTyped
<1>5. CASE \E m \in Messages : MessageFields(m) /\ down' = Append(down, m)
  <2>1. PICK m \in Messages : MessageFields(m) /\ down' = Append(down, m)
    BY <1>5
  <2>2. Len(down) \in Nat
    BY LenProperties DEF DownTyped
  <2> QED BY <2>1, <2>2, DownAppend DEF DownTyped
<1> QED BY <1>1, <1>2, <1>3, <1>4, <1>5

LEMMA MessageTypes ==
    ASSUME NEW s \in Streams, NEW i \in Ids
    PROVE  \A m \in {Message("started", s, i), Message("refused", s, 0),
                     Message("stopped", s, i), Message("end", NoStream, i)} :
              m \in Messages /\ MessageFields(m)
BY StreamResumptionAssumption
   DEF StreamResumptionAssumption, Message, Messages, MessageFields, Ids

Served ==
    /\ DownTyped'
    /\ server' \in [Ids -> Streams \cup {NoStream}]
    /\ next_id' \in 1..(MaxId + 1)
    /\ session' = session

LEMMA ServeStartTyped ==
    ASSUME TypeInv, NEW s \in Streams, ServeStart(s)
    PROVE  Served
<1>1. DownTyped /\ server \in [Ids -> Streams \cup {NoStream}] /\ next_id \in 1..(MaxId + 1)
  BY DEF TypeInv, ResumptionTypeOK, DownTyped
<1>2. MaxId \in Nat \ {0}
  BY StreamResumptionAssumption DEF StreamResumptionAssumption
<1>3. next_id <= MaxId => next_id \in Ids /\ next_id + 1 \in 1..(MaxId + 1)
  BY <1>1, <1>2 DEF Ids
<1>4. 1 \in Ids
  BY <1>2 DEF Ids
<1>5. DownTyped'
  BY <1>1, <1>3, <1>4, MessageTypes, DownStaysTyped DEF ServeStart
<1> QED BY <1>1, <1>3, <1>5 DEF ServeStart, Served

LEMMA ServeStopTyped ==
    ASSUME TypeInv, NEW s \in Streams, NEW i \in Ids, ServeStop(s, i)
    PROVE  Served
<1>1. DownTyped /\ server \in [Ids -> Streams \cup {NoStream}] /\ next_id \in 1..(MaxId + 1)
  BY DEF TypeInv, ResumptionTypeOK, DownTyped
<1>2. DownTyped'
  BY <1>1, MessageTypes, DownStaysTyped DEF ServeStop
<1> QED BY <1>1, <1>2 DEF ServeStop, Served

LEMMA PushNewTyped ==
    ASSUME NEW seq \in Seq(Ids), IsInjective(seq), NEW i \in Ids
    PROVE  /\ PushNew(seq, i) \in Seq(Ids)
           /\ IsInjective(PushNew(seq, i))
           /\ Len(PushNew(seq, i)) <= Len(seq) + 1
           /\ Range(PushNew(seq, i)) = Range(seq) \cup {i}
<1>1. CASE i \in Range(seq)
  BY <1>1, LenProperties DEF PushNew
<1>2. CASE i \notin Range(seq)
  <2>1. /\ PushNew(seq, i) = Append(seq, i)
        /\ Len(seq) \in Nat /\ DOMAIN seq = 1..Len(seq)
        /\ \A j \in 1..Len(seq) : seq[j] # i
    BY <1>2, LenProperties DEF PushNew, Range
  <2>2. /\ Append(seq, i) \in Seq(Ids) /\ DOMAIN Append(seq, i) = 1..(Len(seq) + 1)
        /\ Len(Append(seq, i)) = Len(seq) + 1
        /\ \A j \in 1..Len(seq) : Append(seq, i)[j] = seq[j]
        /\ Append(seq, i)[Len(seq) + 1] = i
    BY AppendProperties, LenProperties
  <2>3. IsInjective(Append(seq, i))
    BY <2>1, <2>2 DEF IsInjective
  <2>4. Range(Append(seq, i)) = Range(seq) \cup {i}
    BY <2>1, <2>2 DEF Range
  <2> QED BY <2>1, <2>2, <2>3, <2>4
<1> QED BY <1>1, <1>2

LEMMA TailTyped ==
    ASSUME NEW seq \in Seq(Ids), IsInjective(seq), seq # <<>>
    PROVE  /\ Head(seq) \in Ids
           /\ Tail(seq) \in Seq(Ids)
           /\ IsInjective(Tail(seq))
           /\ Len(Tail(seq)) = Len(seq) - 1
           /\ Range(seq) = Range(Tail(seq)) \cup {Head(seq)}
<1>1. /\ Head(seq) \in Ids /\ Tail(seq) \in Seq(Ids)
      /\ Len(Tail(seq)) = Len(seq) - 1 /\ Len(seq) \in Nat \ {0}
      /\ \A j \in 1..Len(Tail(seq)) : Tail(seq)[j] = seq[j + 1]
      /\ Head(seq) = seq[1]
      /\ DOMAIN seq = 1..Len(seq) /\ DOMAIN Tail(seq) = 1..Len(Tail(seq))
  BY HeadTailProperties, LenProperties, EmptySeq
<1>2. \A j \in DOMAIN Tail(seq) : j + 1 \in DOMAIN seq
  BY <1>1
<1>3. \A j \in DOMAIN seq : j = 1 \/ (j - 1 \in DOMAIN Tail(seq) /\ seq[j] = Tail(seq)[j - 1])
  BY <1>1
<1>4. IsInjective(Tail(seq))
  BY <1>1, <1>2 DEF IsInjective
<1>5. \A x : x \in Range(seq) <=> \E j \in 1..Len(seq) : x = seq[j]
  BY <1>1 DEF Range
<1>6. \A x : x \in Range(Tail(seq)) <=> \E j \in 1..Len(Tail(seq)) : x = Tail(seq)[j]
  BY <1>1 DEF Range
<1>7. Range(seq) = Range(Tail(seq)) \cup {Head(seq)}
  <2>1. ASSUME NEW x \in Range(seq) PROVE x \in Range(Tail(seq)) \cup {Head(seq)}
    <3>1. PICK j \in 1..Len(seq) : x = seq[j]
      BY <1>5
    <3>2. CASE j = 1
      BY <1>1, <3>1, <3>2
    <3>3. CASE j # 1
      BY <1>1, <1>3, <1>6, <3>1, <3>3
    <3> QED BY <3>2, <3>3
  <2>2. ASSUME NEW x \in Range(Tail(seq)) PROVE x \in Range(seq)
    BY <1>1, <1>2, <1>5, <1>6
  <2>3. Head(seq) \in Range(seq)
    BY <1>1, <1>5
  <2> QED BY <2>1, <2>2, <2>3
<1> QED BY <1>1, <1>4, <1>7

LEMMA OneId ==
    ASSUME NEW i \in Ids
    PROVE  /\ <<i>> \in Seq(Ids) /\ Len(<<i>>) = 1
           /\ IsInjective(<<i>>) /\ Range(<<i>>) = {i}
BY DEF IsInjective, Range

\* Who hears of a lost session.
LEMMA DisconnectedHandles ==
    ASSUME Disconnected, NEW s \in Streams
    PROVE  handle'[s] = IF handle[s] = "requesting" THEN "failed"
                        ELSE IF handle[s] = "awaiting" THEN "unregistering"
                        ELSE handle[s]
BY DEF Disconnected

LEMMA IdNotZero ==
    ASSUME NEW m \in Messages, MessageFields(m), m.kind # "refused"
    PROVE  m.id \in Ids /\ m.id # 0
BY StreamResumptionAssumption
   DEF Messages, MessageFields, Ids, StreamResumptionAssumption

\* Steps that read a message.
LEMMA ReadTyped ==
    ASSUME TypeInv, down # <<>>, down' = Tail(down),
           NEW m, m = Head(down), HandleServerMessage(m),
           UNCHANGED <<loop, reconnects, session, server, next_id, resumeVars, stopVars, late>>
    PROVE  TypeInv'
<1>1. DownTyped /\ DownTyped'
  BY DownStaysTyped DEF DownTyped, TypeInv, ResumptionTypeOK
<1>2. m \in Messages /\ MessageFields(m)
  BY <1>1, DownTail DEF DownTyped
<1> USE StreamResumptionAssumption
    DEF StreamResumptionAssumption, TypeInv, ResumptionTypeOK, DownTyped, Ids,
        resumeVars, stopVars
<1>3. CASE m.kind = "end" /\ EndEntry(m.id) /\ UNCHANGED <<handle, stream_id>>
  <2>1. m.id \in Ids
    BY <1>2, <1>3, IdNotZero
  <2>2. \A s \in Streams : HandleFields(s)'
    BY <1>3 DEF EndEntry, HandleFields
  <2>4. TableFields'
    BY <1>3 DEF TableFields, InUse, NotYetOpen, EndEntry, StartAnswered, StartRefused,
       sharedVars, Expects
  <2> QED BY <1>1, <2>4, <1>3, <2>1, <2>2 DEF EndEntry, OnEnd
<1>4. ASSUME NEW s \in Streams, Expects(s, m), m.kind = "started", StartAnswered(s, m.id)
      PROVE  TypeInv'
  <2>2. handle[s] = "requesting" /\ m.id # 0 /\ m.id \in 0..MaxId
    BY <1>2, <1>4, IdNotZero DEF Expects
  <2>3. \A t \in Streams : HandleFields(t)'
    BY <1>4, <2>2 DEF StartAnswered, HandleFields, NotYetOpen
  <2>4. TableFields'
    BY <1>4 DEF TableFields, InUse, NotYetOpen, EndEntry, StartAnswered, StartRefused,
       sharedVars, Expects
  <2> QED BY <1>1, <2>4, <1>4, <2>2, <2>3 DEF StartAnswered
<1>5. ASSUME NEW s \in Streams, Expects(s, m), m.kind = "refused", StartRefused(s),
             UNCHANGED stream_id
      PROVE  TypeInv'
  <2>2. \A t \in Streams : HandleFields(t)'
    BY SMTT(30), <1>5 DEF StartRefused, HandleFields, Expects, NotYetOpen
  <2>4. TableFields'
    BY <1>5 DEF TableFields, InUse, NotYetOpen, EndEntry, StartAnswered, StartRefused,
       sharedVars, Expects
  <2> QED BY <1>1, <2>4, <1>5, <2>2 DEF StartRefused
<1>6. ASSUME NEW s \in Streams, Expects(s, m), m.kind = "stopped",
             handle' = [handle EXCEPT ![s] = "unregistering"],
             UNCHANGED <<stream_id, sharedVars>>
      PROVE  TypeInv'
  <2>2. \A t \in Streams : HandleFields(t)'
    BY <1>6 DEF sharedVars, HandleFields, Expects, NotYetOpen
  <2>4. TableFields'
    BY <1>6 DEF TableFields, InUse, NotYetOpen, EndEntry, StartAnswered, StartRefused,
       sharedVars, Expects
  <2> QED BY <1>1, <2>4, <1>6, <2>2 DEF sharedVars, Stopping
<1>7. CASE UNCHANGED <<handle, stream_id, sharedVars>>
  <2>2. \A t \in Streams : HandleFields(t)'
    BY <1>7 DEF sharedVars, HandleFields
  <2>4. TableFields'
    BY <1>7 DEF TableFields, InUse, NotYetOpen, EndEntry, StartAnswered, StartRefused,
       sharedVars, Expects
  <2> QED BY <1>1, <2>4, <1>7, <2>2 DEF sharedVars
<1> QED BY <1>3, <1>4, <1>5, <1>6, <1>7 DEF HandleServerMessage

LEMMA OpenIds ==
    ASSUME TypeInv, NEW s \in Streams, handle[s] \notin {"idle", "requesting", "failed"}
    PROVE  stream_id[s] \in Ids /\ effective_id[s] \in Ids
<1>1. \A x \in 0..MaxId : x # 0 => x \in Ids
  BY StreamResumptionAssumption DEF StreamResumptionAssumption, Ids
<1> QED BY <1>1 DEF TypeInv, ResumptionTypeOK, HandleFields

LEMMA InitTyped == Init => TypeInv
BY StreamResumptionAssumption, EmptySeq
   DEF StreamResumptionAssumption, Init, TypeInv, ResumptionTypeOK, HandleFields,
       TableFields, Nowhere, Ids, IsInjective, Stopping

LEMMA TypeStep == TypeInv /\ [Next]_vars => TypeInv'
<1> SUFFICES ASSUME TypeInv, [Next]_vars PROVE TypeInv'
  OBVIOUS
<1>0. DownTyped /\ (UNCHANGED down => DownTyped') /\ (down' = <<>> => DownTyped')
  BY DownStaysTyped DEF DownTyped, TypeInv, ResumptionTypeOK
<1> USE StreamResumptionAssumption
    DEF StreamResumptionAssumption, TypeInv, ResumptionTypeOK, DownTyped, Ids,
        serverVars, resumeVars, stopVars, sharedVars, handleVars
<1>1. CASE ReadArm \/ ResumeReadsOther
  BY <1>1, ReadTyped DEF ReadArm, ResumeReadsOther
<1>2. CASE Disconnected
  <2>1. \A t \in Streams :
           handle'[t] = IF handle[t] = "requesting" THEN "failed"
                        ELSE IF handle[t] = "awaiting" THEN "unregistering"
                        ELSE handle[t]
    BY <1>2, DisconnectedHandles
  <2>2. loop' = "reconnecting" /\ UNCHANGED <<ids, stream_id, effective_id>>
    BY <1>2 DEF Disconnected
  <2>8. \A t \in Streams : HandleFields(t)'
    BY <2>1, <2>2 DEF HandleFields, NotYetOpen
  <2>9. TableFields'
    BY <1>2, <2>1 DEF Disconnected, TableFields, InUse, NotYetOpen
  <2> QED BY <1>0, <1>2, <2>8, <2>9, <2>1 DEF Disconnected, Stopping
<1>3. CASE LoopEnds
  <2>8. \A t \in Streams : HandleFields(t)'
    BY <1>3 DEF LoopEnds, HandleFields
  <2>9. TableFields'
    BY <1>3 DEF LoopEnds, TableFields, InUse, NotYetOpen, Nowhere
  <2> QED BY <1>0, <1>3, <2>8, <2>9 DEF LoopEnds, Nowhere, OnEnd
<1>4. CASE EstablishOk
  <2>1. to_resume' \subseteq Ids \X Streams
    <3>1. \A i \in Ids : resumable_streams[i] # NoStream => resumable_streams[i] \in Streams
      OBVIOUS
    <3>2. Snapshot \subseteq Ids \X Streams
      BY <3>1 DEF Snapshot
    <3> QED BY <1>4, <3>2 DEF EstablishOk
  <2>2. server' \in [Ids -> Streams \cup {NoStream}]
    BY <1>4 DEF EstablishOk, Nowhere
  <2>3. next_id' \in 1..(MaxId + 1) /\ reconnects' \in 0..MaxReconnects
    BY <1>4 DEF EstablishOk
  <2>8. \A t \in Streams : HandleFields(t)'
    BY <1>4 DEF EstablishOk, HandleFields
  <2>9. TableFields'
    BY <1>4 DEF EstablishOk, TableFields, InUse, NotYetOpen, Snapshot
  <2> QED BY <1>0, <1>4, <2>8, <2>9, <2>1, <2>2, <2>3 DEF EstablishOk
<1>5. CASE EstablishFails
  <2>8. \A t \in Streams : HandleFields(t)'
    BY <1>5 DEF EstablishFails, HandleFields
  <2>9. TableFields'
    BY <1>5 DEF EstablishFails, TableFields, InUse, NotYetOpen
  <2> QED BY <1>0, <1>5, <2>8, <2>9 DEF EstablishFails
<1>6. CASE ResumeRefused
  <2>1. DownTyped'
    BY <1>0, <1>6, DownStaysTyped DEF ResumeRefused
  <2>8. \A t \in Streams : HandleFields(t)'
    BY <1>6 DEF ResumeRefused, HandleFields, NextStream, EndEntry
  <2>9. TableFields'
    BY <1>6 DEF ResumeRefused, TableFields, InUse, NotYetOpen, NextStream, EndEntry
  <2> QED BY <1>0, <1>6, <2>8, <2>9, <2>1 DEF ResumeRefused, NextStream, EndEntry, OnEnd
<1>7. CASE ResumeUnwanted
  <2>1. DownTyped'
    BY <1>0, <1>7, DownStaysTyped DEF ResumeUnwanted
  <2>8. \A t \in Streams : HandleFields(t)'
    BY <1>7 DEF ResumeUnwanted, HandleFields, NextStream, EndEntry
  <2>9. TableFields'
    BY <1>7 DEF ResumeUnwanted, TableFields, InUse, NotYetOpen, NextStream, EndEntry
  <2> QED BY <1>0, <1>7, <2>8, <2>9, <2>1 DEF ResumeUnwanted, NextStream, EndEntry, OnEnd
<1>8. CASE ResumeAccepted
  <2>0. DownTyped'
    BY <1>0, <1>8, DownStaysTyped DEF ResumeAccepted
  <2>1. Head(down) \in Messages /\ MessageFields(Head(down))
    BY <1>0, <1>8, HeadTyped DEF ResumeAccepted
  <2>2. new_id' \in Ids /\ new_id' # 0
    BY <1>8, <2>1, IdNotZero DEF ResumeAccepted
  <2>3. current' \in Ids \X Streams
    BY <1>8 DEF ResumeAccepted
  <2>4. resumable_streams' \in [Ids -> Streams \cup {NoStream}]
    BY <1>8 DEF ResumeAccepted
  <2>5. /\ loop' = "remapping"
        /\ UNCHANGED <<reconnects, session, server, next_id, to_resume, stopVars,
                        effective_id, stopped_flag, slot_released, handleVars>>
    BY <1>8 DEF ResumeAccepted
  <2>6. current' \in (Ids \X Streams) \cup {<<0, NoStream>>}
    BY <2>3
  <2>7. new_id' \in 0..MaxId /\ new_id' # 0
    BY <2>2
  <2>8. \A t \in Streams : HandleFields(t)'
    BY <1>8 DEF ResumeAccepted, HandleFields
  <2>9. TableFields'
    BY <1>8 DEF ResumeAccepted, TableFields, InUse, NotYetOpen
  <2> QED BY <2>0, <2>3, <2>4, <2>5, <2>6, <2>7, <2>8, <2>9
<1>9. CASE Remap
  <2>1. InUse(current[2]) /\ current[2] \in Streams /\ new_id \in Ids /\ new_id # 0
    BY <1>9 DEF Remap, TableFields
  <2>8. \A t \in Streams : HandleFields(t)'
    BY <1>9, <2>1 DEF Remap, HandleFields, NextStream, InUse, NotYetOpen
  <2>9. TableFields'
    BY <1>9, <2>1 DEF Remap, TableFields, InUse, NotYetOpen, NextStream
  <2> QED BY <1>0, <1>9, <2>8, <2>9, <2>1 DEF Remap, NextStream
<1>10. CASE ResumeAborted
  <2>8. \A t \in Streams : HandleFields(t)'
    BY <1>10 DEF ResumeAborted, HandleFields, NextStream
  <2>9. TableFields'
    BY <1>10 DEF ResumeAborted, TableFields, InUse, NotYetOpen, NextStream
  <2> QED BY <1>0, <1>10, <2>8, <2>9 DEF ResumeAborted, NextStream
<1>11. CASE ResumeReturns
  <2>8. \A t \in Streams : HandleFields(t)'
    BY <1>11 DEF ResumeReturns, HandleFields
  <2>9. TableFields'
    BY <1>11 DEF ResumeReturns, TableFields, InUse, NotYetOpen
  <2> QED BY <1>0, <1>11, <2>8, <2>9 DEF ResumeReturns
<1>12. CASE SessionDies
  <2>1. DownTyped'
    BY <1>0, <1>12, DownStaysTyped DEF SessionDies
  <2>8. \A t \in Streams : HandleFields(t)'
    BY <1>12 DEF SessionDies, HandleFields
  <2>9. TableFields'
    BY <1>12 DEF SessionDies, TableFields, InUse, NotYetOpen
  <2> QED BY <1>0, <1>12, <2>8, <2>9, <2>1 DEF SessionDies
<1>13. ASSUME NEW s \in Streams, RequestStart(s) PROVE TypeInv'
  <2>1. Served
    BY <1>13, ServeStartTyped DEF RequestStart
  <2>8. \A t \in Streams : HandleFields(t)'
    BY <1>13 DEF RequestStart, HandleFields, NotYetOpen
  <2>9. TableFields'
    BY <1>13 DEF RequestStart, TableFields, InUse, NotYetOpen
  <2> QED BY <1>0, <1>13, <2>8, <2>9, <2>1 DEF RequestStart, Served
<1>14. ASSUME NEW s \in Streams, Register(s) PROVE TypeInv'
  <2>8. \A t \in Streams : HandleFields(t)'
    BY <1>14 DEF Register, HandleFields, NotYetOpen
  <2>9. TableFields'
    BY <1>14 DEF Register, TableFields, InUse, NotYetOpen
  <2> QED BY <1>0, <1>14, <2>8, <2>9 DEF Register
<1>15. ASSUME NEW s \in Streams, StopFlag(s) PROVE TypeInv'
  <2>8. \A t \in Streams : HandleFields(t)'
    BY <1>15 DEF StopFlag, HandleFields, NotYetOpen
  <2>9. TableFields'
    BY <1>15 DEF StopFlag, TableFields, InUse, NotYetOpen
  <2> QED BY <1>0, <1>15, <2>8, <2>9 DEF StopFlag, Stopping
<1>16. ASSUME NEW s \in Streams, LoadFirst(s) PROVE TypeInv'
  <2>1. effective_id[s] \in Ids
    BY <1>16, OpenIds DEF LoadFirst
  <2>2. <<effective_id[s]>> \in Seq(Ids) /\ Len(<<effective_id[s]>>) = 1
        /\ IsInjective(<<effective_id[s]>>)
    BY <2>1, OneId
  <2>3. /\ ids' \in [Streams -> Seq(Ids)]
        /\ \A t \in Streams : Len(ids'[t]) <= 3 /\ IsInjective(ids'[t])
    BY SMTT(30), <1>16, <2>2 DEF LoadFirst
  <2>8. \A t \in Streams : HandleFields(t)'
    BY <1>16, <2>2 DEF LoadFirst, HandleFields, NotYetOpen
  <2>9. TableFields'
    BY <1>16, <2>2 DEF LoadFirst, TableFields, InUse, NotYetOpen
  <2> QED BY <1>0, <1>16, <2>8, <2>9, <2>3 DEF LoadFirst, Stopping
<1>17. ASSUME NEW s \in Streams, LoadSecond(s) PROVE TypeInv'
  <2>1. effective_id[s] \in Ids /\ stream_id[s] \in Ids /\ Len(ids[s]) = 1
    BY <1>17, OpenIds DEF LoadSecond, HandleFields
  <2> DEFINE one == PushNew(ids[s], effective_id[s])
             two == PushNew(one, stream_id[s])
  <2>2. one \in Seq(Ids) /\ IsInjective(one) /\ Len(one) <= Len(ids[s]) + 1
    BY <2>1, PushNewTyped
  <2>3. two \in Seq(Ids) /\ IsInjective(two) /\ Len(two) <= Len(one) + 1
    BY <2>1, <2>2, PushNewTyped
  <2>4. Len(one) \in Nat /\ Len(two) \in Nat
    BY <2>2, <2>3, LenProperties
  <2>5. Len(two) <= 3
    BY <2>1, <2>2, <2>3, <2>4
  <2>6. ids' = [ids EXCEPT ![s] = two]
    BY <1>17 DEF LoadSecond
  <2> HIDE DEF one, two
  <2>7. /\ ids' \in [Streams -> Seq(Ids)]
        /\ \A t \in Streams : Len(ids'[t]) <= 3 /\ IsInjective(ids'[t])
    BY <2>3, <2>5, <2>6
  <2>8. \A t \in Streams : HandleFields(t)'
    BY <1>17 DEF LoadSecond, HandleFields, NotYetOpen
  <2>9. TableFields'
    BY <1>17 DEF LoadSecond, TableFields, InUse, NotYetOpen
  <2> QED BY <1>0, <1>17, <2>8, <2>9, <2>7 DEF LoadSecond, Stopping
<1>18. ASSUME NEW s \in Streams, StopSend(s) PROVE TypeInv'
  <2>1. Served
    BY <1>18, TailTyped, ServeStopTyped DEF StopSend
  <2>8. \A t \in Streams : HandleFields(t)'
    BY <1>18 DEF StopSend, HandleFields, NotYetOpen
  <2>9. TableFields'
    BY <1>18 DEF StopSend, TableFields, InUse, NotYetOpen
  <2> QED BY <1>0, <1>18, <2>8, <2>9, <2>1 DEF StopSend, Served, Stopping
<1>19. ASSUME NEW s \in Streams, StopSendFails(s) PROVE TypeInv'
  <2>8. \A t \in Streams : HandleFields(t)'
    BY <1>19 DEF StopSendFails, HandleFields, NotYetOpen
  <2>9. TableFields'
    BY <1>19 DEF StopSendFails, TableFields, InUse, NotYetOpen
  <2> QED BY <1>0, <1>19, <2>8, <2>9 DEF StopSendFails, Stopping
<1>20. ASSUME NEW s \in Streams, Unregister(s) PROVE TypeInv'
  <2>1. ids[s] # <<>>
    BY <1>20 DEF Unregister, HandleFields
  <2>2. /\ Head(ids[s]) \in Ids /\ Tail(ids[s]) \in Seq(Ids)
        /\ IsInjective(Tail(ids[s])) /\ Len(Tail(ids[s])) = Len(ids[s]) - 1
    BY <2>1, TailTyped
  <2>3. Len(ids[s]) \in Nat /\ Len(Tail(ids[s])) <= 3
    BY <2>2, LenProperties
  <2>8. \A t \in Streams : HandleFields(t)'
    BY <1>20, <2>1 DEF Unregister, HandleFields, NotYetOpen
  <2>9. TableFields'
    BY <1>20, <2>1 DEF Unregister, TableFields, InUse, NotYetOpen
  <2> QED BY <1>0, <1>20, <2>8, <2>9, <2>2, <2>3 DEF Unregister, Stopping
<1>21. ASSUME NEW s \in Streams, StopReleases(s) PROVE TypeInv'
  <2>8. \A t \in Streams : HandleFields(t)'
    BY <1>21 DEF StopReleases, HandleFields, NotYetOpen
  <2>9. TableFields'
    BY <1>21 DEF StopReleases, TableFields, InUse, NotYetOpen
  <2> QED BY <1>0, <1>21, <2>8, <2>9 DEF StopReleases
<1>22. ASSUME NEW i \in Ids, NEW s \in Streams, ResumeSkip(i, s) PROVE TypeInv'
  <2>8. \A t \in Streams : HandleFields(t)'
    BY <1>22 DEF ResumeSkip, HandleFields, EndEntry
  <2>9. TableFields'
    BY <1>22 DEF ResumeSkip, TableFields, InUse, NotYetOpen, EndEntry
  <2> QED BY <1>0, <1>22, <2>8, <2>9 DEF ResumeSkip, EndEntry, OnEnd
<1>23. ASSUME NEW i \in Ids, NEW s \in Streams, ResumeSend(i, s) PROVE TypeInv'
  <2>1. Served
    BY <1>23, ServeStartTyped DEF ResumeSend
  <2>8. \A t \in Streams : HandleFields(t)'
    BY <1>23 DEF ResumeSend, HandleFields
  <2>9. TableFields'
    BY <1>23 DEF ResumeSend, TableFields, InUse, NotYetOpen
  <2> QED BY <1>0, <1>23, <2>8, <2>9, <2>1 DEF ResumeSend, Served
<1>24. ASSUME NEW i \in Ids, NEW s \in Streams, ResumeSendFails(i, s) PROVE TypeInv'
  <2>8. \A t \in Streams : HandleFields(t)'
    BY <1>24 DEF ResumeSendFails, HandleFields, EndEntry
  <2>9. TableFields'
    BY <1>24 DEF ResumeSendFails, TableFields, InUse, NotYetOpen, EndEntry
  <2> QED BY <1>0, <1>24, <2>8, <2>9 DEF ResumeSendFails, EndEntry, OnEnd
<1>25. ASSUME NEW i \in Ids, ServerEnds(i) PROVE TypeInv'
  <2>0. server[i] \in Streams
    BY <1>25 DEF ServerEnds
  <2>1. DownTyped'
    BY <1>0, <1>25, <2>0, MessageTypes, DownStaysTyped DEF ServerEnds
  <2>8. \A t \in Streams : HandleFields(t)'
    BY <1>25 DEF ServerEnds, HandleFields
  <2>9. TableFields'
    BY <1>25 DEF ServerEnds, TableFields, InUse, NotYetOpen
  <2> QED BY <1>0, <1>25, <2>8, <2>9, <2>1 DEF ServerEnds
<1>26. CASE UNCHANGED vars
  <2>8. \A t \in Streams : HandleFields(t)'
    BY <1>26 DEF vars, HandleFields
  <2>9. TableFields'
    BY <1>26 DEF vars, TableFields, InUse, NotYetOpen
  <2> QED BY <1>0, <1>26, <2>8, <2>9 DEF vars
<1> QED BY <1>1, <1>2, <1>3, <1>4, <1>5, <1>6, <1>7, <1>8, <1>9, <1>10, <1>11, <1>12,
           <1>13, <1>14, <1>15, <1>16, <1>17, <1>18, <1>19, <1>20, <1>21, <1>22, <1>23, <1>24,
           <1>25, <1>26
        DEF Next, StartStep, TaskStep, ResumeStep, StopStep, ServerStep

\* Types, and what the progress of a handle and of a resumption says about
\* the fields that belong to it: every id that is sent, mapped or stopped is
\* one the server has handed out.
THEOREM TypesHold == Spec => []TypeInv
BY InitTyped, TypeStep, PTL DEF Spec

\* ResumptionTypeOK holds for every set of streams: in particular a stop loads
\* at most three ids, all different, whenever it is overtaken by a resumption.
THEOREM ResumptionTypeCorrect == Spec => []ResumptionTypeOK
<1>1. TypeInv => ResumptionTypeOK
  BY DEF TypeInv
<1> QED BY <1>1, TypesHold, PTL

-----------------------------------------------------------------------------
(* Ids. *)

\* What is under way was so before, k places further back, or is news that
\* hands out no id.
DownOld(k) ==
    \A p \in 1..Len(down') :
        \/ p + k \in 1..Len(down) /\ down'[p] = down[p + k]
        \/ /\ p > Len(down) /\ k = 0 /\ p = Len(down')
           /\ down'[p].kind # "started" /\ down'[p].id < next_id

LEMMA TailIsOld ==
    ASSUME TypeInv, down # <<>>, down' = Tail(down)
    PROVE  /\ DownOld(1)
           /\ Len(down) \in Nat \ {0} /\ Len(down') = Len(down) - 1
           /\ \A p \in 1..Len(down') : p + 1 \in 1..Len(down) /\ down'[p] = down[p + 1]
           /\ 1 \in 1..Len(down) /\ Head(down) = down[1]
<1>1. down \in Seq(Messages)
  BY DEF TypeInv, ResumptionTypeOK
<1>2. /\ Len(down') = Len(down) - 1 /\ Len(down) \in Nat \ {0}
      /\ \A p \in 1..Len(down') : down'[p] = down[p + 1]
      /\ Head(down) = down[1]
  BY <1>1, DownTail
<1> QED BY <1>2 DEF DownOld

LEMMA PrefixIsOld ==
    ASSUME TypeInv,
           \/ UNCHANGED down
           \/ down' = <<>>
           \/ \E n \in 0..Len(down) : down' = SubSeq(down, 1, n)
    PROVE  /\ DownOld(0)
           /\ Len(down) \in Nat /\ Len(down') \in Nat /\ Len(down') <= Len(down)
<1>1. down \in Seq(Messages) /\ Len(down) \in Nat
  BY LenProperties DEF TypeInv, ResumptionTypeOK
<1>2. CASE UNCHANGED down
  BY <1>1, <1>2 DEF DownOld
<1>3. CASE down' = <<>>
  BY <1>1, <1>3, EmptySeq DEF DownOld
<1>4. CASE \E n \in 0..Len(down) : down' = SubSeq(down, 1, n)
  <2>1. PICK n \in 0..Len(down) : down' = SubSeq(down, 1, n)
    BY <1>4
  <2>2. Len(down') = n /\ \A p \in 1..n : down'[p] = down[p]
    BY <1>1, <2>1, DownPrefix
  <2> QED BY <1>1, <2>1, <2>2 DEF DownOld
<1> QED BY <1>2, <1>3, <1>4

LEMMA AppendedDown ==
    ASSUME TypeInv, NEW m \in Messages, down' = Append(down, m)
    PROVE  /\ Len(down) \in Nat /\ Len(down') = Len(down) + 1
           /\ \A p \in 1..Len(down) : p \in 1..Len(down') /\ down'[p] = down[p]
           /\ \A p \in 1..Len(down') : p \in 1..Len(down) \/ p = Len(down')
           /\ down'[Len(down')] = m
           /\ Len(down') \in 1..Len(down')
           /\ m.kind # "started" /\ m.id < next_id => DownOld(0)
<1>1. down \in Seq(Messages) /\ Len(down) \in Nat
  BY LenProperties DEF TypeInv, ResumptionTypeOK
<1>2. /\ Len(down') = Len(down) + 1
      /\ \A p \in 1..Len(down) : down'[p] = down[p]
      /\ down'[Len(down')] = m
  BY <1>1, DownAppend
<1>3. \A p \in 1..Len(down') : p \in 1..Len(down) \/ (p = Len(down') /\ p > Len(down))
  BY <1>1, <1>2
<1> QED BY <1>1, <1>2, <1>3 DEF DownOld

\* The steps, as far as ids go.  Most hand out nothing and teach nobody.
QuietIds ==
    /\ \A s \in Streams : Knows(s)' \subseteq Knows(s)
    /\ \A i \in Ids : server'[i] \in {server[i], NoStream}
    /\ next_id' = next_id
    /\ new_id' = new_id
    /\ \E k \in {0, 1} : DownOld(k)

HandsOut(s) ==
    /\ next_id \in Ids
    /\ server' = [server EXCEPT ![next_id] = s]
    /\ next_id' = next_id + 1
    /\ down' = Append(down, Message("started", s, next_id))
    /\ new_id' = new_id
    /\ \A t \in Streams : Knows(t)' = Knows(t)

\* A handle or the background task takes the id of an answer.
TakesAnswer(s) ==
    /\ down # <<>> /\ down' = Tail(down)
    /\ Head(down).kind = "started"
    /\ \A t \in Streams : Knows(t)' \subseteq
          Knows(t) \cup (IF t = s THEN {Head(down).id} ELSE {})
    /\ new_id' = new_id
    /\ UNCHANGED <<server, next_id>>

AcceptsAnswer ==
    /\ down # <<>> /\ down' = Tail(down)
    /\ Head(down).kind = "started"
    /\ new_id' = Head(down).id
    /\ \A t \in Streams : Knows(t)' = Knows(t)
    /\ UNCHANGED <<server, next_id>>

TellsHandle(s) ==
    /\ new_id # 0 /\ new_id' = 0
    /\ \A t \in Streams : Knows(t)' \subseteq
          Knows(t) \cup (IF t = s THEN {new_id} ELSE {})
    /\ UNCHANGED <<server, next_id, down>>

IdInv == IdsOwned /\ AnswersFresh

LEMMA Numbers ==
    ASSUME TypeInv
    PROVE  /\ next_id \in Nat \ {0} /\ new_id \in Nat /\ Len(down) \in Nat
           /\ \A p \in 1..Len(down) : down[p] \in Messages /\ down[p].id \in Nat
           /\ \A s \in Streams : Knows(s) \subseteq Ids
           /\ Ids \subseteq Nat
<1>1. MaxId \in Nat
  BY StreamResumptionAssumption DEF StreamResumptionAssumption
<1>2. next_id \in Nat \ {0} /\ new_id \in Nat /\ down \in Seq(Messages) /\ Ids \subseteq Nat
  BY <1>1 DEF TypeInv, ResumptionTypeOK, Ids
<1>3. \A p \in 1..Len(down) : down[p] \in Messages
  BY <1>2, ElementOfSeq
<1>4. \A p \in 1..Len(down) : down[p].id \in Nat
  BY <1>1, <1>3 DEF Messages
<1>5. ASSUME NEW s \in Streams PROVE Knows(s) \subseteq Ids
  <2>1. Range(ids[s]) \subseteq Ids
    BY LenProperties DEF TypeInv, ResumptionTypeOK, Range
  <2>2. \A x \in 0..MaxId : x # 0 => x \in Ids
    BY <1>1 DEF Ids
  <2>3. stream_id[s] \in 0..MaxId /\ effective_id[s] \in 0..MaxId
    BY DEF TypeInv, ResumptionTypeOK
  <2> QED BY <2>1, <2>2, <2>3 DEF Knows
<1> QED BY <1>2, <1>3, <1>4, <1>5, LenProperties

LEMMA IdsQuiet == ASSUME TypeInv, IdInv, QuietIds PROVE IdInv'
<1> USE DEF IdInv, IdsOwned, AnswersFresh, Known, Started
<1>1. PICK k \in {0, 1} : DownOld(k)
  BY DEF QuietIds
<1>2. Len(down) \in Nat /\ next_id \in Nat
  BY LenProperties DEF TypeInv, ResumptionTypeOK
<1>3. IdsOwned'
  BY <1>1, <1>2 DEF QuietIds, DownOld
<1>4. \A p \in 1..Len(down') : down'[p].kind = "started" =>
          p + k \in 1..Len(down) /\ down'[p] = down[p + k]
  BY <1>1 DEF DownOld
<1>5. \A p, q \in 1..Len(down') : p + k = q + k => p = q
  BY <1>1, <1>2
<1>6. AnswersFresh'
  <2>1. \A i : Known(i)' => Known(i)
    BY DEF QuietIds
  <2>2. \A p \in 1..Len(down') : down'[p].kind = "started" =>
            ~Known(down'[p].id) /\ down'[p].id # new_id
    BY <1>4
  <2>3. \A p, q \in 1..Len(down') :
          (down'[p].kind = "started" /\ down'[q].kind = "started"
             /\ down'[q].id = down'[p].id) => p = q
    BY <1>4, <1>5
  <2> HIDE DEF Known
  <2> QED BY <2>1, <2>2, <2>3 DEF QuietIds
<1> QED BY <1>3, <1>6

LEMMA IdsHandedOut == ASSUME TypeInv, IdInv, NEW s \in Streams, HandsOut(s) PROVE IdInv'
<1> USE DEF IdInv, IdsOwned, AnswersFresh, Known, Started
<1> DEFINE m == Message("started", s, next_id)
<1>1. m \in Messages /\ m.kind = "started" /\ m.id = next_id /\ next_id \in Nat
  <2>1. m \in Messages
    BY MessageTypes DEF HandsOut
  <2> QED BY <2>1, Numbers DEF Message
<1>2. /\ Len(down) \in Nat /\ Len(down') = Len(down) + 1
      /\ \A p \in 1..Len(down) : down'[p] = down[p]
      /\ \A p \in 1..Len(down') : p \in 1..Len(down) \/ p = Len(down')
      /\ down'[Len(down')] = m
  BY <1>1, AppendedDown DEF HandsOut
<1>3. IdsOwned'
  <2>1. \A i \in Ids : server'[i] # NoStream => i < next_id'
    BY <1>1 DEF HandsOut, TypeInv, ResumptionTypeOK, Ids
  <2>2. \A p \in 1..Len(down') : down'[p].id < next_id'
    BY <1>1, <1>2, Numbers DEF HandsOut
  <2>3. \A t \in Streams : \A i \in Knows(t)' : i < next_id'
    <3>1. \A t \in Streams : \A i \in Knows(t) : i \in Nat /\ i < next_id
      BY Numbers
    <3>2. \A i \in Nat : i < next_id => i < next_id + 1
      BY <1>1
    <3> QED BY <3>1, <3>2 DEF HandsOut
  <2>4. new_id' < next_id'
    BY <1>1, Numbers DEF HandsOut
  <2> QED BY <2>1, <2>2, <2>3, <2>4 DEF HandsOut
<1>4. /\ ~Known(next_id) /\ new_id # next_id
      /\ \A p \in 1..Len(down) : down[p].id # next_id
  BY <1>1
<1>5. AnswersFresh'
  <2>1. \A i : Known(i)' <=> Known(i)
    BY DEF HandsOut
  <2>2. \A p \in 1..Len(down') : down'[p].kind = "started" =>
          ~Known(down'[p].id) /\ down'[p].id # new_id
    BY <1>1, <1>2, <1>4
  <2>3. \A p, q \in 1..Len(down') :
          (down'[p].kind = "started" /\ down'[q].kind = "started"
             /\ down'[q].id = down'[p].id) => p = q
    BY <1>1, <1>2, <1>4
  <2> HIDE DEF Known
  <2> QED BY <2>1, <2>2, <2>3 DEF HandsOut
<1> QED BY <1>3, <1>5

LEMMA IdsTaken == ASSUME TypeInv, IdInv, NEW s \in Streams, TakesAnswer(s) PROVE IdInv'
<1> USE DEF IdInv, IdsOwned, AnswersFresh, Known, Started
<1>1. /\ Len(down) \in Nat \ {0} /\ Len(down') = Len(down) - 1
      /\ \A p \in 1..Len(down') : p + 1 \in 1..Len(down) /\ down'[p] = down[p + 1]
      /\ 1 \in 1..Len(down) /\ Head(down) = down[1]
  BY TailIsOld DEF TakesAnswer
<1>2. \A p \in 1..Len(down') :
        down'[p].kind = "started" => down'[p].id # down[1].id
  BY <1>1 DEF TakesAnswer
<1>3. ~Known(down[1].id) /\ down[1].id # new_id /\ down[1].id < next_id
  BY <1>1 DEF TakesAnswer
<1>4. IdsOwned'
  BY <1>1, <1>3 DEF TakesAnswer
<1>5. AnswersFresh'
  BY <1>1, <1>2, <1>3 DEF TakesAnswer
<1> QED BY <1>4, <1>5

LEMMA IdsAccepted == ASSUME TypeInv, IdInv, AcceptsAnswer PROVE IdInv'
<1> USE DEF IdInv, IdsOwned, AnswersFresh, Known, Started
<1>1. /\ Len(down) \in Nat \ {0} /\ Len(down') = Len(down) - 1
      /\ \A p \in 1..Len(down') : p + 1 \in 1..Len(down) /\ down'[p] = down[p + 1]
      /\ 1 \in 1..Len(down) /\ Head(down) = down[1]
  BY TailIsOld DEF AcceptsAnswer
<1>2. \A p \in 1..Len(down') :
        down'[p].kind = "started" => down'[p].id # down[1].id
  BY <1>1 DEF AcceptsAnswer
<1>3. ~Known(down[1].id) /\ down[1].id < next_id
  BY <1>1 DEF AcceptsAnswer
<1>4. IdsOwned'
  BY <1>1, <1>3 DEF AcceptsAnswer
<1>5. AnswersFresh'
  BY <1>1, <1>2, <1>3 DEF AcceptsAnswer
<1> QED BY <1>4, <1>5

LEMMA IdsTold == ASSUME TypeInv, IdInv, NEW s \in Streams, TellsHandle(s) PROVE IdInv'
<1> USE DEF IdInv, IdsOwned, AnswersFresh, Known, Started
<1>1. 0 \notin Knows(s) /\ \A t \in Streams : 0 \notin Knows(t)
  BY DEF Knows
<1>2. IdsOwned'
  <2>1. \A t \in Streams : \A i \in Knows(t)' : i \in Knows(t) \/ (t = s /\ i = new_id)
    BY DEF TellsHandle
  <2>2. \A t, u \in Streams : \A i \in Knows(t)' : i \in Knows(u)' => t = u
    BY <2>1
  <2>3. \A t \in Streams : \A i \in Knows(t)' : i < next_id
    BY <2>1
  <2> QED BY <2>2, <2>3, Numbers DEF TellsHandle
<1>3. \A t \in Streams : 0 \notin Knows(t)'
  BY DEF Knows
<1>4. \A p \in 1..Len(down) : down[p].kind = "started" => down[p].id # 0
  BY DEF TypeInv, MessageFields
<1>5. AnswersFresh'
  BY <1>3, <1>4 DEF TellsHandle
<1> QED BY <1>2, <1>5

\* What a message read does, as the five alternatives it comes to.
Reads == ReadArm \/ ResumeReadsOther

ReadsEnd(m) ==
    m.kind = "end" /\ EndEntry(m.id) /\ UNCHANGED <<handle, stream_id>>

ReadsStarted(m, s) ==
    /\ m.kind = "started" /\ m.who = s /\ handle[s] = "requesting"
    /\ StartAnswered(s, m.id)

ReadsRefused(m, s) ==
    /\ m.kind = "refused" /\ m.who = s /\ handle[s] = "requesting"
    /\ StartRefused(s) /\ UNCHANGED stream_id

ReadsStopped(m, s) ==
    /\ m.kind = "stopped" /\ handle[s] = "awaiting"
    /\ handle' = [handle EXCEPT ![s] = "unregistering"]
    /\ UNCHANGED <<stream_id, sharedVars>>

ReadsForNobody(m) ==
    /\ m.kind # "end"
    /\ m.kind \in {"started", "refused"} => handle[m.who] # "requesting"
    /\ UNCHANGED <<handle, stream_id, sharedVars>>

LEMMA ReadCases ==
    ASSUME TypeInv, Reads
    PROVE  /\ down # <<>> /\ down' = Tail(down)
           /\ UNCHANGED <<loop, reconnects, session, server, next_id, resumeVars,
                          stopVars, late>>
           /\ \/ ReadsEnd(Head(down))
              \/ \E s \in Streams : \/ ReadsStarted(Head(down), s)
                                    \/ ReadsRefused(Head(down), s)
                                    \/ ReadsStopped(Head(down), s)
              \/ ReadsForNobody(Head(down))
<1>1. down # <<>> /\ HandleServerMessage(Head(down))
  BY DEF Reads, ReadArm, ResumeReadsOther
<1>2. Head(down) \in Messages /\ MessageFields(Head(down))
  BY <1>1, HeadTyped DEF DownTyped, TypeInv, ResumptionTypeOK
<1>3. Head(down).kind # "end" => Head(down).who \in Streams
  BY <1>2 DEF Messages, MessageFields
<1>4. CASE Head(down).kind # "end" /\ (\A s \in Streams : ~Expects(s, Head(down)))
           /\ UNCHANGED <<handle, stream_id, sharedVars>>
  BY <1>1, <1>3, <1>4 DEF ReadsForNobody, Expects, Reads, ReadArm, ResumeReadsOther
<1>5. CASE ReadsEnd(Head(down))
  BY <1>1, <1>5 DEF Reads, ReadArm, ResumeReadsOther
<1>6. ASSUME NEW s \in Streams, Expects(s, Head(down)),
             \/ Head(down).kind = "started" /\ StartAnswered(s, Head(down).id)
             \/ Head(down).kind = "refused" /\ StartRefused(s) /\ UNCHANGED stream_id
             \/ /\ Head(down).kind = "stopped"
                /\ handle' = [handle EXCEPT ![s] = "unregistering"]
                /\ UNCHANGED <<stream_id, sharedVars>>
      PROVE  \/ ReadsStarted(Head(down), s)
             \/ ReadsRefused(Head(down), s)
             \/ ReadsStopped(Head(down), s)
  BY <1>6 DEF Expects, ReadsStarted, ReadsRefused, ReadsStopped
<1> QED BY <1>1, <1>4, <1>5, <1>6
        DEF HandleServerMessage, ReadsEnd, Reads, ReadArm, ResumeReadsOther

LEMMA StartServed ==
    ASSUME TypeInv, NEW s \in Streams, ServeStart(s), new_id' = new_id,
           \A t \in Streams : Knows(t)' = Knows(t)
    PROVE  QuietIds \/ HandsOut(s)
<1>1. CASE next_id <= MaxId /\ server' = [server EXCEPT ![next_id] = s]
           /\ next_id' = next_id + 1
           /\ down' = Append(down, Message("started", s, next_id))
  <2>1. next_id \in Ids
    BY <1>1, StreamResumptionAssumption
       DEF StreamResumptionAssumption, TypeInv, ResumptionTypeOK, Ids
  <2> QED BY <1>1, <2>1 DEF HandsOut
<1>2. CASE down' = Append(down, Message("refused", s, 0))
           /\ UNCHANGED <<server, next_id>>
  <2>1. 1 \in Ids
    BY StreamResumptionAssumption DEF StreamResumptionAssumption, Ids
  <2>2. Message("refused", s, 0) \in Messages
    BY <2>1, MessageTypes
  <2>3. DownOld(0)
    BY <1>2, <2>2, AppendedDown, Numbers DEF Message
  <2> QED BY <1>2, <2>3 DEF QuietIds
<1>3. CASE UNCHANGED <<server, next_id, down>>
  BY <1>3, PrefixIsOld DEF QuietIds
<1> QED BY <1>1, <1>2, <1>3 DEF ServeStart

LEMMA StopServed ==
    ASSUME TypeInv, NEW s \in Streams, NEW i \in Ids, i < next_id,
           ServeStop(s, i), new_id' = new_id,
           \A t \in Streams : Knows(t)' = Knows(t)
    PROVE  QuietIds
<1>1. CASE down' = Append(down, Message("stopped", s, i))
           /\ server' = [server EXCEPT ![i] = NoStream]
  <2>1. Message("stopped", s, i) \in Messages
    BY MessageTypes
  <2>2. DownOld(0)
    BY <1>1, <2>1, AppendedDown DEF Message
  <2>3. \A j \in Ids : server'[j] \in {server[j], NoStream}
    BY <1>1 DEF TypeInv, ResumptionTypeOK
  <2> QED BY <2>2, <2>3 DEF QuietIds, ServeStop
<1>2. CASE UNCHANGED <<server, down>>
  BY <1>2, PrefixIsOld DEF QuietIds, ServeStop
<1> QED BY <1>1, <1>2 DEF ServeStop

IdCase ==
    \/ QuietIds \/ AcceptsAnswer
    \/ \E s \in Streams : HandsOut(s) \/ TakesAnswer(s) \/ TellsHandle(s)

\* Every step is one of them.
LEMMA IdSteps ==
    ASSUME FreshIds, TypeInv, IdsOwned, [Next]_vars
    PROVE  IdCase
<1> USE DEF serverVars, resumeVars, stopVars, sharedVars, handleVars
<1>1. ASSUME UNCHANGED <<ids, stream_id, effective_id>>
      PROVE  \A t \in Streams : Knows(t)' = Knows(t)
  BY <1>1 DEF Knows
<1>2. ASSUME UNCHANGED <<ids, stream_id, effective_id, next_id, new_id>>,
             server' = Nowhere \/ UNCHANGED server,
             \/ UNCHANGED down
             \/ down' = <<>>
             \/ \E n \in 0..Len(down) : down' = SubSeq(down, 1, n)
             \/ down # <<>> /\ down' = Tail(down)
      PROVE  IdCase
  <2>1. \E k \in {0, 1} : DownOld(k)
    BY <1>2, PrefixIsOld, TailIsOld
  <2>2. \A i \in Ids : server'[i] \in {server[i], NoStream}
    BY <1>2 DEF Nowhere
  <2> QED BY <1>1, <1>2, <2>1, <2>2 DEF QuietIds, IdCase
<1>3. CASE Reads
  <2>1. /\ down # <<>> /\ down' = Tail(down)
        /\ UNCHANGED <<server, next_id, new_id, ids>>
    BY <1>3, ReadCases
  <2>2. CASE UNCHANGED <<stream_id, effective_id>>
    BY <1>2, <2>1, <2>2
  <2>3. ASSUME NEW s \in Streams, ReadsStarted(Head(down), s) PROVE IdCase
    <3>1. \A t \in Streams : Knows(t)' \subseteq
             Knows(t) \cup (IF t = s THEN {Head(down).id} ELSE {})
      BY <2>1, <2>3 DEF ReadsStarted, StartAnswered, Knows, TypeInv, ResumptionTypeOK
    <3> QED BY <2>1, <2>3, <3>1 DEF TakesAnswer, ReadsStarted, IdCase
  <2> QED BY <1>3, ReadCases, <2>2, <2>3
          DEF ReadsEnd, EndEntry, ReadsRefused, StartRefused, ReadsStopped,
              ReadsForNobody
<1>4. CASE Disconnected \/ LoopEnds \/ EstablishFails \/ ResumeReturns
           \/ SessionDies \/ UNCHANGED vars
  BY <1>2, <1>4 DEF Disconnected, LoopEnds, EstablishFails, ResumeReturns,
                    SessionDies, vars
<1>5. CASE EstablishOk
  BY <1>2, <1>5 DEF EstablishOk
<1>6. CASE ResumeRefused \/ ResumeUnwanted \/ ResumeAborted
  BY <1>2, <1>6 DEF ResumeRefused, ResumeUnwanted, ResumeAborted, NextStream, EndEntry
<1>7. CASE ResumeAccepted
  BY <1>1, <1>7 DEF ResumeAccepted, AcceptsAnswer, IdCase
<1>8. CASE Remap
  <2>1. current[2] \in Streams /\ new_id # 0
    BY <1>8 DEF Remap, TypeInv
  <2>2. \A t \in Streams : Knows(t)' \subseteq
           Knows(t) \cup (IF t = current[2] THEN {new_id} ELSE {})
    BY <1>8 DEF Remap, Knows, TypeInv, ResumptionTypeOK
  <2>3. TellsHandle(current[2])
    BY <1>8, <2>1, <2>2 DEF Remap, TellsHandle
  <2> QED BY <2>1, <2>3 DEF IdCase
<1>9. ASSUME NEW s \in Streams,
             Register(s) \/ StopFlag(s) \/ StopSendFails(s) \/ StopReleases(s)
      PROVE  IdCase
  BY <1>2, <1>9 DEF Register, StopFlag, StopSendFails, StopReleases
<1>10. ASSUME NEW s \in Streams, NEW i \in Ids,
              ResumeSkip(i, s) \/ ResumeSendFails(i, s)
       PROVE  IdCase
  BY <1>2, <1>10 DEF ResumeSkip, ResumeSendFails, EndEntry
<1>11. ASSUME NEW s \in Streams, RequestStart(s) \/ \E i \in Ids : ResumeSend(i, s)
       PROVE  IdCase
  BY <1>1, <1>11, StartServed DEF RequestStart, ResumeSend, IdCase
<1>12. ASSUME NEW s \in Streams, LoadFirst(s) \/ LoadSecond(s) \/ Unregister(s)
       PROVE  IdCase
  <2>1. UNCHANGED <<stream_id, effective_id, server, next_id, down, new_id>>
        /\ \A t \in Streams : t # s => ids'[t] = ids[t]
    BY <1>12 DEF LoadFirst, LoadSecond, Unregister, TypeInv
  <2>2. Range(ids'[s]) \subseteq Range(ids[s]) \cup {stream_id[s], effective_id[s]}
    <3>1. CASE LoadFirst(s)
      BY <3>1, OpenIds, OneId DEF LoadFirst, TypeInv
    <3>2. CASE LoadSecond(s)
      <4>1. effective_id[s] \in Ids /\ stream_id[s] \in Ids
            /\ ids[s] \in Seq(Ids) /\ IsInjective(ids[s])
        BY <3>2, OpenIds DEF LoadSecond, TypeInv, ResumptionTypeOK
      <4> DEFINE one == PushNew(ids[s], effective_id[s])
      <4>2. one \in Seq(Ids) /\ IsInjective(one)
            /\ Range(one) = Range(ids[s]) \cup {effective_id[s]}
        BY <4>1, PushNewTyped
      <4>3. Range(PushNew(one, stream_id[s])) = Range(one) \cup {stream_id[s]}
        BY <4>1, <4>2, PushNewTyped
      <4>4. ids'[s] = PushNew(one, stream_id[s])
        BY <3>2 DEF LoadSecond, TypeInv
      <4> QED BY <4>2, <4>3, <4>4
    <3>3. CASE Unregister(s)
      <4>1. ids[s] # <<>> /\ ids[s] \in Seq(Ids) /\ IsInjective(ids[s])
        BY <3>3 DEF Unregister, TypeInv, ResumptionTypeOK, HandleFields
      <4>2. ids'[s] = Tail(ids[s])
        BY <3>3 DEF Unregister, TypeInv
      <4> QED BY <4>1, <4>2, TailTyped
    <3> QED BY <1>12, <3>1, <3>2, <3>3
  <2>3. \A t \in Streams : Knows(t)' \subseteq Knows(t)
    BY <2>1, <2>2 DEF Knows
  <2> QED BY <2>1, <2>3, PrefixIsOld DEF QuietIds, IdCase
<1>13. ASSUME NEW s \in Streams, StopSend(s) PROVE IdCase
  <2>1. Head(ids[s]) \in Ids /\ Head(ids[s]) \in Range(ids[s])
    BY <1>13, TailTyped DEF StopSend, TypeInv, ResumptionTypeOK
  <2>2. Head(ids[s]) < next_id
    <3>1. 0 \notin Ids
      BY StreamResumptionAssumption DEF StreamResumptionAssumption, Ids
    <3> QED BY <2>1, <3>1 DEF IdsOwned, Knows
  <2> QED BY <1>1, <1>13, <2>1, <2>2, StopServed DEF StopSend, IdCase
<1>14. ASSUME NEW i \in Ids, ServerEnds(i) PROVE IdCase
  <2>1. server[i] \in Streams /\ i < next_id
    BY <1>14 DEF ServerEnds, IdsOwned, TypeInv, ResumptionTypeOK
  <2>2. Message("end", NoStream, i) \in Messages
    BY <2>1, MessageTypes
  <2>3. DownOld(0)
    BY <1>14, <2>1, <2>2, AppendedDown DEF ServerEnds, Message
  <2>4. \A j \in Ids : server'[j] \in {server[j], NoStream}
    BY <1>14 DEF ServerEnds, TypeInv, ResumptionTypeOK
  <2> QED BY <1>1, <1>14, <2>3, <2>4 DEF ServerEnds, QuietIds, IdCase
<1>15. CASE StartStep
  BY <1>9, <1>11, <1>15 DEF StartStep
<1>16. CASE TaskStep
  BY <1>3, <1>4, <1>5, <1>6, <1>7, <1>8, <1>10, <1>11, <1>16
     DEF TaskStep, ResumeStep, Reads
<1>17. CASE StopStep
  BY <1>9, <1>12, <1>13, <1>17 DEF StopStep
<1>18. CASE ServerStep
  BY <1>4, <1>14, <1>18 DEF ServerStep
<1> QED BY <1>4, <1>15, <1>16, <1>17, <1>18 DEF Next

LEMMA IdStep == ASSUME FreshIds, TypeInv, IdInv, [Next]_vars PROVE IdInv'
BY IdSteps, IdsQuiet, IdsHandedOut, IdsTaken, IdsAccepted, IdsTold DEF IdInv, IdCase

-----------------------------------------------------------------------------
(* Answers. *)

\* Whatever is added to down is no answer.
NoNewAnswer(k) ==
    \A p \in 1..Len(down') :
        (p + k \in 1..Len(down) /\ down'[p] = down[p + k]) \/ ~IsAnswer(down'[p])

LEMMA AnswersKept ==
    ASSUME TypeInv, OneAnswer, NEW k \in {0, 1}, NoNewAnswer(k),
           \A s \in Streams : handle'[s] \in {"idle", "requesting"} => handle'[s] = handle[s]
    PROVE  /\ \A p, q \in 1..Len(down') :
                (IsAnswer(down'[p]) /\ IsAnswer(down'[q]) /\ down'[p].who = down'[q].who)
                    => p = q
           /\ \A p \in 1..Len(down') : IsAnswer(down'[p]) =>
                /\ handle'[down'[p].who] # "idle"
                /\ \E q \in 1..Len(down) : down[q] = down'[p]
<1>1. Len(down) \in Nat
  BY Numbers
<1>2. \A p, q \in 1..Len(down') : p + k = q + k => p = q
  BY <1>1
<1>3. \A p \in 1..Len(down') : IsAnswer(down'[p]) =>
          p + k \in 1..Len(down) /\ down'[p] = down[p + k]
  BY DEF NoNewAnswer
<1>4. \A p \in 1..Len(down) : IsAnswer(down[p]) => down[p].who \in Streams
  BY Numbers DEF TypeInv, MessageFields, Messages, IsAnswer
<1> QED BY SMTT(30), <1>2, <1>3, <1>4 DEF OneAnswer

LEMMA TailNoAnswer ==
    ASSUME TypeInv, down # <<>>, down' = Tail(down)
    PROVE  NoNewAnswer(1)
BY TailIsOld DEF NoNewAnswer

LEMMA PrefixNoAnswer ==
    ASSUME TypeInv,
           \/ UNCHANGED down
           \/ down' = <<>>
           \/ \E n \in 0..Len(down) : down' = SubSeq(down, 1, n)
    PROVE  NoNewAnswer(0)
<1>1. down \in Seq(Messages) /\ Len(down) \in Nat
  BY LenProperties DEF TypeInv, ResumptionTypeOK
<1>2. CASE UNCHANGED down
  BY <1>1, <1>2 DEF NoNewAnswer
<1>3. CASE down' = <<>>
  BY <1>1, <1>3, EmptySeq DEF NoNewAnswer
<1>4. CASE \E n \in 0..Len(down) : down' = SubSeq(down, 1, n)
  <2>1. PICK n \in 0..Len(down) : down' = SubSeq(down, 1, n)
    BY <1>4
  <2>2. Len(down') = n /\ \A p \in 1..n : down'[p] = down[p]
    BY <1>1, <2>1, DownPrefix
  <2> QED BY <1>1, <2>1, <2>2 DEF NoNewAnswer
<1> QED BY <1>2, <1>3, <1>4

LEMMA AppendNoAnswer ==
    ASSUME TypeInv, NEW m \in Messages, down' = Append(down, m), ~IsAnswer(m)
    PROVE  NoNewAnswer(0)
BY AppendedDown DEF NoNewAnswer

\* Steps with an answer that is new: the stream had none on its way.
LEMMA AnswerAdded ==
    ASSUME TypeInv, OneAnswer, NEW s \in Streams,
           ServeStart(s), UNCHANGED loop \/ loop' = "awaiting",
           \A p \in 1..Len(down) : IsAnswer(down[p]) => down[p].who # s,
           \A t \in Streams : handle'[t] = "idle" => handle[t] = "idle",
           handle'[s] # "idle"
    PROVE  /\ \A p, q \in 1..Len(down') :
                (IsAnswer(down'[p]) /\ IsAnswer(down'[q]) /\ down'[p].who = down'[q].who)
                    => p = q
           /\ \A p \in 1..Len(down') : IsAnswer(down'[p]) =>
                /\ handle'[down'[p].who] # "idle"
                /\ down'[p].who = s \/ \E q \in 1..Len(down) : down[q] = down'[p]
<1>0. \A p \in 1..Len(down) : IsAnswer(down[p]) => down[p].who \in Streams
  BY Numbers DEF TypeInv, MessageFields, Messages, IsAnswer
<1>1. CASE UNCHANGED down
  BY <1>0, <1>1 DEF OneAnswer
<1>2. ASSUME NEW m \in Messages, down' = Append(down, m), m.who = s
      PROVE  /\ \A p, q \in 1..Len(down') :
                  (IsAnswer(down'[p]) /\ IsAnswer(down'[q]) /\ down'[p].who = down'[q].who)
                      => p = q
             /\ \A p \in 1..Len(down') : IsAnswer(down'[p]) =>
                  /\ handle'[down'[p].who] # "idle"
                  /\ down'[p].who = s \/ \E q \in 1..Len(down) : down[q] = down'[p]
  <2>1. /\ Len(down) \in Nat /\ Len(down') = Len(down) + 1
        /\ \A p \in 1..Len(down) : down'[p] = down[p]
        /\ \A p \in 1..Len(down') : p \in 1..Len(down) \/ p = Len(down')
        /\ down'[Len(down')] = m
    BY <1>2, AppendedDown
  <2> QED BY <1>0, <1>2, <2>1 DEF OneAnswer
<1>3. next_id <= MaxId => next_id \in Ids
  BY StreamResumptionAssumption
     DEF StreamResumptionAssumption, TypeInv, ResumptionTypeOK, Ids
<1>4. 1 \in Ids
  BY StreamResumptionAssumption DEF StreamResumptionAssumption, Ids
<1>5. /\ next_id <= MaxId => Message("started", s, next_id) \in Messages
      /\ Message("refused", s, 0) \in Messages
      /\ Message("started", s, next_id).who = s /\ Message("refused", s, 0).who = s
  BY <1>3, <1>4, MessageTypes DEF Message
<1> QED BY <1>1, <1>2, <1>5 DEF ServeStart

LEMMA AnswerStep ==
    ASSUME TypeInv, TypeInv', IdsOwned, OneAnswer, [Next]_vars
    PROVE  OneAnswer'
<1> USE DEF serverVars, resumeVars, stopVars, sharedVars, handleVars
<1> DEFINE HandlesKept ==
        \A s \in Streams : handle'[s] \in {"idle", "requesting"} => handle'[s] = handle[s]
\* Steps that answer nothing, and in which loop stays or leaves Resuming.
<1>1. ASSUME NEW k \in {0, 1}, NoNewAnswer(k), HandlesKept,
             \/ UNCHANGED <<loop, current>>
             \/ loop' \notin Resuming /\ loop # "running"
      PROVE  OneAnswer'
  BY <1>1, AnswersKept DEF OneAnswer
<1>2. ASSUME HandlesKept, down' = <<>> \/ UNCHANGED down,
             \/ UNCHANGED <<loop, current>>
             \/ loop' \notin Resuming /\ loop # "running"
      PROVE  OneAnswer'
  BY <1>1, <1>2, PrefixNoAnswer
<1>3. CASE Reads
  <2>1. HandlesKept
    BY <1>3, ReadCases
       DEF ReadsEnd, ReadsStarted, StartAnswered, ReadsRefused, StartRefused,
           ReadsStopped, ReadsForNobody, TypeInv, ResumptionTypeOK
  <2> QED BY <1>1, <1>3, <2>1, ReadCases, TailNoAnswer
<1>4. CASE Disconnected
  <2>1. \A s \in Streams : handle'[s] \notin {"requesting"} /\ (handle'[s] = "idle" => handle[s] = "idle")
    BY <1>4, DisconnectedHandles
  <2>2. HandlesKept /\ NoNewAnswer(0) /\ loop' = "reconnecting"
    BY <1>4, <2>1, PrefixNoAnswer DEF Disconnected
  <2> QED BY <2>1, <2>2, AnswersKept DEF OneAnswer, Resuming
<1>5. CASE LoopEnds \/ EstablishFails \/ UNCHANGED vars
  <2>1. OneAnswer /\ HandlesKept /\ UNCHANGED down /\
        (UNCHANGED <<loop, current>> \/ (loop' \notin Resuming /\ loop # "running"))
    BY <1>5 DEF LoopEnds, EstablishFails, vars, Resuming
  <2> QED BY <1>2, <2>1
<1>6. CASE EstablishOk \/ ResumeAborted
  <2>1. down' = <<>> /\ UNCHANGED handle /\ loop # "running"
    BY <1>6 DEF EstablishOk, ResumeAborted
  <2>2. Len(down') = 0
    BY <2>1, EmptySeq
  <2> QED BY <2>1, <2>2 DEF OneAnswer
<1>7. CASE ResumeRefused \/ ResumeUnwanted \/ ResumeAccepted
  <2>1. /\ down # <<>> /\ down' = Tail(down) /\ UNCHANGED handle
        /\ IsAnswer(Head(down)) /\ Head(down).who = current[2]
        /\ loop = "awaiting"
    BY <1>7 DEF ResumeRefused, ResumeUnwanted, ResumeAccepted, OwnAnswer, IsAnswer,
                EndEntry
  <2>2. \A p \in 1..Len(down') : ~IsAnswer(down'[p])
    BY <2>1, TailIsOld DEF OneAnswer, Resuming
  <2> QED BY <2>1, <2>2 DEF OneAnswer
<1>8. CASE Remap \/ ResumeReturns
  <2>1. /\ UNCHANGED <<down, handle>>
        /\ loop \in {"remapping", "resuming"}
        /\ loop' \in {"resuming", "running"}
    BY <1>8 DEF Remap, ResumeReturns, NextStream
  <2>2. \A p \in 1..Len(down') : ~IsAnswer(down'[p])
    BY <2>1 DEF OneAnswer, Resuming
  <2> QED BY <2>1, <2>2 DEF OneAnswer
<1>9. CASE SessionDies
  <2>1. NoNewAnswer(0) /\ UNCHANGED <<loop, current, handle>>
    BY <1>9, PrefixNoAnswer DEF SessionDies
  <2> QED BY <1>1, <2>1
<1>10. ASSUME NEW s \in Streams,
              \/ Register(s) \/ StopFlag(s) \/ LoadFirst(s) \/ LoadSecond(s)
              \/ StopSendFails(s) \/ Unregister(s) \/ StopReleases(s)
       PROVE  OneAnswer'
  <2>1. HandlesKept /\ UNCHANGED <<down, loop, current>>
    BY <1>10 DEF Register, StopFlag, LoadFirst, LoadSecond, StopSendFails, Unregister,
                 StopReleases, TypeInv, ResumptionTypeOK
  <2> QED BY <1>2, <2>1
<1>11. ASSUME NEW s \in Streams, NEW i \in Ids, ResumeSkip(i, s) \/ ResumeSendFails(i, s)
       PROVE  OneAnswer'
  BY <1>2, <1>11 DEF ResumeSkip, ResumeSendFails, EndEntry
<1>12. ASSUME NEW s \in Streams, StopSend(s) PROVE OneAnswer'
  <2>1. HandlesKept /\ UNCHANGED <<loop, current>>
    BY <1>12 DEF StopSend, TypeInv, ResumptionTypeOK
  <2>2. Head(ids[s]) \in Ids
    BY <1>12, TailTyped DEF StopSend, TypeInv, ResumptionTypeOK
  <2>3. /\ Message("stopped", s, Head(ids[s])) \in Messages
        /\ ~IsAnswer(Message("stopped", s, Head(ids[s])))
    BY <2>2, MessageTypes DEF Message, IsAnswer
  <2>4. NoNewAnswer(0)
    BY <1>12, <2>3, AppendNoAnswer, PrefixNoAnswer DEF StopSend, ServeStop
  <2> QED BY <1>1, <2>1, <2>4
<1>13. ASSUME NEW i \in Ids, ServerEnds(i) PROVE OneAnswer'
  <2>1. server[i] \in Streams
    BY <1>13 DEF ServerEnds, TypeInv, ResumptionTypeOK
  <2>2. Message("end", NoStream, i) \in Messages /\ ~IsAnswer(Message("end", NoStream, i))
    BY <2>1, MessageTypes DEF Message, IsAnswer
  <2>3. NoNewAnswer(0) /\ UNCHANGED <<loop, current, handle>>
    BY <1>13, <2>2, AppendNoAnswer DEF ServerEnds
  <2> QED BY <1>1, <2>3
<1>14. ASSUME NEW s \in Streams, RequestStart(s) PROVE OneAnswer'
  <2>1. /\ \A p \in 1..Len(down) : IsAnswer(down[p]) => down[p].who # s
        /\ \A t \in Streams : handle'[t] = "idle" => handle[t] = "idle"
        /\ handle'[s] # "idle"
        /\ loop = "running" /\ UNCHANGED loop
    BY <1>14 DEF RequestStart, OneAnswer, TypeInv, ResumptionTypeOK
  <2> QED BY <1>14, <2>1, AnswerAdded DEF RequestStart, OneAnswer, Resuming
<1>15. ASSUME NEW s \in Streams, NEW i \in Ids, ResumeSend(i, s) PROVE OneAnswer'
  <2>1. /\ \A p \in 1..Len(down) : ~IsAnswer(down[p])
        /\ InUse(s) /\ UNCHANGED handle
        /\ loop' = "awaiting" /\ current' = <<i, s>>
        /\ \A t \in Streams : handle[t] # "requesting"
    BY <1>15 DEF ResumeSend, OneAnswer, Resuming, TypeInv, TableFields
  <2>2. handle[s] # "idle"
    BY <2>1 DEF InUse, NotYetOpen
  <2> QED BY <1>15, <2>1, <2>2, AnswerAdded DEF ResumeSend, OneAnswer
<1> HIDE DEF HandlesKept
<1>16. CASE StartStep
  BY <1>10, <1>14, <1>16 DEF StartStep
<1>17. CASE TaskStep
  BY <1>3, <1>4, <1>5, <1>6, <1>7, <1>8, <1>11, <1>15, <1>17
     DEF TaskStep, ResumeStep, Reads
<1>18. CASE StopStep
  BY <1>10, <1>12, <1>18 DEF StopStep
<1>19. CASE ServerStep
  BY <1>9, <1>13, <1>19 DEF ServerStep
<1> QED BY <1>5, <1>16, <1>17, <1>18, <1>19 DEF Next

-----------------------------------------------------------------------------
(* Entries and flags. *)

EntryInv == EntryIsEffective /\ FlagFollowsUse

\* Steps that leave flags and ids of handles alone, and at most remove entries.
EntriesKept ==
    /\ \A i \in Ids : resumable_streams'[i] \in {resumable_streams[i], NoStream}
    /\ UNCHANGED <<effective_id, stream_id, stopped_flag>>
    /\ \A s \in Streams :
          /\ handle'[s] = "open" => handle[s] = "open"
          /\ handle'[s] = "answered" => handle[s] = "answered"
          /\ handle'[s] \in NotYetOpen => handle[s] \in NotYetOpen

LEMMA EntriesKeptInv ==
    ASSUME TypeInv, TypeInv', EntryInv, EntriesKept
    PROVE  EntryInv'
<1>1. \A i \in Ids : resumable_streams[i] \in Streams \cup {NoStream}
  BY DEF TypeInv, ResumptionTypeOK
<1> QED BY <1>1 DEF EntryInv, EntriesKept, EntryIsEffective, FlagFollowsUse

\* An entry that ends takes nothing with it: its stream has no other entry.
LEMMA EntryEnds ==
    ASSUME TypeInv, EntryInv, NEW i \in Ids, EndEntry(i),
           UNCHANGED <<handle, stream_id>>
    PROVE  EntryInv'
<1> DEFINE s == resumable_streams[i]
<1>1. /\ \A j \in Ids : resumable_streams'[j] = IF j = i THEN NoStream ELSE resumable_streams[j]
      /\ \A t \in Streams : stopped_flag'[t] = (stopped_flag[t] \/ t = s)
      /\ effective_id' = effective_id
  BY DEF EndEntry, OnEnd, TypeInv, ResumptionTypeOK
<1>2. \A j \in Ids : (resumable_streams[j] = s /\ s # NoStream) => j = i
  BY DEF EntryInv, EntryIsEffective
<1>3. \A j \in Ids : resumable_streams[j] # NoStream =>
         resumable_streams[j] \in Streams /\ InUse(resumable_streams[j])
  BY DEF TypeInv, TableFields, ResumptionTypeOK
<1>4. \A t \in Streams : t # NoStream
  BY StreamResumptionAssumption DEF StreamResumptionAssumption
<1>5. EntryIsEffective'
  BY <1>1, <1>2, <1>3 DEF EntryInv, EntryIsEffective
<1>6. FlagFollowsUse'
  BY ZenonT(30), <1>1, <1>3, <1>4 DEF EntryInv, FlagFollowsUse, InUse
<1> QED BY <1>5, <1>6 DEF EntryInv

LEMMA EntryStep ==
    ASSUME TypeInv, TypeInv', IdsOwned, PendingPairs, EntryInv, [Next]_vars
    PROVE  EntryInv'
<1> USE DEF serverVars, resumeVars, stopVars, sharedVars, handleVars
<1>1. \A i \in Ids : resumable_streams[i] # NoStream =>
         resumable_streams[i] \in Streams /\ InUse(resumable_streams[i])
  BY DEF TypeInv, TableFields, ResumptionTypeOK
<1>2. \A t \in Streams : t # NoStream
  BY StreamResumptionAssumption DEF StreamResumptionAssumption
<1>3. ASSUME Reads PROVE EntryInv'
  <2>1. CASE ReadsEnd(Head(down))
    <3>1. Head(down).id \in Ids
      BY <1>3, <2>1, ReadCases, HeadTyped, IdNotZero
         DEF ReadsEnd, DownTyped, TypeInv, ResumptionTypeOK
    <3> QED BY <2>1, <3>1, EntryEnds DEF ReadsEnd
  <2>2. ASSUME NEW s \in Streams, ReadsStarted(Head(down), s) PROVE EntryInv'
    <3>1. /\ handle[s] = "requesting"
          /\ \A t \in Streams : t # s =>
                handle'[t] = handle[t] /\ stream_id'[t] = stream_id[t]
                /\ effective_id'[t] = effective_id[t]
          /\ handle'[s] = "answered" /\ effective_id'[s] = stream_id'[s]
          /\ UNCHANGED <<resumable_streams, stopped_flag>>
      BY <2>2 DEF ReadsStarted, StartAnswered, TypeInv, ResumptionTypeOK
    <3>2. \A i \in Ids : resumable_streams[i] # s
      BY <1>1, <1>2, <3>1 DEF InUse, NotYetOpen
    <3>3. EntryIsEffective'
      BY <1>1, <3>1, <3>2 DEF EntryInv, EntryIsEffective
    <3>4. FlagFollowsUse'
      BY <3>1 DEF EntryInv, FlagFollowsUse, NotYetOpen
    <3> QED BY <3>3, <3>4 DEF EntryInv
  <2>3. ASSUME NEW s \in Streams,
               ReadsRefused(Head(down), s) \/ ReadsStopped(Head(down), s)
        PROVE  EntryInv'
    <3>1. EntriesKept
      BY <2>3 DEF ReadsRefused, ReadsStopped, StartRefused, EntriesKept, NotYetOpen,
                  TypeInv, ResumptionTypeOK
    <3> QED BY <3>1, EntriesKeptInv
  <2>4. CASE ReadsForNobody(Head(down))
    BY <2>4, EntriesKeptInv DEF EntriesKept, ReadsForNobody
  <2> QED BY <1>3, ReadCases, <2>1, <2>2, <2>3, <2>4
<1>4. CASE Disconnected
  <2>1. EntriesKept
    BY <1>4, DisconnectedHandles DEF Disconnected, EntriesKept, NotYetOpen
  <2> QED BY <2>1, EntriesKeptInv
<1>5. CASE LoopEnds
  <2>1. /\ \A i \in Ids : resumable_streams'[i] = NoStream
        /\ UNCHANGED <<handle, stream_id, effective_id>>
        /\ \A t \in Streams :
              stopped_flag'[t] = (stopped_flag[t] \/ t \in Range(resumable_streams))
    BY <1>5 DEF LoopEnds, Nowhere, OnEnd
  <2>2. \A t \in Streams : t \in Range(resumable_streams) => InUse(t)
    BY <1>1, <1>2 DEF Range, TypeInv, ResumptionTypeOK
  <2> QED BY <2>1, <2>2 DEF EntryInv, EntryIsEffective, FlagFollowsUse, InUse
<1>6. CASE EstablishOk \/ EstablishFails \/ ResumeAborted \/ ResumeReturns
           \/ SessionDies \/ UNCHANGED vars
  <2>1. UNCHANGED <<resumable_streams, effective_id, stream_id, stopped_flag, handle>>
    BY <1>6 DEF EstablishOk, EstablishFails, ResumeAborted, ResumeReturns, SessionDies, vars
  <2> QED BY <2>1, EntriesKeptInv DEF EntriesKept
<1>7. CASE ResumeRefused \/ ResumeUnwanted
  <2>1. current[1] \in Ids
    BY <1>7 DEF ResumeRefused, ResumeUnwanted, TypeInv
  <2> QED BY <1>7, <2>1, EntryEnds DEF ResumeRefused, ResumeUnwanted
<1>8. CASE ResumeAccepted
  <2>1. EntriesKept
    BY <1>8 DEF ResumeAccepted, EntriesKept, TypeInv, ResumptionTypeOK
  <2> QED BY <2>1, EntriesKeptInv
<1>9. CASE Remap
  <2> DEFINE s == current[2]
  <2>1. s \in Streams /\ current[1] \in Ids /\ <<current[1], s>> = current /\ new_id \in Ids
        /\ loop = "remapping"
    BY <1>9, StreamResumptionAssumption
       DEF Remap, TypeInv, ResumptionTypeOK, Ids, StreamResumptionAssumption
  <2>2. <<current[1], s>> \in Pending
    BY <2>1 DEF Pending
  <2>3. handle[s] = "open" => ~stopped_flag[s]
    BY <2>1, <2>2 DEF PendingPairs, PendingPair
  <2>4. \A i \in Ids : resumable_streams[i] # s
    BY <2>1 DEF PendingPairs, Range, TypeInv, ResumptionTypeOK
  <2>5. /\ \A i \in Ids : resumable_streams'[i] =
              IF i = new_id THEN s ELSE resumable_streams[i]
        /\ \A t \in Streams : effective_id'[t] = IF t = s THEN new_id ELSE effective_id[t]
        /\ UNCHANGED <<handle, stream_id, stopped_flag>>
    BY <1>9, <2>1 DEF Remap, TypeInv, ResumptionTypeOK
  <2>6. InUse(s)
    BY <2>1, <1>2 DEF TypeInv, TableFields
  <2>7. EntryIsEffective'
    BY <1>1, <2>1, <2>3, <2>4, <2>5 DEF EntryInv, EntryIsEffective
  <2>8. FlagFollowsUse'
    BY <2>5, <2>6 DEF EntryInv, FlagFollowsUse, InUse, NotYetOpen
  <2> QED BY <2>7, <2>8 DEF EntryInv
<1>10. ASSUME NEW s \in Streams, Register(s) PROVE EntryInv'
  <2>1. /\ stream_id[s] \in Ids /\ effective_id[s] = stream_id[s] /\ ~stopped_flag[s]
        /\ handle[s] = "answered"
    BY <1>10, OpenIds DEF Register, EntryInv, FlagFollowsUse, NotYetOpen
  <2>2. /\ \A i \in Ids : resumable_streams'[i] =
              IF i = stream_id[s] THEN s ELSE resumable_streams[i]
        /\ \A t \in Streams : handle'[t] = IF t = s THEN "open" ELSE handle[t]
        /\ UNCHANGED <<stream_id, stopped_flag, effective_id>>
    BY <1>10, <2>1 DEF Register, TypeInv, ResumptionTypeOK
  <2>3. \A i \in Ids : resumable_streams[i] # s
    BY <1>1, <1>2, <2>1 DEF InUse, NotYetOpen
  <2>4. EntryIsEffective'
    BY <1>1, <2>1, <2>2, <2>3 DEF EntryInv, EntryIsEffective
  <2>5. FlagFollowsUse'
    BY <2>1, <2>2 DEF EntryInv, FlagFollowsUse, NotYetOpen
  <2> QED BY <2>4, <2>5 DEF EntryInv
<1>11. ASSUME NEW s \in Streams, StopFlag(s) PROVE EntryInv'
  <2>1. /\ \A t \in Streams : t # s =>
              handle'[t] = handle[t] /\ stopped_flag'[t] = stopped_flag[t]
        /\ handle'[s] = "flagged"
        /\ UNCHANGED <<stream_id, resumable_streams, effective_id>>
    BY <1>11 DEF StopFlag, TypeInv, ResumptionTypeOK
  <2> QED BY <1>1, <2>1 DEF EntryInv, EntryIsEffective, FlagFollowsUse, NotYetOpen
<1>12. ASSUME NEW s \in Streams,
              \/ RequestStart(s) \/ LoadFirst(s) \/ LoadSecond(s) \/ StopSend(s)
              \/ StopSendFails(s) \/ Unregister(s) \/ StopReleases(s)
       PROVE  EntryInv'
  <2>1. EntriesKept
    BY <1>12 DEF RequestStart, LoadFirst, LoadSecond, StopSend, StopSendFails, Unregister,
                 StopReleases, EntriesKept, NotYetOpen, TypeInv, ResumptionTypeOK
  <2> QED BY <2>1, EntriesKeptInv
<1>13. ASSUME NEW s \in Streams, NEW i \in Ids, ResumeSkip(i, s) \/ ResumeSendFails(i, s)
       PROVE  EntryInv'
  BY <1>13, EntryEnds DEF ResumeSkip, ResumeSendFails
<1>14. ASSUME NEW s \in Streams, NEW i \in Ids, ResumeSend(i, s) PROVE EntryInv'
  BY <1>14, EntriesKeptInv DEF ResumeSend, EntriesKept
<1>15. ASSUME NEW i \in Ids, ServerEnds(i) PROVE EntryInv'
  BY <1>15, EntriesKeptInv DEF ServerEnds, EntriesKept
<1>16. CASE StartStep
  BY <1>10, <1>12, <1>16 DEF StartStep
<1>17. CASE TaskStep
  BY <1>3, <1>4, <1>5, <1>6, <1>7, <1>8, <1>9, <1>13, <1>14, <1>17
     DEF TaskStep, ResumeStep, Reads
<1>18. CASE StopStep
  BY <1>11, <1>12, <1>18 DEF StopStep
<1>19. CASE ServerStep
  BY <1>6, <1>15, <1>19 DEF ServerStep
<1> QED BY <1>6, <1>16, <1>17, <1>18, <1>19 DEF Next

-----------------------------------------------------------------------------
(* Ends under way. *)

LEMMA EndsAre ==
    ASSUME NEW d \in Seq(Messages), \A p \in 1..Len(d) : MessageFields(d[p]),
           NEW i \in Ids
    PROVE  Message("end", NoStream, i) \in Range(d) <=>
              \E p \in 1..Len(d) : d[p].kind = "end" /\ d[p].id = i
<1>1. DOMAIN d = 1..Len(d) /\ \A p \in 1..Len(d) : d[p] \in Messages
  BY LenProperties, ElementOfSeq
<1>2. \A m \in Messages : MessageFields(m) =>
         (m = Message("end", NoStream, i) <=> m.kind = "end" /\ m.id = i)
  BY DEF Messages, MessageFields, Message
<1>3. \A m : m \in Range(d) <=> \E p \in 1..Len(d) : m = d[p]
  BY <1>1 DEF Range
<1> QED BY <1>1, <1>2, <1>3

LEMMA EndComes ==
    ASSUME TypeInv, NEW i \in Ids
    PROVE  EndComing(i) <=> \E p \in 1..Len(down) : down[p].kind = "end" /\ down[p].id = i
BY EndsAre DEF EndComing, TypeInv, ResumptionTypeOK

LEMMA EndComesNext ==
    ASSUME TypeInv', NEW i \in Ids
    PROVE  EndComing(i)' <=> \E p \in 1..Len(down') : down'[p].kind = "end" /\ down'[p].id = i
<1>1. down' \in Seq(Messages) /\ \A p \in 1..Len(down') : MessageFields(down'[p])
  BY DEF TypeInv, ResumptionTypeOK, MessageFields
<1> QED BY <1>1, EndsAre DEF EndComing

\* Only the end that is read, or that is lost, is no longer under way.
LEMMA EndsOnTail ==
    ASSUME TypeInv, TypeInv', down # <<>>, down' = Tail(down), NEW i \in Ids
    PROVE  EndComing(i) <=>
              EndComing(i)' \/ (Head(down).kind = "end" /\ Head(down).id = i)
<1>1. /\ Len(down) \in Nat \ {0} /\ Len(down') = Len(down) - 1
      /\ \A p \in 1..Len(down') : p + 1 \in 1..Len(down) /\ down'[p] = down[p + 1]
      /\ 1 \in 1..Len(down) /\ Head(down) = down[1]
  BY TailIsOld
<1>2. \A p \in 1..Len(down) : p = 1 \/ (p - 1 \in 1..Len(down') /\ down'[p - 1] = down[p])
  BY <1>1
<1>3. EndComing(i)' => EndComing(i)
  BY <1>1, EndComes, EndComesNext
<1>4. Head(down).kind = "end" /\ Head(down).id = i => EndComing(i)
  BY <1>1, EndComes
<1>5. EndComing(i) => EndComing(i)' \/ (Head(down).kind = "end" /\ Head(down).id = i)
  BY <1>1, <1>2, EndComes, EndComesNext
<1> QED BY <1>3, <1>4, <1>5

LEMMA EndsOnAppend ==
    ASSUME TypeInv, TypeInv', NEW m \in Messages, down' = Append(down, m), NEW i \in Ids
    PROVE  EndComing(i)' <=> EndComing(i) \/ (m.kind = "end" /\ m.id = i)
<1>1. /\ Len(down) \in Nat /\ Len(down') = Len(down) + 1
      /\ \A p \in 1..Len(down) : p \in 1..Len(down') /\ down'[p] = down[p]
      /\ \A p \in 1..Len(down') : p \in 1..Len(down) \/ p = Len(down')
      /\ down'[Len(down')] = m
      /\ Len(down') \in 1..Len(down')
  BY AppendedDown
<1> QED BY <1>1, EndComes, EndComesNext

LEMMA EndsOnPrefix ==
    ASSUME TypeInv, TypeInv', NEW i \in Ids,
           \/ UNCHANGED down
           \/ down' = <<>>
           \/ \E n \in 0..Len(down) : down' = SubSeq(down, 1, n)
    PROVE  EndComing(i)' => EndComing(i)
<1>1. CASE UNCHANGED down
  BY <1>1 DEF EndComing
<1>2. CASE down' = <<>>
  BY <1>2, EndComesNext, EmptySeq
<1>3. CASE \E n \in 0..Len(down) : down' = SubSeq(down, 1, n)
  <2>1. PICK n \in 0..Len(down) : down' = SubSeq(down, 1, n)
    BY <1>3
  <2>2. down \in Seq(Messages) /\ Len(down) \in Nat
    BY LenProperties DEF TypeInv, ResumptionTypeOK
  <2>3. Len(down') = n /\ \A p \in 1..n : down'[p] = down[p]
    BY <2>1, <2>2, DownPrefix
  <2> QED BY <2>1, <2>2, <2>3, EndComes, EndComesNext
<1> QED BY <1>1, <1>2, <1>3

\* What the server does on a request, for the streams it runs and the ends
\* under way.
LEMMA StartEnds ==
    ASSUME TypeInv, TypeInv', NEW s \in Streams, ServeStart(s), NEW i \in Ids
    PROVE  EndComing(i)' <=> EndComing(i)
<1>1. CASE UNCHANGED down
  BY <1>1 DEF EndComing
<1>2. ASSUME NEW m \in Messages, down' = Append(down, m), m.kind # "end"
      PROVE  EndComing(i)' <=> EndComing(i)
  BY <1>2, EndsOnAppend
<1>3. next_id <= MaxId => next_id \in Ids
  BY StreamResumptionAssumption
     DEF StreamResumptionAssumption, TypeInv, ResumptionTypeOK, Ids
<1>4. /\ next_id <= MaxId => Message("started", s, next_id) \in Messages
      /\ Message("refused", s, 0) \in Messages
      /\ Message("started", s, next_id).kind # "end"
      /\ Message("refused", s, 0).kind # "end"
  BY <1>3, MessageTypes DEF Message
<1> QED BY <1>1, <1>2, <1>4 DEF ServeStart

LEMMA StopEnds ==
    ASSUME TypeInv, TypeInv', NEW s \in Streams, NEW j \in Ids, ServeStop(s, j),
           NEW i \in Ids
    PROVE  EndComing(i)' <=> EndComing(i)
<1>1. Message("stopped", s, j) \in Messages /\ Message("stopped", s, j).kind # "end"
  BY MessageTypes DEF Message
<1> QED BY <1>1, EndsOnAppend DEF ServeStop, EndComing

LEMMA ServerEndsEnds ==
    ASSUME TypeInv, TypeInv', NEW j \in Ids, ServerEnds(j), NEW i \in Ids
    PROVE  EndComing(i)' <=> EndComing(i) \/ i = j
<1>1. server[j] \in Streams
  BY DEF ServerEnds, TypeInv, ResumptionTypeOK
<1>2. Message("end", NoStream, j) \in Messages
      /\ Message("end", NoStream, j).kind = "end" /\ Message("end", NoStream, j).id = j
  BY <1>1, MessageTypes DEF Message
<1> QED BY <1>2, EndsOnAppend DEF ServerEnds

\* What the server runs after it was asked for a stream.
LEMMA StartServer ==
    ASSUME TypeInv, NEW s \in Streams, ServeStart(s), NEW i \in Ids
    PROVE  \/ server'[i] = server[i]
           \/ server'[i] = s /\ i = next_id /\ session = "up"
BY DEF ServeStart, TypeInv, ResumptionTypeOK

-----------------------------------------------------------------------------
(* Pending resumptions. *)

\* A pending pair that a step leaves pending and does not break.
PairKept(i, s) ==
    /\ <<i, s>> \in Pending
    /\ effective_id'[s] = effective_id[s]
    /\ server'[i] = server[i] /\ (EndComing(i)' => EndComing(i))
    /\ handle'[s] = "open" =>
          /\ handle[s] = "open"
          /\ stopped_flag'[s] = stopped_flag[s]
          /\ resumable_streams'[i] = resumable_streams[i]
          /\ (loop = "remapping" /\ current = <<i, s>>) =>
                (loop' = "remapping" /\ current' = current)
    /\ handle'[s] = "closed" => (handle[s] = "closed" /\ disturbed[s] => disturbed'[s])
                                /\ (handle[s] # "closed" => disturbed'[s])

PairsKept == \A i \in Ids, s \in Streams : <<i, s>> \in Pending' => PairKept(i, s)

LEMMA PairStays ==
    ASSUME PendingPairs, NEW i \in Ids, NEW s \in Streams, PairKept(i, s)
    PROVE  PendingPair(i, s)'
BY DEF PendingPairs, PendingPair, PairKept

\* Steps that leave the table of pending resumptions as it is.
LEMMA PendingKept ==
    ASSUME TypeInv, PendingPairs, UNCHANGED <<loop, current, to_resume>>, PairsKept,
           loop = "remapping" => UNCHANGED resumable_streams
    PROVE  PendingPairs'
<1>1. \A i \in Ids, s \in Streams : <<i, s>> \in Pending' => PendingPair(i, s)'
  BY PairStays DEF PairsKept
<1> QED BY <1>1 DEF PendingPairs

\* Steps after which no stream is being resumed at the moment.
LEMMA PendingLeft ==
    ASSUME TypeInv, PendingPairs, loop' = "resuming", PairsKept
    PROVE  PendingPairs'
<1>1. \A i \in Ids, s \in Streams : <<i, s>> \in Pending' => PendingPair(i, s)'
  BY PairStays DEF PairsKept
<1> QED BY <1>1 DEF PendingPairs, Resuming

LEMMA NonePending ==
    ASSUME TypeInv, loop' \notin Resuming, to_resume' = {}
    PROVE  PendingPairs'
BY DEF PendingPairs, Pending, Resuming

\* Pending pairs have their ids and their streams for themselves.
LEMMA PairFacts ==
    ASSUME TypeInv, IdsOwned, EntryInv, PendingPairs,
           NEW i \in Ids, NEW s \in Streams, <<i, s>> \in Pending
    PROVE  /\ i \in Knows(s) /\ i < next_id /\ InUse(s) /\ effective_id[s] = i
           /\ server[i] = NoStream /\ ~EndComing(i)
           /\ \A j \in Ids, t \in Streams :
                 (<<j, t>> \in Pending /\ <<j, t>> # <<i, s>>) => j # i /\ t # s
           /\ \A t \in Streams : t # s => i \notin Knows(t)
           /\ \A j \in Ids : resumable_streams[j] = s => j = i
           /\ resumable_streams[i] \in {s, NoStream}
<1>0. \A t \in Streams : t # NoStream
  BY StreamResumptionAssumption DEF StreamResumptionAssumption
<1>z. 0 \notin Ids
  BY StreamResumptionAssumption DEF StreamResumptionAssumption, Ids
<1>1. effective_id[s] = i /\ server[i] = NoStream /\ ~EndComing(i)
  BY DEF PendingPairs, PendingPair
<1>2. \A j \in Ids, t \in Streams : effective_id[t] = j => j \in Knows(t)
  BY <1>z DEF Knows
<1>3. InUse(s)
  BY <1>0 DEF Pending, TypeInv, TableFields
<1>4. \A j \in Ids, t \in Streams : <<j, t>> \in Pending => effective_id[t] = j
  BY DEF PendingPairs, PendingPair
<1>5. \A t \in Streams : t # s => i \notin Knows(t)
  BY <1>1, <1>2 DEF IdsOwned
<1>6. \A j \in Ids, t \in Streams :
          (<<j, t>> \in Pending /\ <<j, t>> # <<i, s>>) => j # i /\ t # s
  BY <1>1, <1>2, <1>4, <1>5
<1>7. \A j \in Ids : resumable_streams[j] # NoStream =>
          resumable_streams[j] \in Streams /\ effective_id[resumable_streams[j]] = j
  BY DEF TypeInv, ResumptionTypeOK, EntryInv, EntryIsEffective
<1>8. \A j \in Ids : resumable_streams[j] = s => j = i
  BY <1>0, <1>1, <1>7
<1>9. resumable_streams[i] \in {s, NoStream}
  BY <1>2, <1>5, <1>7
<1> QED BY <1>1, <1>2, <1>3, <1>5, <1>6, <1>8, <1>9 DEF IdsOwned

\* The entry of another id ends: no other pair notices.
LEMMA PairNotEnded ==
    ASSUME TypeInv, IdsOwned, EntryInv, PendingPairs,
           NEW i \in Ids, NEW s \in Streams, <<i, s>> \in Pending,
           NEW j \in Ids, j # i, EndEntry(j)
    PROVE  /\ resumable_streams'[i] = resumable_streams[i]
           /\ stopped_flag'[s] = stopped_flag[s]
           /\ effective_id' = effective_id
<1>1. resumable_streams[j] # s
  BY ZenonT(30), PairFacts
<1> QED BY <1>1 DEF EndEntry, OnEnd, TypeInv, ResumptionTypeOK

LEMMA PendingStep ==
    ASSUME TypeInv, TypeInv', IdsOwned, AnswersFresh, OneAnswer, EntryInv,
           PendingPairs, StopInv, [Next]_vars
    PROVE  PendingPairs'
<1> USE DEF serverVars, resumeVars, stopVars, sharedVars, handleVars
<1>0. ASSUME UNCHANGED <<loop, current, to_resume>> PROVE Pending' = Pending
  BY <1>0 DEF Pending
<1>z. loop \notin Resuming => Pending = {} /\ to_resume = {}
  BY DEF Pending, PendingPairs, Resuming
<1>a. \A i \in Ids, s \in Streams : <<i, s>> \in Pending =>
         /\ i < next_id /\ InUse(s) /\ server[i] = NoStream /\ ~EndComing(i)
         /\ i \in Knows(s)
  BY PairFacts
<1>b. \A i, j \in Ids, s, t \in Streams :
         (<<i, s>> \in Pending /\ <<j, t>> \in Pending) => (i = j <=> s = t)
  BY PairFacts
<1>c. \A i, j \in Ids, s \in Streams : <<i, s>> \in Pending =>
         /\ resumable_streams[j] = s => j = i
         /\ resumable_streams[i] \in {s, NoStream}
  BY PairFacts
<1>d. \A i \in Ids, s, t \in Streams : <<i, s>> \in Pending =>
         (i \in Knows(t) => t = s)
  BY PairFacts
<1>e. ASSUME NEW i \in Ids, NEW s \in Streams, <<i, s>> \in Pending,
             NEW j \in Ids, j # i, EndEntry(j)
      PROVE  /\ resumable_streams'[i] = resumable_streams[i]
             /\ stopped_flag'[s] = stopped_flag[s]
             /\ effective_id' = effective_id
  BY <1>e, PairNotEnded
<1>1. CASE Reads
  <2>1. /\ down # <<>> /\ down' = Tail(down)
        /\ UNCHANGED <<loop, current, to_resume, server, disturbed>>
    BY <1>1, ReadCases
  <2>2. Pending' = Pending
    BY <1>0, <2>1
  <2>3. \A i \in Ids : EndComing(i)' => EndComing(i)
    BY <2>1, EndsOnTail
  <2>4. CASE loop \notin Resuming
    BY <1>z, <2>1, <2>4, NonePending
  <2>5. loop # "remapping"
    BY <1>1 DEF Reads, ReadArm, ResumeReadsOther
  <2>6. CASE ReadsEnd(Head(down))
    <3>1. Head(down).id \in Ids /\ EndComing(Head(down).id)
      BY <2>1, <2>6, HeadTyped, IdNotZero, EndsOnTail
         DEF ReadsEnd, DownTyped, TypeInv, ResumptionTypeOK
    <3>2. PairsKept
      <4> SUFFICES ASSUME NEW j \in Ids, NEW t \in Streams, <<j, t>> \in Pending'
                   PROVE  PairKept(j, t)
        BY DEF PairsKept
      <4>1. <<j, t>> \in Pending /\ j # Head(down).id
        BY <1>a, <2>2, <3>1
      <4>2. /\ resumable_streams'[j] = resumable_streams[j]
            /\ stopped_flag'[t] = stopped_flag[t]
            /\ effective_id' = effective_id
        BY <1>e, <2>6, <3>1, <4>1 DEF ReadsEnd
      <4> QED BY <2>1, <2>3, <2>5, <2>6, <4>1, <4>2 DEF PairKept, ReadsEnd
    <3> QED BY <2>1, <2>5, <3>2, PendingKept
  <2>7. ASSUME NEW s \in Streams,
               ReadsStarted(Head(down), s) \/ ReadsRefused(Head(down), s)
        PROVE  loop \notin Resuming
    BY <2>7 DEF ReadsStarted, ReadsRefused, OneAnswer, Resuming
  <2>8. ASSUME NEW s \in Streams, ReadsStopped(Head(down), s) PROVE PendingPairs'
    <3>1. PairsKept
      BY <2>1, <2>2, <2>3, <2>5, <2>8
         DEF PairsKept, PairKept, ReadsStopped, TypeInv, ResumptionTypeOK
    <3> QED BY <2>1, <2>5, <3>1, PendingKept
  <2>9. CASE ReadsForNobody(Head(down))
    <3>1. PairsKept
      BY <2>1, <2>2, <2>3, <2>5, <2>9 DEF PairsKept, PairKept, ReadsForNobody
    <3> QED BY <2>1, <2>5, <3>1, PendingKept
  <2> QED BY <1>1, ReadCases, <2>4, <2>6, <2>7, <2>8, <2>9
<1>2. CASE Disconnected \/ LoopEnds \/ EstablishFails \/ ResumeReturns
  <2>1. loop' \notin Resuming /\ to_resume' = {}
    BY <1>2, <1>z DEF Disconnected, LoopEnds, EstablishFails, ResumeReturns, Resuming
  <2> QED BY <2>1, NonePending
<1>3. CASE EstablishOk
  <2>1. /\ loop' = "resuming" /\ Pending' = Snapshot /\ server' = Nowhere /\ down' = <<>>
        /\ UNCHANGED <<resumable_streams, effective_id, stopped_flag, handle, disturbed>>
    BY <1>3 DEF EstablishOk, Pending
  <2>2. ASSUME NEW i \in Ids, NEW s \in Streams, <<i, s>> \in Pending'
        PROVE  PendingPair(i, s)'
    <3>1. resumable_streams[i] = s /\ s # NoStream
      BY <2>1, <2>2, StreamResumptionAssumption DEF Snapshot, StreamResumptionAssumption
    <3>2. effective_id[s] = i /\ (handle[s] = "open" => ~stopped_flag[s])
      BY <3>1 DEF EntryInv, EntryIsEffective
    <3>3. handle[s] = "closed" => disturbed[s]
      BY <3>1 DEF StopInv, StopOf, EntriesOf
    <3>4. ~EndComing(i)'
      BY <2>1, EndComesNext, EmptySeq
    <3> QED BY <2>1, <3>1, <3>2, <3>3, <3>4 DEF PendingPair, Nowhere
  <2> QED BY <2>1, <2>2 DEF PendingPairs, Resuming
<1>4. ASSUME NEW s \in Streams, NEW i \in Ids, ResumeSkip(i, s) \/ ResumeSendFails(i, s)
      PROVE  PendingPairs'
  <2>1. /\ loop = "resuming" /\ loop' = "resuming" /\ <<i, s>> \in Pending
        /\ Pending' = Pending \ {<<i, s>>}
        /\ EndEntry(i)
        /\ UNCHANGED <<server, down, handle, disturbed>>
    BY <1>4 DEF ResumeSkip, ResumeSendFails, Pending
  <2>2. PairsKept
    <3> SUFFICES ASSUME NEW j \in Ids, NEW t \in Streams, <<j, t>> \in Pending'
                 PROVE  PairKept(j, t)
      BY DEF PairsKept
    <3>1. <<j, t>> \in Pending /\ j # i
      BY <1>b, <2>1
    <3>2. /\ resumable_streams'[j] = resumable_streams[j]
          /\ stopped_flag'[t] = stopped_flag[t]
          /\ effective_id' = effective_id
      BY <1>e, <2>1, <3>1
    <3> QED BY <2>1, <3>1, <3>2 DEF PairKept, EndComing
  <2> QED BY <2>1, <2>2, PendingLeft
<1>5. ASSUME NEW s \in Streams, NEW i \in Ids, ResumeSend(i, s) PROVE PendingPairs'
  <2>1. /\ loop = "resuming" /\ loop' = "awaiting" /\ current' = <<i, s>>
        /\ Pending' = Pending
        /\ ServeStart(s) /\ to_resume' = to_resume \ {<<i, s>>}
        /\ UNCHANGED <<resumable_streams, effective_id, stopped_flag, handle, disturbed>>
    BY <1>5 DEF ResumeSend, Pending
  <2>2. next_id \in Nat
    BY Numbers
  <2>3. PairsKept
    <3> SUFFICES ASSUME NEW j \in Ids, NEW t \in Streams, <<j, t>> \in Pending'
                 PROVE  PairKept(j, t)
      BY DEF PairsKept
    <3>1. <<j, t>> \in Pending
      BY <2>1
    <3>2. j # next_id
      BY <1>a, <2>2, <3>1
    <3>3. server'[j] = server[j] /\ (EndComing(j)' => EndComing(j))
      BY <2>1, <3>2, StartServer, StartEnds
    <3> QED BY <2>1, <3>1, <3>3 DEF PairKept
  <2>4. \A j \in Ids, t \in Streams : <<j, t>> \in Pending' => PendingPair(j, t)'
    BY <2>3, PairStays DEF PairsKept
  <2> QED BY <2>1, <2>4 DEF PendingPairs, Resuming
<1>6. CASE ResumeRefused \/ ResumeUnwanted
  <2>1. /\ loop = "awaiting" /\ loop' = "resuming" /\ current \in Ids \X Streams
        /\ down # <<>> /\ down' = Tail(down)
        /\ EndEntry(current[1])
        /\ UNCHANGED <<server, handle, disturbed, to_resume>>
    BY <1>6 DEF ResumeRefused, ResumeUnwanted, NextStream, TypeInv
  <2>2. current \in Pending /\ Pending' = to_resume /\ to_resume \subseteq Pending
        /\ current \notin to_resume /\ current = <<current[1], current[2]>>
        /\ current[1] \in Ids /\ current[2] \in Streams
    BY <2>1 DEF Pending, PendingPairs
  <2>3. \A i \in Ids : EndComing(i)' => EndComing(i)
    BY <2>1, EndsOnTail
  <2>4. \A i \in Ids, s \in Streams : <<i, s>> \in to_resume => i # current[1]
    BY <1>b, <2>2
  <2>5. PairsKept
    <3> SUFFICES ASSUME NEW j \in Ids, NEW t \in Streams, <<j, t>> \in Pending'
                 PROVE  PairKept(j, t)
      BY DEF PairsKept
    <3>1. <<j, t>> \in Pending /\ j # current[1]
      BY <2>2, <2>4
    <3>2. /\ resumable_streams'[j] = resumable_streams[j]
          /\ stopped_flag'[t] = stopped_flag[t]
          /\ effective_id' = effective_id
      BY <1>e, <2>1, <2>2, <3>1
    <3> QED BY <2>1, <2>3, <3>1, <3>2 DEF PairKept
  <2> QED BY <2>1, <2>5, PendingLeft
<1>7. CASE ResumeAccepted
  <2> DEFINE s == resumable_streams[current[1]]
  <2>1. /\ loop = "awaiting" /\ loop' = "remapping" /\ current \in Ids \X Streams
        /\ down # <<>> /\ down' = Tail(down) /\ s # NoStream /\ ~stopped_flag[s]
        /\ current' = <<current[1], s>>
        /\ UNCHANGED <<server, handle, disturbed, to_resume, effective_id, stopped_flag>>
    BY <1>7 DEF ResumeAccepted, TypeInv
  <2>2. current \in Pending /\ current \notin to_resume
        /\ current = <<current[1], current[2]>>
        /\ current[1] \in Ids /\ current[2] \in Streams
    BY <2>1 DEF Pending, PendingPairs
  <2>3. s = current[2]
    BY <1>c, <2>1, <2>2
  <2>4. current' = current /\ Pending' = Pending
    BY <2>1, <2>2, <2>3 DEF Pending
  <2>5. \A i \in Ids : EndComing(i)' => EndComing(i)
    BY <2>1, EndsOnTail
  <2>6. \A i \in Ids : resumable_streams'[i] =
           IF i = current[1] THEN NoStream ELSE resumable_streams[i]
    BY <1>7, <2>2 DEF ResumeAccepted, TypeInv, ResumptionTypeOK
  <2>7. ASSUME NEW i \in Ids, NEW t \in Streams, <<i, t>> \in Pending'
        PROVE  PendingPair(i, t)'
    <3>1. CASE <<i, t>> = current
      <4>1. PendingPair(i, t)
        BY <2>4, <2>7 DEF PendingPairs
      <4>2. i = current[1] /\ t = current[2]
        BY <2>2, <3>1
      <4> QED BY <2>1, <2>3, <2>4, <2>5, <3>1, <4>1, <4>2 DEF PendingPair
    <3>2. CASE <<i, t>> # current
      <4>1. i # current[1] /\ <<i, t>> \in Pending
        BY <1>b, <2>2, <2>4, <2>7, <3>2
      <4>2. PairKept(i, t)
        BY <2>1, <2>4, <2>5, <2>6, <4>1 DEF PairKept
      <4> QED BY <4>2, PairStays
    <3> QED BY <3>1, <3>2
  <2>8. current'[2] \notin Range(resumable_streams')
    <3>1. \A i \in Ids : resumable_streams'[i] # current[2]
      BY <1>c, <2>2, <2>6, StreamResumptionAssumption DEF StreamResumptionAssumption
    <3> QED BY <2>4, <3>1 DEF Range, TypeInv, ResumptionTypeOK
  <2> QED BY <2>1, <2>2, <2>4, <2>7, <2>8 DEF PendingPairs, Resuming
<1>8. CASE Remap
  <2>1. /\ loop = "remapping" /\ loop' = "resuming" /\ current \in Ids \X Streams
        /\ new_id \in Ids
        /\ UNCHANGED <<server, down, handle, disturbed, to_resume, stopped_flag>>
        /\ effective_id' = [effective_id EXCEPT ![current[2]] = new_id]
        /\ resumable_streams' = [resumable_streams EXCEPT ![new_id] = current[2]]
    BY <1>8, StreamResumptionAssumption
       DEF Remap, NextStream, TypeInv, ResumptionTypeOK, Ids, StreamResumptionAssumption
  <2>2. current \in Pending /\ Pending' = to_resume /\ to_resume \subseteq Pending
        /\ current \notin to_resume /\ current = <<current[1], current[2]>>
        /\ current[1] \in Ids /\ current[2] \in Streams
    BY <2>1 DEF Pending, PendingPairs
  <2>3. ASSUME NEW i \in Ids, NEW s \in Streams, <<i, s>> \in Pending'
        PROVE  PairKept(i, s)
    <3>1. <<i, s>> \in Pending /\ s # current[2]
      BY <1>b, <2>2, <2>3
    <3>2. i # new_id
      BY <1>a, <3>1 DEF AnswersFresh, Known
    <3> QED BY <2>1, <2>2, <2>3, <3>1, <3>2
            DEF PairKept, EndComing, TypeInv, ResumptionTypeOK
  <2> QED BY <2>1, <2>3, PendingLeft DEF PairsKept
<1>9. CASE ResumeAborted
  <2>1. /\ loop = "awaiting" /\ loop' = "resuming"
        /\ Pending' \subseteq Pending
        /\ UNCHANGED <<server, down, handle, disturbed, stopped_flag, effective_id,
                       resumable_streams>>
    BY <1>9 DEF ResumeAborted, NextStream, Pending
  <2>2. PairsKept
    BY <2>1 DEF PairsKept, PairKept, EndComing
  <2> QED BY <2>1, <2>2, PendingLeft
<1>10. CASE SessionDies
  <2>1. /\ UNCHANGED <<loop, current, to_resume, server, handle, stopped_flag,
                       effective_id, resumable_streams>>
        /\ \A s \in Streams : disturbed[s] => disturbed'[s]
    BY <1>10 DEF SessionDies
  <2>2. \A i \in Ids : EndComing(i)' => EndComing(i)
    BY <1>10, EndsOnPrefix DEF SessionDies
  <2>3. PairsKept
    BY <1>0, <2>1, <2>2 DEF PairsKept, PairKept
  <2> QED BY <2>1, <2>3, PendingKept
<1>11. ASSUME NEW s \in Streams, Register(s) PROVE PendingPairs'
  <2>1. /\ UNCHANGED <<loop, current, to_resume, server, down, stopped_flag,
                       effective_id, disturbed>>
        /\ handle[s] = "answered" /\ loop # "remapping"
        /\ \A t \in Streams : t # s => handle'[t] = handle[t]
        /\ resumable_streams' = [resumable_streams EXCEPT ![stream_id[s]] = s]
        /\ stream_id[s] \in Ids
    BY <1>11, OpenIds DEF Register, LockFree, TypeInv, ResumptionTypeOK
  <2>2. stream_id[s] \in Knows(s)
    BY <2>1, StreamResumptionAssumption DEF Knows, StreamResumptionAssumption, Ids
  <2>3. PairsKept
    <3> SUFFICES ASSUME NEW j \in Ids, NEW t \in Streams, <<j, t>> \in Pending'
                 PROVE  PairKept(j, t)
      BY DEF PairsKept
    <3>1. <<j, t>> \in Pending
      BY <1>0, <2>1
    <3>2. t # s
      BY <1>a, <2>1, <3>1 DEF InUse, NotYetOpen
    <3>3. j # stream_id[s]
      BY <1>d, <2>2, <3>1, <3>2
    <3> QED BY <2>1, <3>1, <3>2, <3>3 DEF PairKept, EndComing, TypeInv, ResumptionTypeOK
  <2> QED BY <2>1, <2>3, PendingKept
<1>12. ASSUME NEW s \in Streams,
              StopFlag(s) \/ LoadFirst(s) \/ LoadSecond(s) \/ StopSendFails(s)
       PROVE  PendingPairs'
  <2>1. /\ UNCHANGED <<loop, current, to_resume, server, down, effective_id,
                       resumable_streams>>
        /\ \A t \in Streams : t # s => handle'[t] = handle[t]
              /\ stopped_flag'[t] = stopped_flag[t] /\ disturbed'[t] = disturbed[t]
        /\ handle'[s] \notin {"open", "closed"}
    BY <1>12 DEF StopFlag, LoadFirst, LoadSecond, StopSendFails, TypeInv, ResumptionTypeOK
  <2>2. PairsKept
    BY <1>0, <2>1 DEF PairsKept, PairKept, EndComing
  <2> QED BY <2>1, <2>2, PendingKept
<1>13. ASSUME NEW s \in Streams, RequestStart(s) \/ StopSend(s) PROVE PendingPairs'
  BY <1>13, <1>z, NonePending DEF RequestStart, StopSend, Resuming
<1>14. ASSUME NEW s \in Streams, Unregister(s) PROVE PendingPairs'
  <2>1. /\ UNCHANGED <<loop, current, to_resume, server, down, effective_id,
                       stopped_flag, disturbed>>
        /\ \A t \in Streams : t # s => handle'[t] = handle[t]
        /\ handle'[s] = "stopping" /\ loop # "remapping"
        /\ \A i \in Ids : i # Head(ids[s]) =>
              resumable_streams'[i] = resumable_streams[i]
    BY <1>14 DEF Unregister, LockFree, TypeInv, ResumptionTypeOK
  <2>2. Head(ids[s]) \in Ids /\ Head(ids[s]) \in Range(ids[s])
    BY <1>14, TailTyped DEF Unregister, TypeInv, ResumptionTypeOK, HandleFields
  <2>3. Head(ids[s]) \in Knows(s)
    BY <2>2, StreamResumptionAssumption DEF Knows, StreamResumptionAssumption, Ids
  <2>4. PairsKept
    <3> SUFFICES ASSUME NEW j \in Ids, NEW t \in Streams, <<j, t>> \in Pending'
                 PROVE  PairKept(j, t)
      BY DEF PairsKept
    <3>1. <<j, t>> \in Pending
      BY <1>0, <2>1
    <3>2. t # s => j # Head(ids[s])
      BY <1>d, <2>3, <3>1
    <3> QED BY <2>1, <3>1, <3>2 DEF PairKept, EndComing
  <2> QED BY <2>1, <2>4, PendingKept
<1>15. ASSUME NEW s \in Streams, StopReleases(s) PROVE PendingPairs'
  <2>1. /\ UNCHANGED <<loop, current, to_resume, server, down, effective_id,
                       stopped_flag, disturbed, resumable_streams>>
        /\ \A t \in Streams : t # s => handle'[t] = handle[t]
        /\ handle'[s] = "closed" /\ handle[s] = "stopping"
    BY <1>15 DEF StopReleases, TypeInv, ResumptionTypeOK
  <2>2. Pending # {} => disturbed[s]
    BY <1>z, <2>1 DEF StopInv, StopOf, Stopping, Resuming
  <2>3. PairsKept
    BY <1>0, <2>1, <2>2 DEF PairsKept, PairKept, EndComing
  <2> QED BY <2>1, <2>3, PendingKept
<1>16. ASSUME NEW k \in Ids, ServerEnds(k) PROVE PendingPairs'
  <2>1. /\ UNCHANGED <<loop, current, to_resume, handle, effective_id,
                       stopped_flag, disturbed, resumable_streams>>
        /\ server[k] # NoStream
        /\ \A i \in Ids : i # k => server'[i] = server[i]
    BY <1>16 DEF ServerEnds, TypeInv, ResumptionTypeOK
  <2>2. PairsKept
    <3> SUFFICES ASSUME NEW j \in Ids, NEW t \in Streams, <<j, t>> \in Pending'
                 PROVE  PairKept(j, t)
      BY DEF PairsKept
    <3>1. <<j, t>> \in Pending
      BY <1>0, <2>1
    <3>2. j # k
      BY <1>a, <2>1, <3>1
    <3>3. EndComing(j)' => EndComing(j)
      BY <1>16, <3>2, ServerEndsEnds
    <3> QED BY <2>1, <3>1, <3>2, <3>3 DEF PairKept
  <2> QED BY <2>1, <2>2, PendingKept
<1>17. CASE UNCHANGED vars
  <2>1. PairsKept
    BY <1>0, <1>17 DEF PairsKept, PairKept, EndComing, vars
  <2> QED BY <1>17, <2>1, PendingKept DEF vars
<1>18. CASE StartStep
  BY <1>11, <1>13, <1>18 DEF StartStep
<1>19. CASE TaskStep
  BY <1>1, <1>2, <1>3, <1>4, <1>5, <1>6, <1>7, <1>8, <1>9, <1>19
     DEF TaskStep, ResumeStep, Reads
<1>20. CASE StopStep
  BY <1>12, <1>13, <1>14, <1>15, <1>20 DEF StopStep
<1>21. CASE ServerStep
  BY <1>10, <1>16, <1>21 DEF ServerStep
<1> QED BY <1>17, <1>18, <1>19, <1>20, <1>21 DEF Next

-----------------------------------------------------------------------------
(* The streams the server runs. *)

\* No answer is lost that somebody waits for.
StartedKept ==
    \A p \in 1..Len(down) :
        ( /\ down[p].kind = "started"
          /\ handle[down[p].who] = "requesting" \/ loop = "awaiting" ) =>
        \E q \in 1..Len(down') : down'[q] = down[p]

\* Steps that leave the waiting to those who wait.
ServedKept(s) ==
    /\ handle'[s] \in {"idle", "requesting", "answered", "open"} =>
          handle'[s] = handle[s] /\ effective_id'[s] = effective_id[s]
    /\ session' = "up" =>
          /\ session = "up"
          /\ StartedKept
          /\ loop \in {"awaiting", "remapping"} => UNCHANGED <<loop, current, new_id>>

LEMMA ServedStays ==
    ASSUME TypeInv, ServerIdIsKnown, NEW i \in Ids,
           server'[i] \in {server[i], NoStream},
           server[i] # NoStream => ServedKept(server[i])
    PROVE  ServedKnown(i)'
<1>1. CASE server'[i] = NoStream
  BY <1>1 DEF ServedKnown
<1>2. CASE server'[i] # NoStream
  <2> DEFINE s == server[i]
  <2>1. s # NoStream /\ server'[i] = s /\ ServedKnown(i) /\ ServedKept(s)
    BY <1>2 DEF ServerIdIsKnown
  <2>2. handle'[s] # "idle"
    BY <2>1 DEF ServedKnown, ServedKept
  <2>3. ASSUME session' = "up", handle'[s] = "requesting"
        PROVE  \E p \in 1..Len(down') : Started(p, i)' /\ down'[p].who = s
    <3>1. PICK p \in 1..Len(down) : Started(p, i) /\ down[p].who = s
      BY <2>1, <2>3 DEF ServedKnown, ServedKept
    <3>2. handle[down[p].who] = "requesting"
      BY <2>1, <2>3, <3>1 DEF ServedKept
    <3>3. PICK q \in 1..Len(down') : down'[q] = down[p]
      BY <2>1, <2>3, <3>1, <3>2 DEF ServedKept, StartedKept, Started
    <3> QED BY <3>1, <3>3 DEF Started
  <2>4. ASSUME session' = "up", handle'[s] = "answered" PROVE effective_id'[s] = i
    BY <2>1, <2>4 DEF ServedKnown, ServedKept
  <2>5. ASSUME session' = "up", handle'[s] = "open", effective_id'[s] # i
        PROVE  \/ /\ loop' = "awaiting" /\ current'[2] = s
                  /\ \E p \in 1..Len(down') : Started(p, i)' /\ down'[p].who = s
               \/ loop' = "remapping" /\ current'[2] = s /\ new_id' = i
    <3>1. CASE loop = "remapping" /\ current[2] = s /\ new_id = i
      BY <2>1, <2>5, <3>1 DEF ServedKept
    <3>2. CASE /\ loop = "awaiting" /\ current[2] = s
               /\ \E p \in 1..Len(down) : Started(p, i) /\ down[p].who = s
      <4>1. PICK p \in 1..Len(down) : Started(p, i) /\ down[p].who = s
        BY <3>2
      <4>2. PICK q \in 1..Len(down') : down'[q] = down[p]
        BY <2>1, <2>5, <3>2, <4>1 DEF ServedKept, StartedKept, Started
      <4>3. UNCHANGED <<loop, current>>
        BY <2>1, <2>5, <3>2 DEF ServedKept
      <4> QED BY <3>2, <4>1, <4>2, <4>3 DEF Started
    <3> QED BY <2>1, <2>5, <3>1, <3>2 DEF ServedKnown, ServedKept
  <2> QED BY <2>1, <2>2, <2>3, <2>4, <2>5 DEF ServedKnown
<1> QED BY <1>1, <1>2

LEMMA StartedAppended ==
    ASSUME TypeInv, NEW m \in Messages, down' = Append(down, m)
    PROVE  StartedKept
BY AppendedDown DEF StartedKept

LEMMA StartedSame == ASSUME UNCHANGED down PROVE StartedKept
BY DEF StartedKept

LEMMA StartedServed ==
    ASSUME TypeInv, NEW s \in Streams, ServeStart(s)
    PROVE  /\ StartedKept
           /\ \A i \in Ids : server'[i] # server[i] =>
                 /\ server'[i] = s /\ session = "up"
                 /\ \E p \in 1..Len(down') : Started(p, i)' /\ down'[p].who = s
<1>1. next_id <= MaxId => next_id \in Ids
  BY StreamResumptionAssumption
     DEF StreamResumptionAssumption, TypeInv, ResumptionTypeOK, Ids
<1>2. \A i \in Ids : server'[i] # server[i] =>
         /\ i = next_id /\ server'[i] = s /\ session = "up"
         /\ next_id <= MaxId
         /\ down' = Append(down, Message("started", s, next_id))
  BY DEF ServeStart, TypeInv, ResumptionTypeOK
<1>3. /\ Message("refused", s, 0) \in Messages
      /\ next_id <= MaxId => Message("started", s, next_id) \in Messages
  BY <1>1, MessageTypes, StreamResumptionAssumption
     DEF StreamResumptionAssumption, Ids
<1>4. StartedKept
  BY <1>3, StartedAppended, StartedSame DEF ServeStart
<1>5. ASSUME NEW i \in Ids, server'[i] # server[i]
      PROVE  \E p \in 1..Len(down') : Started(p, i)' /\ down'[p].who = s
  <2>1. /\ down'[Len(down')] = Message("started", s, next_id)
        /\ Len(down') \in 1..Len(down')
    BY <1>2, <1>3, <1>5, AppendedDown
  <2> QED BY <1>2, <1>5, <2>1 DEF Started, Message
<1> QED BY <1>2, <1>4, <1>5

LEMMA ServedStep ==
    ASSUME TypeInv, TypeInv', IdsOwned, OneAnswer, EntryInv, PendingPairs,
           ServerIdIsKnown, [Next]_vars
    PROVE  ServerIdIsKnown'
<1> USE DEF serverVars, resumeVars, stopVars, sharedVars, handleVars
<1>a. \A i \in Ids : server[i] \in Streams \cup {NoStream}
  BY DEF TypeInv, ResumptionTypeOK
<1>b. \A s \in Streams : s # NoStream
  BY StreamResumptionAssumption DEF StreamResumptionAssumption
<1>c. ASSUME \A i \in Ids : server'[i] \in {server[i], NoStream},
             \A s \in Streams : ServedKept(s)
      PROVE  ServerIdIsKnown'
  BY <1>a, <1>c, ServedStays DEF ServerIdIsKnown
<1>d. \A p \in 1..Len(down) : IsAnswer(down[p]) => down[p].who \in Streams
  BY Numbers DEF TypeInv, MessageFields, Messages, IsAnswer
<1>1. ASSUME Reads PROVE ServerIdIsKnown'
  <2>1. /\ down # <<>> /\ down' = Tail(down) /\ server' = server
        /\ UNCHANGED <<loop, current, new_id, session>>
    BY <1>1, ReadCases
  <2>2. /\ Len(down) \in Nat \ {0}
        /\ \A p \in 1..Len(down') : p + 1 \in 1..Len(down) /\ down'[p] = down[p + 1]
        /\ 1 \in 1..Len(down) /\ Head(down) = down[1]
        /\ Len(down') = Len(down) - 1
    BY <2>1, TailIsOld
  <2>3. \A p \in 1..Len(down) : p # 1 =>
           p - 1 \in 1..Len(down') /\ down'[p - 1] = down[p]
    BY <2>2
  <2>4. loop = "awaiting" => ~IsAnswer(Head(down))
    BY <1>1, <2>2 DEF Reads, ReadArm, ResumeReadsOther, OneAnswer, Resuming, OwnAnswer,
                      IsAnswer
  <2>5. ASSUME Head(down).kind = "started" => handle[Head(down).who] # "requesting"
        PROVE  StartedKept
    BY <2>2, <2>3, <2>4, <2>5 DEF StartedKept, IsAnswer
  <2>6. CASE ReadsEnd(Head(down)) \/ ReadsForNobody(Head(down))
    <3>1. StartedKept /\ UNCHANGED <<handle, effective_id>>
      BY <2>5, <2>6 DEF ReadsEnd, ReadsForNobody, EndEntry
    <3>2. \A s \in Streams : ServedKept(s)
      BY <2>1, <3>1 DEF ServedKept
    <3> QED BY <1>c, <2>1, <3>2
  <2>7. ASSUME NEW s \in Streams,
               ReadsRefused(Head(down), s) \/ ReadsStopped(Head(down), s)
        PROVE  ServerIdIsKnown'
    <3>1. /\ \A t \in Streams : t # s => handle'[t] = handle[t]
          /\ handle'[s] \in {"failed", "unregistering"} /\ UNCHANGED effective_id
          /\ Head(down).kind # "started"
      BY <2>7 DEF ReadsRefused, StartRefused, ReadsStopped, TypeInv, ResumptionTypeOK
    <3>2. StartedKept
      BY <2>5, <3>1
    <3>3. \A t \in Streams : ServedKept(t)
      BY <2>1, <3>1, <3>2 DEF ServedKept
    <3> QED BY <1>c, <2>1, <3>3
  <2>8. ASSUME NEW s \in Streams, ReadsStarted(Head(down), s) PROVE ServerIdIsKnown'
    <3>1. /\ \A t \in Streams : t # s =>
                handle'[t] = handle[t] /\ effective_id'[t] = effective_id[t]
          /\ handle[s] = "requesting" /\ handle'[s] = "answered"
          /\ effective_id'[s] = Head(down).id
          /\ Head(down).kind = "started" /\ Head(down).who = s
      BY <2>8 DEF ReadsStarted, StartAnswered, TypeInv, ResumptionTypeOK
    <3>2. loop = "running"
      BY <3>1 DEF OneAnswer
    <3>3. ASSUME NEW i \in Ids, server[i] # NoStream, server[i] # s
          PROVE  ServedKnown(i)'
      <4> DEFINE t == server[i]
      <4>1. t \in Streams /\ t # s /\ ServedKnown(i) /\ server'[i] = t
        BY <1>a, <2>1, <3>3 DEF ServerIdIsKnown
      <4>2. ASSUME session = "up", handle[t] = "requesting"
            PROVE  \E p \in 1..Len(down') : Started(p, i)' /\ down'[p].who = t
        <5>1. PICK p \in 1..Len(down) : Started(p, i) /\ down[p].who = t
          BY <3>3, <4>1, <4>2 DEF ServedKnown
        <5>2. p # 1
          BY <2>2, <3>1, <4>1, <5>1
        <5> QED BY <2>3, <5>1, <5>2 DEF Started
      <4> QED BY <2>1, <3>1, <3>2, <3>3, <4>1, <4>2 DEF ServedKnown
    <3>4. ASSUME NEW i \in Ids, server[i] = s PROVE ServedKnown(i)'
      <4>1. ASSUME session = "up" PROVE Head(down).id = i
        <5>1. PICK p \in 1..Len(down) : Started(p, i) /\ down[p].who = s
          BY <1>b, <3>1, <3>4, <4>1 DEF ServerIdIsKnown, ServedKnown
        <5>2. p = 1
          BY <2>2, <3>1, <5>1 DEF OneAnswer, IsAnswer, Started
        <5> QED BY <2>2, <5>1, <5>2 DEF Started
      <4> QED BY <2>1, <3>1, <3>4, <4>1 DEF ServedKnown
    <3>5. \A i \in Ids : server[i] = NoStream => ServedKnown(i)'
      BY <2>1 DEF ServedKnown
    <3> QED BY <3>3, <3>4, <3>5 DEF ServerIdIsKnown
  <2> QED BY <1>1, ReadCases, <2>6, <2>7, <2>8
<1>2. CASE Disconnected
  <2>1. /\ loop = "running" /\ UNCHANGED <<server, down, session, effective_id>>
        /\ \A s \in Streams : handle'[s] \in {handle[s], "failed", "unregistering"}
    BY <1>2, DisconnectedHandles DEF Disconnected
  <2>2. \A s \in Streams : ServedKept(s)
    BY <2>1, StartedSame DEF ServedKept
  <2> QED BY <1>c, <2>1, <2>2
<1>3. CASE LoopEnds \/ EstablishFails \/ ResumeReturns \/ UNCHANGED vars
  <2>1. /\ UNCHANGED <<server, down, session, effective_id, handle>>
        /\ loop \in {"reconnecting", "resuming"} \/ UNCHANGED <<loop, current, new_id>>
    BY <1>3 DEF LoopEnds, EstablishFails, ResumeReturns, vars
  <2>2. \A s \in Streams : ServedKept(s)
    BY <2>1, StartedSame DEF ServedKept
  <2> QED BY <1>c, <2>1, <2>2
<1>4. CASE EstablishOk
  BY <1>4 DEF EstablishOk, Nowhere, ServerIdIsKnown, ServedKnown
<1>5. ASSUME NEW s \in Streams, NEW i \in Ids, ResumeSkip(i, s) \/ ResumeSendFails(i, s)
      PROVE  ServerIdIsKnown'
  <2>1. UNCHANGED <<server, down, session, effective_id, handle, loop, current, new_id>>
    BY <1>5 DEF ResumeSkip, ResumeSendFails, EndEntry
  <2>2. \A t \in Streams : ServedKept(t)
    BY <2>1, StartedSame DEF ServedKept
  <2> QED BY <1>c, <2>1, <2>2
<1>6. ASSUME NEW s \in Streams, NEW i \in Ids, ResumeSend(i, s) PROVE ServerIdIsKnown'
  <2>1. /\ ServeStart(s) /\ UNCHANGED <<session, effective_id, handle>>
        /\ loop = "resuming" /\ loop' = "awaiting" /\ current'[2] = s
        /\ InUse(s)
    BY <1>6 DEF ResumeSend, ServeStart, TypeInv, TableFields
  <2>2. \A t \in Streams : ServedKept(t)
    BY <2>1, StartedServed DEF ServedKept
  <2>3. \A j \in Ids : server'[j] = server[j] => ServedKnown(j)'
    BY <1>a, <2>2, ServedStays
  <2>4. ASSUME NEW j \in Ids, server'[j] # server[j] PROVE ServedKnown(j)'
    <3>1. server'[j] = s /\ \E p \in 1..Len(down') : Started(p, j)' /\ down'[p].who = s
      BY <2>1, <2>4, StartedServed
    <3> QED BY <2>1, <3>1 DEF ServedKnown, InUse, NotYetOpen
  <2> QED BY <2>3, <2>4 DEF ServerIdIsKnown
<1>7. ASSUME ResumeRefused \/ ResumeUnwanted \/ ResumeAccepted PROVE ServerIdIsKnown'
  <2> DEFINE t == current[2]
  <2>1. /\ down # <<>> /\ down' = Tail(down) /\ loop = "awaiting"
        /\ UNCHANGED <<session, server, handle, effective_id>>
        /\ IsAnswer(Head(down)) /\ Head(down).who = t
        /\ current \in Ids \X Streams
    BY <1>7 DEF ResumeRefused, ResumeUnwanted, ResumeAccepted, OwnAnswer, IsAnswer,
                EndEntry, TypeInv
  <2>2. 1 \in 1..Len(down) /\ Head(down) = down[1]
    BY <2>1, TailIsOld
  <2>3. \A s \in Streams : handle[s] # "requesting"
    BY <2>1 DEF OneAnswer
  <2>4. current \in Pending /\ current = <<current[1], t>> /\ current[1] \in Ids
        /\ t \in Streams
    BY <2>1 DEF Pending
  <2>5. ASSUME NEW i \in Ids, server[i] # NoStream PROVE ServedKnown(i)'
    <3> DEFINE s == server[i]
    <3>1. s \in Streams /\ ServedKnown(i) /\ server'[i] = s
      BY <1>a, <2>1, <2>5 DEF ServerIdIsKnown
    <3>2. ASSUME session = "up", handle[s] = "open", effective_id[s] # i
          PROVE  loop' = "remapping" /\ current'[2] = s /\ new_id' = i
      <4>1. PICK p \in 1..Len(down) : Started(p, i) /\ down[p].who = s
        BY <2>1, <2>5, <3>1, <3>2 DEF ServedKnown
      <4>2. s = t
        BY <2>1, <2>5, <3>1, <3>2 DEF ServedKnown
      <4>3. p = 1
        BY <2>1, <2>2, <4>1, <4>2 DEF OneAnswer, IsAnswer, Started
      <4>4. Head(down).id = i /\ Head(down).kind = "started"
        BY <2>2, <4>1, <4>3 DEF Started
      <4>5. PendingPair(current[1], t)
        BY <2>4 DEF PendingPairs
      <4>6. resumable_streams[current[1]] = t /\ ~stopped_flag[t]
        BY <2>1, <3>2, <4>2, <4>5 DEF PendingPair
      <4> QED BY <1>7, <1>b, <2>4, <4>2, <4>4, <4>6
              DEF ResumeRefused, ResumeUnwanted, ResumeAccepted
    <3> QED BY <2>1, <2>3, <2>5, <3>1, <3>2 DEF ServedKnown
  <2>6. \A i \in Ids : server[i] = NoStream => ServedKnown(i)'
    BY <2>1 DEF ServedKnown
  <2> QED BY <2>5, <2>6 DEF ServerIdIsKnown
<1>8. CASE Remap
  <2> DEFINE t == current[2]
  <2>1. /\ UNCHANGED <<session, server, handle, down>>
        /\ loop = "remapping" /\ current \in Ids \X Streams
        /\ \A s \in Streams : effective_id'[s] = IF s = t THEN new_id ELSE effective_id[s]
        /\ InUse(t) /\ t \in Streams
    BY <1>8, <1>b DEF Remap, TypeInv, ResumptionTypeOK, TableFields
  <2>2. current \in Pending /\ current = <<current[1], t>> /\ current[1] \in Ids
    BY <2>1 DEF Pending
  <2>3. effective_id[t] = current[1] /\ server[current[1]] = NoStream
    BY <2>1, <2>2 DEF PendingPairs, PendingPair
  <2>4. \A s \in Streams : handle[s] # "requesting"
    BY <2>1 DEF OneAnswer
  <2>5. ASSUME NEW i \in Ids, server[i] # NoStream PROVE ServedKnown(i)'
    <3> DEFINE s == server[i]
    <3>1. s \in Streams /\ ServedKnown(i) /\ server'[i] = s
      BY <1>a, <2>1, <2>5 DEF ServerIdIsKnown
    <3>2. s = t => effective_id[s] # i
      BY <2>3, <2>5
    <3> QED BY <2>1, <2>4, <2>5, <3>1, <3>2 DEF ServedKnown, InUse, NotYetOpen
  <2>6. \A i \in Ids : server[i] = NoStream => ServedKnown(i)'
    BY <2>1 DEF ServedKnown
  <2> QED BY <2>5, <2>6 DEF ServerIdIsKnown
<1>9. CASE ResumeAborted \/ SessionDies
  <2>1. session' # "up" /\ UNCHANGED <<server, handle>>
    BY <1>9 DEF ResumeAborted, SessionDies
  <2> QED BY <2>1 DEF ServerIdIsKnown, ServedKnown
<1>10. ASSUME NEW s \in Streams, Register(s) PROVE ServerIdIsKnown'
  <2>1. /\ UNCHANGED <<session, server, down, effective_id, loop, current, new_id>>
        /\ handle[s] = "answered" /\ handle'[s] = "open"
        /\ \A t \in Streams : t # s => handle'[t] = handle[t]
    BY <1>10 DEF Register, TypeInv, ResumptionTypeOK
  <2>2. \A t \in Streams : t # s => ServedKept(t)
    BY <2>1, StartedSame DEF ServedKept
  <2>3. \A i \in Ids : server[i] # s => ServedKnown(i)'
    BY <1>a, <2>1, <2>2, ServedStays
  <2>4. \A i \in Ids : server[i] = s => ServedKnown(i)'
    BY <2>1 DEF ServerIdIsKnown, ServedKnown
  <2> QED BY <2>3, <2>4 DEF ServerIdIsKnown
<1>11. ASSUME NEW s \in Streams,
              \/ StopFlag(s) \/ LoadFirst(s) \/ LoadSecond(s) \/ StopSendFails(s)
              \/ Unregister(s) \/ StopReleases(s)
       PROVE  ServerIdIsKnown'
  <2>1. /\ UNCHANGED <<session, server, down, effective_id, loop, current, new_id>>
        /\ handle'[s] \notin {"idle", "requesting", "answered", "open"}
        /\ \A t \in Streams : t # s => handle'[t] = handle[t]
    BY <1>11 DEF StopFlag, LoadFirst, LoadSecond, StopSendFails, Unregister, StopReleases,
                 TypeInv, ResumptionTypeOK
  <2>2. \A t \in Streams : ServedKept(t)
    BY <2>1, StartedSame DEF ServedKept
  <2> QED BY <1>c, <2>1, <2>2
<1>12. ASSUME NEW s \in Streams, StopSend(s) PROVE ServerIdIsKnown'
  <2>1. /\ UNCHANGED <<session, effective_id, loop, current, new_id>>
        /\ handle'[s] = "awaiting"
        /\ \A t \in Streams : t # s => handle'[t] = handle[t]
        /\ ServeStop(s, Head(ids[s]))
    BY <1>12 DEF StopSend, ServeStop, TypeInv, ResumptionTypeOK
  <2>2. Message("stopped", s, Head(ids[s])) \in Messages
    BY <1>12, TailTyped, MessageTypes DEF StopSend, TypeInv, ResumptionTypeOK
  <2>3. StartedKept
    BY <2>1, <2>2, StartedAppended, StartedSame DEF ServeStop
  <2>4. \A i \in Ids : server'[i] \in {server[i], NoStream}
    BY <2>1 DEF ServeStop, TypeInv, ResumptionTypeOK
  <2>5. \A t \in Streams : ServedKept(t)
    BY <2>1, <2>3 DEF ServedKept
  <2> QED BY <1>c, <2>4, <2>5
<1>13. ASSUME NEW s \in Streams, RequestStart(s) PROVE ServerIdIsKnown'
  <2>1. /\ UNCHANGED <<session, effective_id, loop, current, new_id>>
        /\ handle[s] = "idle" /\ handle'[s] = "requesting"
        /\ \A t \in Streams : t # s => handle'[t] = handle[t]
        /\ ServeStart(s)
    BY <1>13 DEF RequestStart, ServeStart, TypeInv, ResumptionTypeOK
  <2>2. \A t \in Streams : t # s => ServedKept(t)
    BY <2>1, StartedServed DEF ServedKept
  <2>3. \A i \in Ids : server[i] # s
    BY <1>b, <2>1 DEF ServerIdIsKnown, ServedKnown
  <2>4. \A i \in Ids : server'[i] = server[i] => ServedKnown(i)'
    BY <1>a, <2>2, <2>3, ServedStays
  <2>5. ASSUME NEW i \in Ids, server'[i] # server[i] PROVE ServedKnown(i)'
    <3>1. server'[i] = s /\ \E p \in 1..Len(down') : Started(p, i)' /\ down'[p].who = s
      BY <2>1, <2>5, StartedServed
    <3> QED BY <2>1, <3>1 DEF ServedKnown
  <2> QED BY <2>4, <2>5 DEF ServerIdIsKnown
<1>14. ASSUME NEW i \in Ids, ServerEnds(i) PROVE ServerIdIsKnown'
  <2>1. UNCHANGED <<session, effective_id, loop, current, new_id, handle>>
        /\ down' = Append(down, Message("end", NoStream, i))
    BY <1>14 DEF ServerEnds
  <2>2. Message("end", NoStream, i) \in Messages
    BY <1>14, <1>a, MessageTypes DEF ServerEnds
  <2>3. \A j \in Ids : server'[j] \in {server[j], NoStream}
    BY <1>14 DEF ServerEnds, TypeInv, ResumptionTypeOK
  <2>4. \A t \in Streams : ServedKept(t)
    BY <2>1, <2>2, StartedAppended DEF ServedKept
  <2> QED BY <1>c, <2>3, <2>4
<1>15. CASE StartStep
  BY <1>10, <1>13, <1>15 DEF StartStep
<1>16. CASE TaskStep
  BY <1>1, <1>2, <1>3, <1>4, <1>5, <1>6, <1>7, <1>8, <1>9, <1>16
     DEF TaskStep, ResumeStep, Reads
<1>17. CASE StopStep
  BY <1>11, <1>12, <1>17 DEF StopStep
<1>18. CASE ServerStep
  BY <1>9, <1>14, <1>18 DEF ServerStep
<1> QED BY <1>3, <1>15, <1>16, <1>17, <1>18 DEF Next

-----------------------------------------------------------------------------
(* Streams that run, or whose end is under way. *)

LEMMA LiveOnTail ==
    ASSUME TypeInv, down # <<>>, down' = Tail(down), server' = server, LiveAnswers
    PROVE  LiveAnswers'
<1>1. /\ Len(down) \in Nat \ {0} /\ Len(down') = Len(down) - 1
      /\ \A p \in 1..Len(down') : p + 1 \in 1..Len(down) /\ down'[p] = down[p + 1]
  BY TailIsOld
<1>2. ASSUME NEW p \in 1..Len(down'), NEW i, EndsAfter(p + 1, i) PROVE EndsAfter(p, i)'
  <2>1. PICK q \in (p + 2)..Len(down) : down[q].kind = "end" /\ down[q].id = i
    BY <1>1, <1>2 DEF EndsAfter
  <2>2. q - 1 \in (p + 1)..Len(down') /\ down'[q - 1] = down[q]
    BY <1>1
  <2> QED BY <2>1, <2>2 DEF EndsAfter
<1>3. ASSUME NEW p \in 1..Len(down'), down'[p].kind = "started"
      PROVE  server[down'[p].id] = down'[p].who \/ EndsAfter(p + 1, down'[p].id)
  BY <1>1, <1>3 DEF LiveAnswers
<1> QED BY <1>2, <1>3 DEF LiveAnswers

LEMMA LiveOnAppend ==
    ASSUME TypeInv, NEW m \in Messages, down' = Append(down, m), LiveAnswers,
           m.kind = "started" => server'[m.id] = m.who,
           \A p \in 1..Len(down) : down[p].kind = "started" =>
              \/ server'[down[p].id] = server[down[p].id]
              \/ m.kind = "end" /\ m.id = down[p].id
    PROVE  LiveAnswers'
<1>1. /\ Len(down) \in Nat /\ Len(down') = Len(down) + 1
      /\ \A p \in 1..Len(down) : down'[p] = down[p]
      /\ \A p \in 1..Len(down') : p \in 1..Len(down) \/ p = Len(down')
      /\ down'[Len(down')] = m
  BY AppendedDown
<1>2. ASSUME NEW p \in 1..Len(down), NEW i, EndsAfter(p, i) PROVE EndsAfter(p, i)'
  <2>1. PICK q \in (p + 1)..Len(down) : down[q].kind = "end" /\ down[q].id = i
    BY <1>2 DEF EndsAfter
  <2>2. q \in (p + 1)..Len(down') /\ down'[q] = down[q]
    BY <1>1
  <2> QED BY <2>1, <2>2 DEF EndsAfter
<1>3. ASSUME NEW p \in 1..Len(down), m.kind = "end" PROVE EndsAfter(p, m.id)'
  <2>1. Len(down') \in (p + 1)..Len(down')
    BY <1>1
  <2> QED BY <1>1, <1>3, <2>1 DEF EndsAfter
<1>4. ASSUME NEW p \in 1..Len(down), down[p].kind = "started", NEW i, i = down[p].id
      PROVE  server'[i] = down[p].who \/ EndsAfter(p, i)'
  BY <1>2, <1>3, <1>4 DEF LiveAnswers
<1> QED BY <1>1, <1>4 DEF LiveAnswers

LEMMA LiveSame ==
    ASSUME UNCHANGED <<down, server>>, LiveAnswers
    PROVE  LiveAnswers'
BY DEF LiveAnswers, EndsAfter

LEMMA LiveStarted ==
    ASSUME TypeInv, IdsOwned, NEW s \in Streams, ServeStart(s), LiveAnswers
    PROVE  LiveAnswers'
<1>1. next_id <= MaxId => next_id \in Ids
  BY StreamResumptionAssumption
     DEF StreamResumptionAssumption, TypeInv, ResumptionTypeOK, Ids
<1>2. \A p \in 1..Len(down) : down[p].id < next_id /\ down[p].id # next_id
  BY Numbers DEF IdsOwned
<1>3. \A p \in 1..Len(down) : down[p].kind = "started" => down[p].id \in Ids
  BY Numbers, IdNotZero DEF TypeInv
<1>4. CASE /\ next_id <= MaxId
           /\ server' = [server EXCEPT ![next_id] = s]
           /\ down' = Append(down, Message("started", s, next_id))
  <2>1. /\ Message("started", s, next_id) \in Messages
        /\ Message("started", s, next_id).id = next_id
        /\ Message("started", s, next_id).who = s
    BY <1>1, <1>4, MessageTypes DEF Message
  <2>2. server'[next_id] = s /\ \A i \in Ids : i # next_id => server'[i] = server[i]
    BY <1>1, <1>4 DEF TypeInv, ResumptionTypeOK
  <2> QED BY <1>2, <1>3, <1>4, <2>1, <2>2, LiveOnAppend
<1>5. CASE down' = Append(down, Message("refused", s, 0)) /\ UNCHANGED server
  <2>1. Message("refused", s, 0) \in Messages /\ Message("refused", s, 0).kind = "refused"
    BY StreamResumptionAssumption
       DEF StreamResumptionAssumption, Message, Messages
  <2> QED BY <1>5, <2>1, LiveOnAppend
<1>6. CASE UNCHANGED <<server, down>>
  BY <1>6, LiveSame
<1> QED BY <1>4, <1>5, <1>6 DEF ServeStart

\* An entry that a step leaves alone, or removes.
EntryLeft(i) ==
    LET s == resumable_streams[i] IN
    /\ resumable_streams'[i] \in {s, NoStream}
    /\ resumable_streams'[i] # NoStream =>
          /\ handle'[s] = "open" => handle[s] = "open"
          /\ ~late'[s] => ~late[s]
          /\ <<i, s>> \in Pending => <<i, s>> \in Pending'
          /\ server[i] = s => server'[i] = s \/ EndComing(i)' \/ handle[s] # "open"
          /\ EndComing(i) => EndComing(i)'

LEMMA LiveLeft ==
    ASSUME NEW i \in Ids, LiveEntry(i), EntryLeft(i)
    PROVE  LiveEntry(i)'
BY DEF LiveEntry, EntryLeft

LEMMA LiveStep ==
    ASSUME TypeInv, TypeInv', IdsOwned, AnswersFresh, EntryInv, PendingPairs,
           LiveInv, [Next]_vars
    PROVE  LiveInv'
<1> USE DEF serverVars, resumeVars, stopVars, sharedVars, handleVars
<1>0. ASSUME UNCHANGED <<loop, current, to_resume>> PROVE Pending' = Pending
  BY <1>0 DEF Pending
<1>a. \A i \in Ids : resumable_streams[i] \in Streams \cup {NoStream}
  BY DEF TypeInv, ResumptionTypeOK
<1>b. \A s \in Streams : s # NoStream
  BY StreamResumptionAssumption DEF StreamResumptionAssumption
<1>c. \A i \in Ids, s \in Streams : resumable_streams[i] = s =>
         i \in Knows(s) /\ i < next_id /\ i # next_id /\ effective_id[s] = i
  BY <1>b, Numbers, StreamResumptionAssumption
     DEF EntryInv, EntryIsEffective, Knows, IdsOwned, Ids, StreamResumptionAssumption
<1>d. \A i \in Ids : i # 0
  BY StreamResumptionAssumption DEF Ids, StreamResumptionAssumption
\* Steps that do nothing to the messages, the server and a resumption.
<1>e. ASSUME UNCHANGED <<down, server, loop, current, new_id>>,
             session' = "up" => session = "up",
             session = "up" => \A i \in Ids : EntryLeft(i)
      PROVE  LiveInv'
  <2>1. session = "up" /\ LiveRemap => LiveRemap'
    BY <1>e DEF LiveRemap, EndComing
  <2> QED BY <1>e, <2>1, LiveSame, LiveLeft DEF LiveInv
\* Steps after which a stream is not being mapped.
<1>f. ASSUME session' = "up" => session = "up",
             loop' # "remapping",
             session = "up" /\ LiveAnswers => LiveAnswers',
             session = "up" => \A i \in Ids : EntryLeft(i)
      PROVE  LiveInv'
  BY <1>f, LiveLeft DEF LiveInv, LiveRemap
<1>1. CASE Reads
  <2>1. /\ down # <<>> /\ down' = Tail(down) /\ server' = server
        /\ UNCHANGED <<loop, current, to_resume, new_id, session, late>>
        /\ loop # "remapping"
    BY <1>1, ReadCases DEF Reads, ReadArm, ResumeReadsOther
  <2>2. Pending' = Pending
    BY <1>0, <2>1
  <2>3. \A i \in Ids :
           EndComing(i) => EndComing(i)' \/ (Head(down).kind = "end" /\ Head(down).id = i)
    BY <2>1, EndsOnTail
  <2>4. \A s \in Streams : handle'[s] = "open" => handle[s] = "open"
    BY <1>1, ReadCases
       DEF ReadsEnd, ReadsStarted, ReadsRefused, ReadsStopped, ReadsForNobody,
           StartAnswered, StartRefused, TypeInv, ResumptionTypeOK
  <2>5. \A i \in Ids :
           \/ resumable_streams'[i] = NoStream
           \/ /\ resumable_streams'[i] = resumable_streams[i]
              /\ ~(Head(down).kind = "end" /\ Head(down).id = i)
    BY <1>1, ReadCases
       DEF ReadsEnd, ReadsStarted, ReadsRefused, ReadsStopped, ReadsForNobody, EndEntry,
           StartAnswered, StartRefused, TypeInv, ResumptionTypeOK
  <2>6. \A i \in Ids : EntryLeft(i)
    <3> SUFFICES ASSUME NEW i \in Ids, resumable_streams'[i] # NoStream PROVE EntryLeft(i)
      BY <2>5 DEF EntryLeft
    <3>1. /\ resumable_streams'[i] = resumable_streams[i]
          /\ resumable_streams[i] \in Streams
          /\ EndComing(i) => EndComing(i)'
      BY <1>a, <2>3, <2>5
    <3> QED BY <2>1, <2>2, <2>4, <3>1 DEF EntryLeft
  <2> QED BY <1>f, <2>1, <2>6, LiveOnTail
<1>2. CASE Disconnected
  <2>1. /\ UNCHANGED <<down, server, session, late, resumable_streams>>
        /\ loop = "running" /\ loop' = "reconnecting" /\ to_resume' = to_resume
        /\ \A s \in Streams : handle'[s] = "open" => handle[s] = "open"
    BY <1>2, DisconnectedHandles DEF Disconnected
  <2>2. Pending' = Pending
    BY <2>1 DEF Pending
  <2>3. \A i \in Ids : EntryLeft(i)
    BY <1>a, <2>1, <2>2 DEF EntryLeft, EndComing
  <2> QED BY <1>f, <2>1, <2>3, LiveSame
<1>3. CASE LoopEnds
  <2>1. /\ UNCHANGED <<down, server, session>> /\ loop' = "exited"
        /\ \A i \in Ids : resumable_streams'[i] = NoStream
    BY <1>3 DEF LoopEnds, Nowhere
  <2>2. \A i \in Ids : EntryLeft(i)
    BY <2>1 DEF EntryLeft
  <2> QED BY <1>f, <2>1, <2>2, LiveSame
<1>4. CASE EstablishFails \/ ResumeReturns
  <2>1. /\ UNCHANGED <<down, server, session, late, resumable_streams, handle, to_resume>>
        /\ loop \in {"reconnecting", "resuming"} /\ loop' = "running"
    BY <1>4 DEF EstablishFails, ResumeReturns
  <2>2. Pending' = Pending
    BY <2>1 DEF Pending
  <2>3. \A i \in Ids : EntryLeft(i)
    BY <2>1, <2>2 DEF EntryLeft, EndComing
  <2> QED BY <1>f, <2>1, <2>3, LiveSame
<1>5. CASE EstablishOk
  <2>1. /\ UNCHANGED resumable_streams /\ loop' = "resuming"
        /\ Pending' = Snapshot /\ down' = <<>>
    BY <1>5 DEF EstablishOk, Pending
  <2>2. LiveAnswers'
    BY <2>1, EmptySeq DEF LiveAnswers
  <2>3. \A i \in Ids : LiveEntry(i)'
    BY <2>1 DEF LiveEntry, Snapshot
  <2> QED BY <2>1, <2>2, <2>3 DEF LiveInv, LiveRemap
<1>6. ASSUME NEW s \in Streams, NEW i \in Ids, ResumeSkip(i, s) PROVE LiveInv'
  <2>1. /\ UNCHANGED <<down, server, session, late, handle, loop, current, new_id>>
        /\ loop = "resuming" /\ to_resume' = to_resume \ {<<i, s>>}
        /\ \A j \in Ids : resumable_streams'[j] =
              IF j = i THEN NoStream ELSE resumable_streams[j]
    BY <1>6 DEF ResumeSkip, EndEntry, TypeInv, ResumptionTypeOK
  <2>2. Pending' = Pending \ {<<i, s>>}
    BY <2>1 DEF Pending
  <2>3. \A j \in Ids : EntryLeft(j)
    BY <2>1, <2>2 DEF EntryLeft, EndComing
  <2> QED BY <1>e, <2>1, <2>3
<1>7. CASE ResumeAborted \/ SessionDies
  <2>1. session' # "up"
    BY <1>7 DEF ResumeAborted, SessionDies
  <2> QED BY <2>1 DEF LiveInv
<1>8. ASSUME NEW s \in Streams, NEW i \in Ids, ResumeSendFails(i, s) PROVE LiveInv'
  <2>1. session' # "up"
    BY <1>8 DEF ResumeSendFails
  <2> QED BY <2>1 DEF LiveInv
\* What the server does on a request leaves the entries alone.
<1>9. ASSUME NEW s \in Streams, ServeStart(s), Pending' = Pending,
             UNCHANGED <<resumable_streams, late>>, loop' # "remapping",
             \A t \in Streams : handle'[t] = "open" => handle[t] = "open"
      PROVE  LiveInv'
  <2>1. session' = session
    BY <1>9 DEF ServeStart
  <2>2. \A i \in Ids : EntryLeft(i)
    <3> SUFFICES ASSUME NEW i \in Ids, resumable_streams[i] # NoStream PROVE EntryLeft(i)
      BY <1>9 DEF EntryLeft
    <3>1. resumable_streams[i] \in Streams /\ i # next_id
      BY <1>a, <1>c
    <3>2. server'[i] = server[i] /\ (EndComing(i)' <=> EndComing(i))
      BY <1>9, <3>1, StartServer, StartEnds
    <3> QED BY <1>9, <3>1, <3>2 DEF EntryLeft
  <2> QED BY <1>9, <1>f, <2>1, <2>2, LiveStarted
<1>10. ASSUME NEW s \in Streams, NEW i \in Ids, ResumeSend(i, s) PROVE LiveInv'
  <2>1. Pending' = Pending
    BY <1>10 DEF ResumeSend, Pending
  <2> QED BY <1>9, <1>10, <2>1 DEF ResumeSend
<1>11. ASSUME NEW s \in Streams, RequestStart(s) PROVE LiveInv'
  BY <1>0, <1>9, <1>11 DEF RequestStart, TypeInv, ResumptionTypeOK
<1>12. CASE ResumeRefused \/ ResumeUnwanted
  <2>1. /\ loop = "awaiting" /\ loop' = "resuming" /\ current \in Ids \X Streams
        /\ down # <<>> /\ down' = Tail(down) /\ Head(down).kind # "end"
        /\ UNCHANGED <<server, handle, to_resume, session, late>>
        /\ \A j \in Ids : resumable_streams'[j] =
              IF j = current[1] THEN NoStream ELSE resumable_streams[j]
    BY <1>12 DEF ResumeRefused, ResumeUnwanted, NextStream, EndEntry, TypeInv,
                 ResumptionTypeOK
  <2>2. Pending' = to_resume /\ Pending = to_resume \cup {current}
    BY <2>1 DEF Pending
  <2>3. \A i \in Ids : EndComing(i) => EndComing(i)'
    BY <2>1, EndsOnTail
  <2>4. \A j \in Ids, t \in Streams :
           j # current[1] /\ <<j, t>> \in Pending => <<j, t>> \in Pending'
    BY <2>2
  <2>5. \A i \in Ids : EntryLeft(i)
    BY <1>a, <2>1, <2>3, <2>4 DEF EntryLeft
  <2> QED BY <1>f, <2>1, <2>5, LiveOnTail
<1>13. CASE ResumeAccepted
  <2> DEFINE s == resumable_streams[current[1]]
  <2>0. PICK j \in Ids : j = Head(down).id
    BY <1>13, HeadTyped, IdNotZero DEF ResumeAccepted, DownTyped, TypeInv, ResumptionTypeOK
  <2>1. /\ loop = "awaiting" /\ loop' = "remapping" /\ current \in Ids \X Streams
        /\ down # <<>> /\ down' = Tail(down)
        /\ Head(down).kind = "started" /\ Head(down).who = current[2]
        /\ UNCHANGED <<server, handle, to_resume, session, late>>
        /\ s # NoStream /\ current' = <<current[1], s>> /\ new_id' = j
        /\ \A i \in Ids : resumable_streams'[i] =
              IF i = current[1] THEN NoStream ELSE resumable_streams[i]
    BY <1>13, <2>0 DEF ResumeAccepted, OwnAnswer, TypeInv, ResumptionTypeOK
  <2>2. /\ current \in Pending /\ current = <<current[1], current[2]>>
        /\ current[1] \in Ids /\ current[2] \in Streams
    BY <2>1 DEF Pending
  <2>3. s = current[2]
    <3>1. \A i \in Ids, t \in Streams :
             <<i, t>> \in Pending => resumable_streams[i] \in {t, NoStream}
      BY PairFacts
    <3> QED BY <2>1, <2>2, <3>1
  <2>4. current' = current /\ Pending' = Pending
    BY <2>1, <2>2, <2>3 DEF Pending
  <2>5. \A i \in Ids : EndComing(i) => EndComing(i)'
    BY <2>1, EndsOnTail
  <2>6. \A i \in Ids : EntryLeft(i)
    BY <2>1, <2>4, <2>5 DEF EntryLeft
  <2>7. 1 \in 1..Len(down) /\ Head(down) = down[1] /\ Len(down) \in Nat
    BY <2>1, TailIsOld
  <2>8. LiveAnswers => server[j] = current[2] \/ EndComing(j)'
    <3>1. ASSUME EndsAfter(1, j) PROVE EndComing(j)
      <4>1. PICK q \in 2..Len(down) : down[q].kind = "end" /\ down[q].id = j
        BY <3>1 DEF EndsAfter
      <4> QED BY <2>7, <4>1, EndComes
    <3> QED BY <2>0, <2>1, <2>5, <2>7, <3>1 DEF LiveAnswers
  <2> HIDE DEF s
  <2> QED BY <2>1, <2>4, <2>6, <2>8, LiveOnTail, LiveLeft DEF LiveInv, LiveRemap
<1>14. CASE Remap
  <2> DEFINE t == current[2]
  <2>1. /\ loop = "remapping" /\ loop' = "resuming" /\ current \in Ids \X Streams
        /\ UNCHANGED <<server, down, session, handle, to_resume>>
        /\ new_id \in Ids /\ t \in Streams /\ current = <<current[1], t>>
        /\ \A i \in Ids : resumable_streams'[i] =
              IF i = new_id THEN t ELSE resumable_streams[i]
        /\ \A s \in Streams : s # t => late'[s] = late[s]
    BY <1>14, StreamResumptionAssumption
       DEF Remap, NextStream, TypeInv, ResumptionTypeOK, Ids, StreamResumptionAssumption
  <2>2. Pending' = to_resume /\ Pending = to_resume \cup {current}
    BY <2>1 DEF Pending
  <2>3. \A i \in Ids : resumable_streams[i] # t
    BY <2>1 DEF PendingPairs, Range, TypeInv, ResumptionTypeOK
  <2>4. ASSUME NEW i \in Ids, i # new_id, LiveEntry(i) PROVE LiveEntry(i)'
    <3> DEFINE s == resumable_streams[i]
    <3>1. CASE s = NoStream
      BY <2>1, <2>4, <3>1 DEF LiveEntry
    <3>2. CASE s # NoStream
      <4>1. s \in Streams /\ s # t /\ resumable_streams'[i] = s
        BY <1>a, <2>1, <2>3, <2>4, <3>2
      <4>2. <<i, s>> \in Pending => <<i, s>> \in Pending'
        BY <2>1, <2>2, <4>1
      <4> QED BY <2>1, <2>4, <4>1, <4>2 DEF LiveEntry, EndComing
    <3> QED BY <3>1, <3>2
  <2>5. ASSUME NEW i \in Ids, i = new_id, LiveRemap PROVE LiveEntry(i)'
    BY <2>1, <2>5 DEF LiveRemap, LiveEntry, EndComing
  <2>6. LiveAnswers => LiveAnswers'
    BY <2>1, LiveSame
  <2> QED BY <2>1, <2>4, <2>5, <2>6 DEF LiveInv, LiveRemap
<1>15. ASSUME NEW s \in Streams, Register(s) PROVE LiveInv'
  <2>0. PICK i \in Ids : i = stream_id[s]
    BY <1>15, OpenIds DEF Register
  <2>1. /\ UNCHANGED <<down, server, session, loop, current, to_resume, new_id>>
        /\ loop # "remapping" /\ handle[s] = "answered"
        /\ i \in Ids
        /\ \A j \in Ids : resumable_streams'[j] =
              IF j = i THEN s ELSE resumable_streams[j]
        /\ \A t \in Streams : t # s => handle'[t] = handle[t] /\ late'[t] = late[t]
        /\ late'[s] = (\/ loop = "exited"
                       \/ session = "up" /\ server[i] # s /\ ~EndComing(i))
    BY <1>15, <2>0 DEF Register, LockFree, TypeInv, ResumptionTypeOK
  <2>2. \A j \in Ids : resumable_streams[j] # s
    BY <1>b, <2>1 DEF TypeInv, TableFields, InUse, NotYetOpen
  <2>3. session = "up" => LiveEntry(i)'
    BY <2>1 DEF LiveEntry, EndComing
  <2>4. ASSUME NEW j \in Ids, j # i, LiveEntry(j) PROVE LiveEntry(j)'
    <3>1. EntryLeft(j)
      BY <1>0, <1>a, <2>1, <2>2, <2>4 DEF EntryLeft, EndComing
    <3> QED BY <2>4, <3>1, LiveLeft
  <2> QED BY <2>1, <2>3, <2>4, LiveSame DEF LiveInv, LiveRemap
<1>16. ASSUME NEW s \in Streams,
              \/ StopFlag(s) \/ LoadFirst(s) \/ LoadSecond(s) \/ StopSendFails(s)
              \/ Unregister(s) \/ StopReleases(s)
       PROVE  LiveInv'
  <2>1. /\ UNCHANGED <<down, server, session, loop, current, to_resume, new_id, late>>
        /\ \A t \in Streams : handle'[t] = "open" => handle[t] = "open"
        /\ \A i \in Ids : resumable_streams'[i] \in {resumable_streams[i], NoStream}
    BY <1>16 DEF StopFlag, LoadFirst, LoadSecond, StopSendFails, Unregister, StopReleases,
                 TypeInv, ResumptionTypeOK
  <2>2. \A i \in Ids : EntryLeft(i)
    BY <1>0, <1>a, <2>1 DEF EntryLeft, EndComing
  <2> QED BY <1>e, <2>1, <2>2
<1>17. ASSUME NEW s \in Streams, StopSend(s) PROVE LiveInv'
  <2> DEFINE k == Head(ids[s])
  <2>1. /\ UNCHANGED <<loop, current, to_resume, new_id, late, resumable_streams, session>>
        /\ loop = "running" /\ handle[s] = "stopping"
        /\ \A t \in Streams : handle'[t] = "open" => handle[t] = "open"
        /\ ServeStop(s, k)
    BY <1>17 DEF StopSend, ServeStop, TypeInv, ResumptionTypeOK
  <2>2. k \in Ids /\ k \in Range(ids[s])
    BY <1>17, TailTyped DEF StopSend, TypeInv, ResumptionTypeOK
  <2>3. k \in Knows(s)
    BY <1>d, <2>2 DEF Knows
  <2>4. \A i \in Ids : EntryLeft(i)
    <3> SUFFICES ASSUME NEW i \in Ids, resumable_streams[i] # NoStream PROVE EntryLeft(i)
      BY <2>1 DEF EntryLeft
    <3>1. resumable_streams[i] \in Streams
      BY <1>a
    <3>2. handle[resumable_streams[i]] = "open" => i # k
      BY <1>c, <2>1, <2>3, <3>1 DEF IdsOwned
    <3>3. i # k => server'[i] = server[i]
      BY <2>1 DEF ServeStop, TypeInv, ResumptionTypeOK
    <3>4. EndComing(i)' <=> EndComing(i)
      BY <2>1, <2>2, StopEnds
    <3> QED BY <1>0, <2>1, <3>1, <3>2, <3>3, <3>4 DEF EntryLeft
  <2>5. LiveAnswers => LiveAnswers'
    <3>1. CASE UNCHANGED <<server, down>>
      BY <3>1, LiveSame
    <3>2. CASE /\ server' = [server EXCEPT ![k] = NoStream]
               /\ down' = Append(down, Message("stopped", s, k))
      <4>1. /\ Message("stopped", s, k) \in Messages
            /\ Message("stopped", s, k).kind = "stopped"
        BY <2>2, MessageTypes DEF Message
      <4>2. \A p \in 1..Len(down) : down[p].kind = "started" => down[p].id # k
        BY <2>3 DEF AnswersFresh, Known
      <4>3. \A i : i # k => server'[i] = server[i]
        BY <3>2 DEF TypeInv, ResumptionTypeOK
      <4> HIDE DEF k
      <4> QED BY <3>2, <4>1, <4>2, <4>3, LiveOnAppend
    <3> QED BY <2>1, <3>1, <3>2 DEF ServeStop
  <2> QED BY <1>f, <2>1, <2>4, <2>5
<1>18. ASSUME NEW k \in Ids, ServerEnds(k) PROVE LiveInv'
  <2> DEFINE m == Message("end", NoStream, k)
  <2>1. /\ UNCHANGED <<loop, current, to_resume, new_id, late, resumable_streams,
                       session, handle>>
        /\ down' = Append(down, m)
        /\ server' = [server EXCEPT ![k] = NoStream]
    BY <1>18 DEF ServerEnds
  <2>2. m \in Messages /\ m.kind = "end" /\ m.id = k
    BY MessageTypes, <1>18 DEF Message, ServerEnds, TypeInv, ResumptionTypeOK
  <2>3. \A i : i # k => server'[i] = server[i]
    BY <2>1 DEF TypeInv, ResumptionTypeOK
  <2>4. \A i \in Ids : EndComing(i)' <=> EndComing(i) \/ i = k
    BY <1>18, ServerEndsEnds
  <2> HIDE DEF m
  <2>5. LiveAnswers => LiveAnswers'
    BY <2>1, <2>2, <2>3, LiveOnAppend
  <2>6. \A i \in Ids : EntryLeft(i)
    BY <1>0, <2>1, <2>3, <2>4 DEF EntryLeft
  <2>7. LiveRemap => LiveRemap'
    <3>1. loop = "remapping" => new_id \in Ids
      BY StreamResumptionAssumption
         DEF TypeInv, ResumptionTypeOK, Ids, StreamResumptionAssumption
    <3> QED BY <2>1, <2>3, <2>4, <3>1 DEF LiveRemap
  <2> QED BY <2>1, <2>5, <2>6, <2>7, LiveLeft DEF LiveInv
<1>19. CASE UNCHANGED vars
  <2>1. \A i \in Ids : EntryLeft(i)
    BY <1>0, <1>19 DEF EntryLeft, EndComing, vars
  <2> QED BY <1>e, <1>19, <2>1 DEF vars
<1>20. CASE StartStep
  BY <1>11, <1>15, <1>20 DEF StartStep
<1>21. CASE TaskStep
  BY <1>1, <1>2, <1>3, <1>4, <1>5, <1>6, <1>7, <1>8, <1>10, <1>12, <1>13, <1>14, <1>21
     DEF TaskStep, ResumeStep, Reads
<1>22. CASE StopStep
  BY <1>16, <1>17, <1>22 DEF StopStep
<1>23. CASE ServerStep
  BY <1>7, <1>18, <1>23 DEF ServerStep
<1> QED BY <1>19, <1>20, <1>21, <1>22, <1>23 DEF Next

-----------------------------------------------------------------------------
(* Ended streams. *)

\* Steps that forget no entry but with its on_end.
EntriesEndLoudly ==
    /\ \A i \in Ids : LET s == resumable_streams[i] IN
          \/ resumable_streams'[i] = s
          \/ s = NoStream
          \/ handle'[s] # "open"
          \/ slot_released'[s] /\ stopped_flag'[s]
    /\ \A s \in Streams :
          /\ slot_released[s] => slot_released'[s]
          /\ stopped_flag[s] => stopped_flag'[s]
          /\ handle'[s] = "open" => handle[s] = "open"

LEMMA RegisteredAt ==
    ASSUME TypeInv, NEW s \in Streams
    PROVE  Registered(s) <=> \E i \in Ids : resumable_streams[i] = s
BY DEF Registered, Range, TypeInv, ResumptionTypeOK

LEMMA RegisteredAtNext ==
    ASSUME TypeInv', NEW s \in Streams
    PROVE  Registered(s)' <=> \E i \in Ids : resumable_streams'[i] = s
BY DEF Registered, Range, TypeInv, ResumptionTypeOK

LEMMA EndedLoudly ==
    ASSUME TypeInv, TypeInv', EndInv, EntriesEndLoudly,
           loop = "remapping" => UNCHANGED <<loop, current>>
    PROVE  EndInv'
<1> SUFFICES ASSUME NEW s \in Streams, handle'[s] = "open",
                    ~(slot_released'[s] /\ stopped_flag'[s]),
                    ~(loop' = "remapping" /\ current'[2] = s)
             PROVE  Registered(s)'
  BY DEF EndInv
<1>1. Registered(s)
  BY DEF EndInv, EntriesEndLoudly
<1>2. PICK i \in Ids : resumable_streams[i] = s
  BY <1>1, RegisteredAt
<1>3. resumable_streams'[i] = s
  BY <1>2, StreamResumptionAssumption DEF EntriesEndLoudly, StreamResumptionAssumption
<1> QED BY <1>3, RegisteredAtNext

LEMMA EndedStep ==
    ASSUME TypeInv, TypeInv', IdsOwned, AnswersFresh, EntryInv, PendingPairs,
           EndInv, [Next]_vars
    PROVE  EndInv'
<1> USE DEF serverVars, resumeVars, stopVars, sharedVars, handleVars
<1>a. \A i \in Ids : resumable_streams[i] \in Streams \cup {NoStream}
  BY DEF TypeInv, ResumptionTypeOK
<1>b. \A s \in Streams : s # NoStream
  BY StreamResumptionAssumption DEF StreamResumptionAssumption
<1>c. \A i \in Ids : resumable_streams[i] # NoStream =>
         i \in Knows(resumable_streams[i]) /\ Known(i)
  BY <1>a, StreamResumptionAssumption
     DEF EntryInv, EntryIsEffective, Knows, Known, Ids, StreamResumptionAssumption
<1>d. \A i \in Ids : i # 0
  BY StreamResumptionAssumption DEF Ids, StreamResumptionAssumption
<1>1. ASSUME UNCHANGED resumable_streams,
             \A s \in Streams :
                /\ slot_released[s] => slot_released'[s]
                /\ stopped_flag[s] => stopped_flag'[s]
                /\ handle'[s] = "open" => handle[s] = "open",
             loop = "remapping" => UNCHANGED <<loop, current>>
      PROVE  EndInv'
  BY <1>1, EndedLoudly DEF EntriesEndLoudly
<1>2. ASSUME NEW i \in Ids, EndEntry(i), UNCHANGED handle, loop # "remapping"
      PROVE  EndInv'
  <2>1. EntriesEndLoudly
    BY <1>a, <1>2 DEF EndEntry, OnEnd, EntriesEndLoudly, TypeInv, ResumptionTypeOK
  <2> QED BY <1>2, <2>1, EndedLoudly
<1>3. CASE Reads
  <2>1. loop # "remapping"
    BY <1>3 DEF Reads, ReadArm, ResumeReadsOther
  <2>2. CASE ReadsEnd(Head(down))
    <3>1. Head(down).id \in Ids
      BY <1>3, <2>2, ReadCases, HeadTyped, IdNotZero
         DEF ReadsEnd, DownTyped, TypeInv, ResumptionTypeOK
    <3> QED BY <1>2, <2>1, <2>2, <3>1 DEF ReadsEnd
  <2>3. ASSUME NEW s \in Streams,
               \/ ReadsStarted(Head(down), s) \/ ReadsRefused(Head(down), s)
               \/ ReadsStopped(Head(down), s)
        PROVE  EndInv'
    BY SMTT(30), <1>1, <2>1, <2>3
       DEF ReadsStarted, StartAnswered, ReadsRefused, StartRefused, ReadsStopped,
           TypeInv, ResumptionTypeOK
  <2>4. CASE ReadsForNobody(Head(down))
    BY <1>1, <2>1, <2>4 DEF ReadsForNobody
  <2> QED BY <1>3, ReadCases, <2>2, <2>3, <2>4
<1>4. CASE Disconnected
  BY <1>1, <1>4, DisconnectedHandles DEF Disconnected
<1>5. CASE LoopEnds
  <2>1. \A i \in Ids : resumable_streams[i] \in Range(resumable_streams)
    BY DEF Range, TypeInv, ResumptionTypeOK
  <2>2. EntriesEndLoudly
    BY <1>5, <1>a, <2>1 DEF LoopEnds, Nowhere, OnEnd, EntriesEndLoudly
  <2> QED BY <1>5, <2>2, EndedLoudly DEF LoopEnds
<1>6. CASE EstablishOk \/ EstablishFails \/ ResumeAborted \/ ResumeReturns
           \/ SessionDies \/ UNCHANGED vars
  BY <1>1, <1>6
     DEF EstablishOk, EstablishFails, ResumeAborted, ResumeReturns, SessionDies, vars
<1>7. CASE ResumeRefused \/ ResumeUnwanted
  <2>1. current[1] \in Ids
    BY <1>7 DEF ResumeRefused, ResumeUnwanted, TypeInv
  <2> QED BY <1>2, <1>7, <2>1 DEF ResumeRefused, ResumeUnwanted
<1>8. CASE ResumeAccepted
  <2>1. /\ loop = "awaiting" /\ loop' = "remapping"
        /\ current'[2] = resumable_streams[current[1]]
        /\ UNCHANGED <<handle, slot_released, stopped_flag>>
        /\ \A i \in Ids : i # current[1] => resumable_streams'[i] = resumable_streams[i]
    BY <1>8 DEF ResumeAccepted, TypeInv, ResumptionTypeOK
  <2>2. ASSUME NEW s \in Streams, Registered(s), s # current'[2] PROVE Registered(s)'
    BY <2>1, <2>2, RegisteredAt, RegisteredAtNext
  <2> QED BY <2>1, <2>2 DEF EndInv
<1>9. CASE Remap
  <2>1. /\ loop = "remapping" /\ new_id \in Ids /\ current[2] \in Streams
        /\ UNCHANGED <<handle, slot_released, stopped_flag>>
        /\ resumable_streams'[new_id] = current[2]
        /\ \A i \in Ids : i # new_id => resumable_streams'[i] = resumable_streams[i]
    BY <1>9, StreamResumptionAssumption
       DEF Remap, TypeInv, ResumptionTypeOK, Ids, StreamResumptionAssumption
  <2>2. resumable_streams[new_id] = NoStream
    BY <1>c, <2>1 DEF AnswersFresh
  <2>3. ASSUME NEW s \in Streams, Registered(s) PROVE Registered(s)'
    BY <1>b, <2>1, <2>2, <2>3, RegisteredAt, RegisteredAtNext
  <2>4. ASSUME NEW s \in Streams, s = current[2] PROVE Registered(s)'
    BY <2>1, <2>4, RegisteredAtNext
  <2> QED BY <2>1, <2>3, <2>4 DEF EndInv
<1>10. ASSUME NEW s \in Streams, Register(s) PROVE EndInv'
  <2>0. PICK j \in Ids : j = stream_id[s]
    BY <1>10, OpenIds DEF Register
  <2>1. /\ loop # "remapping" /\ UNCHANGED loop
        /\ UNCHANGED <<slot_released, stopped_flag>>
        /\ handle[s] = "answered"
        /\ \A t \in Streams : t # s => handle'[t] = handle[t]
        /\ resumable_streams'[j] = s
        /\ \A i \in Ids : i # j => resumable_streams'[i] = resumable_streams[i]
    BY <1>10, <2>0 DEF Register, LockFree, TypeInv, ResumptionTypeOK
  <2>2. resumable_streams[j] = NoStream
    <3>1. j \in Knows(s)
      BY <1>d, <2>0 DEF Knows
    <3>2. resumable_streams[j] # s
      BY <1>b, <2>1 DEF TypeInv, TableFields, InUse, NotYetOpen
    <3> QED BY <1>a, <1>c, <3>1, <3>2 DEF IdsOwned
  <2>3. ASSUME NEW t \in Streams, Registered(t) \/ t = s PROVE Registered(t)'
    BY <1>b, <2>1, <2>2, <2>3, RegisteredAt, RegisteredAtNext
  <2> QED BY <2>1, <2>3 DEF EndInv
<1>11. ASSUME NEW s \in Streams,
              \/ RequestStart(s) \/ StopFlag(s) \/ LoadFirst(s) \/ LoadSecond(s)
              \/ StopSend(s) \/ StopSendFails(s) \/ StopReleases(s)
       PROVE  EndInv'
  BY <1>1, <1>11
     DEF RequestStart, StopFlag, LoadFirst, LoadSecond, StopSend, StopSendFails,
         StopReleases, TypeInv, ResumptionTypeOK
<1>12. ASSUME NEW s \in Streams, Unregister(s) PROVE EndInv'
  <2> DEFINE k == Head(ids[s])
  <2>1. /\ loop # "remapping"
        /\ UNCHANGED <<slot_released, stopped_flag>>
        /\ handle'[s] = "stopping"
        /\ \A t \in Streams : t # s => handle'[t] = handle[t]
        /\ \A i \in Ids : i # k => resumable_streams'[i] = resumable_streams[i]
    BY <1>12 DEF Unregister, LockFree, TypeInv, ResumptionTypeOK
  <2>2. k \in Ids /\ k \in Range(ids[s])
    BY <1>12, TailTyped DEF Unregister, TypeInv, ResumptionTypeOK, HandleFields
  <2>3. k \in Knows(s)
    BY <1>d, <2>2 DEF Knows
  <2>4. resumable_streams[k] \in {s, NoStream}
    BY <1>a, <1>c, <2>2, <2>3 DEF IdsOwned
  <2> HIDE DEF k
  <2>5. EntriesEndLoudly
    BY <2>1, <2>2, <2>4 DEF EntriesEndLoudly
  <2> QED BY <2>1, <2>5, EndedLoudly
<1>13. ASSUME NEW s \in Streams, NEW i \in Ids, ResumeSkip(i, s) \/ ResumeSendFails(i, s)
       PROVE  EndInv'
  BY <1>2, <1>13 DEF ResumeSkip, ResumeSendFails
<1>14. ASSUME NEW s \in Streams, NEW i \in Ids, ResumeSend(i, s) PROVE EndInv'
  BY <1>1, <1>14 DEF ResumeSend
<1>15. ASSUME NEW i \in Ids, ServerEnds(i) PROVE EndInv'
  BY <1>1, <1>15 DEF ServerEnds
<1>16. CASE StartStep
  BY <1>10, <1>11, <1>16 DEF StartStep
<1>17. CASE TaskStep
  BY <1>3, <1>4, <1>5, <1>6, <1>7, <1>8, <1>9, <1>13, <1>14, <1>17
     DEF TaskStep, ResumeStep, Reads
<1>18. CASE StopStep
  BY <1>11, <1>12, <1>18 DEF StopStep
<1>19. CASE ServerStep
  BY <1>6, <1>15, <1>19 DEF ServerStep
<1> QED BY <1>6, <1>16, <1>17, <1>18, <1>19 DEF Next

\* Once the task has ended nothing but a late registration adds an entry.
LEMMA ExitStep ==
    ASSUME TypeInv, TypeInv', ExitInv, [Next]_vars
    PROVE  ExitInv'
<1> USE DEF serverVars, resumeVars, stopVars, sharedVars, handleVars
<1>1. ASSUME UNCHANGED <<loop, late>>,
             \A i \in Ids : resumable_streams'[i] \in {resumable_streams[i], NoStream}
      PROVE  ExitInv'
  BY <1>1 DEF ExitInv
<1>2. ASSUME NEW s \in Streams, Register(s) PROVE ExitInv'
  <2>1. /\ UNCHANGED loop
        /\ \A i \in Ids : resumable_streams'[i] \in {resumable_streams[i], s}
        /\ \A t \in Streams : t # s => late'[t] = late[t]
        /\ loop = "exited" => late'[s]
    BY <1>2 DEF Register, TypeInv, ResumptionTypeOK
  <2> QED BY ZenonT(30), <2>1 DEF ExitInv, TypeInv, ResumptionTypeOK
<1>3. ASSUME NEW s \in Streams,
             \/ RequestStart(s) \/ StopFlag(s) \/ LoadFirst(s) \/ LoadSecond(s)
             \/ StopSend(s) \/ StopSendFails(s) \/ Unregister(s) \/ StopReleases(s)
      PROVE  ExitInv'
  BY <1>1, <1>3
     DEF RequestStart, StopFlag, LoadFirst, LoadSecond, StopSend, StopSendFails,
         Unregister, StopReleases, TypeInv, ResumptionTypeOK
<1>4. CASE LoopEnds
  BY <1>4 DEF LoopEnds, Nowhere, ExitInv
<1>5. CASE TaskStep /\ ~LoopEnds
  <2>1. loop' # "exited"
    BY <1>5 DEF TaskStep, ResumeStep, ReadArm, Disconnected, EstablishOk, EstablishFails,
                ResumeSkip, ResumeSend, ResumeSendFails, ResumeReadsOther, ResumeRefused,
                ResumeUnwanted, ResumeAccepted, Remap, ResumeAborted, ResumeReturns,
                NextStream
  <2> QED BY <2>1 DEF ExitInv
<1>6. CASE ServerStep \/ UNCHANGED vars
  BY <1>1, <1>6 DEF ServerStep, SessionDies, ServerEnds, vars
<1> QED BY <1>2, <1>3, <1>4, <1>5, <1>6 DEF Next, StartStep, StopStep

-----------------------------------------------------------------------------
(* What a stop leaves behind. *)

\* Steps another than stop's own: they give the stream neither to the server
\* nor to the table.
StopLeft(s) ==
    /\ ~disturbed'[s] => ~disturbed[s]
    /\ handle'[s] \in Stopping /\ ~disturbed'[s] => loop' = "running" /\ session' = "up"
    /\ handle'[s] \in Stopping => UNCHANGED ids /\ effective_id'[s] = effective_id[s]
    /\ \A i \in Ids : handle[s] \in Stopping \cup {"closed"} =>
          /\ server'[i] = s => server[i] = s
          /\ resumable_streams'[i] = s => resumable_streams[i] = s
    /\ \/ handle'[s] = handle[s]
       \/ handle[s] = "awaiting" /\ handle'[s] = "unregistering"
       \/ handle'[s] \notin Stopping \cup {"closed"}

LEMMA StopStays ==
    ASSUME TypeInv, StopInv, NEW s \in Streams, StopLeft(s)
    PROVE  StopOf(s)'
<1>1. StopOf(s)
  BY DEF StopInv
<1>2. CASE handle'[s] \notin Stopping \cup {"closed"}
  BY <1>2 DEF StopOf, Stopping
<1>3. CASE handle'[s] \in Stopping \cup {"closed"}
  <2>1. ServedUnder(s)' \subseteq ServedUnder(s) /\ EntriesOf(s)' \subseteq EntriesOf(s)
    BY <1>3 DEF StopLeft, ServedUnder, EntriesOf, Stopping
  <2>2. handle'[s] = handle[s]
        \/ (handle[s] = "awaiting" /\ handle'[s] = "unregistering")
    BY <1>3 DEF StopLeft
  <2> QED BY <1>1, <1>3, <2>1, <2>2 DEF StopLeft, StopOf, Stopping
<1> QED BY <1>2, <1>3

\* Steps of the task other than reading, while no undisturbed stop is under way.
LEMMA StopElsewhere ==
    ASSUME TypeInv, StopInv, loop # "running" \/ session # "up",
           UNCHANGED <<handle, ids, disturbed>>,
           \A i \in Ids, s \in Streams : handle[s] = "closed" /\ ~disturbed[s] =>
              /\ server'[i] = s => server[i] = s
              /\ resumable_streams'[i] = s => resumable_streams[i] = s
    PROVE  StopInv'
<1> SUFFICES ASSUME NEW s \in Streams, ~disturbed[s] PROVE StopOf(s)'
  BY DEF StopInv, StopOf
<1>1. StopOf(s) /\ handle[s] \notin Stopping
  BY DEF StopInv, StopOf
<1>2. handle[s] = "closed" =>
         ServedUnder(s)' \subseteq ServedUnder(s) /\ EntriesOf(s)' \subseteq EntriesOf(s)
  BY DEF ServedUnder, EntriesOf
<1> QED BY <1>1, <1>2 DEF StopOf, Stopping

LEMMA StopsStep ==
    ASSUME TypeInv, TypeInv', IdsOwned, EntryInv, PendingPairs, ServerIdIsKnown,
           StopInv, [Next]_vars
    PROVE  StopInv'
<1> USE DEF serverVars, resumeVars, stopVars, sharedVars, handleVars
<1>a. \A i \in Ids : /\ resumable_streams[i] \in Streams \cup {NoStream}
                     /\ server[i] \in Streams \cup {NoStream}
  BY DEF TypeInv, ResumptionTypeOK
<1>b. \A s \in Streams : s # NoStream
  BY StreamResumptionAssumption DEF StreamResumptionAssumption
<1>c. \A s \in Streams : (handle[s] \in Stopping /\ ~disturbed[s]) =>
         loop = "running" /\ session = "up"
  BY DEF StopInv, StopOf
\* Steps that keep loop, session and the history, and add nothing.
<1>d. ASSUME NEW t \in Streams, UNCHANGED <<loop, session>>,
             \A s \in Streams : s # t =>
                /\ handle'[s] = handle[s] /\ ids'[s] = ids[s]
                /\ effective_id'[s] = effective_id[s] /\ disturbed'[s] = disturbed[s],
             \A i \in Ids : server'[i] \in {server[i], NoStream, t},
             \A i \in Ids : resumable_streams'[i] \in {resumable_streams[i], NoStream, t},
             StopOf(t)'
      PROVE  StopInv'
  <2> SUFFICES ASSUME NEW s \in Streams, s # t PROVE StopOf(s)'
    BY <1>d DEF StopInv
  <2>1. ServedUnder(s)' \subseteq ServedUnder(s) /\ EntriesOf(s)' \subseteq EntriesOf(s)
    BY <1>b, <1>d DEF ServedUnder, EntriesOf
  <2>2. StopOf(s)
    BY DEF StopInv
  <2> QED BY <1>d, <2>1, <2>2 DEF StopOf
<1>e. ASSUME \A s \in Streams : StopLeft(s) PROVE StopInv'
  BY <1>e, StopStays DEF StopInv
<1>1. CASE Reads
  <2>1. UNCHANGED <<loop, session, server, ids, disturbed>>
    BY <1>1, ReadCases
  <2>2. CASE ReadsEnd(Head(down))
    <3>1. \A s \in Streams : StopLeft(s)
      BY <1>b, <1>c, <2>1, <2>2 DEF ReadsEnd, EndEntry, StopLeft, TypeInv, ResumptionTypeOK
    <3> QED BY <1>e, <3>1
  <2>3. ASSUME NEW t \in Streams,
               ReadsStarted(Head(down), t) \/ ReadsRefused(Head(down), t)
        PROVE  StopInv'
    <3>1. /\ \A s \in Streams : s # t => handle'[s] = handle[s]
                                         /\ effective_id'[s] = effective_id[s]
          /\ handle'[t] \in {"answered", "failed"}
          /\ UNCHANGED resumable_streams
      BY <2>3 DEF ReadsStarted, StartAnswered, ReadsRefused, StartRefused, TypeInv,
                  ResumptionTypeOK
    <3>2. StopOf(t)'
      BY <3>1 DEF StopOf, Stopping
    <3> QED BY <1>d, <2>1, <3>1, <3>2
  <2>4. ASSUME NEW t \in Streams, ReadsStopped(Head(down), t) PROVE StopInv'
    <3>1. /\ \A s \in Streams : s # t => handle'[s] = handle[s]
          /\ handle[t] = "awaiting" /\ handle'[t] = "unregistering"
          /\ UNCHANGED <<resumable_streams, effective_id>>
      BY <2>4 DEF ReadsStopped, TypeInv, ResumptionTypeOK
    <3>2. StopLeft(t)
      BY <1>c, <2>1, <3>1 DEF StopLeft, Stopping
    <3> QED BY <1>d, <2>1, <3>1, <3>2, StopStays
  <2>5. CASE ReadsForNobody(Head(down))
    <3>1. \A s \in Streams : StopLeft(s)
      BY <1>c, <2>1, <2>5 DEF ReadsForNobody, StopLeft
    <3> QED BY <1>e, <3>1
  <2> QED BY <1>1, ReadCases, <2>2, <2>3, <2>4, <2>5
<1>2. CASE Disconnected
  <2>1. /\ UNCHANGED <<server, resumable_streams, ids, effective_id>>
        /\ \A s \in Streams :
              /\ disturbed'[s] = (disturbed[s] \/ handle[s] \in Stopping)
              /\ handle'[s] = handle[s]
                 \/ (handle[s] = "awaiting" /\ handle'[s] = "unregistering")
                 \/ (handle[s] = "requesting" /\ handle'[s] = "failed")
    BY <1>2, DisconnectedHandles DEF Disconnected
  <2>2. \A s \in Streams : StopLeft(s)
    BY <2>1 DEF StopLeft, Stopping
  <2> QED BY <1>e, <2>2
<1>3. CASE LoopEnds \/ EstablishFails \/ EstablishOk \/ ResumeReturns \/ ResumeAborted
  <2>1. /\ loop # "running" /\ UNCHANGED <<handle, ids, disturbed>>
        /\ \A i \in Ids : server'[i] \in {server[i], NoStream}
        /\ \A i \in Ids : resumable_streams'[i] \in {resumable_streams[i], NoStream}
    BY <1>3 DEF LoopEnds, EstablishFails, EstablishOk, ResumeReturns, ResumeAborted, Nowhere
  <2> QED BY <1>b, <2>1, StopElsewhere
<1>4. CASE ResumeRefused \/ ResumeUnwanted \/ ResumeAccepted
  <2>1. /\ loop # "running" /\ UNCHANGED <<handle, ids, disturbed, server>>
        /\ \A i \in Ids : resumable_streams'[i] \in {resumable_streams[i], NoStream}
    BY <1>4 DEF ResumeRefused, ResumeUnwanted, ResumeAccepted, EndEntry, TypeInv,
                ResumptionTypeOK
  <2> QED BY <1>b, <2>1, StopElsewhere
<1>5. ASSUME NEW s \in Streams, NEW i \in Ids, ResumeSkip(i, s) \/ ResumeSendFails(i, s)
      PROVE  StopInv'
  <2>1. /\ loop # "running" /\ UNCHANGED <<handle, ids, disturbed, server>>
        /\ \A j \in Ids : resumable_streams'[j] \in {resumable_streams[j], NoStream}
    BY <1>5 DEF ResumeSkip, ResumeSendFails, EndEntry, TypeInv, ResumptionTypeOK
  <2> QED BY <1>b, <2>1, StopElsewhere
<1>6. ASSUME NEW s \in Streams, NEW i \in Ids, ResumeSend(i, s) PROVE StopInv'
  <2>1. /\ loop # "running" /\ UNCHANGED <<handle, ids, disturbed, resumable_streams>>
        /\ ServeStart(s) /\ <<i, s>> \in Pending
    BY <1>6 DEF ResumeSend, Pending
  <2>2. handle[s] = "closed" => disturbed[s]
    BY <2>1 DEF PendingPairs, PendingPair
  <2>3. \A j \in Ids : server'[j] \in {server[j], s}
    BY <2>1, StartServer
  <2> QED BY <2>1, <2>2, <2>3, StopElsewhere
<1>7. CASE Remap
  <2>1. /\ loop = "remapping" /\ UNCHANGED <<handle, ids, disturbed, server>>
        /\ current \in Ids \X Streams
        /\ \A j \in Ids : resumable_streams'[j] \in {resumable_streams[j], current[2]}
    BY <1>7 DEF Remap, TypeInv, ResumptionTypeOK
  <2>2. <<current[1], current[2]>> \in Pending /\ current[1] \in Ids /\ current[2] \in Streams
    BY <2>1 DEF Pending
  <2>3. handle[current[2]] = "closed" => disturbed[current[2]]
    BY <2>2 DEF PendingPairs, PendingPair
  <2> QED BY <2>1, <2>2, <2>3, StopElsewhere
<1>8. CASE SessionDies
  <2>1. /\ UNCHANGED <<server, resumable_streams, ids, effective_id, handle>>
        /\ \A s \in Streams :
              disturbed'[s] = (disturbed[s] \/ handle[s] \in Stopping)
    BY <1>8 DEF SessionDies
  <2>2. \A s \in Streams : StopLeft(s)
    BY <2>1 DEF StopLeft
  <2> QED BY <1>e, <2>2
<1>9. ASSUME NEW t \in Streams, RequestStart(t) \/ Register(t) PROVE StopInv'
  <2>1. /\ UNCHANGED <<loop, session, ids, disturbed, effective_id>>
        /\ \A s \in Streams : s # t => handle'[s] = handle[s]
        /\ handle'[t] \in {"requesting", "open"}
        /\ \A i \in Ids : resumable_streams'[i] \in {resumable_streams[i], t}
        /\ UNCHANGED server \/ ServeStart(t)
    BY <1>9 DEF RequestStart, Register, ServeStart, TypeInv, ResumptionTypeOK
  <2>2. \A i \in Ids : server'[i] \in {server[i], t}
    BY <2>1, StartServer
  <2>3. StopOf(t)'
    BY <2>1 DEF StopOf, Stopping
  <2> QED BY <1>d, <2>1, <2>2, <2>3
<1>10. ASSUME NEW t \in Streams, StopFlag(t) PROVE StopInv'
  <2>1. /\ UNCHANGED <<loop, session, ids, effective_id, server, resumable_streams>>
        /\ \A s \in Streams : s # t => handle'[s] = handle[s] /\ disturbed'[s] = disturbed[s]
        /\ handle[t] = "open" /\ handle'[t] = "flagged"
        /\ ~disturbed'[t] => loop = "running" /\ session = "up"
    BY <1>10 DEF StopFlag, TypeInv, ResumptionTypeOK
  <2>2. loop = "running" /\ session = "up" => ServedUnder(t) \subseteq {effective_id[t]}
    BY <1>b, <2>1 DEF ServedUnder, ServerIdIsKnown, ServedKnown
  <2>3. EntriesOf(t) \subseteq {effective_id[t]}
    BY <1>b DEF EntriesOf, EntryInv, EntryIsEffective
  <2>4. StopOf(t)'
    BY <2>1, <2>2, <2>3 DEF StopOf, ServedUnder, EntriesOf
  <2> QED BY <1>d, <2>1, <2>4
<1>11. ASSUME NEW t \in Streams, LoadFirst(t) \/ LoadSecond(t) PROVE StopInv'
  <2>1. /\ UNCHANGED <<loop, session, effective_id, server, resumable_streams, disturbed>>
        /\ \A s \in Streams : s # t => handle'[s] = handle[s] /\ ids'[s] = ids[s]
        /\ \/ handle[t] = "flagged" /\ handle'[t] = "loaded"
           \/ handle[t] = "loaded" /\ handle'[t] = "stopping"
    BY <1>11 DEF LoadFirst, LoadSecond, TypeInv, ResumptionTypeOK
  <2>2. effective_id[t] \in Range(ids'[t])
    <3>0. effective_id[t] \in Ids /\ stream_id[t] \in Ids
      BY <1>11, OpenIds DEF LoadFirst, LoadSecond
    <3>1. CASE LoadFirst(t)
      BY <3>0, <3>1, OneId DEF LoadFirst, TypeInv
    <3>2. CASE LoadSecond(t)
      <4> DEFINE one == PushNew(ids[t], effective_id[t])
      <4>1. ids[t] \in Seq(Ids) /\ IsInjective(ids[t])
        BY DEF TypeInv, ResumptionTypeOK
      <4>2. one \in Seq(Ids) /\ IsInjective(one) /\ effective_id[t] \in Range(one)
        BY <3>0, <4>1, PushNewTyped
      <4>3. Range(PushNew(one, stream_id[t])) = Range(one) \cup {stream_id[t]}
        BY <3>0, <4>2, PushNewTyped
      <4>4. ids'[t] = PushNew(one, stream_id[t])
        BY <3>2 DEF LoadSecond, TypeInv
      <4> QED BY <4>2, <4>3, <4>4
    <3> QED BY <1>11, <3>1, <3>2
  <2>3. StopOf(t)
    BY DEF StopInv
  <2>4. StopOf(t)'
    BY <2>1, <2>2, <2>3 DEF StopOf, ServedUnder, EntriesOf, Stopping
  <2> QED BY <1>d, <2>1, <2>4
<1>12. ASSUME NEW t \in Streams, StopSend(t) PROVE StopInv'
  <2> DEFINE k == Head(ids[t])
  <2>1. /\ UNCHANGED <<loop, session, effective_id, resumable_streams, disturbed, ids>>
        /\ \A s \in Streams : s # t => handle'[s] = handle[s]
        /\ handle[t] = "stopping" /\ handle'[t] = "awaiting"
        /\ ServeStop(t, k)
    BY <1>12 DEF StopSend, ServeStop, TypeInv, ResumptionTypeOK
  <2>2. k \in Ids /\ Range(ids[t]) = Range(Tail(ids[t])) \cup {k}
    BY <1>12, TailTyped DEF StopSend, TypeInv, ResumptionTypeOK
  <2>3. /\ \A i \in Ids : server'[i] \in {server[i], NoStream}
        /\ session = "up" => server'[k] = NoStream
    BY <2>1, <2>2 DEF ServeStop, TypeInv, ResumptionTypeOK
  <2>4. ServedUnder(t)' \subseteq ServedUnder(t)
        /\ (session = "up" => k \notin ServedUnder(t)')
        /\ EntriesOf(t)' = EntriesOf(t)
    BY <1>b, <2>1, <2>3 DEF ServedUnder, EntriesOf
  <2>5. StopOf(t)
    BY DEF StopInv
  <2>6. StopOf(t)'
    BY <2>1, <2>2, <2>4, <2>5 DEF StopOf, Stopping
  <2> QED BY <1>d, <2>1, <2>3, <2>6
<1>13. ASSUME NEW t \in Streams, StopSendFails(t) PROVE StopInv'
  <2>1. /\ UNCHANGED <<loop, session, effective_id, server, resumable_streams, disturbed, ids>>
        /\ \A s \in Streams : s # t => handle'[s] = handle[s]
        /\ handle[t] = "stopping" /\ handle'[t] = "unregistering"
        /\ ~(loop = "running" /\ session = "up")
    BY <1>13 DEF StopSendFails, TypeInv, ResumptionTypeOK
  <2>2. disturbed[t]
    BY <1>c, <2>1 DEF Stopping
  <2>3. StopOf(t)'
    BY <2>1, <2>2 DEF StopOf
  <2> QED BY <1>d, <2>1, <2>3
<1>14. ASSUME NEW t \in Streams, Unregister(t) PROVE StopInv'
  <2> DEFINE k == Head(ids[t])
  <2>1. /\ UNCHANGED <<loop, session, effective_id, server, disturbed>>
        /\ \A s \in Streams : s # t => handle'[s] = handle[s] /\ ids'[s] = ids[s]
        /\ handle[t] = "unregistering" /\ handle'[t] = "stopping"
        /\ resumable_streams' = [resumable_streams EXCEPT ![k] = NoStream]
        /\ ids'[t] = Tail(ids[t])
    BY <1>14 DEF Unregister, TypeInv, ResumptionTypeOK
  <2>2. k \in Ids /\ Range(ids[t]) = Range(Tail(ids[t])) \cup {k}
    BY <1>14, TailTyped DEF Unregister, TypeInv, ResumptionTypeOK, HandleFields
  <2>3. \A i \in Ids : resumable_streams'[i] = IF i = k THEN NoStream ELSE resumable_streams[i]
    BY <2>1, <2>2 DEF TypeInv, ResumptionTypeOK
  <2> HIDE DEF k
  <2>4. ServedUnder(t)' = ServedUnder(t) /\ EntriesOf(t)' \subseteq EntriesOf(t) \ {k}
    BY <1>b, <2>1, <2>3 DEF ServedUnder, EntriesOf
  <2>5. StopOf(t)
    BY DEF StopInv
  <2>6. StopOf(t)'
    BY <2>1, <2>2, <2>4, <2>5 DEF StopOf, Stopping
  <2>7. \A i \in Ids : resumable_streams'[i] \in {resumable_streams[i], NoStream, t}
    BY <2>3
  <2> QED BY <1>d, <2>1, <2>6, <2>7
<1>15. ASSUME NEW t \in Streams, StopReleases(t) PROVE StopInv'
  <2>1. /\ UNCHANGED <<loop, session, effective_id, server, resumable_streams, disturbed, ids>>
        /\ \A s \in Streams : s # t => handle'[s] = handle[s]
        /\ handle[t] = "stopping" /\ handle'[t] = "closed" /\ ids[t] = <<>>
    BY <1>15 DEF StopReleases, TypeInv, ResumptionTypeOK
  <2>2. Range(ids[t]) = {}
    BY <2>1 DEF Range
  <2>3. StopOf(t)
    BY DEF StopInv
  <2>4. StopOf(t)'
    BY <2>1, <2>2, <2>3 DEF StopOf, ServedUnder, EntriesOf, Stopping
  <2> QED BY <1>d, <2>1, <2>4
<1>16. ASSUME NEW i \in Ids, ServerEnds(i) PROVE StopInv'
  <2>1. /\ UNCHANGED <<loop, session, handle, ids, effective_id, disturbed, resumable_streams>>
        /\ \A j \in Ids : server'[j] \in {server[j], NoStream}
    BY <1>16 DEF ServerEnds, TypeInv, ResumptionTypeOK
  <2>2. \A s \in Streams : StopLeft(s)
    BY <1>b, <1>c, <2>1 DEF StopLeft
  <2> QED BY <1>e, <2>2
<1>17. CASE UNCHANGED vars
  <2>1. \A s \in Streams : StopLeft(s)
    BY <1>c, <1>17 DEF StopLeft, vars
  <2> QED BY <1>e, <2>1
<1>18. CASE StartStep
  BY <1>9, <1>18 DEF StartStep
<1>19. CASE TaskStep
  BY <1>1, <1>2, <1>3, <1>4, <1>5, <1>6, <1>7, <1>19
     DEF TaskStep, ResumeStep, Reads
<1>20. CASE StopStep
  BY <1>10, <1>11, <1>12, <1>13, <1>14, <1>15, <1>20 DEF StopStep
<1>21. CASE ServerStep
  BY <1>8, <1>16, <1>21 DEF ServerStep
<1> QED BY <1>17, <1>18, <1>19, <1>20, <1>21 DEF Next

-----------------------------------------------------------------------------
(* The whole invariant. *)

LEMMA ResumptionInit == Init => ResumptionInv
<1> SUFFICES ASSUME Init PROVE ResumptionInv
  OBVIOUS
<1>1. TypeInv
  BY InitTyped
<1>2. /\ \A i \in Ids : server[i] = NoStream /\ resumable_streams[i] = NoStream
      /\ \A s \in Streams : handle[s] = "idle" /\ ~stopped_flag[s] /\ Knows(s) = {}
      /\ Len(down) = 0 /\ new_id = 0 /\ next_id = 1 /\ loop = "running" /\ to_resume = {}
  BY EmptySeq DEF Init, Nowhere, Knows, Range
<1>3. IdsOwned /\ AnswersFresh /\ OneAnswer
  BY <1>2 DEF IdsOwned, AnswersFresh, OneAnswer, Known
<1>4. EntryInv /\ PendingPairs /\ ServerIdIsKnown
  BY <1>2 DEF EntryInv, EntryIsEffective, FlagFollowsUse, PendingPairs, Pending,
              ServerIdIsKnown, ServedKnown, Resuming
<1>5. LiveInv
  BY <1>2 DEF LiveInv, LiveAnswers, LiveRemap, LiveEntry
<1>6. EndInv /\ ExitInv /\ StopInv
  BY <1>2 DEF EndInv, ExitInv, StopInv, StopOf, Stopping
<1> QED BY <1>1, <1>3, <1>4, <1>5, <1>6 DEF ResumptionInv, EntryInv

LEMMA ResumptionStep ==
    ASSUME FreshIds, ResumptionInv, [Next]_vars
    PROVE  ResumptionInv'
<1> USE DEF ResumptionInv, EntryInv, IdInv
<1>1. TypeInv'
  BY TypeStep
<1>2. IdsOwned' /\ AnswersFresh'
  BY IdStep
<1>3. OneAnswer'
  BY <1>1, AnswerStep
<1>4. EntryIsEffective' /\ FlagFollowsUse'
  BY <1>1, EntryStep
<1>5. PendingPairs'
  BY <1>1, PendingStep
<1>6. ServerIdIsKnown'
  BY <1>1, ServedStep
<1>7. LiveInv'
  BY <1>1, LiveStep
<1>8. EndInv' /\ ExitInv'
  BY <1>1, EndedStep, ExitStep
<1>9. StopInv'
  BY <1>1, StopsStep
<1> QED BY <1>1, <1>2, <1>3, <1>4, <1>5, <1>6, <1>7, <1>8, <1>9

\* While the server gives every stream an id of its own, ids, entries, answers
\* and resumptions stay matched: an id has one owner, the table names a stream
\* by its effective id, and who stops a stream or loses it accounts for every
\* id it had.  The four theorems below are read off from it.
THEOREM ResumptionInvariant ==
    ASSUME FreshIds
    PROVE  Spec => []ResumptionInv
BY ResumptionInit, ResumptionStep, PTL DEF Spec

\* While the task runs on a live session, every open stream is known to the
\* table and to its handle by the id under which the server runs it, or its end
\* is about to be read: whichever losses, half-done resumptions and stops of
\* other streams there were (resume_streams, handle_server_message).
THEOREM OpenStreamsAreLive ==
    ASSUME FreshIds
    PROVE  Spec => []StreamsAreLive
<1>1. ResumptionInv => StreamsAreLive
  BY DEF ResumptionInv, StreamsAreLive, LiveInv, LiveEntry, PendingPairs, Pending,
         Resuming, EntryIsEffective
<1> QED BY <1>1, ResumptionInvariant, PTL

\* No stream somebody still holds is forgotten: it is in the table, or its
\* slot was given back and it was told (on_end), whichever way a resumption
\* went wrong.
THEOREM EndedStreamsAreReleased ==
    ASSUME FreshIds
    PROVE  Spec => []EndedIsReleased
<1>1. ResumptionInv => EndedIsReleased
  BY DEF ResumptionInv, EndedIsReleased, EndInv, LockFree
<1> QED BY <1>1, ResumptionInvariant, PTL

\* The end of the background task ends every stream that was registered by
\* then, and gives its slot back (cleanup_resumable_streams).
THEOREM ExitEndsAllStreams ==
    ASSUME FreshIds
    PROVE  Spec => []ExitEndsStreams
<1>1. ResumptionInv => ExitEndsStreams
  <2> SUFFICES ASSUME ResumptionInv, loop = "exited", NEW s \in Streams,
                      handle[s] = "open", ~late[s]
               PROVE  ~Registered(s) /\ slot_released[s]
    BY DEF ExitEndsStreams
  <2>1. \A i \in Ids : resumable_streams[i] # s
    BY StreamResumptionAssumption
       DEF ResumptionInv, ExitInv, StreamResumptionAssumption
  <2>2. ~Registered(s)
    BY <2>1, RegisteredAt DEF ResumptionInv
  <2> QED BY <2>2 DEF ResumptionInv, EndInv
<1> QED BY <1>1, ResumptionInvariant, PTL

\* A stop or Drop that no loss disturbs leaves neither a stream at the server
\* nor an entry in the table, under any of the ids the stream ever had.
THEOREM StopsAreComplete ==
    ASSUME FreshIds
    PROVE  Spec => []StopIsComplete
<1>1. ResumptionInv => StopIsComplete
  <2> SUFFICES ASSUME ResumptionInv, NEW s \in Streams, handle[s] = "closed", ~disturbed[s]
               PROVE  s \notin Range(server) /\ ~Registered(s)
    BY DEF StopIsComplete
  <2>1. \A i \in Ids : server[i] # s /\ resumable_streams[i] # s
    BY DEF ResumptionInv, StopInv, StopOf, ServedUnder, EntriesOf
  <2>2. ~Registered(s)
    BY <2>1, RegisteredAt DEF ResumptionInv
  <2>3. s \notin Range(server)
    BY <2>1 DEF Range, ResumptionInv, TypeInv, ResumptionTypeOK
  <2> QED BY <2>2, <2>3
<1> QED BY <1>1, ResumptionInvariant, PTL
=============================================================================
