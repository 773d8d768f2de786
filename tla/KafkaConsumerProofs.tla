------------------------ MODULE KafkaConsumerProofs -------------------------
(***************************************************************************)
(* Proofs about KafkaConsumer, for any partitions, any batch size and      *)
(* pipeline, any number of messages, crashes, failed writes and refused    *)
(* documents: what Elasticsearch was sent of a partition has no gap, and   *)
(* how much a process has read and not sent there.                         *)
(***************************************************************************)
EXTENDS KafkaConsumer, SetInduction, SequenceTheorems

-----------------------------------------------------------------------------
(* Sequences of messages, and the sets of their elements.                  *)

\* The empty sequence has none.
LEMMA SetOfEmpty == Set(<<>>) = {}
  BY DEF Set

\* Append adds one.
LEMMA SetAppend ==
  ASSUME NEW S, NEW s \in Seq(S), NEW e \in S
  PROVE  /\ Set(Append(s, e)) = Set(s) \cup {e}
         /\ Append(s, e) \in Seq(S) /\ Len(Append(s, e)) = Len(s) + 1
<1> DEFINE t == Append(s, e)
<1>1. /\ t \in Seq(S) /\ Len(t) = Len(s) + 1 /\ Len(s) \in Nat
      /\ \A i \in 1 .. Len(s) : t[i] = s[i]
      /\ t[Len(s) + 1] = e
      /\ DOMAIN t = 1 .. (Len(s) + 1) /\ DOMAIN s = 1 .. Len(s)
  OBVIOUS
<1> HIDE DEF t
<1>2. Set(t) \subseteq Set(s) \cup {e}
  <2> SUFFICES ASSUME NEW i \in DOMAIN t PROVE t[i] \in Set(s) \cup {e}
    BY DEF Set
  <2>1. i \in 1 .. Len(s) \/ i = Len(s) + 1
    BY <1>1
  <2> QED BY <1>1, <2>1 DEF Set
<1>3. Set(s) \subseteq Set(t) /\ e \in Set(t)
  <2>1. \A i \in 1 .. Len(s) : i \in DOMAIN t
    BY <1>1
  <2>2. Len(s) + 1 \in DOMAIN t
    BY <1>1
  <2> QED BY <1>1, <2>1, <2>2 DEF Set
<1> QED BY <1>1, <1>2, <1>3 DEF t

\* Tail removes the head, unless it occurs again.
LEMMA SetTail ==
  ASSUME NEW S, NEW s \in Seq(S), s # <<>>
  PROVE  /\ Set(s) = {Head(s)} \cup Set(Tail(s))
         /\ Head(s) \in S /\ Tail(s) \in Seq(S)
         /\ Len(Tail(s)) = Len(s) - 1 /\ Len(s) \in Nat
<1> DEFINE t == Tail(s)
<1>1. /\ t \in Seq(S) /\ Len(t) = Len(s) - 1 /\ Len(s) \in Nat \ {0}
      /\ \A i \in 1 .. Len(s) - 1 : t[i] = s[i + 1]
      /\ Head(s) = s[1] /\ Head(s) \in S
      /\ DOMAIN t = 1 .. (Len(s) - 1) /\ DOMAIN s = 1 .. Len(s)
  OBVIOUS
<1> HIDE DEF t
<1>2. Set(s) \subseteq {Head(s)} \cup Set(t)
  <2> SUFFICES ASSUME NEW i \in DOMAIN s PROVE s[i] \in {Head(s)} \cup Set(t)
    BY DEF Set
  <2>1. i = 1 \/ (i - 1 \in 1 .. Len(s) - 1 /\ (i - 1) + 1 = i)
    BY <1>1
  <2> QED BY <1>1, <2>1 DEF Set
<1>3. Set(t) \subseteq Set(s) /\ Head(s) \in Set(s)
  <2>1. \A i \in 1 .. Len(s) - 1 : i + 1 \in DOMAIN s
    BY <1>1
  <2>2. 1 \in DOMAIN s
    BY <1>1
  <2> QED BY <1>1, <2>1, <2>2 DEF Set
<1> QED BY <1>1, <1>2, <1>3 DEF t

\* Its elements are elements of the sequence's type.
LEMMA SetType == ASSUME NEW S, NEW s \in Seq(S) PROVE Set(s) \subseteq S
  BY DEF Set

\* A message is a partition and an offset.
LEMMA MessageFacts ==
  \A m \in Messages : /\ m[1] \in Partitions /\ m[2] \in Offsets /\ m[2] \in Nat
                      /\ m = <<m[1], m[2]>>
  BY ParamAssumption DEF Messages, Offsets

\* There are no more elements than the sequence is long.
LEMMA SetBound ==
  ASSUME NEW S, NEW s \in Seq(S)
  PROVE  IsFiniteSet(Set(s)) /\ Cardinality(Set(s)) <= Len(s)
<1>1. Len(s) \in Nat /\ DOMAIN s = 1 .. Len(s)
  OBVIOUS
<1>2. IsFiniteSet(1 .. Len(s)) /\ Cardinality(1 .. Len(s)) = Len(s)
  BY <1>1, FS_Interval
<1>3. Set(s) \in SUBSET {s[i] : i \in 1 .. Len(s)}
  BY <1>1 DEF Set
<1> QED BY <1>2, <1>3, ImageBound

-----------------------------------------------------------------------------
(* The invariant.                                                          *)

\* The messages of each partition come in the order of their offsets.
Ascending(s) ==
  \A i, j \in DOMAIN s : i < j /\ s[i][1] = s[j][1] => s[i][2] < s[j][2]

\* The offset up to which the goroutine of p has sent its records: the record
\* it has polled and not sent yet is not counted.
Sent(p) == IF poller[p] = "send" THEN pos[p] - 1 ELSE pos[p]

\* A goroutine that sends a record has polled one.
Typed == TypeOK /\ \A p \in Partitions : poller[p] = "send" => pos[p] > 0

\* Of each partition, what the storage has in memory comes before what is in
\* the pipeline, which comes before what is not sent.
InLine ==
  /\ Ascending(flight)
  /\ \A m \in Set(buf) : \A n \in Set(flight) : m[1] = n[1] => m[2] < n[2]
  /\ \A m \in Set(buf) \cup Set(flight) : m[2] < Sent(m[1])

\* All that the process has sent of a partition is settled or on its way:
\* clients start at offset zero, whatever is stored.
NoneMissing ==
  up => \A p \in Partitions : \A o \in Offsets :
          o < Sent(p) => <<p, o>> \in Settled \cup Set(buf) \cup Set(flight)

\* The storage never gets a message that the processor fails on.
NoPoison == Set(buf) \cap Poison = {}

\* A process that does not run has nothing in memory.
Memory == ~ up => buf = <<>> /\ flight = <<>> /\ ~ writing

\* The storage keeps less than a batch and one document for each write that
\* failed; while it writes it has one more.
BufferBound == /\ Len(buf) <= Batch + fails
               /\ ~ writing => Len(buf) < Batch + fails

\* The inductive invariant. PartitionPrefix alone is not inductive: that the
\* next bulk write leaves no gap behind it follows from NoneMissing and
\* InLine, for they say that what was sent before the messages it writes is
\* settled or in the same request.
IInv == /\ Typed /\ InLine /\ NoneMissing /\ NoPoison /\ Memory /\ BufferBound
        /\ PartitionPrefix

\* What is behind all others of its partition may be appended.
LEMMA AscendingAppend ==
  ASSUME NEW s \in Seq(Messages), Ascending(s), NEW e \in Messages,
         \A m \in Set(s) : m[1] = e[1] => m[2] < e[2]
  PROVE  Ascending(Append(s, e))
<1> DEFINE t == Append(s, e)
<1>1. /\ Len(s) \in Nat
      /\ \A i \in 1 .. Len(s) : t[i] = s[i] /\ t[i] \in Set(s)
      /\ t[Len(s) + 1] = e
      /\ DOMAIN t = 1 .. (Len(s) + 1) /\ DOMAIN s = 1 .. Len(s)
  BY DEF Set
<1> HIDE DEF t
<1>2. ASSUME NEW i \in DOMAIN t, NEW j \in DOMAIN t, i < j, t[i][1] = t[j][1]
      PROVE  t[i][2] < t[j][2]
  <2>1. i \in 1 .. Len(s) /\ (j \in 1 .. Len(s) \/ j = Len(s) + 1)
    BY <1>1, <1>2
  <2> QED BY <1>1, <1>2, <2>1 DEF Ascending
<1> QED BY <1>2 DEF Ascending, t

\* The head is before all others of its partition.
LEMMA AscendingTail ==
  ASSUME NEW s \in Seq(Messages), s # <<>>, Ascending(s)
  PROVE  /\ Ascending(Tail(s))
         /\ \A m \in Set(Tail(s)) : Head(s)[1] = m[1] => Head(s)[2] < m[2]
<1> DEFINE t == Tail(s)
<1>1. /\ Len(s) \in Nat \ {0}
      /\ \A i \in 1 .. Len(s) - 1 : t[i] = s[i + 1]
      /\ Head(s) = s[1]
      /\ DOMAIN t = 1 .. (Len(s) - 1) /\ DOMAIN s = 1 .. Len(s)
  OBVIOUS
<1> HIDE DEF t
<1>2. \A i \in DOMAIN t : i + 1 \in DOMAIN s /\ 1 < i + 1 /\ 1 \in DOMAIN s /\ i \in Nat
  BY <1>1
<1>3. Ascending(t)
  <2>1. ASSUME NEW i \in DOMAIN t, NEW j \in DOMAIN t, i < j, t[i][1] = t[j][1]
        PROVE  t[i][2] < t[j][2]
    <3>1. i + 1 < j + 1
      BY <1>2, <2>1
    <3> QED BY <1>1, <1>2, <2>1, <3>1 DEF Ascending
  <2> QED BY <2>1 DEF Ascending
<1>4. \A m \in Set(t) : Head(s)[1] = m[1] => Head(s)[2] < m[2]
  BY <1>1, <1>2 DEF Set, Ascending
<1> QED BY <1>3, <1>4 DEF t

-----------------------------------------------------------------------------
(* Types.                                                                  *)

\* The types, that memory ends with the process, and what the storage keeps.
Typing == Typed /\ Memory /\ BufferBound

\* The initial states have their types.
LEMMA InitTypes == Init => Typing
<1> SUFFICES ASSUME Init PROVE Typing
  OBVIOUS
<1>1. /\ flight \in Seq(Messages) /\ Len(flight) <= InFlight
      /\ buf \in Seq(Messages) /\ BufferBound
  BY EmptySeq, ParamAssumption DEF Init, BufferBound
<1>2. 0 \in 0 .. MaxOffset /\ 0 \in 0 .. MaxCrashes
  BY ParamAssumption
<1> QED BY <1>1, <1>2, ParamAssumption
        DEF Init, Typing, Typed, TypeOK, PollerPCs, Memory

\* The broker keeps them.
LEMMA BrokerTypes ==
  ASSUME Typing, NEW p \in Partitions, Produce(p) \/ AddPartition(p)
  PROVE  Typing'
<1>1. UNCHANGED <<up, crashes, pollVars, pipeVars, storeVars>>
  BY DEF Produce, AddPartition
<1>2. topic' \subseteq Partitions /\ topic \subseteq topic'
  BY DEF Produce, AddPartition, Typing, Typed, TypeOK
<1>3. produced' \in [Partitions -> 0 .. MaxOffset]
  <2>1. produced \in [Partitions -> 0 .. MaxOffset] /\ MaxOffset \in Nat
    BY ParamAssumption DEF Typing, Typed, TypeOK
  <2>2. Produce(p) => produced[p] + 1 \in 0 .. MaxOffset
    BY <2>1 DEF Produce
  <2> QED BY <2>1, <2>2 DEF Produce, AddPartition
<1> QED BY <1>1, <1>2, <1>3 DEF Typing, Typed, TypeOK, pollVars, pipeVars,
    storeVars, Memory, BufferBound

\* What Elasticsearch was sent stays settled, and what it is sent now gets so.
LEMMA IndexSettles ==
  ASSUME Typing, NEW bad \in SUBSET Set(buf), Index(bad)
  PROVE  /\ Settled' = Settled \cup Set(buf)
         /\ durable' \subseteq Messages /\ dropped' \subseteq Messages
<1>1. durable \subseteq Messages /\ dropped \subseteq Messages /\ Set(buf) \subseteq Messages
  BY SetType DEF Typing, Typed, TypeOK
<1>2. /\ durable' = durable \cup (Set(buf) \ bad)
      /\ dropped' = (dropped \cup bad) \ durable'
  BY DEF Index
<1> QED BY <1>1, <1>2 DEF Settled

\* A request without an answer settles all that it holds, or nothing.
LEMMA UnheardSettles ==
  ASSUME Typing, Unheard
  PROVE  /\ Settled' = Settled \/ Settled' = Settled \cup Set(buf)
         /\ durable' \subseteq Messages /\ dropped' \subseteq Messages
<1>1. CASE UNCHANGED <<durable, dropped>>
  BY <1>1 DEF Settled, Typing, Typed, TypeOK
<1>2. CASE \E bad \in SUBSET Set(buf) : Index(bad)
  BY <1>2, IndexSettles
<1> QED BY <1>1, <1>2 DEF Unheard

\* Start and end of the process keep them; a request that is under way then
\* is one without an answer.
LEMMA ProcessTypes ==
  ASSUME Typing, Start \/ Crash
  PROVE  /\ Typing'
         /\ Crash => Settled' = Settled \/ (writing /\ Settled' = Settled \cup Set(buf))
<1>1. CASE Start
  <2>1. poller' \in [Partitions -> PollerPCs]
        /\ \A p \in Partitions : poller'[p] # "send"
    BY <1>1 DEF Start, PollerPCs
  <2>2. pos' \in [Partitions -> 0 .. MaxOffset]
    BY <1>1, ParamAssumption DEF Start
  <2>3. ~ Crash
    BY <1>1 DEF Start, Crash
  <2> QED BY <1>1, <2>1, <2>2, <2>3
          DEF Start, brokerVars, storeVars, Typing, Typed, TypeOK, Memory, BufferBound
<1>2. CASE Crash
  <2>1. poller' \in [Partitions -> PollerPCs]
        /\ \A p \in Partitions : poller'[p] # "send"
    BY <1>2 DEF Crash, PollerPCs
  <2>2. crashes' \in 0 .. MaxCrashes
    BY <1>2, ParamAssumption DEF Crash, Typing, Typed, TypeOK
  <2>3. /\ flight' \in Seq(Messages) /\ Len(flight') <= InFlight
        /\ buf' \in Seq(Messages) /\ BufferBound' /\ Memory'
        /\ writing' \in BOOLEAN /\ fails' \in Nat
    <3>1. flight' = <<>> /\ buf' = <<>> /\ writing' = FALSE /\ fails' = 0
      BY <1>2 DEF Crash
    <3>2. Len(buf') = 0 /\ buf' \in Seq(Messages)
          /\ Len(flight') = 0 /\ flight' \in Seq(Messages)
      BY <3>1, EmptySeq
    <3>3. writing' \in BOOLEAN /\ fails' \in Nat /\ Memory'
      BY <3>1 DEF Memory
    <3>4. BufferBound'
      BY <3>1, <3>2, ParamAssumption DEF BufferBound
    <3> QED BY <3>2, <3>3, <3>4, ParamAssumption
  <2>4. /\ Settled' = Settled \/ (writing /\ Settled' = Settled \cup Set(buf))
        /\ durable' \subseteq Messages /\ dropped' \subseteq Messages
    <3>1. CASE writing
      BY <1>2, <3>1, UnheardSettles DEF Crash
    <3>2. CASE ~ writing
      BY <1>2, <3>2 DEF Crash, Settled, Typing, Typed, TypeOK
    <3> QED BY <3>1, <3>2
  <2> QED BY <1>2, <2>1, <2>2, <2>3, <2>4 DEF Crash, brokerVars, Typing, Typed, TypeOK
<1> QED BY <1>1, <1>2

\* Polling keeps them: no offset gets behind what is produced.
LEMMA PollerTypes ==
  ASSUME Typing, up, NEW p \in Partitions,
         Poll(p) \/ ErrorReceived(p) \/ PollError(p)
  PROVE  Typing'
<1> USE DEF Typing, Typed, TypeOK, Memory, BufferBound, PollerPCs
<1>1. CASE Poll(p)
  <2>1. pos[p] + 1 \in 0 .. MaxOffset /\ pos[p] + 1 > 0
    BY <1>1, ParamAssumption DEF Poll
  <2>2. /\ pos' \in [Partitions -> 0 .. MaxOffset]
        /\ poller' \in [Partitions -> PollerPCs]
        /\ \A q \in Partitions : poller'[q] = "send" => pos'[q] > 0
    BY <1>1, <2>1 DEF Poll
  <2> QED BY <1>1, <2>2 DEF Poll, brokerVars, pipeVars, storeVars
<1>2. CASE ErrorReceived(p) \/ PollError(p)
  <2>1. /\ poller' \in [Partitions -> PollerPCs]
        /\ \A q \in Partitions : poller'[q] = "send" => poller[q] = "send"
    BY <1>2 DEF ErrorReceived, PollError
  <2>2. flow' \in {"running", "stalled", "cancelled", "stopped"}
        /\ UNCHANGED <<brokerVars, up, crashes, partitions, pos, src, flight,
                       storeVars>>
    BY <1>2 DEF ErrorReceived, PollError, pipeVars
  <2> QED BY <2>1, <2>2 DEF brokerVars, storeVars
<1> QED BY <1>1, <1>2

\* Sending keeps them, and appends one message to the pipeline.
LEMMA SendTypes ==
  ASSUME Typing, up, NEW p \in Partitions, Send(p)
  PROVE  /\ Typing' /\ <<p, pos[p] - 1>> \in Messages
         /\ flight' = Append(flight, <<p, pos[p] - 1>>)
         /\ Set(flight)' = Set(flight) \cup {<<p, pos[p] - 1>>}
<1> USE DEF Typing, Typed, TypeOK, Memory, BufferBound
<1>1. <<p, pos[p] - 1>> \in Messages
  BY ParamAssumption DEF Send, Messages, Offsets
<1>2. flight' = Append(flight, <<p, pos[p] - 1>>)
  BY DEF Send
<1>3. /\ Set(flight)' = Set(flight) \cup {<<p, pos[p] - 1>>}
      /\ flight' \in Seq(Messages) /\ Len(flight') = Len(flight) + 1
  <2> DEFINE m == <<p, pos[p] - 1>>
  <2>1. flight \in Seq(Messages) /\ m \in Messages
    BY <1>1
  <2> HIDE DEF m
  <2>2. /\ Set(Append(flight, m)) = Set(flight) \cup {m}
        /\ Append(flight, m) \in Seq(Messages)
        /\ Len(Append(flight, m)) = Len(flight) + 1
    BY <2>1, SetAppend
  <2>3. flight' = Append(flight, m)
    BY <1>2 DEF m
  <2>4. Set(flight)' = Set(flight')
    BY DEF Set
  <2> QED BY <2>2, <2>3, <2>4 DEF m
<1>4. Len(flight') <= InFlight
  <2>1. Len(flight) \in Nat /\ Len(flight) < InFlight
    BY DEF Send
  <2> QED BY <1>3, <2>1, ParamAssumption
<1>5. /\ poller' \in [Partitions -> PollerPCs]
      /\ \A q \in Partitions : poller'[q] = "send" => poller[q] = "send"
  BY DEF Send, PollerPCs
<1> QED BY <1>1, <1>2, <1>3, <1>4, <1>5 DEF Send, brokerVars, storeVars

\* Taking a payload keeps them: the storage has it in memory afterwards.
LEMMA DrainTypes ==
  ASSUME Typing, up, Drain
  PROVE  /\ Typing' /\ Head(flight) \in Messages /\ flight # <<>>
         /\ Set(flight) = {Head(flight)} \cup Set(flight)'
         /\ Settled' = Settled /\ Set(buf)' = Set(buf) \cup {Head(flight)}
<1>1. flight \in Seq(Messages) /\ flight # <<>> /\ flight' = Tail(flight)
  BY DEF Drain, Typing, Typed, TypeOK
<1>2. /\ Set(flight) = {Head(flight)} \cup Set(flight)'
      /\ Head(flight) \in Messages /\ flight' \in Seq(Messages)
      /\ Len(flight') <= InFlight
  <2>1. /\ Set(flight) = {Head(flight)} \cup Set(Tail(flight))
        /\ Head(flight) \in Messages /\ Tail(flight) \in Seq(Messages)
        /\ Len(Tail(flight)) = Len(flight) - 1 /\ Len(flight) \in Nat
    BY <1>1, SetTail
  <2>2. Set(flight)' = Set(Tail(flight))
    BY <1>1 DEF Set
  <2> QED BY <1>1, <2>1, <2>2, ParamAssumption DEF Typing, Typed, TypeOK
<1>3. /\ UNCHANGED <<brokerVars, up, crashes, pollVars, flow, src, fails, durable,
                     dropped>>
      /\ ~ writing /\ buf' = Append(buf, Head(flight))
      /\ writing' = (Len(buf) + 1 >= Batch)
  BY DEF Drain
<1>4. /\ Set(buf)' = Set(buf) \cup {Head(flight)}
      /\ buf' \in Seq(Messages) /\ Len(buf') = Len(buf) + 1 /\ Len(buf) \in Nat
  <2>1. buf \in Seq(Messages)
    BY DEF Typing, Typed, TypeOK
  <2>2. Set(buf)' = Set(Append(buf, Head(flight)))
    BY <1>3 DEF Set
  <2> QED BY <1>2, <1>3, <2>1, <2>2, SetAppend
<1>5. BufferBound'
  <2>1. Len(buf) < Batch + fails /\ fails \in Nat
    BY <1>3 DEF BufferBound, Typing, Typed, TypeOK
  <2>2. CASE Len(buf) + 1 >= Batch
    <3>1. writing' /\ fails' = fails
      BY <1>3, <2>2
    <3> QED BY <1>4, <2>1, <3>1, ParamAssumption DEF BufferBound
  <2>3. CASE ~ (Len(buf) + 1 >= Batch)
    BY <1>3, <1>4, <2>1, <2>3, ParamAssumption DEF BufferBound
  <2> QED BY <2>2, <2>3
<1>6. writing' \in BOOLEAN
  BY <1>3
<1> QED BY <1>1, <1>2, <1>3, <1>4, <1>5, <1>6
        DEF brokerVars, pollVars, Typing, Typed, TypeOK, Memory, Settled

\* The end of a bulk write keeps them. The storage's memory is settled and
\* empty, or it stays: then what it holds may be settled or not.
LEMMA WriteTypes ==
  ASSUME Typing, up, Write
  PROVE  /\ Typing'
         /\ \/ Settled' = Settled \cup Set(buf) /\ buf' = <<>>
            \/ Settled' = Settled \cup Set(buf) /\ buf' = buf
            \/ Settled' = Settled /\ buf' = buf
<1>1. CASE BulkDone
  <2>1. /\ Settled' = Settled \cup Set(buf)
        /\ durable' \subseteq Messages /\ dropped' \subseteq Messages
    BY <1>1, IndexSettles DEF BulkDone
  <2>2. /\ buf' = <<>> /\ ~ writing' /\ writing' \in BOOLEAN /\ fails' = 0
        /\ UNCHANGED <<brokerVars, up, crashes, pollVars, pipeVars>>
    BY <1>1 DEF BulkDone
  <2>3. buf' \in Seq(Messages) /\ BufferBound'
    BY <2>2, EmptySeq, ParamAssumption DEF BufferBound
  <2> QED BY <2>1, <2>2, <2>3
          DEF brokerVars, pollVars, pipeVars, Typing, Typed, TypeOK, Memory
<1>2. CASE BulkFails
  <2>1. /\ Settled' = Settled \/ Settled' = Settled \cup Set(buf)
        /\ durable' \subseteq Messages /\ dropped' \subseteq Messages
    BY <1>2, UnheardSettles DEF BulkFails
  <2>2. /\ buf' = buf /\ writing /\ ~ writing' /\ writing' \in BOOLEAN
        /\ fails' = fails + 1
        /\ UNCHANGED <<brokerVars, up, crashes, pollVars, pipeVars>>
    BY <1>2 DEF BulkFails
  <2>3. fails' \in Nat /\ BufferBound'
    <3>1. Len(buf) <= Batch + fails /\ fails \in Nat /\ Len(buf) \in Nat
      BY <2>2 DEF BufferBound, Typing, Typed, TypeOK
    <3> QED BY <2>2, <3>1, ParamAssumption DEF BufferBound
  <2> QED BY <2>1, <2>2, <2>3
          DEF brokerVars, pollVars, pipeVars, Typing, Typed, TypeOK, Memory
<1> QED BY <1>1, <1>2 DEF Write

\* Every step keeps the types.
LEMMA NextTypes == ASSUME Typing, [Next]_vars PROVE Typing'
<1>1. CASE UNCHANGED vars
  <2>1. Typed'
    BY <1>1 DEF vars, brokerVars, pollVars, pipeVars, storeVars, Typing, Typed, TypeOK
  <2>2. Memory' /\ BufferBound'
    BY <1>1 DEF vars, pipeVars, storeVars, Typing, Memory, BufferBound
  <2> QED BY <2>1, <2>2 DEF Typing
<1>2. CASE up /\ (ProcessorFails \/ SourceLeaves \/ WorkersStop)
  <2>1. Typed'
    BY <1>2 DEF ProcessorFails, SourceLeaves, WorkersStop, brokerVars, pollVars,
                storeVars, Typing, Typed, TypeOK
  <2>2. /\ up' /\ UNCHANGED <<buf, writing, fails>>
    BY <1>2 DEF ProcessorFails, SourceLeaves, WorkersStop, storeVars
  <2>3. Memory' /\ BufferBound'
    BY <2>2 DEF Typing, Memory, BufferBound
  <2> QED BY <2>1, <2>3 DEF Typing
<1>3. CASE Start \/ Crash
  BY <1>3, ProcessTypes
<1>4. CASE up /\ (Drain \/ Write)
  BY <1>4, DrainTypes, WriteTypes
<1> QED BY <1>1, <1>2, <1>3, <1>4, BrokerTypes, PollerTypes, SendTypes
        DEF Next, Broker, Pipe, Read

-----------------------------------------------------------------------------
(* The steps.                                                              *)

\* Nothing is sent, stored or lost.
Still ==
  /\ UNCHANGED <<up, flight, buf, durable, dropped>>
  /\ \A p \in Partitions : Sent(p)' = Sent(p)

\* A step is of this kind, or one of five.
LEMMA StillSteps ==
  ASSUME Typing, [Next]_vars
  PROVE  \/ Still \/ Start \/ Crash
         \/ up /\ Drain
         \/ up /\ Write
         \/ up /\ \E p \in Partitions : Send(p)
<1> USE DEF Sent, brokerVars, pollVars, pipeVars, storeVars
<1>1. (UNCHANGED vars \/ Broker \/ ProcessorFails \/ SourceLeaves \/ WorkersStop)
        => Still
  BY DEF vars, Broker, Produce, AddPartition, ProcessorFails, SourceLeaves,
         WorkersStop, Still
<1>2. ASSUME NEW p \in Partitions, Poll(p) \/ ErrorReceived(p) \/ PollError(p)
      PROVE  Still
  <2>1. poller \in [Partitions -> PollerPCs] /\ pos \in [Partitions -> 0 .. MaxOffset]
    BY DEF Typing, Typed, TypeOK
  <2>2. CASE Poll(p)
    <3>1. pos[p] \in Int
      BY <2>1, ParamAssumption
    <3> QED BY <2>1, <2>2, <3>1 DEF Poll, Still
  <2>3. CASE ErrorReceived(p) \/ PollError(p)
    BY <2>1, <2>3 DEF ErrorReceived, PollError, Still
  <2> QED BY <1>2, <2>2, <2>3
<1> QED BY <1>1, <1>2 DEF Next, Pipe, Read

\* It keeps the invariant; Poll does, since its record is not sent yet.
LEMMA StillInv == ASSUME IInv, Typing', Still PROVE IInv'
<1>1. Set(buf) \cup Set(flight) \subseteq Messages
  BY DEF IInv, Typed, TypeOK, Set
<1>2. \A m \in Messages : m[1] \in Partitions
  BY DEF Messages
<1>3. InLine'
  BY <1>1, <1>2 DEF IInv, InLine, Still, Set, Ascending
<1>4. NoneMissing' /\ NoPoison' /\ PartitionPrefix'
  BY DEF IInv, NoneMissing, NoPoison, PartitionPrefix, Still, Set, Settled
<1> QED BY <1>3, <1>4 DEF IInv, Typing

\* What is said of the memory holds when it is empty,
LEMMA EmptyMemory ==
  ASSUME flight = <<>>, buf = <<>>
  PROVE  InLine /\ NoPoison
<1>1. Set(flight) = {} /\ Set(buf) = {} /\ DOMAIN flight = {}
  BY SetOfEmpty
<1> QED BY <1>1 DEF InLine, Ascending, NoPoison

\* also after a step.
LEMMA EmptyMemoryNext ==
  ASSUME flight' = <<>>, buf' = <<>>
  PROVE  InLine' /\ NoPoison'
<1>1. Set(flight)' = {} /\ Set(buf)' = {} /\ DOMAIN flight' = {}
  BY DEF Set
<1> QED BY <1>1 DEF InLine, Ascending, NoPoison

\* A start reads every partition from offset zero, so that nothing is sent
\* and nothing is missing.
LEMMA StartInv == ASSUME IInv, Typing', Start PROVE IInv'
<1>1. flight' = <<>> /\ buf' = <<>> /\ Settled' = Settled
  BY DEF IInv, Memory, Start, storeVars, Settled
<1>2. NoneMissing'
  <2>1. \A p \in Partitions : Sent(p)' = 0
    BY DEF Start, Sent
  <2> QED BY <2>1, ParamAssumption DEF NoneMissing, Offsets
<1> QED BY <1>1, <1>2, EmptyMemoryNext DEF IInv, Typing, PartitionPrefix

\* What the storage has in memory may be settled: all that is before it in
\* its partitions is settled or in memory too.
LEMMA SettleBuffer ==
  ASSUME IInv, up, NEW m \in Set(buf), NEW o \in 0 .. m[2]
  PROVE  <<m[1], o>> \in Settled \cup Set(buf)
<1>1. m[1] \in Partitions /\ m[2] \in Offsets /\ m = <<m[1], m[2]>>
  <2>1. m \in Messages
    BY SetType DEF IInv, Typed, TypeOK
  <2> QED BY <2>1, MessageFacts
<1>2. o \in Offsets /\ (o < m[2] \/ o = m[2])
  BY <1>1, ParamAssumption DEF Offsets
<1>3. CASE o = m[2]
  BY <1>1, <1>3
<1>4. CASE o < m[2]
  <2>1. m[2] < Sent(m[1])
    BY DEF IInv, InLine
  <2>2. Sent(m[1]) \in Int
    <3>1. pos[m[1]] \in Int
      BY <1>1, ParamAssumption DEF IInv, Typed, TypeOK
    <3> QED BY <3>1 DEF Sent
  <2>3. o < Sent(m[1])
    BY <1>1, <1>2, <1>4, <2>1, <2>2 DEF Offsets
  <2>4. <<m[1], o>> \in Settled \cup Set(buf) \cup Set(flight)
    BY <1>1, <1>2, <2>3 DEF IInv, NoneMissing
  <2>5. <<m[1], o>> \notin Set(flight)
    <3>1. \A n \in Set(flight) : m[1] = n[1] => m[2] < n[2]
      BY DEF IInv, InLine
    <3>2. ~ (m[2] < o)
      BY <1>1, <1>2, <1>4 DEF Offsets
    <3> QED BY <3>1, <3>2
  <2> QED BY <2>4, <2>5
<1> QED BY <1>2, <1>3, <1>4

\* Once it is, there is no gap.
LEMMA SettleInv ==
  ASSUME IInv, up, Settled' = Settled \cup Set(buf)
  PROVE  PartitionPrefix'
<1>1. ASSUME NEW m \in Settled \cup Set(buf), NEW o \in 0 .. m[2]
      PROVE  <<m[1], o>> \in Settled \cup Set(buf)
  BY <1>1, SettleBuffer DEF IInv, PartitionPrefix
<1>2. ASSUME NEW m \in Settled \cup Set(buf) PROVE m \notin Poison
  <2>1. CASE m \in Settled
    <3>1. m \in Messages
      BY <2>1 DEF IInv, Typed, TypeOK, Settled
    <3>2. m[2] \in 0 .. m[2] /\ m = <<m[1], m[2]>>
      BY <3>1, ParamAssumption DEF Messages, Offsets
    <3> QED BY <2>1, <3>2 DEF IInv, PartitionPrefix
  <2>2. CASE m \in Set(buf)
    BY <2>2 DEF IInv, NoPoison
  <2> QED BY <2>1, <2>2
<1> QED BY <1>1, <1>2 DEF PartitionPrefix

\* A crash settles at most what was under way to Elasticsearch.
LEMMA CrashInv == ASSUME IInv, Typing, Typing', Crash PROVE IInv'
<1>1. flight' = <<>> /\ buf' = <<>> /\ up /\ ~ up'
  BY DEF Crash
<1>2. PartitionPrefix'
  <2>1. Settled' = Settled \/ Settled' = Settled \cup Set(buf)
    BY ProcessTypes
  <2> QED BY <1>1, <2>1, SettleInv DEF IInv, PartitionPrefix
<1> QED BY <1>1, <1>2, EmptyMemoryNext DEF IInv, Typing, NoneMissing

\* The end of a bulk write: what it has settled may stay in memory.
LEMMA WriteInv == ASSUME IInv, Typing, Typing', up, Write PROVE IInv'
<1>1. UNCHANGED <<up, poller, pos, flight>>
  BY DEF Write, BulkDone, BulkFails, pollVars, pipeVars
<1>2. \/ Settled' = Settled \cup Set(buf) /\ buf' = <<>>
      \/ Settled' = Settled \cup Set(buf) /\ buf' = buf
      \/ Settled' = Settled /\ buf' = buf
  BY WriteTypes
<1>3. /\ Set(buf)' \subseteq Set(buf) /\ Set(flight)' = Set(flight)
      /\ Settled \subseteq Settled'
      /\ Settled \cup Set(buf) \subseteq (Settled \cup Set(buf))'
  <2>1. buf' = <<>> => Set(buf)' = {}
    BY DEF Set
  <2>2. buf' = buf => Set(buf)' = Set(buf)
    BY DEF Set
  <2>3. Set(flight)' = Set(flight)
    BY <1>1 DEF Set
  <2> QED BY <1>2, <2>1, <2>2, <2>3
<1>4. \A p \in Partitions : Sent(p)' = Sent(p)
  BY <1>1 DEF Sent
<1>5. \A n \in Set(buf) \cup Set(flight) : n[1] \in Partitions
  BY SetType, MessageFacts DEF Typing, Typed, TypeOK
<1>6. InLine'
  <2>1. \A m \in Set(buf) \cup Set(flight) : m[2] < Sent(m[1])'
    BY <1>4, <1>5 DEF IInv, InLine
  <2>2. Ascending(flight)'
    BY <1>1 DEF IInv, InLine, Ascending
  <2> QED BY <1>3, <2>1, <2>2 DEF IInv, InLine
<1>7. NoneMissing'
  BY <1>1, <1>3, <1>4 DEF IInv, NoneMissing
<1>8. NoPoison'
  BY <1>3 DEF IInv, NoPoison
<1>9. PartitionPrefix'
  BY <1>2, SettleInv DEF IInv, PartitionPrefix
<1> QED BY <1>6, <1>7, <1>8, <1>9 DEF IInv, Typing

\* The record that is sent is the next of its partition.
LEMMA SendInv ==
  ASSUME IInv, Typing, Typing', up, NEW p \in Partitions, Send(p)
  PROVE  IInv'
<1> DEFINE m == <<p, pos[p] - 1>>
<1>1. /\ m \in Messages /\ flight' = Append(flight, m)
      /\ Set(flight)' = Set(flight) \cup {m} /\ flight \in Seq(Messages)
  BY SendTypes DEF Typing, Typed, TypeOK
<1>2. /\ UNCHANGED <<up, buf, pos>> /\ Settled' = Settled /\ Set(buf)' = Set(buf)
      /\ poller[p] = "send" /\ poller' = [poller EXCEPT ![p] = "poll"]
  BY DEF Send, Set, storeVars, Settled
<1>3. /\ poller \in [Partitions -> PollerPCs] /\ pos \in [Partitions -> 0 .. MaxOffset]
      /\ \A q \in Partitions : pos[q] \in Int
  BY ParamAssumption DEF Typing, Typed, TypeOK
<1>4. /\ Sent(p) = pos[p] - 1 /\ Sent(p)' = pos[p]
      /\ \A q \in Partitions : q # p => Sent(q)' = Sent(q)
      /\ \A q \in Partitions : Sent(q) \in Int
  BY <1>2, <1>3 DEF Sent
<1>5. \A n \in Set(buf) \cup Set(flight) :
        n \in Messages /\ n[1] \in Partitions /\ n[2] \in Int
  BY SetType, MessageFacts DEF Typing, Typed, TypeOK
<1>6. \A n \in Set(buf) \cup Set(flight) : n[1] = p => n[2] < pos[p] - 1
  BY <1>4 DEF IInv, InLine
<1>7. Ascending(flight)'
  <2>1. Ascending(Append(flight, m))
    BY <1>1, <1>6, AscendingAppend DEF IInv, InLine
  <2> QED BY <1>1, <2>1 DEF Ascending
<1>8. InLine'
  <2>1. \A n \in Set(buf) : \A l \in Set(flight) \cup {m} : n[1] = l[1] => n[2] < l[2]
    BY <1>6 DEF IInv, InLine
  <2>2. \A n \in Set(buf) \cup Set(flight) \cup {m} : n[2] < Sent(n[1])'
    <3>1. ASSUME NEW n \in Set(buf) \cup Set(flight), n[1] # p
          PROVE  n[2] < Sent(n[1])'
      <4>1. n[2] < Sent(n[1]) /\ n[1] \in Partitions
        BY <1>5 DEF IInv, InLine
      <4>2. \A q \in Partitions : q # p => Sent(q)' = Sent(q)
        BY <1>4
      <4>3. PICK q \in Partitions : q = n[1]
        BY <4>1
      <4> QED BY <3>1, <4>1, <4>2, <4>3
    <3>2. ASSUME NEW n \in Set(buf) \cup Set(flight) \cup {m}, n[1] = p
          PROVE  n[2] < Sent(n[1])'
      <4>1. n[2] < pos[p]
        BY <1>3, <1>5, <1>6, <3>2
      <4>2. Sent(n[1])' = Sent(p)'
        BY <3>2
      <4> QED BY <1>4, <4>1, <4>2
    <3> QED BY <3>1, <3>2
  <2> QED BY <1>1, <1>2, <1>7, <2>1, <2>2 DEF InLine
<1>9. NoneMissing'
  <2>1. ASSUME NEW q \in Partitions, NEW o \in Offsets, o < Sent(q)'
        PROVE  <<q, o>> \in Settled \cup Set(buf) \cup Set(flight) \cup {m}
    <3>1. CASE o < Sent(q)
      BY <3>1 DEF IInv, NoneMissing
    <3>2. CASE ~ (o < Sent(q))
      <4>1. q = p /\ o < pos[p] /\ ~ (o < pos[p] - 1) /\ o \in Int
        BY <1>4, <2>1, <3>2 DEF Offsets
      <4>2. o = pos[p] - 1
        BY <1>3, <4>1
      <4> QED BY <4>1, <4>2
    <3> QED BY <3>1, <3>2
  <2> QED BY <1>1, <1>2, <2>1 DEF NoneMissing
<1>10. NoPoison' /\ PartitionPrefix'
  BY <1>2 DEF IInv, NoPoison, PartitionPrefix
<1> QED BY <1>8, <1>9, <1>10 DEF IInv, Typing

\* The message that the storage takes is the next of its partition.
LEMMA DrainInv == ASSUME IInv, Typing, Typing', up, Drain PROVE IInv'
<1> SUFFICES ASSUME NEW h, h = Head(flight) PROVE IInv'
  OBVIOUS
<1>1. /\ h \in Messages /\ flight # <<>> /\ flight \in Seq(Messages)
      /\ Set(flight) = {h} \cup Set(flight)'
      /\ Settled' = Settled /\ Set(buf)' = Set(buf) \cup {h}
  BY DrainTypes DEF Typing, Typed, TypeOK
<1>2. /\ flight' = Tail(flight) /\ h \notin Poison /\ UNCHANGED <<up, poller, pos>>
  BY DEF Drain, pollVars
<1>3. /\ Ascending(flight)' /\ \A m \in Set(flight)' : h[1] = m[1] => h[2] < m[2]
  <2>1. /\ Ascending(Tail(flight))
        /\ \A m \in Set(Tail(flight)) : h[1] = m[1] => h[2] < m[2]
    BY <1>1, AscendingTail DEF IInv, InLine
  <2> QED BY <1>2, <2>1 DEF Ascending
<1>4. \A p \in Partitions : Sent(p)' = Sent(p)
  BY <1>2 DEF Sent
<1>5. \A n \in Set(buf) \cup Set(flight) :
        n \in Messages /\ n[1] \in Partitions /\ n[2] \in Int
  BY SetType, MessageFacts DEF Typing, Typed, TypeOK
<1>6. \A m \in Set(buf) \cup Set(flight) : m[2] < Sent(m[1])'
  BY <1>4, <1>5 DEF IInv, InLine
<1>7. InLine'
  BY <1>1, <1>3, <1>6 DEF IInv, InLine
<1>8. NoneMissing'
  BY <1>1, <1>2, <1>4 DEF IInv, NoneMissing
<1>9. NoPoison'
  BY <1>1, <1>2 DEF IInv, NoPoison
<1>10. PartitionPrefix'
  BY <1>1 DEF IInv, PartitionPrefix
<1> QED BY <1>7, <1>8, <1>9, <1>10 DEF IInv, Typing

\* The invariant holds initially.
LEMMA InitInv == Init => IInv
<1> SUFFICES ASSUME Init PROVE IInv
  OBVIOUS
<1>1. flight = <<>> /\ buf = <<>> /\ ~ up /\ Settled = {}
  BY DEF Init, Settled
<1> QED BY <1>1, InitTypes, EmptyMemory DEF IInv, Typing, NoneMissing,
    PartitionPrefix

\* Every step keeps it.
LEMMA StepInv == ASSUME IInv, [Next]_vars PROVE IInv'
<1>1. Typing /\ Typing'
  BY NextTypes DEF IInv, Typing
<1> QED BY <1>1, StillSteps, StillInv, StartInv, CrashInv, DrainInv,
    WriteInv, SendInv

\* The inductive invariant holds in every state, over all crashes and
\* restarts: all that a process has sent has come to Elasticsearch, or is in
\* the storage's memory or in the pipeline, in the order of the offsets of each
\* partition.
THEOREM Inductive == Spec => []IInv
  BY InitInv, StepInv, PTL DEF Spec

\* Every variable of the consumer's module keeps its type: the pipeline keeps
\* its bound, and no offset exceeds what was produced.
THEOREM TypeCorrect == Spec => []TypeOK
<1>1. IInv => TypeOK
  BY DEF IInv, Typed
<1> QED BY <1>1, Inductive, PTL

\* PartitionPrefix, for any number of partitions, batch size, capacity, crashes,
\* failed writes and refused documents: Elasticsearch was sent all of a
\* partition up to some offset, and nothing at or behind a message that the
\* processor fails on; what is missing in between is what it has not indexed.
THEOREM NoGap == Spec => []PartitionPrefix
<1>1. IInv => PartitionPrefix
  BY DEF IInv
<1> QED BY <1>1, Inductive, PTL

\* What is read and not settled is in the storage's memory, in the pipeline, or the one
\* record of a goroutine.
LEMMA ExposureBound == ASSUME IInv PROVE Exposure
<1> SUFFICES ASSUME up
             PROVE  Cardinality(ReadBy \ Settled)
                      <= InFlight + Cardinality(partitions) + Batch + fails
  BY DEF Exposure
<1> DEFINE W == {<<p, pos[p] - 1>> : p \in partitions}
           B == Set(buf)
           F == Set(flight)
<1>1. /\ partitions \subseteq Partitions /\ IsFiniteSet(Partitions)
      /\ pos \in [Partitions -> 0 .. MaxOffset] /\ MaxOffset \in Nat
      /\ flight \in Seq(Messages) /\ buf \in Seq(Messages)
      /\ Len(flight) <= InFlight
      /\ InFlight \in Nat /\ Batch \in Nat /\ fails \in Nat
  BY ParamAssumption DEF IInv, Typed, TypeOK
<1>2. ReadBy \ Settled \subseteq (B \cup F) \cup W
  <2>1. SUFFICES ASSUME NEW m \in ReadBy, m \notin Settled, m \notin B, m \notin F
                 PROVE  m \in W
    OBVIOUS
  <2>2. /\ m \in Messages /\ m[1] \in partitions /\ m[2] < pos[m[1]]
        /\ m[1] \in Partitions /\ m[2] \in Offsets /\ m[2] \in Nat /\ m = <<m[1], m[2]>>
    BY MessageFacts DEF ReadBy
  <2>3. ~ (m[2] < Sent(m[1]))
    BY <2>1, <2>2 DEF IInv, NoneMissing
  <2>4. pos[m[1]] \in Nat
    BY <1>1, <2>2
  <2>5. m[2] = pos[m[1]] - 1
    BY <2>2, <2>3, <2>4 DEF Sent
  <2> QED BY <2>2, <2>5
<1>3. IsFiniteSet(B) /\ Cardinality(B) <= Len(buf) /\ IsFiniteSet(F) /\ Cardinality(F) <= Len(flight)
  BY <1>1, SetBound
<1>4. IsFiniteSet(partitions) /\ IsFiniteSet(W) /\ Cardinality(W) <= Cardinality(partitions)
  <2>1. IsFiniteSet(partitions)
    BY <1>1, FS_Subset
  <2> DEFINE f == [p \in partitions |-> <<p, pos[p] - 1>>]
  <2>2. W \in SUBSET {f[p] : p \in partitions}
    OBVIOUS
  <2> HIDE DEF f, W
  <2> QED BY <2>1, <2>2, ImageBound
<1> HIDE DEF W, B, F
<1>5. /\ IsFiniteSet(B \cup F) /\ Cardinality(B \cup F) <= Cardinality(B) + Cardinality(F)
  BY <1>3, UnionBound
<1>6. /\ IsFiniteSet((B \cup F) \cup W)
      /\ Cardinality((B \cup F) \cup W) <= Cardinality(B \cup F) + Cardinality(W)
  BY <1>4, <1>5, UnionBound
<1>7. IsFiniteSet(ReadBy \ Settled)
      /\ Cardinality(ReadBy \ Settled) <= Cardinality((B \cup F) \cup W)
  BY <1>2, <1>6, FS_Subset
<1>8. /\ Cardinality(B) \in Nat /\ Cardinality(F) \in Nat /\ Cardinality(W) \in Nat
      /\ Cardinality(B \cup F) \in Nat /\ Cardinality((B \cup F) \cup W) \in Nat
      /\ Cardinality(partitions) \in Nat /\ Cardinality(ReadBy \ Settled) \in Nat
  BY <1>3, <1>4, <1>5, <1>6, <1>7, FS_CardinalityType
<1>9. Len(buf) \in Nat /\ Len(flight) \in Nat /\ Len(buf) <= Batch + fails
  BY <1>1, ParamAssumption DEF IInv, BufferBound
<1> QED BY <1>1, <1>3, <1>4, <1>5, <1>6, <1>7, <1>8, <1>9

\* Exposure: however long the log, a process has read and not sent to
\* Elasticsearch no more than InFlight + Batch messages, one of each partition,
\* and one for each bulk write that has failed since the last that did not.
THEOREM BoundedExposure == Spec => []Exposure
<1>1. IInv => Exposure
  BY ExposureBound
<1> QED BY <1>1, Inductive, PTL

=============================================================================
