---------------------- MODULE EventDataPipelineProofs -----------------------
(***************************************************************************)
(* Proofs about EventDataPipeline: the order of the messages from the      *)
(* queue to the disk, that each is in one place, that the program          *)
(* implements AtMostOnce, and that no message is lost without a cause, for *)
(* any pool, any capacities, any number of messages, faults and restarts.  *)
(*                                                                         *)
(* The idea: a message passes six places, queue, buffer, reader, pipeline, *)
(* channel, and workers with the disk, and everything in a place was       *)
(* published before everything in the places behind it. No step reorders,  *)
(* since every channel is first in, first out; only the pool's workers     *)
(* complete their files in any order, and they are one place.              *)
(***************************************************************************)
EXTENDS EventDataSetupProofs, FunctionTheorems

-----------------------------------------------------------------------------
(* Sequences of messages.                                                  *)

\* All of A were published before all of B.
Ahead(A, B) == \A a \in A, b \in B : a < b

\* The places a message passes: disk and workers, the pool's channel, the
\* pipeline, the reader, the client's buffer, the queue.
InOrder(D, C, F, R, B, Q) ==
  /\ Ahead(D, C \cup F \cup R \cup B \cup Q)
  /\ Ahead(C, F \cup R \cup B \cup Q)
  /\ Ahead(F, R \cup B \cup Q)
  /\ Ahead(R, B \cup Q)
  /\ Ahead(B, Q)

\* The messages of s are in order, nil records (NoMessage) aside.
Increasing(s) ==
  \A i, j \in DOMAIN s :
    i < j /\ s[i] # NoMessage /\ s[j] # NoMessage => s[i] < s[j]

\* The messages of a sequence of documents.
MessagesOf(docs) == [i \in DOMAIN docs |-> docs[i].msg]

\* The head of an ordered sequence is ahead of its tail.
LEMMA IncreasingTail ==
  ASSUME NEW s \in Seq(Nat), s # <<>>, Increasing(s)
  PROVE  /\ Increasing(Tail(s)) /\ Head(s) \in Nat /\ Tail(s) \in Seq(Nat)
         /\ ToSet(s) = {Head(s)} \cup ToSet(Tail(s))
         /\ Head(s) # NoMessage => Ahead({Head(s)}, ToSet(Tail(s)) \ {NoMessage})
<1>1. /\ Len(s) \in Nat \ {0} /\ DOMAIN s = 1 .. Len(s) /\ Head(s) = s[1] /\ Head(s) \in Nat
      /\ Tail(s) \in Seq(Nat)
      /\ DOMAIN Tail(s) = 1 .. Len(s) - 1
      /\ \A i \in 1 .. Len(s) - 1 : Tail(s)[i] = s[i + 1]
  OBVIOUS
<1>2. \A i \in 1 .. Len(s) - 1 : i + 1 \in DOMAIN s /\ 1 < i + 1
  BY <1>1
<1>3. Increasing(Tail(s))
  <2>1. ASSUME NEW i \in DOMAIN Tail(s), NEW j \in DOMAIN Tail(s), i < j,
               Tail(s)[i] # NoMessage, Tail(s)[j] # NoMessage
        PROVE  Tail(s)[i] < Tail(s)[j]
    <3>1. i + 1 \in DOMAIN s /\ j + 1 \in DOMAIN s /\ i + 1 < j + 1
      BY <1>1, <2>1
    <3> QED BY <1>1, <2>1, <3>1 DEF Increasing
  <2> QED BY <2>1 DEF Increasing
<1>4. ToSet(s) = {Head(s)} \cup ToSet(Tail(s))
  <2>1. ASSUME NEW i \in DOMAIN s PROVE s[i] \in {Head(s)} \cup ToSet(Tail(s))
    <3>1. i = 1 \/ (i - 1 \in 1 .. Len(s) - 1 /\ (i - 1) + 1 = i)
      BY <1>1
    <3> QED BY <1>1, <3>1 DEF ToSet
  <2>2. \A i \in DOMAIN Tail(s) : Tail(s)[i] \in ToSet(s)
    BY <1>1, <1>2 DEF ToSet
  <2>3. Head(s) \in ToSet(s)
    BY <1>1 DEF ToSet
  <2> QED BY <2>1, <2>2, <2>3 DEF ToSet
<1>5. Head(s) # NoMessage => Ahead({Head(s)}, ToSet(Tail(s)) \ {NoMessage})
  <2>1. ASSUME Head(s) # NoMessage, NEW i \in DOMAIN Tail(s), Tail(s)[i] # NoMessage
        PROVE  Head(s) < Tail(s)[i]
    <3>1. i + 1 \in DOMAIN s /\ 1 < i + 1 /\ 1 \in DOMAIN s
      BY <1>1, <1>2
    <3> QED BY <1>1, <2>1, <3>1 DEF Increasing
  <2> QED BY <2>1 DEF Ahead, ToSet
<1> QED BY <1>1, <1>3, <1>4, <1>5

\* What is appended behind all others keeps the order.
LEMMA IncreasingAppend ==
  ASSUME NEW s \in Seq(Nat), Increasing(s), NEW e \in Nat,
         e # NoMessage => Ahead(ToSet(s) \ {NoMessage}, {e})
  PROVE  Increasing(Append(s, e))
<1> DEFINE t == Append(s, e)
<1>1. /\ Len(s) \in Nat /\ DOMAIN s = 1 .. Len(s) /\ DOMAIN t = 1 .. Len(s) + 1
      /\ t[Len(s) + 1] = e /\ \A i \in 1 .. Len(s) : t[i] = s[i]
  OBVIOUS
<1> HIDE DEF t
<1>2. ASSUME NEW i \in DOMAIN t, NEW j \in DOMAIN t, i < j,
             t[i] # NoMessage, t[j] # NoMessage
      PROVE  t[i] < t[j]
  <2>1. i \in DOMAIN s /\ t[i] = s[i] /\ t[i] \in ToSet(s)
    BY <1>1, <1>2 DEF ToSet
  <2>2. CASE j = Len(s) + 1
    BY <1>1, <1>2, <2>1, <2>2 DEF Ahead
  <2>3. CASE j # Len(s) + 1
    <3>1. j \in DOMAIN s /\ t[j] = s[j]
      BY <1>1, <2>3
    <3> QED BY <1>2, <2>1, <3>1 DEF Increasing
  <2> QED BY <2>2, <2>3
<1> QED BY <1>2 DEF Increasing, t

\* What Append adds to the set of the elements.
LEMMA AppendSet ==
  ASSUME NEW S, NEW s \in Seq(S), NEW e \in S
  PROVE  ToSet(Append(s, e)) = ToSet(s) \cup {e}
<1> DEFINE t == Append(s, e)
<1>1. /\ Len(s) \in Nat /\ DOMAIN s = 1 .. Len(s) /\ DOMAIN t = 1 .. Len(s) + 1
      /\ t[Len(s) + 1] = e /\ \A i \in 1 .. Len(s) : t[i] = s[i]
  OBVIOUS
<1> HIDE DEF t
<1>2. Len(s) + 1 \in DOMAIN t /\ \A i \in DOMAIN t : i \in DOMAIN s \/ i = Len(s) + 1
  BY <1>1
<1>3. \A i \in DOMAIN s : i \in DOMAIN t
  BY <1>1
<1> QED BY <1>1, <1>2, <1>3 DEF ToSet, t

\* MessagesOf commutes with Append, Head and Tail.
LEMMA MessagesOfDocuments ==
  ASSUME NEW docs \in Seq(Documents)
  PROVE  /\ MessagesOf(docs) \in Seq(Names)
         /\ docs = <<>> => MessagesOf(docs) = <<>>
         /\ \A d \in Documents :
              MessagesOf(Append(docs, d)) = Append(MessagesOf(docs), d.msg)
         /\ docs # <<>> => /\ MessagesOf(docs) # <<>>
                           /\ Head(MessagesOf(docs)) = Head(docs).msg
                           /\ MessagesOf(Tail(docs)) = Tail(MessagesOf(docs))
<1>1. \A d \in Documents : d.msg \in Names
  BY DEF Documents
<1> HIDE DEF Documents
<1>2. /\ Len(docs) \in Nat /\ DOMAIN docs = 1 .. Len(docs)
      /\ \A i \in 1 .. Len(docs) : docs[i] \in Documents
  OBVIOUS
<1>3. MessagesOf(docs) \in Seq(Names) /\ Len(MessagesOf(docs)) = Len(docs)
  BY <1>1, <1>2 DEF MessagesOf
<1>4. docs = <<>> => MessagesOf(docs) = <<>>
  BY <1>2, <1>3
<1>5. ASSUME NEW d \in Documents
      PROVE  MessagesOf(Append(docs, d)) = Append(MessagesOf(docs), d.msg)
  <2>1. /\ Append(docs, d) \in Seq(Documents) /\ Len(Append(docs, d)) = Len(docs) + 1
        /\ \A i \in 1 .. Len(docs) + 1 : Append(docs, d)[i] = IF i = Len(docs) + 1 THEN d ELSE docs[i]
    OBVIOUS
  <2>2. /\ Append(MessagesOf(docs), d.msg) \in Seq(Names)
        /\ Len(Append(MessagesOf(docs), d.msg)) = Len(docs) + 1
        /\ \A i \in 1 .. Len(docs) + 1 : Append(MessagesOf(docs), d.msg)[i] = IF i = Len(docs) + 1 THEN d.msg ELSE docs[i].msg
    BY <1>1, <1>2, <1>3 DEF MessagesOf
  <2>3. MessagesOf(Append(docs, d)) \in Seq(Names) /\ Len(MessagesOf(Append(docs, d))) = Len(docs) + 1
    BY <1>1, <2>1 DEF MessagesOf
  <2>4. \A i \in 1 .. Len(docs) + 1 : MessagesOf(Append(docs, d))[i] = IF i = Len(docs) + 1 THEN d.msg ELSE docs[i].msg
    BY <1>2, <2>1 DEF MessagesOf
  <2> QED BY <2>2, <2>3, <2>4, SeqEqual
<1>6. ASSUME docs # <<>>
      PROVE  /\ MessagesOf(docs) # <<>>
             /\ Head(MessagesOf(docs)) = Head(docs).msg
             /\ MessagesOf(Tail(docs)) = Tail(MessagesOf(docs))
  <2>1. Len(docs) # 0 /\ 1 \in DOMAIN docs
    BY <1>2, <1>6
  <2>2. MessagesOf(docs) # <<>> /\ Head(MessagesOf(docs)) = Head(docs).msg
    BY <1>2, <1>3, <1>6, <2>1 DEF MessagesOf
  <2>3. /\ Tail(docs) \in Seq(Documents) /\ Len(Tail(docs)) = Len(docs) - 1
        /\ \A i \in 1 .. Len(docs) - 1 : Tail(docs)[i] = docs[i + 1]
    BY <1>6
  <2>4. /\ Tail(MessagesOf(docs)) \in Seq(Names) /\ Len(Tail(MessagesOf(docs))) = Len(docs) - 1
        /\ \A i \in 1 .. Len(docs) - 1 : Tail(MessagesOf(docs))[i] = MessagesOf(docs)[i + 1]
    BY <1>3, <2>2
  <2>5. MessagesOf(Tail(docs)) \in Seq(Names) /\ Len(MessagesOf(Tail(docs))) = Len(docs) - 1
    BY <1>1, <2>3 DEF MessagesOf
  <2>6. \A i \in 1 .. Len(docs) - 1 : MessagesOf(Tail(docs))[i] = MessagesOf(docs)[i + 1]
    BY <1>2, <2>3 DEF MessagesOf
  <2> QED BY <2>2, <2>4, <2>5, <2>6, SeqEqual
<1> QED BY <1>3, <1>4, <1>5, <1>6

-----------------------------------------------------------------------------
(* The line: where a message can be, and in which order.                   *)

\* Messages, without the mark for nil records and empty tasks.
Proper(S) == S \ {NoMessage}

\* The workers of the pool that have a task.
Working == {w \in Pool : worker[w] # "recv"}

\* The messages they have.
AtWorkers == Proper({task[w].msg : w \in Working})

\* Those whose file was at least opened.
Begun == {m \in Messages : files[m] # "absent"}

\* The foremost place: workers and disk together, since a worker that writes
\* has one foot in each.
AtStorage == Begun \cup AtWorkers

\* The messages in f.inCh.
InChannel == Proper(ToSet(MessagesOf(inCh)))

\* The messages in the pipeline.
OnFlight == Proper(ToSet(flight))

\* The message the goroutine of Read is about to send.
AtReader == IF reader = "send" THEN Proper({record}) ELSE {}

\* Everything that is nearer to the disk was published before everything
\* behind it.
Line ==
  InOrder(AtStorage, InChannel, OnFlight, AtReader, ToSet(buffer), ToSet(queue))

\* Nothing is anywhere that was not published.
Published ==
  AtStorage \cup InChannel \cup OnFlight \cup AtReader \cup ToSet(buffer)
    \cup ToSet(queue) \subseteq 1 .. sent

\* Each channel is a queue in the order of publication.
Sorted ==
  /\ Increasing(MessagesOf(inCh)) /\ Increasing(flight)
  /\ Increasing(buffer) /\ Increasing(queue)

\* The invariant of the line.
LineInv == Line /\ Published /\ Sorted

\* What shrinks stays in order.
LEMMA Shrinks ==
  ASSUME NEW D, NEW C, NEW F, NEW R, NEW B, NEW Q, InOrder(D, C, F, R, B, Q),
         NEW D1 \in SUBSET D, NEW C1 \in SUBSET C, NEW F1 \in SUBSET F,
         NEW R1 \in SUBSET R, NEW B1 \in SUBSET B, NEW Q1 \in SUBSET Q
  PROVE  InOrder(D1, C1, F1, R1, B1, Q1)
  BY DEF InOrder, Ahead

\* The types in the terms of this section.
LEMMA LineTypes ==
  ASSUME TypeInv
  PROVE  /\ queue \in Seq(Nat) /\ buffer \in Seq(Nat) /\ flight \in Seq(Nat)
         /\ inCh \in Seq(Documents) /\ MessagesOf(inCh) \in Seq(Nat)
         /\ record \in Nat /\ sent \in Nat
         /\ files \in [Names -> {"absent", "partial"} \cup DataKinds]
         /\ worker \in [Pool -> WorkerPCs] /\ task \in [Pool -> Documents]
         /\ Messages \subseteq Nat /\ NoMessage = 0 /\ 0 \notin Messages
<1>1. /\ queue \in Seq(Messages) /\ buffer \in Seq(Messages)
      /\ flight \in Seq(Messages \cup {NoMessage}) /\ inCh \in Seq(Documents)
      /\ record \in Messages \cup {NoMessage} /\ sent \in 0 .. MaxSent
      /\ files \in [Names -> {"absent", "partial"} \cup DataKinds]
      /\ worker \in [Pool -> WorkerPCs] /\ task \in [Pool -> Documents]
  BY DEF TypeInv, TypeOK, R_TypeOK, F_TypeOK
<1>2. Messages \subseteq Nat /\ NoMessage = 0 /\ 0 \notin Messages
      /\ Messages \cup {NoMessage} \subseteq Nat /\ Names \subseteq Nat
  BY FilesystemAssumption DEF Messages, NoMessage
<1>3. MessagesOf(inCh) \in Seq(Nat)
  BY <1>1, <1>2, MessagesOfDocuments, SeqMonotonic
<1>4. queue \in Seq(Nat) /\ buffer \in Seq(Nat) /\ flight \in Seq(Nat)
  BY <1>1, <1>2, SeqMonotonic
<1>5. record \in Nat /\ sent \in Nat
  BY <1>1, <1>2, RabbitMQAssumption
<1> QED BY <1>1, <1>2, <1>3, <1>4, <1>5

\* A step that only takes away keeps the line.
LEMMA ShrinkLine ==
  ASSUME TypeInv, LineInv,
         AtStorage' \subseteq AtStorage, InChannel' \subseteq InChannel,
         OnFlight' \subseteq OnFlight, AtReader' \subseteq AtReader,
         ToSet(buffer)' \subseteq ToSet(buffer),
         ToSet(queue)' \subseteq ToSet(queue),
         sent' = sent, Sorted'
  PROVE  LineInv'
<1>1. Line'
  BY Shrinks DEF LineInv, Line
<1>2. Published'
  BY DEF LineInv, Published
<1> QED BY <1>1, <1>2 DEF LineInv

\* The empty sequence is in order.
LEMMA EmptyIncreasing == Increasing(<<>>) /\ ToSet(<<>>) = {} /\ MessagesOf(<<>>) = <<>>
<1>1. DOMAIN <<>> = {}
  OBVIOUS
<1>2. Increasing(<<>>) /\ ToSet(<<>>) = {}
  BY <1>1 DEF Increasing, ToSet
<1>3. <<>> \in Seq(Documents)
  BY EmptySeq
<1> QED BY <1>2, <1>3, MessagesOfDocuments

\* What stands while the storage stands.
LEMMA SameStorage ==
  ASSUME UNCHANGED F_vars
  PROVE  AtStorage' = AtStorage /\ InChannel' = InChannel /\ MessagesOf(inCh)' = MessagesOf(inCh)
  BY DEF F_vars, F_memory, AtStorage, Begun, AtWorkers, Working, InChannel,
      MessagesOf

\* A quiet step keeps the line.
LEMMA LineQuiet == ASSUME TypeInv, LineInv, Quiet PROVE LineInv'
<1>1. /\ AtStorage' = AtStorage /\ InChannel' = InChannel /\ MessagesOf(inCh)' = MessagesOf(inCh)
  BY SameStorage DEF Quiet
<1>2. OnFlight' = OnFlight /\ AtReader' = AtReader /\ ToSet(buffer)' = ToSet(buffer) /\ ToSet(queue)' = ToSet(queue)
  BY DEF Quiet, OnFlight, AtReader
<1>3. Sorted'
  BY <1>1 DEF LineInv, Sorted, Quiet
<1>4. sent' = sent
  BY DEF Quiet
<1> QED BY <1>1, <1>2, <1>3, <1>4, ShrinkLine

\* The end of the process empties all but the disk and the queue: none of
\* what comes next from the queue is behind what is on the disk.
LEMMA LineExit == ASSUME TypeInv, LineInv, Exit PROVE LineInv'
<1>1. /\ sent' = sent /\ queue' = queue /\ buffer' = <<>> /\ flight' = <<>> /\ inCh' = <<>>
      /\ reader' = "none" /\ files' = files /\ worker' = [w \in Pool |-> "recv"]
  BY DEF Exit, R_Down, F_Down, R_broker
<1>2. /\ ToSet(buffer)' = {} /\ OnFlight' = {} /\ InChannel' = {} /\ AtReader' = {}
      /\ ToSet(queue)' = ToSet(queue)
  BY <1>1, EmptyIncreasing DEF OnFlight, InChannel, AtReader, Proper
<1>3. AtStorage' \subseteq AtStorage
  BY <1>1 DEF AtStorage, Begun, AtWorkers, Working, Proper
<1>4. Sorted'
  BY <1>1, EmptyIncreasing DEF LineInv, Sorted
<1> QED BY <1>1, <1>2, <1>3, <1>4, ShrinkLine

\* A message is published behind all others.
LEMMA LinePublish == ASSUME TypeInv, LineInv, Publish, OfConsumer PROVE LineInv'
<1>1. /\ sent' = sent + 1 /\ sent \in Nat
      /\ queue' = queue \/ queue' = Append(queue, sent + 1)
      /\ UNCHANGED <<buffer, reader, record, flight, F_vars>>
  BY LineTypes DEF Publish, OfConsumer, R_memory, pipeVars
<1>2. /\ AtStorage' = AtStorage /\ InChannel' = InChannel /\ MessagesOf(inCh)' = MessagesOf(inCh)
  BY <1>1, SameStorage
<1>3. OnFlight' = OnFlight /\ AtReader' = AtReader /\ ToSet(buffer)' = ToSet(buffer)
  BY <1>1 DEF OnFlight, AtReader
<1>4. ToSet(queue)' \subseteq ToSet(queue) \cup {sent + 1}
  <2>1. queue \in Seq(Nat) /\ sent + 1 \in Nat
    BY <1>1, LineTypes
  <2>2. ToSet(Append(queue, sent + 1)) = ToSet(queue) \cup {sent + 1}
    BY <2>1, AppendSet
  <2> QED BY <1>1, <2>2
<1>5. \A m \in AtStorage \cup InChannel \cup OnFlight \cup AtReader \cup ToSet(buffer)
                \cup ToSet(queue) : m \in Nat /\ m <= sent
  BY <1>1 DEF LineInv, Published
<1>6. Line'
  <2>1. InOrder(AtStorage, InChannel, OnFlight, AtReader, ToSet(buffer), ToSet(queue) \cup {sent + 1})
    BY <1>1, <1>5 DEF LineInv, Line, InOrder, Ahead
  <2> QED BY <2>1, <1>2, <1>3, <1>4, Shrinks DEF Line
<1>7. Published'
  BY <1>1, <1>2, <1>3, <1>4, <1>5 DEF LineInv, Published
<1>8. Increasing(queue)'
  <2>1. CASE queue' = queue
    BY <2>1 DEF LineInv, Sorted
  <2>2. CASE queue' = Append(queue, sent + 1)
    <3>1. Ahead(ToSet(queue) \ {NoMessage}, {sent + 1})
      BY <1>1, <1>5 DEF Ahead
    <3>2. queue \in Seq(Nat) /\ Increasing(queue) /\ sent + 1 \in Nat
      BY <1>1, LineTypes DEF LineInv, Sorted
    <3> QED BY <2>2, <3>1, <3>2, IncreasingAppend
  <2> QED BY <1>1, <2>1, <2>2
<1>9. Sorted'
  BY <1>1, <1>2, <1>8 DEF LineInv, Sorted
<1> QED BY <1>6, <1>7, <1>9 DEF LineInv

\* The head of the queue moves to the end of the client's buffer.
LEMMA LinePush == ASSUME TypeInv, LineInv, Push, OfConsumer PROVE LineInv'
<1> DEFINE h == Head(queue)
<1>1. /\ queue # <<>> /\ queue' = Tail(queue) /\ buffer' = Append(buffer, h)
      /\ UNCHANGED <<sent, reader, record, flight, F_vars>>
  BY DEF Push, OfConsumer, pipeVars
<1>2. /\ AtStorage' = AtStorage /\ InChannel' = InChannel /\ MessagesOf(inCh)' = MessagesOf(inCh)
  BY <1>1, SameStorage
<1>3. OnFlight' = OnFlight /\ AtReader' = AtReader
  BY <1>1 DEF OnFlight, AtReader
<1>4. /\ Increasing(Tail(queue)) /\ h \in Nat /\ ToSet(queue) = {h} \cup ToSet(Tail(queue))
      /\ h # 0 => Ahead({h}, ToSet(Tail(queue)) \ {0})
  BY <1>1, LineTypes, IncreasingTail DEF LineInv, Sorted
<1>5. ToSet(buffer)' = ToSet(buffer) \cup {h}
  BY <1>1, <1>4, LineTypes, AppendSet
<1>6. \A m \in ToSet(queue) : m # 0
  BY LineTypes DEF LineInv, Published
<1> HIDE DEF h
<1>7. Line'
  <2>1. Ahead({h}, ToSet(Tail(queue)))
    BY <1>4, <1>6 DEF Ahead
  <2>2. InOrder(AtStorage, InChannel, OnFlight, AtReader, ToSet(buffer) \cup {h}, ToSet(Tail(queue)))
    BY <1>4, <2>1 DEF LineInv, Line, InOrder, Ahead
  <2> QED BY <1>1, <1>2, <1>3, <1>5, <2>2 DEF Line
<1>8. Published'
  BY <1>1, <1>2, <1>3, <1>4, <1>5 DEF LineInv, Published
<1>9. Sorted'
  <2>1. Increasing(buffer)'
    <3>1. buffer \in Seq(Nat) /\ Increasing(buffer)
      BY LineTypes DEF LineInv, Sorted
    <3>2. Ahead(ToSet(buffer) \ {NoMessage}, {h})
      BY <1>4 DEF LineInv, Line, InOrder, Ahead
    <3> QED BY <1>1, <1>4, <3>1, <3>2, IncreasingAppend DEF h
  <2> QED BY <1>1, <1>2, <1>4, <2>1 DEF LineInv, Sorted
<1> QED BY <1>7, <1>8, <1>9 DEF LineInv

\* What the library drops keeps the line.
LEMMA LineClose ==
  ASSUME TypeInv, LineInv, ConnectionShutdown \/ ChannelCloses, OfConsumer
  PROVE  LineInv'
<1>1. /\ buffer' = <<>> /\ UNCHANGED <<sent, queue, reader, record, flight, F_vars>>
  BY DEF ConnectionShutdown, ChannelCloses, OfConsumer, pipeVars, R_broker
<1>2. /\ AtStorage' = AtStorage /\ InChannel' = InChannel /\ MessagesOf(inCh)' = MessagesOf(inCh)
  BY <1>1, SameStorage
<1>3. /\ OnFlight' = OnFlight /\ AtReader' = AtReader /\ ToSet(buffer)' = {}
      /\ ToSet(queue)' = ToSet(queue)
  BY <1>1, EmptyIncreasing DEF OnFlight, AtReader
<1>4. Sorted'
  BY <1>1, <1>2, EmptyIncreasing DEF LineInv, Sorted
<1> QED BY <1>1, <1>2, <1>3, <1>4, ShrinkLine

\* The head of the buffer moves to the reader, or is dropped for a nil
\* record.
LEMMA LineReceive == ASSUME TypeInv, LineInv, ReceiveDelivery, OfConsumer PROVE LineInv'
<1>1. /\ reader = "recv" /\ reader' = "send" /\ UNCHANGED <<sent, queue, flight, F_vars>>
  BY DEF ReceiveDelivery, OfConsumer, pipeVars, R_broker
<1>2. /\ AtStorage' = AtStorage /\ InChannel' = InChannel /\ MessagesOf(inCh)' = MessagesOf(inCh)
  BY <1>1, SameStorage
<1>3. OnFlight' = OnFlight /\ ToSet(queue)' = ToSet(queue) /\ AtReader = {}
  BY <1>1 DEF OnFlight, AtReader
<1>4. CASE buffer = <<>>
  <2>1. record' = NoMessage /\ buffer' = buffer
    BY <1>4 DEF ReceiveDelivery
  <2>2. AtReader' = {}
    BY <2>1 DEF AtReader, Proper
  <2>3. Sorted' /\ ToSet(buffer)' = ToSet(buffer)
    BY <1>1, <1>2, <2>1 DEF LineInv, Sorted
  <2> QED BY <1>1, <1>2, <1>3, <2>2, <2>3, ShrinkLine
<1>5. CASE buffer # <<>>
  <2> DEFINE h == Head(buffer)
  <2>1. /\ Increasing(Tail(buffer)) /\ h \in Nat /\ ToSet(buffer) = {h} \cup ToSet(Tail(buffer))
        /\ h # 0 => Ahead({h}, ToSet(Tail(buffer)) \ {0})
    BY <1>5, LineTypes, IncreasingTail DEF LineInv, Sorted
  <2>2. buffer' = Tail(buffer) /\ (record' = h \/ record' = NoMessage)
    BY <1>5 DEF ReceiveDelivery, Cast
  <2>3. AtReader' \subseteq {h}
    BY <2>2 DEF AtReader, Proper
  <2> HIDE DEF h
  <2>4. \A m \in ToSet(buffer) : m # 0
    BY LineTypes DEF LineInv, Published
  <2>5. Line'
    <3>1. Ahead({h}, ToSet(Tail(buffer)))
      BY <2>1, <2>4 DEF Ahead
    <3>2. InOrder(AtStorage, InChannel, OnFlight, {h}, ToSet(Tail(buffer)), ToSet(queue))
      BY <2>1, <3>1 DEF LineInv, Line, InOrder, Ahead
    <3> QED BY <1>2, <1>3, <2>2, <2>3, <3>2, Shrinks DEF Line
  <2>6. Published'
    BY <1>1, <1>2, <1>3, <2>1, <2>2, <2>3 DEF LineInv, Published
  <2>7. Sorted'
    BY <1>1, <1>2, <2>1, <2>2 DEF LineInv, Sorted
  <2> QED BY <2>5, <2>6, <2>7 DEF LineInv
<1> QED BY <1>4, <1>5

\* The reader's record moves to the end of the pipeline.
LEMMA LineSend == ASSUME TypeInv, LineInv, Send PROVE LineInv'
<1>1. /\ reader = "send" /\ reader' = "recv" /\ UNCHANGED <<sent, queue, buffer, F_vars>>
      /\ flight' = flight \/ flight' = Append(flight, record)
  BY DEF Send, RecordSent, R_broker
<1>2. /\ AtStorage' = AtStorage /\ InChannel' = InChannel /\ MessagesOf(inCh)' = MessagesOf(inCh)
  BY <1>1, SameStorage
<1>3. ToSet(buffer)' = ToSet(buffer) /\ ToSet(queue)' = ToSet(queue) /\ AtReader' = {}
      /\ AtReader = Proper({record})
  BY <1>1 DEF AtReader
<1>4. CASE flight' = flight
  <2>1. OnFlight' = OnFlight /\ Sorted'
    BY <1>1, <1>2, <1>4 DEF OnFlight, LineInv, Sorted
  <2> QED BY <1>1, <1>2, <1>3, <2>1, ShrinkLine
<1>5. CASE flight' = Append(flight, record)
  <2>1. OnFlight' = OnFlight \cup AtReader
    <3>1. flight \in Seq(Nat) /\ record \in Nat
      BY LineTypes
    <3>2. ToSet(Append(flight, record)) = ToSet(flight) \cup {record}
      BY <3>1, AppendSet
    <3> QED BY <1>3, <1>5, <3>2 DEF OnFlight, Proper
  <2>2. Line'
    <3>1. InOrder(AtStorage, InChannel, OnFlight \cup AtReader, {}, ToSet(buffer), ToSet(queue))
      BY DEF LineInv, Line, InOrder, Ahead
    <3> QED BY <1>2, <1>3, <2>1, <3>1 DEF Line
  <2>3. Published'
    BY <1>1, <1>2, <1>3, <2>1 DEF LineInv, Published
  <2>4. Increasing(flight)'
    <3>1. flight \in Seq(Nat) /\ record \in Nat /\ Increasing(flight)
      BY LineTypes DEF LineInv, Sorted
    <3>2. record # NoMessage => Ahead(ToSet(flight) \ {NoMessage}, {record})
      BY <1>3 DEF LineInv, Line, InOrder, Ahead, Proper, OnFlight
    <3> QED BY <1>5, <3>1, <3>2, IncreasingAppend
  <2>5. Sorted'
    BY <1>1, <1>2, <2>4 DEF LineInv, Sorted
  <2> QED BY <2>2, <2>3, <2>5 DEF LineInv
<1> QED BY <1>1, <1>4, <1>5

\* What the workers drop keeps the line.
LEMMA LineStop == ASSUME TypeInv, LineInv, WorkersStop PROVE LineInv'
<1>1. /\ flight' = <<>> /\ UNCHANGED <<sent, queue, buffer, reader, record, F_vars>>
  BY DEF WorkersStop, R_vars, R_memory, R_broker
<1>2. /\ AtStorage' = AtStorage /\ InChannel' = InChannel /\ MessagesOf(inCh)' = MessagesOf(inCh)
  BY <1>1, SameStorage
<1>3. /\ OnFlight' = {} /\ AtReader' = AtReader /\ ToSet(buffer)' = ToSet(buffer)
      /\ ToSet(queue)' = ToSet(queue)
  BY <1>1, EmptyIncreasing DEF OnFlight, AtReader, Proper
<1>4. Sorted'
  BY <1>1, <1>2, EmptyIncreasing DEF LineInv, Sorted
<1> QED BY <1>1, <1>2, <1>3, <1>4, ShrinkLine

\* A task given to a worker that waits.
LEMMA GiveWorkers ==
  ASSUME TypeInv, NEW w \in Pool, NEW d \in Documents, worker[w] = "recv", Give(w, d)
  PROVE  /\ AtWorkers' = AtWorkers \cup Proper({d.msg})
         /\ Working' = Working \cup {w}
         /\ task'[w] = d /\ worker'[w] = "lock"
         /\ \A v \in Working : v # w /\ task'[v] = task[v] /\ worker'[v] = worker[v]
<1>1. /\ worker' = [worker EXCEPT ![w] = "lock"] /\ task' = [task EXCEPT ![w] = d]
      /\ worker \in [Pool -> WorkerPCs] /\ task \in [Pool -> Documents]
  BY LineTypes DEF Give
<1>2. Working' = Working \cup {w}
  BY <1>1 DEF Working
<1>3. /\ task'[w] = d /\ worker'[w] = "lock"
      /\ \A v \in Working : v # w /\ task'[v] = task[v] /\ worker'[v] = worker[v]
  BY <1>1 DEF Working
<1>4. AtWorkers' = AtWorkers \cup Proper({d.msg})
  BY <1>2, <1>3 DEF AtWorkers, Proper
<1> QED BY <1>2, <1>3, <1>4

\* A worker's own steps give the storage nothing new: what it opens is its
\* task, because f.file is.
LEMMA WorkerStorage ==
  ASSUME TypeInv, OneWriter, NEW w \in Pool, Lock(w) \/ Open(w) \/ Save(w) \/ Fail(w)
  PROVE  /\ AtStorage' \subseteq AtStorage
         /\ Working' \subseteq Working /\ w \in Working
         /\ \A v \in Working' : task'[v] = task[v]
         /\ \A v \in Working : v # w => v \in Working' /\ worker'[v] = worker[v]
<1>1. /\ worker \in [Pool -> WorkerPCs] /\ task \in [Pool -> Documents]
      /\ files \in [Names -> {"absent", "partial"} \cup DataKinds]
      /\ Messages \subseteq Names
  BY LineTypes, EventDataAssumption
<1>2. CASE Lock(w)
  BY <1>1, <1>2 DEF Lock, AtStorage, Begun, AtWorkers, Working, Proper
<1>3. CASE Open(w)
  <2>1. file = task[w] /\ worker[w] = "open"
    BY <1>3 DEF Open, OneWriter
  <2>2. task' = task /\ Working' = Working /\ worker' = [worker EXCEPT ![w] = "write"]
    BY <1>1, <1>3, <2>1 DEF Open, Working
  <2>3. AtWorkers' = AtWorkers
    BY <2>2 DEF AtWorkers
  <2>4. Begun' \subseteq Begun \cup Proper({task[w].msg}) /\ w \in Working
    BY <1>1, <1>3, <2>1, LineTypes DEF Open, Begun, Proper, Working
  <2>5. Proper({task[w].msg}) \subseteq AtWorkers
    BY <2>4 DEF AtWorkers, Proper
  <2>6. AtStorage' \subseteq AtStorage
    BY <2>3, <2>4, <2>5 DEF AtStorage
  <2>7. \A v \in Working : v # w => worker'[v] = worker[v]
    BY <1>1, <2>2 DEF Working
  <2> QED BY <2>2, <2>4, <2>6, <2>7
<1>4. CASE Save(w) \/ Fail(w)
  <2>1. Return(w) /\ worker[w] \in {"open", "write"}
    BY <1>4 DEF Save, Fail
  <2>2. /\ Working' = Working \ {w} /\ w \in Working
        /\ \A v \in Working' : task'[v] = task[v] /\ worker'[v] = worker[v]
    BY <1>1, <2>1 DEF Return, Working
  <2>3. AtWorkers' \subseteq AtWorkers
    BY <2>2 DEF AtWorkers, Proper
  <2>4. Begun' \subseteq Begun \cup Proper({task[w].msg})
    BY <1>1, <1>4, LineTypes DEF Save, Fail, Begun, Proper
  <2>5. Proper({task[w].msg}) \subseteq AtWorkers
    BY <2>2 DEF AtWorkers, Proper
  <2>6. AtStorage' \subseteq AtStorage
    BY <2>3, <2>4, <2>5 DEF AtStorage
  <2> QED BY <2>2, <2>6
<1> QED BY <1>2, <1>3, <1>4

\* They keep the line.
LEMMA LineWorker ==
  ASSUME TypeInv, OneWriter, LineInv, Alone,
         NEW w \in Pool, Lock(w) \/ Open(w) \/ Save(w) \/ Fail(w)
  PROVE  LineInv'
<1>1. UNCHANGED <<sent, queue, buffer, reader, record, flight, inCh>>
  BY DEF Alone, Lock, Open, Save, Fail, pipeVars, R_vars, R_broker, R_memory
<1>2. AtStorage' \subseteq AtStorage
  BY WorkerStorage
<1>3. /\ InChannel' = InChannel /\ OnFlight' = OnFlight /\ AtReader' = AtReader
      /\ ToSet(buffer)' = ToSet(buffer) /\ ToSet(queue)' = ToSet(queue)
      /\ MessagesOf(inCh)' = MessagesOf(inCh)
  BY <1>1 DEF InChannel, MessagesOf, OnFlight, AtReader
<1>4. Sorted'
  BY <1>1, <1>3 DEF LineInv, Sorted
<1> QED BY <1>1, <1>2, <1>3, <1>4, ShrinkLine

\* The head of the pool's channel is ahead of the rest of it.
LEMMA ChannelHead ==
  ASSUME TypeInv, LineInv, inCh # <<>>
  PROVE  /\ Head(inCh) \in Documents
         /\ Increasing(MessagesOf(Tail(inCh)))
         /\ InChannel = Proper({Head(inCh).msg}) \cup Proper(ToSet(MessagesOf(Tail(inCh))))
         /\ Ahead(Proper({Head(inCh).msg}), Proper(ToSet(MessagesOf(Tail(inCh)))))
<1> DEFINE s == MessagesOf(inCh)
<1>1. /\ s \in Seq(Nat) /\ s # <<>> /\ Head(s) = Head(inCh).msg
      /\ MessagesOf(Tail(inCh)) = Tail(s)
  BY LineTypes, MessagesOfDocuments
<1>2. Increasing(s)
  BY DEF LineInv, Sorted
<1>3. Head(inCh) \in Documents
  BY LineTypes
<1> HIDE DEF s
<1>4. /\ Increasing(Tail(s)) /\ ToSet(s) = {Head(s)} \cup ToSet(Tail(s))
      /\ Head(s) # NoMessage => Ahead({Head(s)}, ToSet(Tail(s)) \ {NoMessage})
  BY <1>1, <1>2, IncreasingTail
<1>5. InChannel = Proper(ToSet(s))
  BY DEF InChannel, s
<1> QED BY <1>1, <1>3, <1>4, <1>5 DEF Proper, Ahead

\* The head of the pipeline is ahead of the rest of it.
LEMMA FlightHead ==
  ASSUME TypeInv, LineInv, flight # <<>>
  PROVE  /\ Head(flight) \in Nat /\ Increasing(Tail(flight))
         /\ OnFlight = Proper({Head(flight)}) \cup Proper(ToSet(Tail(flight)))
         /\ Ahead(Proper({Head(flight)}), Proper(ToSet(Tail(flight))))
<1>1. flight \in Seq(Nat) /\ Increasing(flight)
  BY LineTypes DEF LineInv, Sorted
<1>2. /\ Increasing(Tail(flight)) /\ Head(flight) \in Nat
      /\ ToSet(flight) = {Head(flight)} \cup ToSet(Tail(flight))
      /\ Head(flight) # NoMessage
           => Ahead({Head(flight)}, ToSet(Tail(flight)) \ {NoMessage})
  BY <1>1, IncreasingTail
<1> QED BY <1>2 DEF OnFlight, Proper, Ahead

\* A worker takes the head of the channel.
LEMMA LineTake ==
  ASSUME TypeInv, LineInv, Alone, NEW w \in Pool, Receive(w)
  PROVE  LineInv'
<1> DEFINE h == Proper({Head(inCh).msg})
           t == Proper(ToSet(MessagesOf(Tail(inCh))))
<1>1. /\ worker[w] = "recv" /\ inCh # <<>> /\ Give(w, Head(inCh)) /\ inCh' = Tail(inCh)
      /\ UNCHANGED <<files, sent, queue, buffer, reader, record, flight>>
  BY DEF Receive, Alone, pipeVars, R_vars, R_broker, R_memory
<1>2. /\ Head(inCh) \in Documents /\ Increasing(MessagesOf(Tail(inCh)))
      /\ InChannel = h \cup t /\ Ahead(h, t)
  BY <1>1, ChannelHead
<1>3. AtWorkers' = AtWorkers \cup h
  BY <1>1, <1>2, GiveWorkers
<1>4. AtStorage' = AtStorage \cup h /\ InChannel' = t
  BY <1>1, <1>3 DEF AtStorage, Begun, InChannel
<1>5. /\ OnFlight' = OnFlight /\ AtReader' = AtReader
      /\ ToSet(buffer)' = ToSet(buffer) /\ ToSet(queue)' = ToSet(queue)
  BY <1>1 DEF OnFlight, AtReader
<1> HIDE DEF h, t
<1>6. InOrder(AtStorage \cup h, t, OnFlight, AtReader, ToSet(buffer), ToSet(queue))
  BY <1>2 DEF LineInv, Line, InOrder, Ahead
<1>7. Line'
  BY <1>4, <1>5, <1>6 DEF Line
<1>8. Published'
  BY <1>1, <1>2, <1>4, <1>5 DEF LineInv, Published
<1>9. Sorted'
  BY <1>1, <1>2 DEF LineInv, Sorted
<1> QED BY <1>7, <1>8, <1>9 DEF LineInv

\* The head of the pipeline moves to the end of the channel, or to a worker
\* that waits if the channel is empty.
LEMMA LineDrain == ASSUME TypeInv, LineInv, Drain PROVE LineInv'
<1> DEFINE d == [msg |-> Head(flight), data |-> Outcome(Head(flight)).payload.data]
           h == Proper({Head(flight)})
           t == Proper(ToSet(Tail(flight)))
<1>1. /\ flight # <<>> /\ DrainTo(d) /\ flight' = Tail(flight)
      /\ UNCHANGED <<files, sent, queue, buffer, reader, record>>
  BY DEF Drain, DrainTo, R_vars, R_broker, R_memory
<1>2. d \in Documents /\ d.msg = Head(flight)
  <2>1. main \in {"start", "process"} /\ Head(flight) \in Messages \cup {NoMessage}
    BY <1>1 DEF TypeInv, TypeOK, SetUp
  <2> QED BY <2>1, OutcomeDocument
<1>3. /\ Head(flight) \in Nat /\ Increasing(Tail(flight)) /\ OnFlight = h \cup t
      /\ Ahead(h, t)
  BY <1>1, FlightHead
<1>4. OnFlight' = t
  BY <1>1 DEF OnFlight
<1>5. /\ AtReader' = AtReader /\ ToSet(buffer)' = ToSet(buffer)
      /\ ToSet(queue)' = ToSet(queue)
  BY <1>1 DEF AtReader
<1>6. CASE inCh' = Append(inCh, d) /\ UNCHANGED <<worker, task>>
  <2>1. AtStorage' = AtStorage
    BY <1>1, <1>6 DEF AtStorage, Begun, AtWorkers, Working
  <2>2. MessagesOf(inCh)' = Append(MessagesOf(inCh), Head(flight))
    <3>1. inCh \in Seq(Documents)
      BY LineTypes
    <3>2. MessagesOf(Append(inCh, d)) = Append(MessagesOf(inCh), d.msg)
      BY <1>2, <3>1, MessagesOfDocuments
    <3>3. MessagesOf(inCh)' = MessagesOf(inCh')
      OBVIOUS
    <3> HIDE DEF d
    <3> QED BY <1>2, <1>6, <3>2, <3>3
  <2>3. InChannel' = InChannel \cup h
    <3>1. MessagesOf(inCh) \in Seq(Nat)
      BY LineTypes
    <3>2. ToSet(Append(MessagesOf(inCh), Head(flight))) = ToSet(MessagesOf(inCh)) \cup {Head(flight)}
      BY <1>3, <3>1, AppendSet
    <3> QED BY <2>2, <3>2 DEF InChannel, Proper
  <2> HIDE DEF t
  <2>4. InOrder(AtStorage, InChannel \cup h, t, AtReader, ToSet(buffer), ToSet(queue))
    <3> HIDE DEF h
    <3> QED BY <1>3 DEF LineInv, Line, InOrder, Ahead
  <2>5. Line'
    BY <1>4, <1>5, <2>1, <2>3, <2>4 DEF Line
  <2>6. Published'
    <3> HIDE DEF h
    <3> QED BY <1>1, <1>3, <1>4, <1>5, <2>1, <2>3 DEF LineInv, Published
  <2>7. Increasing(MessagesOf(inCh))'
    <3>1. MessagesOf(inCh) \in Seq(Nat) /\ Increasing(MessagesOf(inCh))
      BY LineTypes DEF LineInv, Sorted
    <3>2. Head(flight) # NoMessage => Head(flight) \in OnFlight
      BY <1>3 DEF Proper
    <3>3. Head(flight) # NoMessage
            => Ahead(ToSet(MessagesOf(inCh)) \ {NoMessage}, {Head(flight)})
      BY <3>2 DEF LineInv, Line, InOrder, Ahead, InChannel, Proper
    <3> QED BY <1>3, <2>2, <3>1, <3>3, IncreasingAppend
  <2>8. Sorted'
    BY <1>1, <1>3, <2>7 DEF LineInv, Sorted
  <2> QED BY <2>5, <2>6, <2>8 DEF LineInv
<1>7. ASSUME NEW w \in Pool, worker[w] = "recv", Give(w, d), inCh = <<>>, inCh' = inCh
      PROVE  LineInv'
  <2>1. AtWorkers' = AtWorkers \cup h
    <3> HIDE DEF d
    <3> QED BY <1>2, <1>7, GiveWorkers
  <2>2. AtStorage' = AtStorage \cup h
    BY <1>1, <2>1 DEF AtStorage, Begun
  <2>3. InChannel = {} /\ InChannel' = {} /\ MessagesOf(inCh)' = MessagesOf(inCh)
    BY <1>7, EmptyIncreasing DEF InChannel, Proper
  <2> HIDE DEF h, t, d
  <2>4. InOrder(AtStorage \cup h, {}, t, AtReader, ToSet(buffer), ToSet(queue))
    BY <1>3 DEF LineInv, Line, InOrder, Ahead
  <2>5. Line'
    BY <1>4, <1>5, <2>2, <2>3, <2>4 DEF Line
  <2>6. Published'
    BY <1>1, <1>3, <1>4, <1>5, <2>2, <2>3 DEF LineInv, Published
  <2>7. Sorted'
    BY <1>1, <1>3, <2>3 DEF LineInv, Sorted
  <2> QED BY <2>5, <2>6, <2>7 DEF LineInv
<1> QED BY <1>1, <1>6, <1>7 DEF DrainTo

-----------------------------------------------------------------------------
(* The workers and the disk.                                               *)

\* No two workers have the same message.
OneEach ==
  \A v, w \in Working :
    v # w /\ task[v].msg # NoMessage => task[v].msg # task[w].msg

\* A worker that is about to write a message finds no file of it; one that
\* writes has a file that was opened, and something to write.
Disk ==
  \A w \in Working :
    /\ worker[w] \in {"lock", "open"} /\ task[w].msg # NoMessage
         => files[task[w].msg] = "absent"
    /\ worker[w] = "write"
         => files[task[w].msg] = "partial" /\ task[w].data # "unset"

\* Worker w has a message that was published before m.
Late(w, m) == w \in Working /\ 0 < task[w].msg /\ task[w].msg < m

\* Whenever m is on the disk there is a worker without an older message: the
\* one that wrote it, or one that took newer work since.
Room == \A m \in Messages : Whole(m) => \E w \in Pool : ~ Late(w, m)

\* The invariant of the workers.
WorkInv == OneEach /\ Disk /\ Room

\* It holds while the storage stands.
LEMMA WorkUnchanged == ASSUME WorkInv, UNCHANGED <<worker, task, files>> PROVE WorkInv'
  BY DEF WorkInv, OneEach, Disk, Room, Late, Whole, Working

\* The end of the process leaves no worker with a task.
LEMMA WorkDown == ASSUME F_Down PROVE WorkInv'
<1>1. worker' = [w \in Pool |-> "recv"]
  BY DEF F_Down
<1>2. Working' = {}
  BY <1>1 DEF Working
<1>3. 1 \in Pool
  BY FilesystemAssumption DEF Pool
<1> QED BY <1>2, <1>3 DEF WorkInv, OneEach, Disk, Room, Late

\* A new task is behind everything at the storage, so that there is no file
\* of it, and its worker is not late.
LEMMA WorkGive ==
  ASSUME TypeInv, WorkInv, NEW w \in Pool, NEW d \in Documents, worker[w] = "recv",
         Give(w, d), UNCHANGED files, Ahead(AtStorage, Proper({d.msg})),
         Proper({d.msg}) \subseteq Messages
  PROVE  WorkInv'
<1>1. /\ Working' = Working \cup {w} /\ task'[w] = d /\ worker'[w] = "lock"
      /\ \A v \in Working : v # w /\ task'[v] = task[v] /\ worker'[v] = worker[v]
  BY GiveWorkers
<1>2. d.msg # NoMessage => /\ d.msg \in Messages
                           /\ \A m \in AtStorage : m < d.msg
  BY DEF Ahead, Proper
<1>3. \A v \in Working : task[v].msg # NoMessage => task[v].msg \in AtStorage
  BY DEF AtStorage, AtWorkers, Proper
<1>4. \A v \in Working : task[v].msg \in Nat
  <2>1. \A e \in Documents : e.msg \in Nat
    BY FilesystemAssumption DEF Documents
  <2> QED BY <2>1, LineTypes DEF Working
<1>5. OneEach'
  <2>1. \A v \in Working : d.msg # NoMessage /\ task[v].msg # NoMessage => task[v].msg # d.msg
    BY <1>2, <1>3, <1>4, LineTypes
  <2> QED BY <1>1, <2>1 DEF WorkInv, OneEach
<1>6. Disk'
  <2>1. d.msg # NoMessage => files[d.msg] = "absent"
    <3>1. d.msg # NoMessage => d.msg \notin AtStorage
      BY <1>2, LineTypes
    <3> QED BY <1>2, <3>1 DEF AtStorage, Begun
  <2> QED BY <1>1, <2>1 DEF WorkInv, Disk
<1>7. Room'
  <2>1. SUFFICES ASSUME NEW m \in Messages, Whole(m)' PROVE \E v \in Pool : ~ Late(v, m)'
    BY DEF Room
  <2>2. Whole(m) /\ m \in AtStorage
    BY <2>1 DEF Whole, AtStorage, Begun
  <2>3. PICK v \in Pool : ~ Late(v, m)
    BY <2>2 DEF WorkInv, Room
  <2>4. d.msg # NoMessage => m < d.msg
    BY <1>2, <2>2
  <2>5. ~ Late(v, m)'
    <3>1. CASE v = w
      BY <1>1, <1>2, <2>4, <3>1, LineTypes DEF Late
    <3>2. CASE v # w
      BY <1>1, <2>3, <3>2 DEF Late
    <3> QED BY <3>1, <3>2
  <2> QED BY <2>5
<1> QED BY <1>5, <1>6, <1>7 DEF WorkInv

\* A worker's own steps keep it: the worker that completes a file has no task
\* any more, and so is not late.
LEMMA WorkWorker ==
  ASSUME TypeInv, OneWriter, WorkInv, NEW w \in Pool,
         Lock(w) \/ Open(w) \/ Save(w) \/ Fail(w)
  PROVE  WorkInv'
<1>1. /\ Working' \subseteq Working /\ w \in Working
      /\ \A v \in Working' : task'[v] = task[v]
      /\ \A v \in Working : v # w => v \in Working' /\ worker'[v] = worker[v]
  BY WorkerStorage
<1>2. OneEach'
  BY <1>1 DEF WorkInv, OneEach
<1>3. /\ worker \in [Pool -> WorkerPCs] /\ task \in [Pool -> Documents]
      /\ files \in [Names -> {"absent", "partial"} \cup DataKinds]
      /\ \A d \in Documents : d.msg \in Names
  BY LineTypes DEF Documents
<1>4. \A v \in Pool : worker[v] = "write" => mu = v
  BY DEF OneWriter
<1>5. Disk'
  <2>1. CASE Lock(w) \/ Fail(w)
    <3>1. files' = files
      BY <2>1 DEF Lock, Fail
    <3>2. \A v \in Working' : worker'[v] = worker[v]
            \/ (v = w /\ worker[v] = "lock" /\ worker'[v] = "open")
      BY <1>1, <1>3, <2>1 DEF Lock, Fail, Return, Working
    <3> QED BY <1>1, <3>1, <3>2 DEF WorkInv, Disk
  <2>2. CASE Open(w)
    <3>1. file = task[w] /\ task[w].msg \in Names /\ task[w].data # "unset"
      BY <1>3, <2>2 DEF Open, OneWriter
    <3>2. /\ files' = [files EXCEPT ![task[w].msg] = "partial"]
          /\ worker' = [worker EXCEPT ![w] = "write"]
      BY <2>2, <3>1 DEF Open
    <3>3. files'[task[w].msg] = "partial" /\ worker'[w] = "write"
      BY <1>3, <3>1, <3>2
    <3>4. ASSUME NEW v \in Working', v # w
          PROVE  /\ worker'[v] \in {"lock", "open"} /\ task'[v].msg # NoMessage
                      => files'[task'[v].msg] = "absent"
                 /\ worker'[v] = "write" => files'[task'[v].msg] = "partial" /\ task'[v].data # "unset"
      <4>1. v \in Working /\ task'[v] = task[v] /\ worker'[v] = worker[v]
        BY <1>1, <3>4
      <4>2. task[v].msg # NoMessage => task[v].msg # task[w].msg
        BY <1>1, <3>4, <4>1 DEF WorkInv, OneEach
      <4>3. task[v].msg \in Names
        BY <1>3, <4>1 DEF Working
      <4>4. files'[task[v].msg] = files[task[v].msg] \/ files'[task[v].msg] = "partial"
        BY <1>3, <3>2, <4>3
      <4>5. task[v].msg # NoMessage => files'[task[v].msg] = files[task[v].msg]
        BY <1>3, <3>2, <4>2, <4>3
      <4> QED BY <4>1, <4>4, <4>5 DEF WorkInv, Disk
    <3> QED BY <1>1, <3>1, <3>3, <3>4 DEF Disk
  <2>3. CASE Save(w)
    <3>1. files' = [files EXCEPT ![task[w].msg] = task[w].data] /\ w \notin Working'
      BY <1>3, <2>3 DEF Save, Return, Working
    <3>2. ASSUME NEW v \in Working'
          PROVE  /\ worker'[v] \in {"lock", "open"} /\ task'[v].msg # NoMessage
                      => files'[task'[v].msg] = "absent"
                 /\ worker'[v] = "write" => files'[task'[v].msg] = "partial" /\ task'[v].data # "unset"
      <4>1. v \in Working /\ task'[v] = task[v] /\ worker'[v] = worker[v] /\ v # w
        BY <1>1, <3>1
      <4>2. task[v].msg # NoMessage => task[v].msg # task[w].msg
        BY <1>1, <4>1 DEF WorkInv, OneEach
      <4>3. task[v].msg \in Names /\ worker[v] # "write"
        BY <1>3, <1>4, <2>3, <4>1 DEF Working, Save
      <4>4. task[v].msg # NoMessage => files'[task[v].msg] = files[task[v].msg]
        BY <1>3, <3>1, <4>2, <4>3
      <4> QED BY <4>1, <4>3, <4>4 DEF WorkInv, Disk
    <3> QED BY <3>2 DEF Disk
  <2> QED BY <2>1, <2>2, <2>3
<1>6. Room'
  <2>1. SUFFICES ASSUME NEW m \in Messages, Whole(m)' PROVE \E v \in Pool : ~ Late(v, m)'
    BY DEF Room
  <2>2. CASE Whole(m)
    <3>1. PICK v \in Pool : ~ Late(v, m)
      BY <2>2 DEF WorkInv, Room
    <3> QED BY <1>1, <3>1 DEF Late
  <2>3. CASE ~ Whole(m)
    <3>1. Save(w)
      BY <1>3, <2>1, <2>3, EventDataAssumption DEF Lock, Open, Fail, Whole
    <3>2. w \notin Working'
      BY <1>3, <3>1 DEF Save, Return, Working
    <3> QED BY <3>2 DEF Late
  <2> QED BY <2>2, <2>3
<1> QED BY <1>2, <1>5, <1>6 DEF WorkInv

\* The pipeline hands over the next message.
LEMMA WorkDrain == ASSUME TypeInv, LineInv, WorkInv, Drain PROVE WorkInv'
<1> DEFINE d == [msg |-> Head(flight), data |-> Outcome(Head(flight)).payload.data]
<1>1. flight # <<>> /\ DrainTo(d) /\ files' = files
  BY DEF Drain, DrainTo
<1>2. d \in Documents /\ d.msg = Head(flight)
  <2>1. main \in {"start", "process"} /\ Head(flight) \in Messages \cup {NoMessage}
    BY <1>1 DEF TypeInv, TypeOK, SetUp
  <2> QED BY <2>1, OutcomeDocument
<1> HIDE DEF d
<1>3. Proper({d.msg}) \subseteq Messages
  <2>1. Head(flight) \in Messages \cup {NoMessage}
    BY <1>1 DEF TypeInv, TypeOK
  <2> QED BY <1>2, <2>1 DEF Proper
<1>4. Ahead(AtStorage, Proper({d.msg}))
  BY <1>1, <1>2, FlightHead DEF LineInv, Line, InOrder, Ahead
<1>5. CASE UNCHANGED <<worker, task>>
  BY <1>1, <1>5, WorkUnchanged
<1>6. ASSUME NEW w \in Pool, worker[w] = "recv", Give(w, d) PROVE WorkInv'
  BY <1>1, <1>2, <1>3, <1>4, <1>6, WorkGive
<1> QED BY <1>1, <1>5, <1>6 DEF DrainTo

\* A worker takes the next message of the channel.
LEMMA WorkTake ==
  ASSUME TypeInv, LineInv, WorkInv, NEW w \in Pool, Receive(w)
  PROVE  WorkInv'
<1>1. /\ worker[w] = "recv" /\ inCh # <<>> /\ Give(w, Head(inCh)) /\ files' = files
  BY DEF Receive
<1>2. /\ Head(inCh) \in Documents
      /\ Proper({Head(inCh).msg}) \subseteq InChannel
  BY <1>1, ChannelHead
<1>3. Ahead(AtStorage, Proper({Head(inCh).msg}))
  BY <1>2 DEF LineInv, Line, InOrder, Ahead
<1>4. Proper({Head(inCh).msg}) \subseteq Messages
  <2>1. sent \in 0 .. MaxSent
    BY DEF TypeInv, TypeOK, R_TypeOK
  <2>2. InChannel \subseteq 1 .. sent
    BY DEF LineInv, Published
  <2>3. 1 .. sent \subseteq Messages
    BY <2>1, RabbitMQAssumption DEF Messages
  <2> QED BY <1>2, <2>2, <2>3
<1> QED BY <1>1, <1>2, <1>3, <1>4, WorkGive

-----------------------------------------------------------------------------
(* The inductive invariant.                                                *)

\* Types, mutex, line and workers together.
IInv == TypeInv /\ OneWriter /\ LineInv /\ WorkInv

\* It holds initially.
LEMMA InitInv == Init => IInv
<1> SUFFICES ASSUME Init PROVE IInv
  OBVIOUS
<1>1. /\ inCh = <<>> /\ worker = [w \in Pool |-> "recv"] /\ flight = <<>> /\ buffer = <<>>
      /\ queue = <<>> /\ reader = "none" /\ files = [n \in Names |-> "absent"]
  BY DEF Init, F_Init, F_Fresh, R_Init, R_Fresh
<1>2. Working = {} /\ Begun = {}
  BY <1>1, EventDataAssumption DEF Working, Begun
<1>3. /\ AtStorage = {} /\ InChannel = {} /\ OnFlight = {} /\ AtReader = {}
      /\ ToSet(buffer) = {} /\ ToSet(queue) = {}
  BY <1>1, <1>2, EmptyIncreasing
     DEF AtStorage, AtWorkers, InChannel, OnFlight, AtReader, Proper
<1>4. LineInv
  BY <1>1, <1>3, EmptyIncreasing DEF LineInv, Line, Published, Sorted,
      InOrder, Ahead
<1>5. WorkInv
  <2>1. \A m \in Messages : ~ Whole(m)
    BY <1>1, EventDataAssumption DEF Whole
  <2> QED BY <1>2, <2>1 DEF WorkInv, OneEach, Disk, Room
<1>6. OneWriter
  BY InitValid DEF ValidInv
<1> QED BY InitType, <1>4, <1>5, <1>6 DEF IInv

\* Every step keeps it, kind by kind.
LEMMA StepInv == ASSUME IInv, [Next]_vars PROVE IInv'
<1> USE DEF IInv
<1>1. StepKinds
  BY Steps
<1>2. TypeInv' /\ OneWriter'
  BY <1>1, NextType, OneWriterStep
<1>3. CASE Quiet
  BY <1>2, <1>3, LineQuiet, WorkUnchanged DEF Quiet, F_vars, F_memory
<1>4. CASE Exit
  BY <1>2, <1>4, LineExit, WorkDown DEF Exit
<1>5. CASE (Publish \/ Push \/ ReceiveDelivery) /\ OfConsumer
  <2>1. WorkInv'
    BY <1>5, WorkUnchanged DEF OfConsumer, F_vars, F_memory
  <2> QED BY <1>2, <1>5, <2>1, LinePublish, LinePush, LineReceive
<1>6. CASE (ConnectionShutdown \/ ChannelCloses) /\ OfConsumer
  BY <1>2, <1>6, LineClose, WorkUnchanged DEF OfConsumer, F_vars, F_memory
<1>7. CASE Send \/ WorkersStop
  BY <1>2, <1>7, LineSend, LineStop, WorkUnchanged DEF Send, WorkersStop,
      F_vars, F_memory
<1>8. CASE Drain
  BY <1>2, <1>8, LineDrain, WorkDrain
<1>9. ASSUME NEW w \in Pool, Receive(w), Alone PROVE IInv'
  BY <1>2, <1>9, LineTake, WorkTake
<1>10. ASSUME NEW w \in Pool, Lock(w) \/ Open(w) \/ Save(w) \/ Fail(w), Alone PROVE IInv'
  BY <1>2, <1>10, LineWorker, WorkWorker
<1> QED BY <1>1, <1>3, <1>4, <1>5, <1>6, <1>7, <1>8, <1>9, <1>10 DEF StepKinds

\* The inductive invariant holds in every state: the messages pass queue,
\* buffer, reader, pipeline, channel and workers to the disk in one line, in
\* the order of publication, each in one place, and no worker ever finds a
\* file of the message it is about to write.
LEMMA Inductive == Spec => []IInv
  BY InitInv, StepInv, PTL DEF Spec

-----------------------------------------------------------------------------
(* Who is overtaken.                                                       *)

\* The messages that were taken from the queue and are still in memory.
Taken == AtWorkers \cup InChannel \cup OnFlight \cup AtReader \cup ToSet(buffer)

\* OnTheWay and its parts in the terms of the line.
LEMMA TakenOnTheWay ==
  ASSUME TypeInv, NEW m \in Messages
  PROVE  /\ OnTheWay(m) <=> m \in Taken
         /\ WithWorker(m) <=> m \in AtWorkers
         /\ InStorage(m) <=> m \in AtWorkers \cup InChannel
         /\ InConsumer(m) <=> m \in AtReader \cup ToSet(buffer)
         /\ m \in ToSet(flight) <=> m \in OnFlight
<1>0. m # NoMessage
  BY LineTypes
<1>1. WithWorker(m) <=> m \in AtWorkers
  BY <1>0 DEF WithWorker, AtWorkers, Working, Proper
<1>2. (\E i \in DOMAIN inCh : inCh[i].msg = m) <=> m \in InChannel
  <2>1. DOMAIN MessagesOf(inCh) = DOMAIN inCh
        /\ \A i \in DOMAIN inCh : MessagesOf(inCh)[i] = inCh[i].msg
    BY DEF MessagesOf
  <2> QED BY <1>0, <2>1 DEF InChannel, Proper, ToSet
<1>3. InConsumer(m) <=> m \in AtReader \cup ToSet(buffer)
  BY <1>0 DEF InConsumer, AtReader, Proper
<1>4. m \in ToSet(flight) <=> m \in OnFlight
  BY <1>0 DEF OnFlight, Proper
<1> QED BY <1>1, <1>2, <1>3, <1>4 DEF OnTheWay, InStorage, Taken

\* A message is on the disk, in memory or in the queue: never in two of these
\* places.
LEMMA OnePlace ==
  ASSUME IInv, NEW m \in Messages
  PROVE  /\ Whole(m) => m \notin Taken /\ m \notin ToSet(queue)
         /\ m \in ToSet(queue) => m \notin Taken
         /\ m \in Taken \/ Whole(m) \/ m \in ToSet(queue) => m <= sent
<1>1. m \in Nat /\ m # NoMessage /\ ~ (m < m)
  BY LineTypes DEF IInv
<1>2. Whole(m) => m \in Begun
  BY DEF Whole, Begun
<1>3. Whole(m) => m \notin AtWorkers
  <2>1. ASSUME NEW w \in Working, task[w].msg = m PROVE ~ Whole(m)
    <3>1. worker[w] \in {"lock", "open", "write"}
      BY LineTypes DEF IInv, Working, WorkerPCs
    <3> QED BY <1>1, <2>1, <3>1 DEF IInv, WorkInv, Disk, Whole
  <2> QED BY <2>1 DEF AtWorkers, Proper
<1>4. /\ m \in AtStorage => m \notin InChannel \cup OnFlight \cup AtReader \cup ToSet(buffer) \cup ToSet(queue)
      /\ m \in ToSet(queue) => m \notin AtStorage \cup InChannel \cup OnFlight \cup AtReader \cup ToSet(buffer)
  BY <1>1 DEF IInv, LineInv, Line, InOrder, Ahead
<1>5. m \in AtStorage \cup Taken \cup ToSet(queue) => m \in 1 .. sent
  BY DEF IInv, LineInv, Published, Taken, AtStorage
<1>6. m \in 1 .. sent => m <= sent
  BY LineTypes DEF IInv
<1> QED BY <1>2, <1>3, <1>4, <1>5, <1>6 DEF AtStorage, Taken

\* All that is older than a stored message and still on its way is with a
\* worker, and one worker has none of it.
LEMMA InvOvertaking == ASSUME IInv PROVE Overtaking
<1> SUFFICES ASSUME NEW m \in Messages, Whole(m)
             PROVE  LET late == {n \in 1 .. m : n \in ToSet(queue) \/ (OnTheWay(n) /\ n # m)}
                    IN Cardinality(late) < PoolSize /\ \A n \in late : WithWorker(n)
  BY DEF Overtaking
<1> DEFINE late == {n \in 1 .. m : n \in ToSet(queue) \/ (OnTheWay(n) /\ n # m)}
           L == {w \in Pool : Late(w, m)}
           f == [w \in Pool |-> task[w].msg]
<1>1. m \in Nat /\ m \in 1 .. MaxSent /\ m \in AtStorage /\ MaxSent \in Nat
  BY LineTypes, RabbitMQAssumption DEF IInv, Whole, AtStorage, Begun, Messages
<1>2. ASSUME NEW n \in late
      PROVE  n \in Messages /\ n < m /\ n \in AtWorkers
  <2>1. n \in Messages /\ n <= m /\ n \in Nat
    BY <1>1, <1>2 DEF Messages
  <2>2. n \in ToSet(queue) \/ (n \in Taken /\ n # m)
    BY <1>2, <2>1, TakenOnTheWay DEF IInv
  <2>3. n \notin InChannel \cup OnFlight \cup AtReader \cup ToSet(buffer) \cup ToSet(queue)
    BY <1>1, <2>1 DEF IInv, LineInv, Line, InOrder, Ahead
  <2> QED BY <1>1, <2>1, <2>2, <2>3 DEF Taken
<1>3. \A n \in late : WithWorker(n)
  BY <1>2, TakenOnTheWay DEF IInv
<1>4. late \subseteq {f[w] : w \in L}
  <2>1. SUFFICES ASSUME NEW n \in late PROVE \E w \in L : n = f[w]
    OBVIOUS
  <2>2. PICK w \in Working : task[w].msg = n /\ n # 0
    BY <1>2, LineTypes DEF AtWorkers, Proper, IInv
  <2>3. n < m /\ 0 < n /\ w \in Pool
    BY <1>2, <2>2, LineTypes DEF Working, IInv
  <2> QED BY <2>2, <2>3 DEF Late
<1>5. PICK v \in Pool : ~ Late(v, m)
  BY DEF IInv, WorkInv, Room
<1>6. IsFiniteSet(Pool) /\ Cardinality(Pool) = PoolSize /\ PoolSize \in Nat \ {0}
  BY FS_Interval, FilesystemAssumption DEF Pool
<1>7. IsFiniteSet(Pool \ {v}) /\ Cardinality(Pool \ {v}) = PoolSize - 1
  BY <1>6, FS_RemoveElement
<1>8. IsFiniteSet(L) /\ Cardinality(L) <= PoolSize - 1
  <2>1. L \in SUBSET (Pool \ {v})
    BY <1>5
  <2> HIDE DEF L
  <2> QED BY <1>7, <2>1, FS_Subset
<1>9. Cardinality(late) <= Cardinality(L) /\ IsFiniteSet(late)
  <2> HIDE DEF late, L, f
  <2> QED BY <1>4, <1>8, ImageBound
<1>10. Cardinality(late) \in Nat /\ Cardinality(L) \in Nat
  BY <1>8, <1>9, FS_CardinalityType
<1>11. Cardinality(late) < PoolSize
  BY <1>6, <1>8, <1>9, <1>10
<1> QED BY <1>3, <1>11

\* Overtaking, for every number of workers: what is stored overtakes fewer
\* messages than there are workers, and only messages that workers have; with
\* one worker the files are complete in the order of the queue, over all
\* restarts.
THEOREM StoredInOrder == Spec => []Overtaking
<1>1. IInv => Overtaking
  BY InvOvertaking
<1> QED BY <1>1, Inductive, PTL

-----------------------------------------------------------------------------
(* What each kind of step does to the messages in memory.                  *)

\* Nothing is published, taken or written.
SameFiles == UNCHANGED <<sent, queue, files>>

\* A quiet step moves none.
LEMMA TakenQuiet == ASSUME Quiet PROVE Taken' = Taken /\ SameFiles
<1>1. /\ AtStorage' = AtStorage /\ InChannel' = InChannel
  BY SameStorage DEF Quiet
<1>2. AtWorkers' = AtWorkers
  BY DEF Quiet, F_vars, F_memory, AtWorkers, Working
<1>3. OnFlight' = OnFlight /\ AtReader' = AtReader /\ ToSet(buffer)' = ToSet(buffer)
  BY DEF Quiet, OnFlight, AtReader
<1> QED BY <1>1, <1>2, <1>3 DEF Taken, SameFiles, Quiet, F_vars

\* The end of the process loses all.
LEMMA TakenExit == ASSUME Exit PROVE Taken' = {} /\ SameFiles
<1>1. /\ sent' = sent /\ queue' = queue /\ buffer' = <<>> /\ flight' = <<>> /\ inCh' = <<>>
      /\ reader' = "none" /\ files' = files /\ worker' = [w \in Pool |-> "recv"]
  BY DEF Exit, R_Down, F_Down, R_broker
<1>2. /\ ToSet(buffer)' = {} /\ OnFlight' = {} /\ InChannel' = {} /\ AtReader' = {}
  BY <1>1, EmptyIncreasing DEF OnFlight, InChannel, AtReader, Proper
<1>3. AtWorkers' = {}
  BY <1>1 DEF AtWorkers, Working, Proper
<1> QED BY <1>1, <1>2, <1>3 DEF Taken, SameFiles

\* The broker's push takes the oldest message of the queue.
LEMMA TakenPush ==
  ASSUME TypeInv, LineInv, Push, OfConsumer
  PROVE  /\ Head(queue) \in Messages /\ queue # <<>> /\ queue' = Tail(queue)
         /\ Taken' = Taken \cup {Head(queue)}
         /\ ToSet(queue) = {Head(queue)} \cup ToSet(queue)'
         /\ \A n \in ToSet(queue)' : Head(queue) < n
         /\ sent' = sent /\ files' = files
<1>1. /\ queue # <<>> /\ queue' = Tail(queue) /\ buffer' = Append(buffer, Head(queue))
      /\ UNCHANGED <<sent, reader, record, flight, F_vars>>
  BY DEF Push, OfConsumer, pipeVars
<1>2. AtWorkers' = AtWorkers /\ InChannel' = InChannel /\ files' = files
  BY <1>1, SameStorage DEF F_vars, F_memory, AtWorkers, Working
<1>3. OnFlight' = OnFlight /\ AtReader' = AtReader
  BY <1>1 DEF OnFlight, AtReader
<1>4. /\ Head(queue) \in Nat /\ ToSet(queue) = {Head(queue)} \cup ToSet(Tail(queue))
      /\ Head(queue) # 0 => Ahead({Head(queue)}, ToSet(Tail(queue)) \ {0})
  BY <1>1, LineTypes, IncreasingTail DEF LineInv, Sorted
<1>5. ToSet(buffer)' = ToSet(buffer) \cup {Head(queue)}
  BY <1>1, <1>4, LineTypes, AppendSet
<1>6. Head(queue) \in Messages
  BY <1>1 DEF TypeInv, TypeOK, R_TypeOK
<1>7. \A n \in ToSet(queue) : n # 0
  BY LineTypes DEF LineInv, Published
<1>8. \A n \in ToSet(Tail(queue)) : Head(queue) < n
  BY <1>4, <1>7 DEF Ahead
<1> QED BY <1>1, <1>2, <1>3, <1>4, <1>5, <1>6, <1>8 DEF Taken

\* The reader loses what is malformed, and nothing else.
LEMMA TakenReceive ==
  ASSUME TypeInv, LineInv, ReceiveDelivery, OfConsumer
  PROVE  Taken' \subseteq Taken /\ Taken \ Taken' \subseteq Malformed /\ SameFiles
<1>1. /\ reader = "recv" /\ reader' = "send" /\ UNCHANGED <<sent, queue, flight, F_vars>>
  BY DEF ReceiveDelivery, OfConsumer, pipeVars, R_broker
<1>2. AtWorkers' = AtWorkers /\ InChannel' = InChannel /\ files' = files
  BY <1>1, SameStorage DEF F_vars, F_memory, AtWorkers, Working
<1>3. OnFlight' = OnFlight /\ AtReader = {} /\ AtReader' = Proper({record'})
  BY <1>1 DEF OnFlight, AtReader
<1>4. CASE buffer = <<>>
  <2>1. record' = NoMessage /\ buffer' = buffer
    BY <1>4 DEF ReceiveDelivery
  <2> QED BY <1>1, <1>2, <1>3, <2>1 DEF Taken, Proper, SameFiles
<1>5. CASE buffer # <<>>
  <2>1. ToSet(buffer) = {Head(buffer)} \cup ToSet(Tail(buffer))
    BY <1>5, LineTypes, IncreasingTail DEF LineInv, Sorted
  <2>2. buffer' = Tail(buffer) /\ record' = Cast(Head(buffer))
    BY <1>5 DEF ReceiveDelivery
  <2>3. Head(buffer) # NoMessage
    BY <2>1, LineTypes DEF LineInv, Published
  <2> QED BY <1>1, <1>2, <1>3, <2>1, <2>2, <2>3 DEF Taken, Proper, Cast,
      SameFiles
<1> QED BY <1>4, <1>5

\* A lost connection or channel loses what is buffered.
LEMMA TakenClose ==
  ASSUME TypeInv, ConnectionShutdown \/ ChannelCloses, OfConsumer
  PROVE  /\ Taken' \subseteq Taken /\ Taken \ Taken' \subseteq ToSet(buffer)
         /\ conn' # conn \/ closes' # closes
         /\ SameFiles
<1>1. /\ buffer' = <<>> /\ UNCHANGED <<sent, queue, reader, record, flight, F_vars>>
  BY DEF ConnectionShutdown, ChannelCloses, OfConsumer, pipeVars, R_broker
<1>2. AtWorkers' = AtWorkers /\ InChannel' = InChannel /\ files' = files
  BY <1>1, SameStorage DEF F_vars, F_memory, AtWorkers, Working
<1>3. OnFlight' = OnFlight /\ AtReader' = AtReader /\ ToSet(buffer)' = {}
  BY <1>1, EmptyIncreasing DEF OnFlight, AtReader
<1>4. closes \in Nat
  BY RabbitMQAssumption DEF TypeInv, TypeOK, R_TypeOK
<1>5. conn' # conn \/ closes' # closes
  BY <1>4 DEF ConnectionShutdown, ChannelCloses
<1> QED BY <1>1, <1>2, <1>3, <1>5 DEF Taken, SameFiles

\* The stream loses the record only if the workers are gone.
LEMMA TakenSend ==
  ASSUME TypeInv, Send
  PROVE  /\ Taken' \subseteq Taken /\ Taken \ Taken' \subseteq AtReader
         /\ flow # "stopped" => Taken' = Taken
         /\ SameFiles
<1>1. /\ reader = "send" /\ reader' = "recv" /\ UNCHANGED <<sent, queue, buffer, F_vars>>
      /\ flight' = IF flow = "stopped" THEN flight ELSE Append(flight, record)
  BY DEF Send, RecordSent, R_broker
<1>2. AtWorkers' = AtWorkers /\ InChannel' = InChannel /\ files' = files
  BY <1>1, SameStorage DEF F_vars, F_memory, AtWorkers, Working
<1>3. ToSet(buffer)' = ToSet(buffer) /\ AtReader' = {} /\ AtReader = Proper({record})
  BY <1>1 DEF AtReader
<1>4. CASE flow = "stopped"
  <2>1. OnFlight' = OnFlight
    BY <1>1, <1>4 DEF OnFlight
  <2> QED BY <1>1, <1>2, <1>3, <1>4, <2>1 DEF Taken, SameFiles
<1>5. CASE flow # "stopped"
  <2>1. ToSet(Append(flight, record)) = ToSet(flight) \cup {record}
    BY LineTypes, AppendSet
  <2>2. OnFlight' = OnFlight \cup AtReader
    BY <1>1, <1>3, <1>5, <2>1 DEF OnFlight, Proper
  <2> QED BY <1>1, <1>2, <1>3, <2>2 DEF Taken, SameFiles
<1> QED BY <1>4, <1>5

\* Workers that exit lose what is in the pipeline.
LEMMA TakenStop ==
  ASSUME WorkersStop
  PROVE  /\ Taken' \subseteq Taken /\ Taken \ Taken' \subseteq OnFlight
         /\ flow = "cancelled" /\ SameFiles
<1>1. /\ flight' = <<>> /\ UNCHANGED <<sent, queue, buffer, reader, record, F_vars>>
      /\ flow = "cancelled"
  BY DEF WorkersStop, R_vars, R_memory, R_broker
<1>2. AtWorkers' = AtWorkers /\ InChannel' = InChannel /\ files' = files
  BY <1>1, SameStorage DEF F_vars, F_memory, AtWorkers, Working
<1>3. /\ OnFlight' = {} /\ AtReader' = AtReader /\ ToSet(buffer)' = ToSet(buffer)
  BY <1>1, EmptyIncreasing DEF OnFlight, AtReader, Proper
<1> QED BY <1>1, <1>2, <1>3 DEF Taken, SameFiles

\* Between pipeline and storage nothing is lost.
LEMMA TakenDrain == ASSUME TypeInv, LineInv, Drain PROVE Taken' = Taken /\ SameFiles
<1> DEFINE d == [msg |-> Head(flight), data |-> Outcome(Head(flight)).payload.data]
           h == Proper({Head(flight)})
           t == Proper(ToSet(Tail(flight)))
<1>1. /\ flight # <<>> /\ DrainTo(d) /\ flight' = Tail(flight)
      /\ UNCHANGED <<files, sent, queue, buffer, reader, record>>
  BY DEF Drain, DrainTo, R_vars, R_broker, R_memory
<1>2. d \in Documents /\ d.msg = Head(flight)
  <2>1. main \in {"start", "process"} /\ Head(flight) \in Messages \cup {NoMessage}
    BY <1>1 DEF TypeInv, TypeOK, SetUp
  <2> QED BY <2>1, OutcomeDocument
<1>3. Head(flight) \in Nat /\ OnFlight = h \cup t /\ OnFlight' = t
  BY <1>1, FlightHead DEF OnFlight
<1>4. AtReader' = AtReader /\ ToSet(buffer)' = ToSet(buffer)
  BY <1>1 DEF AtReader
<1>5. AtWorkers' \cup InChannel' = AtWorkers \cup InChannel \cup h
  <2>1. CASE inCh' = Append(inCh, d) /\ UNCHANGED <<worker, task>>
    <3>1. AtWorkers' = AtWorkers
      BY <2>1 DEF AtWorkers, Working
    <3>2. MessagesOf(Append(inCh, d)) = Append(MessagesOf(inCh), d.msg)
      <4>1. inCh \in Seq(Documents)
        BY LineTypes
      <4> HIDE DEF d
      <4> QED BY <1>2, <4>1, MessagesOfDocuments
    <3>3. MessagesOf(inCh)' = MessagesOf(inCh')
      OBVIOUS
    <3>4. MessagesOf(inCh) \in Seq(Nat)
      BY LineTypes
    <3> HIDE DEF d
    <3>5. ToSet(Append(MessagesOf(inCh), Head(flight))) = ToSet(MessagesOf(inCh)) \cup {Head(flight)}
      BY <1>3, <3>4, AppendSet
    <3>6. InChannel' = InChannel \cup h
      BY <1>2, <2>1, <3>2, <3>3, <3>5 DEF InChannel, Proper
    <3> QED BY <3>1, <3>6
  <2>2. ASSUME NEW w \in Pool, worker[w] = "recv", Give(w, d), inCh' = inCh
        PROVE  AtWorkers' \cup InChannel' = AtWorkers \cup InChannel \cup h
    <3>1. AtWorkers' = AtWorkers \cup h
      <4> HIDE DEF d
      <4> QED BY <1>2, <2>2, GiveWorkers
    <3>2. InChannel' = InChannel
      BY <2>2 DEF InChannel, MessagesOf
    <3> QED BY <3>1, <3>2
  <2> QED BY <1>1, <2>1, <2>2 DEF DrainTo
<1> QED BY <1>1, <1>3, <1>4, <1>5 DEF Taken, SameFiles

\* Nor between the channel and a worker.
LEMMA TakenTake ==
  ASSUME TypeInv, LineInv, Alone, NEW w \in Pool, Receive(w)
  PROVE  Taken' = Taken /\ SameFiles
<1>1. /\ worker[w] = "recv" /\ inCh # <<>> /\ Give(w, Head(inCh)) /\ inCh' = Tail(inCh)
      /\ UNCHANGED <<files, sent, queue, buffer, reader, record, flight>>
  BY DEF Receive, Alone, pipeVars, R_vars, R_broker, R_memory
<1>2. /\ Head(inCh) \in Documents
      /\ InChannel = Proper({Head(inCh).msg}) \cup Proper(ToSet(MessagesOf(Tail(inCh))))
  BY <1>1, ChannelHead
<1>3. AtWorkers' = AtWorkers \cup Proper({Head(inCh).msg})
  BY <1>1, <1>2, GiveWorkers
<1>4. InChannel' = Proper(ToSet(MessagesOf(Tail(inCh))))
  BY <1>1 DEF InChannel
<1>5. OnFlight' = OnFlight /\ AtReader' = AtReader /\ ToSet(buffer)' = ToSet(buffer)
  BY <1>1 DEF OnFlight, AtReader
<1> QED BY <1>1, <1>2, <1>3, <1>4, <1>5 DEF Taken, SameFiles

\* A worker loses at most its own message, and not before it writes.
LEMMA TakenWorker ==
  ASSUME TypeInv, OneWriter, Alone,
         NEW w \in Pool, Lock(w) \/ Open(w) \/ Save(w) \/ Fail(w)
  PROVE  /\ Taken' \subseteq Taken
         /\ Taken \ Taken' \subseteq Proper({task[w].msg})
         /\ Lock(w) \/ Open(w) => Taken' = Taken
         /\ UNCHANGED <<sent, queue>>
<1>1. UNCHANGED <<sent, queue, buffer, reader, record, flight, inCh>>
  BY DEF Alone, Lock, Open, Save, Fail, pipeVars, R_vars, R_broker, R_memory
<1>2. /\ InChannel' = InChannel /\ OnFlight' = OnFlight /\ AtReader' = AtReader
      /\ ToSet(buffer)' = ToSet(buffer)
  BY <1>1 DEF InChannel, MessagesOf, OnFlight, AtReader
<1>3. /\ Working' \subseteq Working /\ w \in Working
      /\ \A v \in Working' : task'[v] = task[v]
      /\ \A v \in Working : v # w => v \in Working'
  BY WorkerStorage
<1>4. AtWorkers' \subseteq AtWorkers /\ AtWorkers \subseteq AtWorkers' \cup Proper({task[w].msg})
  BY <1>3 DEF AtWorkers, Proper
<1>5. ASSUME Lock(w) \/ Open(w) PROVE AtWorkers' = AtWorkers
  <2>1. worker' = [worker EXCEPT ![w] = "open"] \/ worker' = [worker EXCEPT ![w] = "write"]
    BY <1>5 DEF Lock, Open
  <2>2. Working' = Working
    BY <1>3, <2>1, LineTypes DEF Working
  <2> QED BY <1>3, <2>2 DEF AtWorkers
<1> QED BY <1>1, <1>2, <1>4, <1>5 DEF Taken

-----------------------------------------------------------------------------
(* The program implements AtMostOnce.                                      *)

\* The place of each message in the terms of the line.
Accounted ==
  \A m \in Messages :
    /\ m \in Nat /\ sent \in Nat
    /\ OnTheWay(m) <=> m \in Taken
    /\ m > sent => Place(m) = "unsent"
    /\ m \in Taken => Place(m) = "taken"
    /\ Whole(m) => Place(m) = "stored"
    /\ m \in ToSet(queue) => Place(m) = "queued"
    /\ m <= sent /\ m \notin Taken /\ ~ Whole(m) /\ m \notin ToSet(queue)
         => Place(m) = "gone"

\* It is as Place defines it.
LEMMA PlaceOf == IInv => Accounted
<1> SUFFICES ASSUME IInv, NEW m \in Messages
             PROVE  /\ m \in Nat /\ sent \in Nat
                    /\ OnTheWay(m) <=> m \in Taken
                    /\ m > sent => Place(m) = "unsent"
                    /\ m \in Taken => Place(m) = "taken"
                    /\ Whole(m) => Place(m) = "stored"
                    /\ m \in ToSet(queue) => Place(m) = "queued"
                    /\ m <= sent /\ m \notin Taken /\ ~ Whole(m) /\ m \notin ToSet(queue)
                         => Place(m) = "gone"
  BY DEF Accounted
<1>1. m \in Nat /\ sent \in Nat /\ (m <= sent <=> ~ (m > sent))
  BY LineTypes DEF IInv
<1>2. OnTheWay(m) <=> m \in Taken
  BY TakenOnTheWay DEF IInv
<1> QED BY <1>1, <1>2, OnePlace DEF Place

\* In the next state too.
LEMMA PlaceNext == IInv' => Accounted'
  BY PlaceOf, PTL

\* How to show a move of AtMostOnce.
LEMMA Moves ==
  ASSUME NEW M \in SUBSET Messages, NEW from, NEW to,
         \A m \in M : Place(m) = from /\ Place(m)' = to,
         \A m \in Messages \ M : Place(m)' = Place(m)
  PROVE  EndToEnd!Move(M, from, to)
  BY DEF EndToEnd!Move

\* A step that neither publishes, takes nor completes a file loses the
\* messages that leave the memory, or stutters.
LEMMA LoseStep ==
  ASSUME IInv, IInv', Taken' \subseteq Taken, UNCHANGED <<sent, queue>>,
         \A m \in Messages : Whole(m)' <=> Whole(m)
  PROVE  EndToEnd!Next
<1> DEFINE M == {m \in Messages : m \in Taken /\ m \notin Taken'}
<1>1. ASSUME NEW m \in Messages
      PROVE  /\ m \in M => Place(m) = "taken" /\ Place(m)' = "gone"
             /\ m \notin M => Place(m)' = Place(m)
  <2>1. /\ m \in Nat /\ sent \in Nat
        /\ m > sent => Place(m)' = "unsent"
        /\ m \in Taken' => Place(m)' = "taken"
        /\ Whole(m)' => Place(m)' = "stored"
        /\ m \in ToSet(queue) => Place(m)' = "queued"
        /\ m <= sent /\ m \notin Taken' /\ ~ Whole(m)' /\ m \notin ToSet(queue)
              => Place(m)' = "gone"
    BY PlaceNext DEF Accounted
  <2>2. m <= sent \/ m > sent
    BY <2>1
  <2>3. m \in Taken => ~ Whole(m) /\ m \notin ToSet(queue) /\ m <= sent
    BY OnePlace
  <2> QED BY <1>1, <2>1, <2>2, <2>3, PlaceOf DEF Accounted
<1>2. EndToEnd!Move(M, "taken", "gone")
  <2> HIDE DEF M
  <2>1. M \subseteq Messages
    BY DEF M
  <2> QED BY <1>1, <2>1, Moves
<1> QED BY <1>2 DEF EndToEnd!Next, EndToEnd!Lose

\* Publish puts the next message into the queue, or drops it.
LEMMA PublishMoves ==
  ASSUME IInv, IInv', Publish, OfConsumer
  PROVE  EndToEnd!Next
<1> SUFFICES ASSUME NEW p, p = sent + 1 PROVE EndToEnd!Next
  OBVIOUS
<1>1. /\ sent' = p /\ sent \in Nat /\ p \in Nat /\ p \in Messages
      /\ queue' = queue \/ queue' = Append(queue, p)
      /\ UNCHANGED <<buffer, reader, record, flight, F_vars>>
  <2>1. sent < MaxSent /\ MaxSent \in Nat /\ sent \in Nat
    BY LineTypes, RabbitMQAssumption DEF IInv, Publish
  <2> QED BY <2>1 DEF Publish, OfConsumer, R_memory, pipeVars, Messages
<1>2. Taken' = Taken /\ files' = files
  <2>1. AtWorkers' = AtWorkers /\ InChannel' = InChannel /\ files' = files
    BY <1>1, SameStorage DEF F_vars, F_memory, AtWorkers, Working
  <2>2. OnFlight' = OnFlight /\ AtReader' = AtReader /\ ToSet(buffer)' = ToSet(buffer)
    BY <1>1 DEF OnFlight, AtReader
  <2> QED BY <2>1, <2>2 DEF Taken
<1>3. ToSet(queue)' = ToSet(queue) \/ ToSet(queue)' = ToSet(queue) \cup {p}
  <2>1. queue \in Seq(Nat)
    BY LineTypes DEF IInv
  <2>2. ToSet(Append(queue, p)) = ToSet(queue) \cup {p}
    BY <1>1, <2>1, AppendSet
  <2> QED BY <1>1, <2>2
<1>4. Place(p) = "unsent"
  BY <1>1, PlaceOf DEF Accounted
<1>5. Place(p)' = IF p \in ToSet(queue)' THEN "queued" ELSE "gone"
  <2>1. p \notin Taken' /\ ~ Whole(p)' /\ p <= sent'
    BY <1>1, <1>2, OnePlace DEF Whole
  <2> QED BY <1>1, <2>1, PlaceNext DEF Accounted
<1>6. ASSUME NEW m \in Messages \ {p} PROVE Place(m)' = Place(m)
  <2>1. OnTheWay(m)' <=> OnTheWay(m)
    BY <1>2, PlaceOf, PlaceNext DEF Accounted
  <2>2. Whole(m)' <=> Whole(m)
    BY <1>2 DEF Whole
  <2>3. m \in ToSet(queue)' <=> m \in ToSet(queue)
    BY <1>3, <1>6
  <2>4. m > sent' <=> m > sent
    BY <1>1, <1>6, PlaceOf DEF Accounted
  <2> QED BY <2>1, <2>2, <2>3, <2>4 DEF Place
<1>7. {p} \in SUBSET Messages /\ \A m \in {p} : m = p
  BY <1>1
<1>8. EndToEnd!Move({p}, "unsent", "queued") \/ EndToEnd!Move({p}, "unsent", "gone")
  <2>1. CASE p \in ToSet(queue)'
    BY <1>4, <1>5, <1>6, <1>7, <2>1, Moves
  <2>2. CASE p \notin ToSet(queue)'
    BY <1>4, <1>5, <1>6, <1>7, <2>2, Moves
  <2> QED BY <2>1, <2>2
<1> QED BY <1>1, <1>8 DEF EndToEnd!Next, EndToEnd!Publish, EndToEnd!Drop

\* Push takes the first message of the queue.
LEMMA PushMoves ==
  ASSUME IInv, IInv', Push, OfConsumer
  PROVE  EndToEnd!Next
<1> SUFFICES ASSUME NEW h, h = Head(queue) PROVE EndToEnd!Next
  OBVIOUS
<1>1. /\ h \in Messages /\ Taken' = Taken \cup {h}
      /\ ToSet(queue) = {h} \cup ToSet(queue)'
      /\ \A n \in ToSet(queue)' : h < n
      /\ sent' = sent /\ files' = files
  BY TakenPush DEF IInv
<1>2. Place(h) = "queued" /\ Place(h)' = "taken"
  BY <1>1, PlaceOf, PlaceNext DEF Accounted
<1>3. ASSUME NEW m \in Messages \ {h} PROVE Place(m)' = Place(m)
  <2>1. OnTheWay(m)' <=> OnTheWay(m)
    BY <1>1, <1>3, PlaceOf, PlaceNext DEF Accounted
  <2>2. Whole(m)' <=> Whole(m)
    BY <1>1 DEF Whole
  <2>3. m \in ToSet(queue)' <=> m \in ToSet(queue)
    BY <1>1, <1>3
  <2> QED BY <1>1, <2>1, <2>2, <2>3 DEF Place
<1>4. ASSUME NEW n \in Messages, n < h PROVE Place(n) # "queued"
  <2>1. n \notin ToSet(queue)
    <3>1. n # h /\ ~ (h < n)
      BY <1>1, <1>4, PlaceOf DEF Accounted
    <3> QED BY <1>1, <3>1
  <2> QED BY <2>1 DEF Place
<1>5. EndToEnd!Move({h}, "queued", "taken")
  <2>1. {h} \in SUBSET Messages /\ \A m \in {h} : m = h
    BY <1>1
  <2> QED BY <1>2, <1>3, <2>1, Moves
<1>6. EndToEnd!Take(h)
  BY <1>4, <1>5 DEF EndToEnd!Take
<1> QED BY <1>1, <1>6 DEF EndToEnd!Next

\* Save completes the file of one message that was in memory, and touches no
\* other.
LEMMA SaveStores ==
  ASSUME IInv, NEW w \in Pool, Save(w), NEW s, s = task[w].msg
  PROVE  /\ \A m \in Messages \ {s} : Whole(m)' <=> Whole(m)
         /\ s \in Messages => Whole(s)' /\ ~ Whole(s) /\ s \in Taken
<1>1. /\ files' = [files EXCEPT ![s] = task[w].data]
      /\ worker[w] = "write" /\ w \in Working
  BY DEF Save, Working
<1>2. /\ task[w].data \in {"value", "stamped"} /\ files[s] = "partial" /\ s \in Names
  <2>1. task[w] \in Documents
    BY LineTypes DEF IInv
  <2>2. task[w].data # "unset" /\ files[task[w].msg] = "partial"
    BY <1>1 DEF IInv, WorkInv, Disk
  <2> QED BY <2>1, <2>2 DEF Documents, DataKinds
<1>3. files \in [Names -> {"absent", "partial"} \cup DataKinds] /\ Messages \subseteq Names
  BY LineTypes, EventDataAssumption DEF IInv
<1>4. s \in Messages => s \in Taken
  BY <1>1, LineTypes DEF IInv, Taken, AtWorkers, Proper
<1> QED BY <1>1, <1>2, <1>3, <1>4 DEF Whole

\* So it stores that message, or loses none: a file of a nil record is no
\* message's.
LEMMA SaveMoves ==
  ASSUME IInv, IInv', Alone, NEW w \in Pool, Save(w)
  PROVE  EndToEnd!Next
<1> SUFFICES ASSUME NEW s, s = task[w].msg PROVE EndToEnd!Next
  OBVIOUS
<1>1. /\ \A m \in Messages \ {s} : Whole(m)' <=> Whole(m)
      /\ s \in Messages => Whole(s)' /\ ~ Whole(s) /\ s \in Taken
  BY SaveStores
<1>2. Taken' \subseteq Taken /\ Taken \ Taken' \subseteq {s} /\ UNCHANGED <<sent, queue>>
  BY TakenWorker DEF IInv, Proper
<1>3. CASE s \notin Messages
  BY <1>1, <1>2, <1>3, LoseStep
<1>4. CASE s \in Messages
  <2>1. Place(s) = "taken" /\ Place(s)' = "stored"
    BY <1>1, <1>4, PlaceOf, PlaceNext DEF Accounted
  <2>2. ASSUME NEW m \in Messages \ {s} PROVE Place(m)' = Place(m)
    <3>1. OnTheWay(m)' <=> OnTheWay(m)
      BY <1>2, <2>2, PlaceOf, PlaceNext DEF Accounted
    <3>2. Whole(m)' <=> Whole(m)
      BY <1>1, <2>2
    <3> QED BY <1>2, <3>1, <3>2 DEF Place
  <2>3. EndToEnd!Move({s}, "taken", "stored")
    <3>1. {s} \in SUBSET Messages /\ \A m \in {s} : m = s
      BY <1>4
    <3> QED BY <2>1, <2>2, <3>1, Moves
  <2> QED BY <1>4, <2>3 DEF EndToEnd!Next, EndToEnd!Store
<1> QED BY <1>3, <1>4

\* No other step of a worker completes a file or breaks one that is complete:
\* the file a worker opens is absent (Disk).
LEMMA OtherWrites ==
  ASSUME IInv, NEW w \in Pool, Lock(w) \/ Open(w) \/ Fail(w)
  PROVE  \A m \in Messages : Whole(m)' <=> Whole(m)
<1>1. CASE Lock(w) \/ Fail(w)
  BY <1>1 DEF Lock, Fail, Whole
<1>2. CASE Open(w)
  <2>1. files' = [files EXCEPT ![task[w].msg] = "partial"] /\ w \in Working
        /\ worker[w] = "open"
    BY <1>2, LineTypes DEF IInv, OneWriter, Open, Working
  <2>2. task[w].msg # NoMessage => files[task[w].msg] = "absent"
    BY <2>1 DEF IInv, WorkInv, Disk
  <2>3. files \in [Names -> {"absent", "partial"} \cup DataKinds] /\ Messages \subseteq Names
        /\ NoMessage \notin Messages
    BY LineTypes, EventDataAssumption DEF IInv
  <2> QED BY <2>1, <2>2, <2>3 DEF Whole
<1> QED BY <1>1, <1>2

\* Every step is one of AtMostOnce, which includes losing no message.
LEMMA StepMoves == ASSUME IInv, IInv', [Next]_vars PROVE EndToEnd!Next
<1> USE DEF IInv
<1>1. StepKinds
  BY Steps
<1>2. SameFiles => UNCHANGED <<sent, queue>> /\ \A m \in Messages : Whole(m)' <=> Whole(m)
  BY DEF SameFiles, Whole
<1>3. CASE Quiet \/ Exit \/ Send \/ WorkersStop \/ Drain
  BY <1>2, <1>3, LoseStep, TakenQuiet, TakenExit, TakenSend, TakenStop,
      TakenDrain
<1>4. CASE (ReceiveDelivery \/ ConnectionShutdown \/ ChannelCloses) /\ OfConsumer
  BY <1>2, <1>4, LoseStep, TakenReceive, TakenClose
<1>5. CASE (Publish \/ Push) /\ OfConsumer
  BY <1>5, PublishMoves, PushMoves
<1>6. ASSUME NEW w \in Pool, Receive(w), Alone PROVE EndToEnd!Next
  BY <1>2, <1>6, LoseStep, TakenTake
<1>7. ASSUME NEW w \in Pool, Save(w), Alone PROVE EndToEnd!Next
  BY <1>7, SaveMoves
<1>8. ASSUME NEW w \in Pool, Lock(w) \/ Open(w) \/ Fail(w), Alone PROVE EndToEnd!Next
  BY <1>8, LoseStep, TakenWorker, OtherWrites
<1> QED BY <1>1, <1>3, <1>4, <1>5, <1>6, <1>7, <1>8 DEF StepKinds

\* Initially nothing is published.
LEMMA StartsUnsent == Init => EndToEnd!Init
<1> SUFFICES ASSUME Init PROVE EndToEnd!Init
  OBVIOUS
<1>1. sent = 0 /\ IInv
  BY InitInv DEF Init, R_Init
<1>2. ASSUME NEW m \in Messages PROVE Place(m) = "unsent"
  <2>1. m \in 1 .. MaxSent /\ MaxSent \in Nat
    BY RabbitMQAssumption DEF Messages
  <2> QED BY <1>1, <2>1, PlaceOf DEF Accounted
<1> QED BY <1>2 DEF EndToEnd!Init

\* The program, with its restarts, its lost connections, its pool of workers
\* and its shared fields, implements AtMostOnce: the messages leave the queue
\* in order, none returns to it, each is stored at most once, and what is
\* stored is never opened again.
THEOREM ImplementsAtMostOnce == Spec => AtMostOnceSpec
<1>1. Init => EndToEnd!Init
  BY StartsUnsent
<1>2. IInv /\ IInv' /\ [Next]_vars => EndToEnd!Next
  BY StepMoves
<1> QED BY <1>1, <1>2, Inductive, PTL DEF Spec, AtMostOnceSpec, EndToEnd!Spec

-----------------------------------------------------------------------------
(* No loss without a cause.                                                *)

\* The causes that LossHasCause names.
Cause(m) ==
  \/ main' = "off"
  \/ m \in ToSet(buffer) /\ (conn' # conn \/ closes' # closes)
  \/ m \in Malformed
  \/ flow = "cancelled" /\ ~InStorage(m)
  \/ flow = "stopped" /\ InConsumer(m)
  \/ m \in failed'

\* A message that leaves the memory without its file being complete has one
\* of them.
LEMMA StepCause ==
  ASSUME IInv, IInv', [Next]_vars, NEW m \in Messages,
         OnTheWay(m), ~ (OnTheWay(m) \/ Whole(m))'
  PROVE  Cause(m)
<1> USE DEF IInv
<1>1. StepKinds
  BY Steps
<1>2. m \in Taken /\ m \notin Taken' /\ ~ Whole(m)'
  BY PlaceOf, PlaceNext DEF Accounted
<1>3. Quiet \/ Drain => FALSE
  BY <1>2, TakenQuiet, TakenDrain
<1>4. Exit => main' = "off"
  BY DEF Exit
<1>5. CASE Send
  BY <1>2, <1>5, TakenSend, TakenOnTheWay DEF Cause
<1>6. CASE WorkersStop
  <2>1. m \in OnFlight /\ flow = "cancelled"
    BY <1>2, <1>6, TakenStop
  <2>2. m \notin AtWorkers \cup InChannel
    <3>1. ~ (m < m)
      BY LineTypes
    <3> QED BY <2>1, <3>1 DEF LineInv, Line, InOrder, Ahead, AtStorage
  <2> QED BY <2>1, <2>2, TakenOnTheWay DEF Cause
<1>7. CASE ReceiveDelivery /\ OfConsumer
  BY <1>2, <1>7, TakenReceive DEF Cause
<1>8. CASE (ConnectionShutdown \/ ChannelCloses) /\ OfConsumer
  BY <1>2, <1>8, TakenClose DEF Cause
<1>9. CASE (Publish \/ Push) /\ OfConsumer
  <2>1. Push => Taken \subseteq Taken'
    BY <1>9, TakenPush
  <2>2. Publish => Taken' = Taken
    <3>1. Publish => UNCHANGED <<buffer, reader, record, flight, F_vars>>
      BY <1>9 DEF Publish, OfConsumer, R_memory, pipeVars
    <3>2. Publish => AtWorkers' = AtWorkers /\ InChannel' = InChannel
      BY <3>1, SameStorage DEF F_vars, F_memory, AtWorkers, Working
    <3> QED BY <3>1, <3>2 DEF Taken, OnFlight, AtReader
  <2> QED BY <1>2, <1>9, <2>1, <2>2
<1>10. ASSUME NEW w \in Pool, Receive(w), Alone PROVE FALSE
  BY <1>2, <1>10, TakenTake
<1>11. ASSUME NEW w \in Pool, Lock(w) \/ Open(w) \/ Save(w) \/ Fail(w), Alone
       PROVE  Cause(m)
  <2>1. m = task[w].msg /\ ~ Lock(w) /\ ~ Open(w)
    BY <1>2, <1>11, TakenWorker DEF Proper
  <2>2. ~ Save(w)
    BY <1>2, <2>1, SaveStores
  <2>3. Fail(w)
    BY <1>11, <2>1, <2>2
  <2> QED BY <2>1, <2>3 DEF Fail, Cause
<1> QED BY <1>1, <1>3, <1>4, <1>5, <1>6, <1>7, <1>8, <1>9, <1>10, <1>11
        DEF StepKinds, Cause

\* LossHasCause: no step of the program makes a message disappear that was
\* taken from the queue, unless the process ends, the connection or channel
\* is lost with it in the buffer, its body is malformed, the pipeline was
\* cancelled, or its write failed.
THEOREM NoSilentLoss == Spec => LossHasCause
<1>1. IInv /\ IInv' /\ [Next]_vars
        => \A m \in Messages : OnTheWay(m) /\ ~ (OnTheWay(m) \/ Whole(m))' => Cause(m)
  BY StepCause
<1>2. IInv /\ IInv' /\ [Next]_vars
        => [\A m \in Messages :
              OnTheWay(m) /\ ~(OnTheWay(m) \/ Whole(m))' =>
                \/ main' = "off"
                \/ m \in ToSet(buffer) /\ (conn' # conn \/ closes' # closes)
                \/ m \in Malformed
                \/ flow = "cancelled" /\ ~InStorage(m)
                \/ flow = "stopped" /\ InConsumer(m)
                \/ m \in failed']_vars
  BY <1>1 DEF Cause
<1> QED BY <1>2, Inductive, PTL DEF Spec, LossHasCause

=============================================================================
