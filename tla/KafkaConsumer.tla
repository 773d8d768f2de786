--------------------------- MODULE KafkaConsumer ---------------------------
(***************************************************************************)
(* The Kafka consumer (pkg/kafka, pkg/consumers/kafka.go) and what becomes *)
(* of its records: one goroutine per partition polls a client of its own   *)
(* and sends to the stream that all share.  Behind the stream stands one   *)
(* pipeline as Delivery describes it, with the number of payloads in       *)
(* flight that InFlightBound of Pipeline allows, and the Elasticsearch     *)
(* storage with one pool worker, as configured: it keeps what it is given  *)
(* until it has Batch documents and then sends all it has, which may fail. *)
(* ElasticSearch has the steps in between.  The process may be killed at   *)
(* any time and is started again.                                          *)
(*                                                                         *)
(* A message is <<partition, offset>>, which is also its document's id.    *)
(***************************************************************************)
EXTENDS Integers, Sequences, FiniteSets

CONSTANTS Partitions,   \* partitions the topic may have
          Initial,      \* those it has from the start
          Poison,       \* messages whose value is no JSON object
          InFlight,     \* payloads between the stream and the storage
          Batch,        \* documents that trigger a bulk write
          Faults,       \* what may go wrong
          MaxOffset,    \* bound: messages per partition
          MaxCrashes    \* bound: times the process is killed

FaultKinds == {"assign",  \* AssignPartition returns an error
               "error",   \* Poll returns a kafka.Error
               "write",   \* bulkWrite returns an error
               "refuse"}  \* Elasticsearch does not index a document

Offsets == 0 .. (MaxOffset - 1)
Messages == Partitions \X Offsets

ASSUME ParamAssumption == /\ Initial \subseteq Partitions
                          /\ IsFiniteSet(Partitions)
                          /\ Poison \subseteq Messages
                          /\ InFlight \in Nat \ {0}
                          /\ Batch \in Nat \ {0}
                          /\ Faults \subseteq FaultKinds
                          /\ MaxOffset \in Nat
                          /\ MaxCrashes \in Nat

VARIABLES
  topic,       \* the topic's partitions
  produced,    \* messages in each partition
  up,          \* the process runs
  crashes,     \* times it was killed
  partitions,  \* kc.partitions
  poller,      \* where the goroutine of each partition is
  pos,         \* the offset its client reads next
  flow,        \* the pipeline: running, stalled (a stage has failed and
               \* nobody heard of it), cancelled, or all workers gone
  src,         \* the source worker: in Next, or gone
  flight,      \* payloads between the stream and the storage
  buf,         \* e.buf: documents that the storage keeps
  writing,     \* its worker is in bulkWrite
  fails,       \* history: bulk writes that failed since buf was emptied
  durable,     \* messages with a document that is stored
  dropped      \* messages that Elasticsearch was sent and has not stored

brokerVars == <<topic, produced>>
pollVars == <<partitions, poller, pos>>
pipeVars == <<flow, src, flight>>
storeVars == <<buf, writing, fails, durable, dropped>>
vars == <<brokerVars, up, crashes, pollVars, pipeVars, storeVars>>

\* A goroutine whose client has a partition polls, sends the record, or sends
\* the error; one whose client has none can only get errors.
PollerPCs == {"none", "poll", "send", "error", "unassigned", "uerror"}

Init ==
  /\ topic = Initial
  /\ produced = [p \in Partitions |-> 0]
  /\ up = FALSE /\ crashes = 0
  /\ partitions = {}
  /\ poller = [p \in Partitions |-> "none"]
  /\ pos = [p \in Partitions |-> 0]
  /\ flow = "running" /\ src = "next"
  /\ flight = <<>> /\ buf = <<>> /\ writing = FALSE /\ fails = 0
  /\ durable = {} /\ dropped = {}

Set(s) == {s[i] : i \in DOMAIN s}

-----------------------------------------------------------------------------
(* The broker.                                                             *)

Produce(p) ==
  /\ p \in topic /\ produced[p] < MaxOffset
  /\ produced' = [produced EXCEPT ![p] = @ + 1]
  /\ UNCHANGED <<topic, up, crashes, pollVars, pipeVars, storeVars>>

AddPartition(p) ==
  /\ p \notin topic
  /\ topic' = topic \cup {p}
  /\ UNCHANGED <<produced, up, crashes, pollVars, pipeVars, storeVars>>

-----------------------------------------------------------------------------
(* The process.                                                            *)

\* Mutant: a partition is read from where the last client stopped.
StartWhereRead ==
  /\ ~up
  /\ up' = TRUE
  /\ partitions' = topic
  /\ \E failed \in SUBSET topic :
       /\ failed = {} \/ "assign" \in Faults
       /\ poller' = [p \in Partitions |->
                       IF p \notin topic THEN "none"
                       ELSE IF p \in failed THEN "unassigned" ELSE "poll"]
  /\ flow' = "running" /\ src' = "next"
  /\ UNCHANGED <<brokerVars, crashes, pos, flight, storeVars>>

\* Init asks for the topic's partitions (if that fails nothing is started),
\* and Read starts a goroutine for each, assigned from offset zero.  Read
\* ignores an error of AssignPartition, and the goroutine polls a client that
\* has no partition; a client that could not be made panics, as in Crash.
Start ==
  /\ ~up
  /\ up' = TRUE
  /\ partitions' = topic
  /\ \E failed \in SUBSET topic :
       /\ failed = {} \/ "assign" \in Faults
       /\ poller' = [p \in Partitions |->
                       IF p \notin topic THEN "none"
                       ELSE IF p \in failed THEN "unassigned" ELSE "poll"]
  /\ pos' = [p \in Partitions |-> 0]
  /\ flow' = "running" /\ src' = "next"
  /\ UNCHANGED <<brokerVars, crashes, flight, storeVars>>

-----------------------------------------------------------------------------
(* The goroutine of a partition.                                           *)

\* Mutant: the next message is polled while one waits to be sent.
PollAhead(p) ==
  /\ poller[p] \in {"poll", "send"} /\ pos[p] < produced[p]
  /\ pos' = [pos EXCEPT ![p] = @ + 1]
  /\ poller' = [poller EXCEPT ![p] = "send"]
  /\ UNCHANGED <<brokerVars, up, crashes, partitions, pipeVars, storeVars>>

\* Poll returns the next message of the partition.
Poll(p) ==
  /\ poller[p] = "poll" /\ pos[p] < produced[p]
  /\ pos' = [pos EXCEPT ![p] = @ + 1]
  /\ poller' = [poller EXCEPT ![p] = "send"]
  /\ UNCHANGED <<brokerVars, up, crashes, partitions, pipeVars, storeVars>>

\* Poll returns an error, which goes to errCh.
PollError(p) ==
  /\ "error" \in Faults /\ poller[p] \in {"poll", "unassigned"}
  /\ poller' = [poller EXCEPT ![p] = IF @ = "poll" THEN "error" ELSE "uerror"]
  /\ UNCHANGED <<brokerVars, up, crashes, partitions, pos, pipeVars,
                 storeVars>>

\* Mutant: the source takes a record while it has one to hand over.
SendAhead(p) ==
  /\ poller[p] = "send" /\ src = "next"
  /\ poller' = [poller EXCEPT ![p] = "poll"]
  /\ flight' = Append(flight, <<p, pos[p] - 1>>)
  /\ src' = IF flow \in {"running", "stalled"} THEN src ELSE "gone"
  /\ UNCHANGED <<brokerVars, up, crashes, partitions, pos, flow, storeVars>>

\* kc.stream <- record meets the source's Next.  Once the pipeline is
\* cancelled the source worker takes at most one more.
Send(p) ==
  /\ poller[p] = "send"
  /\ src = "next" /\ Len(flight) < InFlight
  /\ poller' = [poller EXCEPT ![p] = "poll"]
  /\ flight' = Append(flight, <<p, pos[p] - 1>>)
  /\ src' = IF flow \in {"running", "stalled"} THEN src ELSE "gone"
  /\ UNCHANGED <<brokerVars, up, crashes, partitions, pos, flow, storeVars>>

\* kc.errCh <- e meets the collector, which cancels and goes on receiving.
ErrorReceived(p) ==
  /\ poller[p] \in {"error", "uerror"}
  /\ poller' = [poller EXCEPT ![p] =
                  IF @ = "error" THEN "poll" ELSE "unassigned"]
  /\ flow' = IF flow = "stopped" THEN flow ELSE "cancelled"
  /\ UNCHANGED <<brokerVars, up, crashes, partitions, pos, src, flight,
                 storeVars>>

-----------------------------------------------------------------------------
(* The pipeline and the storage.                                           *)

\* Drain and Write: the furthest payload goes to the pool's worker once that
\* is back from its last write.  From Batch documents on, each one triggers
\* a bulk write of all that is kept.
Drain ==
  /\ flight # <<>> /\ Head(flight) \notin Poison /\ flow # "stopped"
  /\ ~writing
  /\ flight' = Tail(flight)
  /\ buf' = Append(buf, Head(flight))
  /\ writing' = (Len(buf) + 1 >= Batch)
  /\ UNCHANGED <<brokerVars, up, crashes, pollVars, flow, src, fails, durable,
                 dropped>>

\* Elasticsearch has taken the bulk request and has indexed all but the
\* documents in bad: those it refused, which are all with an error status, or
\* those that a retry did not send again.
Index(bad) ==
  /\ bad = {} \/ "refuse" \in Faults
  /\ durable' = durable \cup (Set(buf) \ bad)
  /\ dropped' = (dropped \cup bad) \ durable'

\* The request may have come to Elasticsearch or not.
Unheard == \/ UNCHANGED <<durable, dropped>>
           \/ \E bad \in SUBSET Set(buf) : Index(bad)

\* bulkWrite has an answer, whatever it says: Write empties the buffer.
BulkDone ==
  /\ writing /\ writing' = FALSE
  /\ \E bad \in SUBSET Set(buf) : Index(bad)
  /\ buf' = <<>> /\ fails' = 0
  /\ UNCHANGED <<brokerVars, up, crashes, pollVars, pipeVars>>

\* Mutant: Write empties the buffer also when bulkWrite returned an error.
BulkFailsReset ==
  /\ "write" \in Faults
  /\ writing /\ writing' = FALSE
  /\ Unheard
  /\ buf' = <<>> /\ fails' = 0
  /\ UNCHANGED <<brokerVars, up, crashes, pollVars, pipeVars>>

\* bulkWrite returns an error: Write returns, and buffer and count stay.
BulkFails ==
  /\ "write" \in Faults
  /\ writing /\ writing' = FALSE
  /\ Unheard
  /\ fails' = fails + 1
  /\ UNCHANGED <<brokerVars, up, crashes, pollVars, pipeVars, buf>>

\* The process is killed, or panics: what it has in memory is gone.  A
\* request that is on its way may still be taken.
Crash ==
  /\ up /\ crashes < MaxCrashes
  /\ up' = FALSE /\ crashes' = crashes + 1
  /\ partitions' = {}
  /\ poller' = [p \in Partitions |-> "none"]
  /\ flight' = <<>> /\ buf' = <<>> /\ writing' = FALSE /\ fails' = 0
  /\ IF writing THEN Unheard ELSE UNCHANGED <<durable, dropped>>
  /\ UNCHANGED <<brokerVars, pos, flow, src>>

\* The default processor fails on a payload without a value, and its stage
\* leaves.  The error cancels, unless it comes before Process receives: then
\* it is dropped.
ProcessorFails ==
  /\ flow = "running" /\ Set(flight) \cap Poison # {}
  /\ flow' \in {"cancelled", "stalled"}
  /\ UNCHANGED <<brokerVars, up, crashes, pollVars, src, flight, storeVars>>

\* The source worker leaves its loop; it may have been about to send.
SourceLeaves ==
  /\ flow \in {"cancelled", "stopped"} /\ src = "next"
  /\ src' = "gone"
  /\ UNCHANGED <<brokerVars, up, crashes, pollVars, flow, flight, storeVars>>

\* The other workers exit with the payloads they hold.
WorkersStop ==
  /\ flow = "cancelled"
  /\ flow' = "stopped"
  /\ UNCHANGED <<brokerVars, up, crashes, pollVars, src, flight, storeVars>>

Broker == \E p \in Partitions : Produce(p) \/ AddPartition(p)
Read(p) == Poll(p) \/ ErrorReceived(p)
Write == BulkDone \/ BulkFails
Pipe == Drain \/ Write \/ ProcessorFails \/ SourceLeaves \/ WorkersStop

Next ==
  \/ Broker
  \/ Start \/ Crash
  \/ up /\ (Pipe \/ \E p \in Partitions : Read(p) \/ PollError(p) \/ Send(p))

Spec == Init /\ [][Next]_vars

\* The process is started again, goroutines run, a bulk write ends (see
\* WriteReturns of ElasticSearch), and the senders that wait on a channel are
\* served in turn.
Fairness ==
  /\ WF_vars(Start)
  /\ WF_vars(up /\ Drain) /\ WF_vars(up /\ Write)
  /\ WF_vars(up /\ ProcessorFails)
  /\ \A p \in Partitions : WF_vars(up /\ Read(p)) /\ SF_vars(up /\ Send(p))

FairSpec == Spec /\ Fairness

-----------------------------------------------------------------------------
(* Properties.                                                             *)

\* Every variable has its type.
TypeOK ==
  /\ topic \subseteq Partitions /\ partitions \subseteq topic
  /\ produced \in [Partitions -> 0 .. MaxOffset]
  /\ up \in BOOLEAN /\ crashes \in 0 .. MaxCrashes
  /\ poller \in [Partitions -> PollerPCs]
  /\ pos \in [Partitions -> 0 .. MaxOffset]
  /\ flow \in {"running", "stalled", "cancelled", "stopped"}
  /\ src \in {"next", "gone"}
  /\ flight \in Seq(Messages) /\ Len(flight) <= InFlight
  /\ buf \in Seq(Messages) /\ writing \in BOOLEAN /\ fails \in Nat
  /\ durable \subseteq Messages /\ dropped \subseteq Messages

\* Stored, or sent to Elasticsearch in vain, in this process or before.
Settled == durable \cup dropped

\* Over all crashes, restarts, failed writes and refused documents, a
\* partition is settled without a gap: no message is stored or refused before
\* all before it in its partition were, so none is skipped, and none behind a
\* message that the processor fails on.  What is stored has a gap only where
\* Elasticsearch did not index what it was sent.
PartitionPrefix ==
  \A m \in Settled : \A o \in 0 .. m[2] : <<m[1], o>> \in Settled \ Poison

ReadBy == {m \in Messages : m[1] \in partitions /\ m[2] < pos[m[1]]}

\* What a process has read and Elasticsearch was not sent grows by one
\* message with each bulk write that fails, and by nothing else: while none
\* fails it is bounded, however long the log, also while a write runs and the
\* pipeline fills up behind it.
Exposure ==
  up => Cardinality(ReadBy \ Settled)
          <= InFlight + Cardinality(partitions) + Batch + fails

Healthy == /\ up /\ flow = "running" /\ partitions = topic
           /\ \A p \in partitions : poller[p] \notin {"unassigned", "uerror"}

Existing == {m \in Messages : m[2] < produced[m[1]]}

\* However often it was killed and whatever failed before, a process that
\* stays up and reads every partition of the topic gets every message sent to
\* Elasticsearch, but for less than a batch and one for each bulk write that
\* has failed since the last that did not: these stay in the storage's memory,
\* and only another payload would have them tried again.
AtLeastOnce ==
  <>[]Healthy => <>[](Cardinality(Existing \ Settled) < Batch + fails)
=============================================================================
