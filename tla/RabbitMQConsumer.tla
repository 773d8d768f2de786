-------------------------- MODULE RabbitMQConsumer --------------------------
(***************************************************************************)
(* The RabbitMQ consumer (pkg/rabbitmq, pkg/consumers/rabbitmq.go) with    *)
(* the durable queue it reads, and the generator that fills the queue.     *)
(* Deliveries are acknowledged when they are sent: the broker pushes what  *)
(* it has into the client's buffer, which has no bound, and forgets it.    *)
(*                                                                         *)
(* Messages are numbered as they are published.  R_ marks what concerns    *)
(* this module's variables as a whole; the actions leave all others to the *)
(* module that extends it.                                                 *)
(***************************************************************************)
EXTENDS Naturals, Sequences, Processors

CONSTANTS MaxSent,         \* bound: messages that are published
          Malformed,       \* messages whose body is no JSON object
          ConsumerFaults,  \* what may go wrong
          MaxCloses        \* bound: connections, channels, subscriptions lost

ConsumerFaultKinds == {"publish",  \* Publish returns an error
                       "init",     \* a request of Init returns an error
                       "close",    \* the connection is closed
                       "channel",  \* the broker closes the channel
                       "cancel"}   \* the broker cancels the subscription

Messages == 1 .. MaxSent

ASSUME RabbitMQAssumption == /\ MaxSent \in Nat /\ MaxCloses \in Nat
                             /\ Malformed \subseteq Messages
                             /\ ConsumerFaults \subseteq ConsumerFaultKinds

VARIABLES
  sent,        \* messages the generator has published
  queue,       \* messages in the queue
  closes,      \* how often a connection, channel or subscription was lost
  stage,       \* how far Init has come
  conn,        \* c.conn
  delivery,    \* c.message
  buffer,      \* deliveries the client has, and nobody has received
  reader,      \* where the goroutine of Read is
  record,      \* the message of the record it has, or NoMessage for nil
  notify       \* where the goroutine that listens to NotifyClose is

R_broker == <<sent, queue>>
R_memory == <<stage, conn, delivery, buffer, reader, record, notify>>
R_vars == <<R_broker, closes, R_memory>>

Stages == {"none", "connect", "channel", "declare", "consume", "ready"}

R_Fresh ==
  /\ stage = "none" /\ conn = "none" /\ delivery = "none"
  /\ buffer = <<>>
  /\ reader = "none" /\ record = NoMessage
  /\ notify = "none"

R_Init == sent = 0 /\ queue = <<>> /\ closes = 0 /\ R_Fresh

\* The process is gone, and with it what was delivered to it.
R_Down ==
  /\ stage' = "none" /\ conn' = "none" /\ delivery' = "none"
  /\ buffer' = <<>>
  /\ reader' = "none" /\ record' = NoMessage
  /\ notify' = "none"
  /\ UNCHANGED <<R_broker, closes>>

-----------------------------------------------------------------------------
(* The generator and the broker.                                           *)

\* The next object of the file is published as a persistent message; an
\* error is made into a value that nobody uses, and the next one follows.
Publish ==
  /\ sent < MaxSent
  /\ sent' = sent + 1
  /\ \/ queue' = Append(queue, sent + 1)
     \/ "publish" \in ConsumerFaults /\ UNCHANGED queue
  /\ UNCHANGED <<closes, R_memory>>

\* Mutant: a message stays in the queue until it is acknowledged, which
\* nobody does.
PushUnacknowledged ==
  /\ queue # <<>> /\ conn = "open" /\ delivery = "open"
  /\ \A i \in DOMAIN buffer : buffer[i] # Head(queue)
  /\ buffer' = Append(buffer, Head(queue))
  /\ UNCHANGED <<R_broker, closes, stage, conn, delivery, reader, record,
                 notify>>

\* The broker sends the first message to the subscription and drops it, as
\* the subscription acknowledges automatically; no limit (Qos) was set.
Push ==
  /\ queue # <<>> /\ conn = "open" /\ delivery = "open"
  /\ buffer' = Append(buffer, Head(queue))
  /\ queue' = Tail(queue)
  /\ UNCHANGED <<sent, closes, stage, conn, delivery, reader, record, notify>>

-----------------------------------------------------------------------------
(* Init: one request after the other.                                      *)

\* Connect dials until there is a connection, for ever (ConnMaxRetries is
\* -1), and starts the goroutine that waits for its end.
Connect ==
  /\ stage = "connect"
  /\ conn' = "open" /\ notify' = "wait" /\ stage' = "channel"
  /\ UNCHANGED <<R_broker, closes, delivery, buffer, reader, record>>

CreateChannel ==
  /\ stage = "channel" /\ conn = "open"
  /\ stage' = "declare"
  /\ UNCHANGED <<R_broker, closes, conn, delivery, buffer, reader, record,
                 notify>>

\* The generator's declaration has the same arguments: the queue is there.
QueueDeclare ==
  /\ stage = "declare" /\ conn = "open"
  /\ stage' = "consume"
  /\ UNCHANGED <<R_broker, closes, conn, delivery, buffer, reader, record,
                 notify>>

\* The subscription begins, and with it the deliveries.
InitDeliveryChannel ==
  /\ stage = "consume" /\ conn = "open"
  /\ stage' = "ready" /\ delivery' = "open"
  /\ UNCHANGED <<R_broker, closes, conn, buffer, reader, record, notify>>

R_InitStep ==
  Connect \/ CreateChannel \/ QueueDeclare \/ InitDeliveryChannel

\* A request returns an error: Init does, and Run with it.
InitFails ==
  /\ stage \in {"channel", "declare", "consume"}
  /\ conn # "open" \/ "init" \in ConsumerFaults

-----------------------------------------------------------------------------
(* Losing the connection.                                                  *)

\* The library tells NotifyClose first.
ConnectionCloses ==
  /\ "close" \in ConsumerFaults /\ closes < MaxCloses /\ conn = "open"
  /\ conn' = "closing" /\ notify' = "send"
  /\ closes' = closes + 1
  /\ UNCHANGED <<R_broker, stage, delivery, buffer, reader, record>>

\* It then closes the delivery channel and drops what it had buffered for it;
\* until then Read may still receive.
ConnectionShutdown ==
  /\ conn = "closing"
  /\ conn' = "closed"
  /\ delivery' = IF delivery = "open" THEN "closed" ELSE delivery
  /\ buffer' = <<>>
  /\ UNCHANGED <<R_broker, closes, stage, reader, record, notify>>

\* The channel alone, which nobody listens to; of a subscription that was
\* cancelled it takes what is buffered.
ChannelCloses ==
  /\ "channel" \in ConsumerFaults /\ closes < MaxCloses
  /\ conn = "open" /\ (delivery = "open" \/ buffer # <<>>)
  /\ delivery' = "closed" /\ buffer' = <<>>
  /\ closes' = closes + 1
  /\ UNCHANGED <<R_broker, stage, conn, reader, record, notify>>

\* The subscription alone: what is buffered is still delivered.
SubscriptionCancelled ==
  /\ "cancel" \in ConsumerFaults /\ closes < MaxCloses
  /\ conn = "open" /\ delivery = "open"
  /\ delivery' = "closed"
  /\ closes' = closes + 1
  /\ UNCHANGED <<R_broker, stage, conn, buffer, reader, record, notify>>

R_Loss ==
  \/ ConnectionCloses \/ ConnectionShutdown
  \/ ChannelCloses \/ SubscriptionCancelled

-----------------------------------------------------------------------------
(* Read.                                                                   *)

\* CastUsers; Read logs an error and goes on with the nil record.
Cast(m) == IF m \in Malformed THEN NoMessage ELSE m

\* Mutant: Read returns when the delivery channel is closed, reporting
\* nothing, and a delivery that cannot be cast is passed over.
ReceiveOk ==
  /\ reader = "recv" /\ buffer # <<>>
  /\ record' = Cast(Head(buffer)) /\ buffer' = Tail(buffer)
  /\ reader' = IF record' = NoMessage THEN "recv" ELSE "send"
  /\ UNCHANGED <<R_broker, closes, stage, conn, delivery, notify>>

\* The next delivery, or the empty one that a closed channel gives for ever,
\* whose body is no JSON object either.  The connection exists, so Read never
\* reconnects.
ReceiveDelivery ==
  /\ reader = "recv"
  /\ IF buffer # <<>>
     THEN record' = Cast(Head(buffer)) /\ buffer' = Tail(buffer)
     ELSE delivery = "closed" /\ record' = NoMessage /\ UNCHANGED buffer
  /\ reader' = "send"
  /\ UNCHANGED <<R_broker, closes, stage, conn, delivery, notify>>

\* rc.stream <- record was received.
RecordSent ==
  /\ reader = "send"
  /\ reader' = "recv" /\ record' = NoMessage
  /\ UNCHANGED <<R_broker, closes, stage, conn, delivery, buffer, notify>>

\* c.errCh <- "rabbitmq connection closed" was received.
CloseReported ==
  /\ notify = "send"
  /\ notify' = "done"
  /\ UNCHANGED <<R_broker, closes, stage, conn, delivery, buffer, reader,
                 record>>

R_TypeOK ==
  /\ sent \in 0 .. MaxSent /\ closes \in 0 .. MaxCloses
  /\ queue \in Seq(Messages) /\ buffer \in Seq(Messages)
  /\ stage \in Stages
  /\ conn \in {"none", "open", "closing", "closed"}
  /\ delivery \in {"none", "open", "closed"}
  /\ reader \in {"none", "recv", "send"}
  /\ record \in Messages \cup {NoMessage}
  /\ notify \in {"none", "wait", "send", "done"}

InConsumer(m) == ToSet(buffer) \cap {m} # {} \/ (reader = "send" /\ record = m)
=============================================================================
