# Event data pipeline: models and proofs

TLA+ models of the event data pipeline under `app/`: a Go service that reads
records from Kafka or RabbitMQ, passes them through a chain of processors and
stores them in Elasticsearch or on a file system. The models are read from the
Go code; TLC checks them on small instances and TLAPS proves their safety
properties for every instance. Of what lies outside `app/`, only the
generator that fills the RabbitMQ queue is modelled; vendored libraries,
deployment files and the other example producers are not.

Paths below are relative to `app/`.

- [The system](#the-system)
- [Modules](#modules)
- [How the models correspond to the code](#how-the-models-correspond-to-the-code)
- [Runs](#runs)
- [What the disagreeing runs show](#what-the-disagreeing-runs-show)
- [Fairness](#fairness)
- [Proofs](#proofs)
- [Not modelled](#not-modelled)
- [Plan](#plan)

## The system

`event_data.Run` (`cmd/event_data/pipeline.go`) builds one pipeline per
configuration: a consumer, processors wrapped in FIFO stage runners, storage
providers. It starts the consumer's goroutine and calls `Pipeline.Process`,
which starts everything else and blocks.

```
 consumer ──stream──> source worker ──> stage 0 ──> ... ──> stage N-1 ──┬──> sink worker ──> storage 0
 goroutines            (Next/Payload)    (Clone, Process, Clone)         └──> sink worker ──> storage 1
     │                      │               │                                   │               │
     └──────────────────────┴──── errCh ────┴───────────────────────────────────┘     worker pool, mutex,
                                    │                                                 buffer, bulk request
                          Process: cancel the context
```

| Component | State | Operations | Interacts through | What makes it correct |
|---|---|---|---|---|
| Pipeline wiring and workers (`pkg/pipelines`) | channels, wait group, context, one payload per goroutine, the multierror | `Process`, `sourceWorker`, `FIFO.Run`, `sinkWorker`, `maybeEmitError` | unbuffered channels, `errCh`, context, wait group | each storage gets the payloads in order, once, without a gap; an error cancels; a cancellation ends the workers; `Process` returns; bounded payloads in flight |
| Sources (`pkg/sources`) | the consumer's last payload | `Next`, `Payload`, `Error` | the consumer's stream | one payload per record; at most one record taken after a cancellation |
| Payloads (`pkg/payloads`) | fields of an object, two `sync.Pool`s | `Clone`, `Out`, `MarkAsProcessed` | pointers passed through the channels | an object in the pool is nobody's; a storage reads the fields of the record it was given; a clone equals its original |
| Processors (`pkg/processors`) | none; a registry of names | `Process`, `Validate` | change the clone they are given | a payload, no payload or an error; the normalizers make index, id and data of one record |
| Elasticsearch storage (`pkg/storage_providers/es.go`) | mutex, buffer, count, retry settings | `Drain`, `Write`, `bulkWrite` | a channel to its worker pool, HTTP | the buffer is whole documents; no document disappears when a request fails; the mutex is always released |
| File system storage (`filesystem.go`) | mutex, the file being written, limiter, files | `Drain`, `Write` | a buffered channel to its pool, files | each file holds its own payload; a failed write takes no other with it and frees the mutex; workers reorder no more than they hold |
| Worker pool (`pkg/concur`) | channel, signal | `Start`, `runTask`, `Stop` | runs the storages' `Write` | every task taken is run once; `Stop` ends every worker |
| Kafka consumer (`pkg/kafka`, `pkg/consumers/kafka.go`) | one client per partition, the offset of each | `Init`, `Consume`, `Read`, `Poll` | stream, `errCh` | order within a partition; after a restart nothing is skipped; what is read and has not come to a storage is bounded while its writes succeed |
| RabbitMQ consumer (`pkg/rabbitmq`, `pkg/consumers/rabbitmq.go`) | connection, delivery channel, the client's buffer | `Init`, `Read`, `Connect`, `ReConnect` | stream, `errCh`, the broker | a message is stored at most once, in the order of the queue; it is lost for a known reason only; a lost connection is noticed |
| Event data pipeline (`cmd/event_data`) | configurations | `NewEventDataPipeline`, `ValidateConfigs`, `Run` | builds all of the above | what runs is what the files describe; a set-up that fails ends the process |
| Configuration (`pkg/config`) | none | `NewPipelineConfig` | files | each configuration once, in the order of the files |
| RabbitMQ mock data generator (`../rabbitmq/mock-data-generator`) | connection | `Publish` | the queue | messages in the order of its file |
| Fixed worker pool runner, rate limiter | workers; limiter | `Run`; `NewRateLimiter` | like FIFO; called by storages | unused by any configuration; limits what it is told to |
| Registries, HTTP server, logging, metrics, signals | read-only after start | | | |

The behaviours that are hard to get right, and hard to test, are these:

- *Concurrency.* Every worker is a goroutine and every channel is unbuffered:
  a worker that stops receiving holds back all before it, and through the
  broadcast of the last stage also the storages beside it. The pool workers of
  the Elasticsearch storage share one buffer.
- *Failure.* An error is reported by a non-blocking send that may find nobody
  receiving. A worker that fails returns while its neighbours go on. A bulk
  request may fail before, while or after its body is read, or be answered
  with an error, for all or for some of its documents.
- *Shutdown.* The context, closed channels and the wait group end workers in
  any order; `errCh` is closed while consumers may still send to it.
- *Sharing.* Payload objects are recycled while pointers to clones and to the
  maps they share travel on.
- *Restart.* A restarted Kafka consumer reads again also what was stored; a
  restarted RabbitMQ consumer reads nothing again, stored or not.
- *Order of set-up.* The subscription begins before there is anything to
  deliver to, and the consumer's goroutine before anybody receives errors.

`PROJECT.json` lists each of these as a hazard with its line and the properties
that cover it.

## Modules

| Module | What it is |
|---|---|
| `Delivery` | Abstract specification: what `Process` promises its storages. Payloads are numbered as they are taken; each storage is handed, in that order, those that no stage discarded. |
| `Pipeline` | `Process` and every goroutine it starts. Implements `Delivery` (`DeliverySpec`). |
| `Payloads` | Extends `Pipeline` with the payload objects: each step of `Pipeline` together with what it does to the objects, and the storages' workers that read them. |
| `ElasticSearch` | The Elasticsearch storage behind one sink worker: the pool's workers in `Write` and `bulkWrite`. |
| `KafkaConsumer` | The Kafka consumer over crashes and restarts: partitions as logs, one poller each, the stream they share; behind it the pipeline, abstracted, and the Elasticsearch storage with its failing and refused writes. |
| `Config` | What `NewPipelineConfig` makes of a file or a directory: operators without state. |
| `Processors` | The registered processors, and a chain of them, as operators on a payload. |
| `RabbitMQConsumer` | The queue, its generator, the subscription and the consumer's goroutines: actions for another module to compose. |
| `Filesystem` | The file system storage and its worker pool: likewise. |
| `AtMostOnce` | Abstract specification: what the program promises of the messages of a queue that acknowledges on delivery, over restarts. |
| `EventDataPipeline` | The whole program over restarts, composed of the four above: loading, set-up, consumer, pipeline, storage. Implements `AtMostOnce` (`AtMostOnceSpec`). |
| `PipelineProofs`, `PayloadsProofs`, `ElasticSearchProofs`, `KafkaConsumerProofs` | Theorems and proofs, each about the module it is named for. |
| `EventDataSetupProofs` | Theorems about `EventDataPipeline`: its types, what loading and a chain of processors do, the storage's mutex. |
| `EventDataPipelineProofs` | Theorems about `EventDataPipeline` that rest on those: the order of the messages, and the refinement of `AtMostOnce`. |
| `SetInduction` | Lemmas that several proofs need: induction over the natural numbers stated with sets, and sizes of images and unions. |
| `MCPipeline`, `MCPayloads`, `MCElasticSearch`, `MCKafkaConsumer`, `MCEventDataPipeline` | Constants for TLC; the `.cfg` files beside them are the runs. |

`Pipeline` treats a payload as a number and a storage as something that takes
it or returns an error. `Payloads` justifies the first: `StorageGets` says that
the objects a storage gets are, at all times, exactly those of the payloads
that `Pipeline` counts as drained. `ElasticSearch` opens the second: its
`Drain` is what the success of `SinkDrain` is to `Pipeline`. `KafkaConsumer`
puts the whole behind a broker: what lies between the stream and the
storage is a queue, which `Delivery` justifies (nothing is reordered or left
out but what a stage discards), of a length that `InFlightBound` justifies. Its
storage is that of `ElasticSearch` with one worker, a bulk write being one
state and its outcome one step.
`EventDataPipeline` does the same for RabbitMQ and the file system storage, and
adds what lies before: configuration and set-up. The actions of
`RabbitMQConsumer` and `Filesystem` speak of all variables of their own module
and of no other; `EventDataPipeline` conjoins them with what the rest of the
program does in the same step. Their definitions that concern a module's
variables as a whole carry its prefix, `R_` or `F_`, so that both can be
extended by one module.

## How the models correspond to the code

`PROJECT.json` maps every definition to the lines it models. In outline:

**Pipeline.** One program counter per goroutine. `src` is the source worker at
the head of its loop (`check`), in `source.Next` (`next`) or sending (`send`).
A stage receives (`recv`), runs its processor (`proc`), sends (`emit`), or
leaves through an error (`fail`) or a return (`return`), after which it closes
the next channel and is `exited`; closing is part of that step, so a channel is
closed exactly when its owner has exited (`StageClosed`, `SinkClosed`). A send
on an unbuffered channel and its receive are one step (`SourceToStage`,
`StageForward`, `StageBroadcast`). `out` is the index in the last stage's
output loop; worker `s` reads `stageCh[len-1-s]`, hence `OutIndex`. Note what
follows from the code's wiring: only the first output of the last stage is ever
closed, and without stages only one sink worker is fed. `maybeEmitError`
succeeds only while the goroutine in `Process` is at its receive
(`collector = "recv"`), otherwise the error is counted in `lost`. A select with
a ready `ctx.Done()` and another ready case takes either. The processor and
`Drain` either succeed, or fail when the `Faults` constant allows it. Payload
contents, log lines and metrics are left out. `CallerAdds` is the number of
`wg.Add` calls that `Run` made before `Process` and never undoes; the deployed
program has one per pipeline.

**Payloads.** `heap` gives each object's fields by the record they are made
from. A variable of a goroutine holds an object until the goroutine no longer
reads it (then `None`). `Get` may return any pooled object or a new one, which
also covers the pool being emptied by the garbage collector. A clone that waits
in a `select` to be sent is made when it is received; nobody else can see it
earlier. `Copy` is `Clone` of either payload type, `Cleared` is
`MarkAsProcessed`. `Capacity` bounds what a storage takes before it writes
(pool workers plus channel buffer; the deployed configurations have one worker
and no buffer). The value map, which a clone shares with its original, is part
of `rec`: the meta injectors change it while the original is not read again.

**ElasticSearch.** A worker's program counter follows `Write`: waiting for the
mutex (`write`), having written nothing yet (`meta`), the metadata line
(`data`), or inside `bulkWrite` (`bulk`). `pos` is how far the reader over the
batch has been read; it is made once per bulk write, before the retry loop.
Each way a request can end is an action: no connection (`BulkNotSent`, with
the reader where it was, or at its end if the client, as it does while its own
retries are on, has copied the body before it connects), a
connection that breaks anywhere in the body (`BulkBroken`), an answer
(`BulkAnswered`, with some documents refused, `BulkRejected`, or
`BulkUndecodable`), or a panic on an unexpected body (`BulkPanics`).
`maxRetries` is chosen among the values a configuration can give it; the
deployed configurations give the retry settings to the consumer, so the storage
has 0 and does not retry. The rate limiter is left out: without a configured
limit it never waits. `torn` is a history variable: a retry has begun with a
reader that an earlier attempt had partly read.

**KafkaConsumer.** `poller` is where the goroutine of each partition is: at
`Poll`, sending the record, sending the error. `unassigned` and `uerror` are
those of a goroutine whose `AssignPartition` failed, which `Read` ignores; its
client has no partition and can return only errors. `pos` is the client's
offset; `Start` sets it to zero, since `NewTopicPartition` leaves the offset out
and nothing is committed. A record counts as read when `Poll` returns it.
`flow` is the pipeline: an error or a payload without a value cancels it, and
its workers then stop at any time with what they hold; or, when nobody received
the error of the stage that failed, leaves it `stalled`, with nothing behind
that stage moving. `Drain` hands the first
payload to the storage's worker, when that is back from its last write. There is
one, as configured. From `Batch` documents on, each payload starts a bulk write
of everything in `buf` (`writing`), and the pipeline fills up behind it.
`BulkDone` is every answer that `bulkWrite` takes for one, an error status
included: `Write` empties the buffer, and the documents that Elasticsearch
refused, one, some or all of them, are `dropped`. `BulkFails` is an error that
`bulkWrite` returns: buffer and count stay, the pool is told nothing, and the
next payload makes the buffer one longer and has all of it sent again. Whether
Elasticsearch had taken the failed request nobody knows (`Unheard`); the same
holds for one that a crash cuts off. `fails` is a history variable, the failed
writes since the buffer was last emptied. The configuration gives the storage
no retries of its own; with some, what a retry with a partly read reader leaves
out is among the documents of `Index` that are dropped. What lies between the
start and the outcome of a bulk write is in `ElasticSearch`.
`Crash` forgets everything but the broker's log and what is stored. A document
is identified by its message, as the normalizer makes its id from topic,
partition and offset.

**Config and Processors.** A file is an extension and a body: an array or an
object of configurations, or something else. A configuration has what `Run`
looks at first: the names of consumer, queue, processors and storages. A nil
entry and one whose fields are all unset are the same here (`NoConsumer`),
since `Run` fails on both. A payload has the message it was made from, whether
its value has been stamped with meta data, and what the normalizer made of it.
`NoMessage` is a nil record: its value is a nil map, on which the default
processors return an error and the injectors panic. `Strings` are the strings
that files can be told apart by; `NewPipelineConfig` appends, file by file, what
each contributes (`Loads`). A message names its document, as
the normalizer makes the id from the queue and the user: messages are of
different users, and a user published again would overwrite the first file.

**RabbitMQConsumer.** `stage` is the request that `Init` makes next. `Push` is
a delivery: as the subscription acknowledges automatically, the message leaves
the queue for the library's buffer, which is unbounded. A connection that ends
first tells `NotifyClose` (`ConnectionCloses`) and then closes the delivery
channel and drops its buffer (`ConnectionShutdown`); the broker may also close
the channel alone or cancel the subscription alone. `reader` is the goroutine
of `Read`: a delivery that cannot be cast, and the empty one that a closed
channel yields at every receive, becomes a nil record. `notify` is the
goroutine that waits for the end of the connection and reports it with a send
that blocks until `Process` receives. That `Read` sleeps when there is nothing,
and what it logs, is left out.

**Filesystem.** `worker` follows `Write`: waiting for a task, for the mutex, at
`WriteFile` before the file is opened, and writing. `file` is the field `f.file`
that all workers share; it is read when `WriteFile` is called. A file is
absent, partial, or has its document. A payload without a normalizer in its
chain has no name, so its path is a directory and cannot be opened. Errors are
logged by the pool and go nowhere else, which is why `Drain` always succeeds.

**EventDataPipeline.** `main` is the main goroutine, from `new` (loading) to
`process` (receiving errors in `Process`), which it never leaves: `Returns`,
in the run `pipeline_caller`, says why, and it is why no configuration but the
first is set up. In `start` the pipeline runs already and nobody receives
errors yet: a stage that fails then leaves without cancelling (`stalled`), and
what is behind it waits. `Exit` is the end of the process, by a panic, by an
error that `Run` returns or, in `Crash`, from outside; it leaves the broker and
the disk. `flight` are the payloads between the stream and the storage; the
first is drained if no processor fails on it. `ValidateConfigs` would load the
configurations again if there were none, but then the process has ended.

## Runs

All runs finish in under three minutes. "Pass" runs check all listed
properties; the other runs check one statement of the repository that the code
contradicts. `CHECK_DEADLOCK FALSE` is set throughout because the modelled
systems do come to rest: `Process` returns or its workers have all exited, the
storage has been given its last payload, or the process has crashed.

| Run | Instance | Properties | Shows |
|---|---|---|---|
| `pipeline` | 2 stages, 2 storages, 3 records, 1 error of the consumer, every fault but an expiring context | `TypeOK`, `IInv`, `GapFree`, `InOrder`, `FanoutSkew`, `LateReads`, `DeliverySpec` | whatever fails and whatever is cancelled, each storage holds a prefix of what came through, in order; storages are at most two payloads apart; `Pipeline` implements `Delivery` |
| `pipeline_live` | 1 stage, 2 storages, 3 records | `FailureCancels`, `CancelStops`, `Delivers` | an error cancels, a cancellation ends all stages and sink workers, an undisturbed payload arrives everywhere |
| `pipeline_alone` | no stage, 1 storage, 4 records, every fault, caller without an `Add` of its own | `NoWorkerPanic`, `InFlightBound`, `Returns` | `Process` returns once its workers have; only the consumer can send on the closed `errCh`; backpressure bounds what is in flight |
| `payloads` | 2 stages, 2 storages, 2 records, 8 objects, both payload types; discards and failing processors and storages | `HeapTypeOK`, `Exclusive`, `StorageGets`, `OneRecord`, `RabbitDay` | recycled objects never belong to two goroutines and carry nothing of their former payload; each storage reads what it accepted |
| `elasticsearch` | 2 pool workers, 4 payloads of 2 days, batches of 2, no, 1 or unlimited retries, every fault | `TypeOK`, `Whole`, `Accounted`, `IInv`, `WriteReturns` | concurrent writers never mix their lines; no failed request loses a document before a retry with a partly read reader; every `Write` returns |
| `kafka_consumer` | 2 partitions, one of them added later, 3 messages each, one without a value; 1 payload in flight, batches of 2; errors of `Assign` and `Poll`; failed bulk writes and refused documents, any number; 1 crash | `TypeOK`, `PartitionPrefix`, `Exposure`, `AtLeastOnce` | what Elasticsearch was sent of a partition never has a gap; what is read and was not sent there is bounded but for one message per failed write; a process that stays up gets all sent, but for what these and a batch that is not full keep in memory |
| `event_data` | 8 kinds of configured path; 3 messages, one malformed; 2 payloads in flight; a storage with 2 workers and 1 place; every fault of consumer and disk, 1 loss of connection, channel or subscription; 2 starts | `TypeOK`, `LoadsAll`, `OneWriter`, `ValidatedFiles`, `Overtaking`, `LossHasCause`, `AtMostOnceSpec`, `LossNoticed`, `AllStored` | each configuration is loaded once and in its place; messages are stored at most once over restarts, and out of order only by what the pool's workers hold; whatever is lost is lost for a named reason; a lost connection cancels; while nothing fails nothing stays behind |
| `pipeline_dropped` | 1 stage, 1 storage | `DroppedBehindOthers` violated | an error is dropped although no other was reported |
| `pipeline_expiry` | 1 stage, 1 storage, expiring context | `ExpiryReturns` violated | `Process` does not return when its context expires |
| `pipeline_caller` | 1 stage, 1 storage, caller's `Add` | `Returns` violated | with the deployed caller `Process` never returns |
| `payloads_timestamp` | Kafka payloads, 2 stages | `DeepCopy` violated | a Kafka payload loses its timestamp at its first clone |
| `elasticsearch_retry` | 1 retry | `RetriesWhole` violated | a retry after a broken connection loses the batch |

**Bounds.** `MaxRead` (records), `MaxErrs` (errors of the consumer), `MaxRetry`
(failed attempts of one request) and the number of payloads are the only
bounds on behaviours. Three records are enough for one to be drained, one to be
handed over and one to be read at the same time in the chain of two stages,
and for a worker to fail with payloads both before and behind it; two stages
have a first, a last and a forward between them, and the last has two outputs
to give up between. In `Payloads` the second record is what recycles the
objects of the first while a storage still holds one of its clones; eight
objects are more than the seven that can be referred to at once, so a new
object is always there. In `ElasticSearch` two workers contend for the mutex,
a batch of two is torn in every place in which a batch of 1000 can be, and four
payloads make two batches, so that what one leaves in the buffer meets the
next. In `KafkaConsumer` six messages exceed the five that `Exposure` allows,
and a third message lies behind the one on which the processor fails; one
crash, at any point of a write that is under way, lets a process restart over
what an earlier one stored; a write may fail again and again, up to the number
of messages. In
`EventDataPipeline` the bounds are `MaxSent`, `MaxCloses` and `MaxStarts`: three
messages let one be written, one wait for the mutex or in the channel and the
malformed one follow; the two workers race for the mutex; a place in the
channel and two payloads in flight let every part of the way fill up; one loss
can come at any time, also during set-up; the second process meets what the
first left in the queue and on the disk. Every publication, request of `Init`
and write may fail without a bound. The eight paths are: nothing there; a
directory with a file of every kind; one without a supported file; a file with
an unsupported extension; and configurations that fail at each point of the
set-up or run a chain that does not validate, whose injector panics. The safety
properties that carry these arguments are proved for every value of the
constants, these bounds among them.

## What the disagreeing runs show

- `pipeline_dropped`: `maybeEmitError`'s comment says that an error is dropped
  when "error channel is full with other errors" (`pipeline.go:164`). `errCh`
  is unbuffered, so an error that comes before `Process` is at its receive, or
  while it handles another, is dropped and nothing cancels the pipeline on its
  behalf.
- `pipeline_expiry`: "Calls to Process block until ... the supplied context
  expires." `KafkaSource.Next` and `RabbitMQSource.Next` log the expiry and
  stay in their loop, so the source worker, and with it `Process`, waits for
  another record.
- `pipeline_caller`: `Run` calls `wg.Add(1)` before `Process` on the same wait
  group and never `Done`: `Process` waits for it and no further configuration
  is started.
- `payloads_timestamp`: `Clone` "returns a new Payload that is a deep-copy of
  the original" (`payload.go:8`); `KafkaPayload.Clone` omits the timestamp, so
  every Kafka document is indexed under the zero date.
- `elasticsearch_retry`: the reader over the batch is made before the retry
  loop; a retry sends what is left of it, the error status Elasticsearch
  answers counts as written, and the buffer is emptied.

## Fairness

`Pipeline!Fairness` is weak fairness of each goroutine's own steps: the Go
scheduler runs every goroutine that can run, and the sink worker's step
includes that a storage eventually takes what it is offered. `SourceNext` and
the faults have no fairness: nothing makes a consumer offer another record, and
nothing makes anything fail. The source worker's fairness is only that of its
own loop and its send.

`ElasticSearch!Fairness` is weak fairness of each worker's steps, strong
fairness of taking the mutex (a Go mutex hands itself over to a waiter that
has starved for a millisecond, so no waiter is passed over for ever) and that
Elasticsearch answers after finitely many failed attempts; with unlimited
retries and no such answer `bulkWrite` never returns, by design.

`KafkaConsumer!Fairness`: a killed process is started again, each goroutine
takes its own steps, the pipeline moves its payloads on (`Delivers` of
`Pipeline`), a bulk write ends (`WriteReturns` of `ElasticSearch`), whether it
has failed or not, and a send to the stream is strongly fair, because Go serves the
senders that wait on a channel first come, first served. The broker, crashes
and errors have no fairness. `AtLeastOnce` asks for a process that from some
time on is not killed, has not failed or been cancelled and reads all
partitions. It does not ask that bulk writes succeed: it counts those that
failed.

`EventDataPipeline!Fairness`: the broker pushes what it has, the library shuts
down what is closed, every goroutine takes its steps (the main one comes to its
loop over `errCh` and receives), and taking the storage's mutex is strongly
fair as in `ElasticSearch`. Publishing, starting, the requests of `Init`,
crashes and losses have no fairness, and a cancelled worker need not ever stop.
`LossNoticed` needs no process that lives on: its end is one way to notice, and
so is a stage that fails on the nil records, even when its error comes before
`Process` receives and cancels nothing (`stalled`).
`AllStored` asks for a process that from some time on is connected and neither
cancelled nor stalled, and says that then nothing stays in the queue or on the
way; that a message may have been refused by the disk is `LossHasCause`.

`Payloads` has safety properties only.

## Proofs

TLAPS proves every safety property that a passing run checks: all invariants,
the action property `LossHasCause` and the refinements. The theorems hold for
all values of the constants: any number of stages, storages, pool workers,
partitions, payload objects, messages, crashes and restarts, any batch and
buffer size, any configured path, and every set of faults.

| Theorem | Statement |
|---|---|
| `PipelineProofs!TypeCorrect` | `Spec => []TypeOK` |
| `PipelineProofs!Inductive` | `Spec => []IInv` |
| `PipelineProofs!NoGap` | `Spec => []GapFree` |
| `PipelineProofs!Ordered` | `Spec => []InOrder` |
| `PipelineProofs!OneLateRead` | `Spec => []LateReads` |
| `PipelineProofs!ImplementsDelivery` | `Spec => DeliverySpec` |
| `PipelineProofs!NoSendAfterClose` | `Spec => []NoWorkerPanic` |
| `PipelineProofs!BoundedSkew` | `Spec => []FanoutSkew`, if `AllFed` |
| `PipelineProofs!BoundedInFlight` | `Spec => []InFlightBound`, if `AllFed` |
| `PayloadsProofs!ImplementsPipeline` | `PayloadSpec => Spec` |
| `PayloadsProofs!HeapInductive` | `PayloadSpec => []HeapInv` |
| `PayloadsProofs!HeapTypeCorrect` | `PayloadSpec => []HeapTypeOK` |
| `PayloadsProofs!NoSharing` | `PayloadSpec => []Exclusive` |
| `PayloadsProofs!RightDocuments` | `PayloadSpec => []StorageGets` |
| `PayloadsProofs!NoMixedDay` | `PayloadSpec => []OneRecord` |
| `PayloadsProofs!RabbitDayRight` | `PayloadSpec => []RabbitDay` |
| `ElasticSearchProofs!TypeCorrect` | `Spec => []TypeOK` |
| `ElasticSearchProofs!Inductive` | `Spec => []IInv` |
| `ElasticSearchProofs!BufferWhole` | `Spec => []Whole` |
| `ElasticSearchProofs!NothingLost` | `Spec => []Accounted` |
| `KafkaConsumerProofs!TypeCorrect` | `Spec => []TypeOK` |
| `KafkaConsumerProofs!Inductive` | `Spec => []IInv` |
| `KafkaConsumerProofs!NoGap` | `Spec => []PartitionPrefix` |
| `KafkaConsumerProofs!BoundedExposure` | `Spec => []Exposure` |
| `EventDataSetupProofs!TypeCorrect` | `Spec => []TypeOK` |
| `EventDataSetupProofs!NothingLeftOut` | `Spec => []LoadsAll` |
| `EventDataSetupProofs!MutualExclusion` | `Spec => []OneWriter` |
| `EventDataSetupProofs!OnlyValidated` | `Spec => []ValidatedFiles` |
| `EventDataPipelineProofs!StoredInOrder` | `Spec => []Overtaking` |
| `EventDataPipelineProofs!ImplementsAtMostOnce` | `Spec => AtMostOnceSpec` |
| `EventDataPipelineProofs!NoSilentLoss` | `Spec => LossHasCause` |

*Assumptions.* Each module assumes what its constants are: the sizes of pools,
batches and pipelines are at least one, counts are natural numbers, faults are
kinds of faults that the module knows, the set of partitions is finite, `None`
is no object, the paths are paths of configurations (`ParamAssumption`,
`HeapAssumption`, `ConfigAssumption`, `RabbitMQAssumption`,
`FilesystemAssumption`, `EventDataAssumption`; TLC evaluates each in a run).
Two theorems need more. `AllFed` says that there is a stage or only one storage.
Without stages only one sink worker is fed, as the code's wiring has it, and
the others fall behind without a bound: TLC finds `FanoutSkew` violated for no
stage and two storages. Every configuration in the repository has processors. No
theorem assumes fairness.

Each inductive invariant was checked by TLC on the instance of its run before
its proof; those of `Pipeline` and `ElasticSearch` stay in their runs.

*The pipeline.* `GapFree` speaks of what storages hold and says nothing of the
goroutines, so it is not inductive: a payload that will be drained next is, one
step earlier, somewhere in the chain. `Chain` says where. Call what a goroutine
has seen the payloads up to the one it holds or last held. Then each goroutine
is never ahead of the one it receives from, and strictly behind it while that
one still has its payload to hand over (`SourceAhead`, `StagesAhead`);
conversely, whatever one has seen and not discarded the next has seen too, but
for the payload about to be handed over (`SourceGives`, `StagesGive`,
`SinksDrain`). The two halves make a hand-over always the next undiscarded
payload, which is the step `Store` of `Delivery`; a worker that fails or
returns freezes its part of the chain, and all behind it stay where they are.
`DroppedApart` keeps what was discarded out of every hand; it is what makes a
discard the abstract step `Discard`. `LateReads` needs its own one-line
invariant: one late read leaves `src` outside `next`, and the check that leads
back there fails once the context is done.

`Chain` also gives the bounds. What one storage has and another has not is in
the hand of the other's sink worker or in that of the last stage, so it is at
most two payloads (`SkewSet`). What was taken and is neither discarded nor
drained by a storage is in the hand of the source worker, of a stage or of the
storage's sink worker, and there are `NStages + 2` of these. `NoWorkerPanic`
follows from `ClosedLast`: `errCh` is closed only when every worker has exited,
and an exited worker neither reports nor starts again.

*The payloads.* Every action of `Payloads` contains the action of `Pipeline` it
extends, or leaves `Pipeline`'s variables alone, which is the refinement; so the
theorems about `Pipeline` hold of it. `Exclusive` counts the holders of an
object, and neither it nor `StorageGets` is inductive: that the object a stage
clones is not cleared under its hands depends on who else has a pointer to it,
and that a clone is blank on what `MarkAsProcessed` left in the pool. `HeapInv`
says so. A goroutine has a pointer exactly while it is about to read it
(`Held`); whoever has a pointer is the only one (`OneHolder`, pairwise, from
which the count follows); an object that nobody points to has no data, and the
pool holds only such (`FreeIsClear`); and the fields of each object are those
of the payload that `Pipeline` says its holder has (`RightFields`, which is
where `Chain` is needed again: a storage is never given a payload twice).

*The storage.* `Whole` speaks of the moments when the mutex is free; the
invariant says what the owner of the mutex has still to do. `MutexOwner`: the
owner is the one worker between `Lock` and the deferred `Unlock`. `BufferShape`:
the buffer is complete documents, as many as were counted, but for the lines
the owner still has to write, and during a bulk write the owner's document is
among them. `ReaderWhole`: before a retry with a partly read reader, the
request's body is the whole buffer (`BodyWhole`), which Elasticsearch then
accepts as a bulk request, so an answer is about all documents that leave the
buffer. Without that last part `Accounted` is false, and `elasticsearch_retry`
shows the behaviour that breaks it.

*The Kafka consumer.* `PartitionPrefix` and `Exposure` speak of what is
`Settled`: stored, or sent to Elasticsearch and not indexed by it. What is
stored alone may have gaps, since a refused document is dropped and later ones
are stored; the theorem says that there are no others. That the next bulk write
leaves no gap does not follow from there being none now. `InLine`: of each
partition, what is in the buffer comes before what is in the pipeline, and that
before what is not sent. `NoneMissing`: whatever a process has sent to the
stream is settled, in the buffer or in the pipeline, also after a restart,
because it starts at offset zero. So what was sent before a message of the
buffer is settled or in the same request, and a request settles all of the
buffer or nothing, whatever becomes of its answer. `Exposure` follows from the
same: what was read and is not settled is in the buffer, in the pipeline, or
the one record that a poller has yet to send. `BufferBound` gives the bound its
last two terms: the buffer is shorter than a batch and one document for each
failed write, and one longer while it is written.

*The event data pipeline: set-up.* `NewPipelineConfig` and a chain of processors
are recursions over sequences of any length. Their proofs go by induction over
the length, on the set of lengths at which the claim holds, with the lemma
`SetInduction`: the library states induction for an operator, which the
provers do not instantiate, but that the finite sets are well-founded under
inclusion is a fact about a set, and from it a set of natural numbers has a
least element. `LoadRuns` and `LoadsUpto` say what the loader has after `i`
files: as many configurations as these files have entries, each at the
position that the number of entries before it gives. `ChainRuns` says that the
result of a chain is a run of payloads, one per processor; `ChainValidates`
that a processor's effect is still there at the end of it. Files outlive the
process and `ValidatedFiles` speaks of the chain of the one that runs, so
`ValidInv` relates every file to the chain that the path describes
(`Configured`), and says the same of the documents with the pool.

*The event data pipeline: the line.* A message passes six places: the queue, the
client's buffer, the reader, the pipeline, the pool's channel, and the workers
with the disk. `Line` says that all in a place was published before all in the
places behind it, `Sorted` that each of the four sequences is in order, and
`Published` that nothing is anywhere that was not published. Every channel is
first in, first out, so each step moves the head of one place to the end of the
next and keeps all three. They also put each message in one place only, which
is what `AtMostOnce` needs: each step of the program leaves every message where
it is, takes it, stores it or loses it (`Moves`). Only the workers of the pool
finish in any order. `OneEach`: no two have the same message. `Disk`: one that
has yet to write a message finds no file of it. `Room`: whenever a message is on
the disk, some worker has no older one, namely the one that wrote it or one that
has since taken newer work; therefore fewer are overtaken than there are
workers. `NoSilentLoss` is the same case distinction by step, with the cause of
each.

*Only model-checked.* Liveness, which is out of the prover's reach:
`FailureCancels`, `CancelStops`, `Delivers`, `Returns`, `WriteReturns`,
`AtLeastOnce`, `LossNoticed`, `AllStored`. The properties of the disagreeing runs
are false.

## Not modelled

- `ReConnect` of the RabbitMQ consumer, which `Read` calls only without a
  connection, and after `Init` there always is one; `Delete`, `WorkerPool.Stop`
  and the signal helper, which nothing calls; the timestamp processor, which is
  not registered.
- The fixed worker pool runner, which no configuration reaches. The mutant
  `DrainAny` shows what `Overtaking` would say of it.
- The rate limiter: the Elasticsearch storage has no limit configured, and the
  file system storage gives it a burst of 0, with which `Wait` returns an error
  at once that is ignored. The models have no time in which it could differ.
- The index a bulk request names: it is that of the payload that completed the
  batch, also for documents of an earlier day. `stored` of `ElasticSearch` keeps
  it, but the repository does not say which index would be right.
- The root context that could stop the pollers of Kafka and the reader of
  RabbitMQ: `Run` cancels it only when it returns, and the process ends with it.
- Compositions of Kafka with the file system and of RabbitMQ with
  Elasticsearch: storages and consumers meet only in the pipeline, whose side
  of either is the same. Several storages behind one consumer are in
  `Pipeline`.
- Payload fields other than those that the normalizers and injectors set.
- Decoding JSON and YAML, the command line, HTTP endpoints, metrics and
  logging: no property is about them.
- Libraries (Kafka and AMQP clients, the Elasticsearch client, `sync.Pool`,
  the rate limiter's clock): modelled only as the code uses them.

## Plan

All components that a configuration can reach are modelled, each alone or in a
composition, and their safety properties are proved. What is left, in this
order:

1. An abstract specification of the Elasticsearch storage: documents that are
   accepted, indexed once or refused, and lost only with a retry whose reader
   was partly read; `ElasticSearch` implements it by `BufferShape` and
   `ReaderWhole`.
2. An abstract specification of the Kafka consumer over restarts: per partition
   a length that is settled, which only grows, one request at a time, and a
   part of it that is stored;
   `KafkaConsumer` implements it by `PartitionPrefix` and `NoneMissing`.
3. The safety parts of liveness properties, so that only fairness is left to
   TLC: that a worker which has been cancelled has an exit enabled in every
   state in which it can wait.
