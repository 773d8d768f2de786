------------------------- MODULE EventDataPipeline -------------------------
(***************************************************************************)
(* The whole program (cmd/service.go, cmd/event_data) with a RabbitMQ      *)
(* consumer and a file system storage, over restarts: the process loads    *)
(* its configurations, sets up the first pipeline step by step, and runs   *)
(* it until something ends the process.                                    *)
(*                                                                         *)
(* Between consumer and storage stands the pipeline as Delivery describes  *)
(* it: payloads in the order of their records, at most InFlight of them,   *)
(* of which the first is handed to the storage unless its chain fails.     *)
(* Process never returns (Returns, in the run pipeline_caller), so no      *)
(* configuration but the first is ever set up.                             *)
(***************************************************************************)
EXTENDS Naturals, Sequences, FiniteSets, Config, RabbitMQConsumer, Filesystem

CONSTANTS Paths,        \* what the configured path may refer to; the first
                        \* configuration has no kafka consumer and no
                        \* elasticsearch storage (KafkaConsumer and
                        \* ElasticSearch are about these)
          InFlight,     \* payloads between the stream and the storage
          MaxStarts     \* bound: times the process is started

ASSUME EventDataAssumption == /\ InFlight \in Nat \ {0}
                              /\ MaxStarts \in Nat
                              /\ Messages \subseteq Names
                              /\ Paths \subseteq ConfigPaths

VARIABLES
  path,        \* what is at the configured path
  starts,      \* how often the process was started
  main,        \* where the main goroutine is
  cfgs,        \* e.cfgs
  flow,        \* the pipeline: running, stalled (a stage has failed and
               \* nobody heard of it), cancelled, or all workers gone
  src,         \* the source worker: in Next, or gone
  flight       \* messages of the payloads on their way to the storage

pipeVars == <<flow, src, flight>>
mainVars == <<path, starts, main, cfgs>>
vars == <<mainVars, pipeVars, R_vars, F_vars>>

MainPCs == {"off", "new", "validate", "create", "init", "processors",
            "storages", "start", "process"}

ConsumerNames == {"rabbitmq"}
CasterNames == {"users_caster"}
StorageNames == {"filesystem"}

Init ==
  /\ path \in Paths
  /\ starts = 0 /\ main = "off" /\ cfgs = <<>>
  /\ flow = "none" /\ src = "gone" /\ flight = <<>>
  /\ R_Init /\ F_Init

-----------------------------------------------------------------------------
(* The main goroutine.                                                     *)

Goto(pc) == main' = pc /\ UNCHANGED <<path, starts, cfgs>>

\* main returns or panics: all other goroutines end with it.
Exit ==
  /\ main' = "off" /\ cfgs' = <<>>
  /\ flow' = "none" /\ src' = "gone" /\ flight' = <<>>
  /\ R_Down /\ F_Down
  /\ UNCHANGED <<path, starts>>

Start ==
  /\ main = "off" /\ starts < MaxStarts
  /\ main' = "new" /\ starts' = starts + 1
  /\ UNCHANGED <<path, cfgs, pipeVars, R_vars, F_vars>>

\* Nil configurations are an error, and a panic of the caller.
NewEventDataPipeline ==
  /\ main = "new"
  /\ IF NewPipelineConfig(path) # <<>>
     THEN /\ main' = "validate" /\ cfgs' = NewPipelineConfig(path)
          /\ UNCHANGED <<path, starts, pipeVars, R_vars, F_vars>>
     ELSE Exit

\* The configurations are loaded: those it would load again ended the process.
ValidateConfigs ==
  /\ main = "validate" /\ cfgs # <<>>
  /\ Goto("create")
  /\ UNCHANGED <<pipeVars, R_vars, F_vars>>

\* It panics for a queue without a caster.
NewRabbitMQConsumer(cfg) == cfg.queue \in CasterNames

\* An entry without a consumer panics too, another name is an error.
CreateConsumer ==
  /\ main = "create"
  /\ IF cfgs[1].consumer \in ConsumerNames /\ NewRabbitMQConsumer(cfgs[1])
     THEN /\ Goto("init")
          /\ stage' = "connect"
          /\ UNCHANGED <<R_broker, closes, conn, delivery, buffer, reader,
                         record, notify, pipeVars, F_vars>>
     ELSE Exit

InitConsumer ==
  /\ main = "init"
  /\ \/ R_InitStep /\ UNCHANGED <<mainVars, pipeVars, F_vars>>
     \/ InitFails /\ Exit
     \/ stage = "ready" /\ Goto("processors")
                        /\ UNCHANGED <<pipeVars, R_vars, F_vars>>

\* The consumer is subscribed already: what a failing set-up was sent is lost.
CreateProcessors ==
  /\ main = "processors"
  /\ IF ToSet(cfgs[1].processors) \subseteq ProcessorNames
     THEN Goto("storages") /\ UNCHANGED <<pipeVars, R_vars, F_vars>>
     ELSE Exit

\* The storage's workers wait, Read and the pipeline's workers are started.
RunPipeline ==
  /\ main = "storages"
  /\ IF ToSet(cfgs[1].storages) \subseteq StorageNames
     THEN /\ Goto("start")
          /\ reader' = "recv"
          /\ flow' = "running" /\ src' = "next"
          /\ UNCHANGED <<R_broker, closes, stage, conn, delivery, buffer,
                         record, notify, flight, F_vars>>
     ELSE Exit

\* Process comes to its loop over errCh.
Collect ==
  /\ main = "start" /\ Goto("process")
  /\ UNCHANGED <<pipeVars, R_vars, F_vars>>

\* The process is killed, or the HTTP server fails, which is fatal.
Crash == main # "off" /\ Exit

Setup ==
  \/ NewEventDataPipeline \/ ValidateConfigs
  \/ CreateConsumer \/ InitConsumer \/ CreateProcessors \/ RunPipeline
  \/ Collect

-----------------------------------------------------------------------------
(* The pipeline.                                                           *)

Outcome(m) == Chain(cfgs[1].processors, NewPayload("rabbitmq", m))

\* rc.stream <- record meets Next.  Once cancelled the source worker takes
\* at most one more; once all others are gone it keeps what it takes.
Send ==
  /\ src = "next" /\ Len(flight) < InFlight
  /\ RecordSent
  /\ flight' = IF flow = "stopped" THEN flight ELSE Append(flight, record)
  /\ src' = IF flow \in {"running", "stalled"} THEN src ELSE "gone"
  /\ UNCHANGED <<mainVars, flow, F_vars>>

\* The collector receives the error, and cancels.
ReportClose ==
  /\ main = "process" /\ CloseReported
  /\ flow' = IF flow = "stopped" THEN flow ELSE "cancelled"
  /\ UNCHANGED <<mainVars, src, flight, F_vars>>

\* A processor returns an error, and its stage leaves: nothing behind that
\* payload reaches the storage.  The error cancels, unless it comes before
\* Process receives: then it is dropped.  Only Validate returns errors, so
\* no stage before that one fails afterwards.
ProcessorFails ==
  /\ flow = "running"
  /\ \E i \in DOMAIN flight : Outcome(flight[i]).result = "error"
  /\ flow' = IF main = "process" THEN "cancelled" ELSE "stalled"
  /\ UNCHANGED <<mainVars, src, flight, R_vars, F_vars>>

\* A processor panics in its stage's goroutine, where nothing recovers.
ProcessorPanics ==
  /\ flow \in {"running", "stalled", "cancelled"}
  /\ \E i \in DOMAIN flight : Outcome(flight[i]).result = "panic"
  /\ Exit

\* Mutant: stages of several workers, so that any payload may be next.
DrainAny ==
  /\ \E i \in DOMAIN flight :
       LET o == Outcome(flight[i])
       IN /\ o.result = "ok"
          /\ DrainTo([msg |-> flight[i], data |-> o.payload.data])
          /\ flight' = RemoveAt(flight, i)
  /\ UNCHANGED <<mainVars, flow, src, R_vars>>

\* The first payload has passed all stages, and the storage takes it.
Drain ==
  /\ flight # <<>> /\ Outcome(Head(flight)).result = "ok"
  /\ DrainTo([msg |-> Head(flight),
              data |-> Outcome(Head(flight)).payload.data])
  /\ flight' = Tail(flight)
  /\ UNCHANGED <<mainVars, flow, src, R_vars>>

\* The source worker leaves its loop; it may have been about to send.
SourceLeaves ==
  /\ flow \in {"cancelled", "stopped"} /\ src = "next"
  /\ src' = "gone"
  /\ UNCHANGED <<mainVars, flow, flight, R_vars, F_vars>>

\* The other workers exit with the payloads they hold.
WorkersStop ==
  /\ flow = "cancelled"
  /\ flow' = "stopped" /\ flight' = <<>>
  /\ UNCHANGED <<mainVars, src, R_vars, F_vars>>

Pipe == \/ Send \/ ReportClose \/ ProcessorFails \/ ProcessorPanics
        \/ Drain \/ SourceLeaves \/ WorkersStop

-----------------------------------------------------------------------------
Broker == (Publish \/ Push) /\ UNCHANGED <<mainVars, pipeVars, F_vars>>
Loss == R_Loss /\ UNCHANGED <<mainVars, pipeVars, F_vars>>
Read == ReceiveDelivery /\ UNCHANGED <<mainVars, pipeVars, F_vars>>
Storage == F_Next /\ UNCHANGED <<mainVars, pipeVars, R_vars>>

Next == \/ Start \/ Setup \/ Crash
        \/ Broker \/ Loss \/ Read \/ Pipe \/ Storage

Spec == Init /\ [][Next]_vars

\* The broker pushes and the library shuts down what is closed; every
\* goroutine runs, and a mutex is handed to one that waits for it long.  The
\* steps of one goroutine that are never enabled together share a conjunct.
Fairness ==
  /\ WF_vars((Push \/ ConnectionShutdown)
               /\ UNCHANGED <<mainVars, pipeVars, F_vars>>)
  /\ WF_vars(Collect \/ ReportClose)
  /\ WF_vars(Read \/ Send)
  /\ WF_vars(ProcessorFails) /\ WF_vars(Drain)
  /\ WF_vars((\E w \in Pool : Receive(w))
               /\ UNCHANGED <<mainVars, pipeVars, R_vars>>)
  /\ WF_vars((\E w \in Pool : Open(w) \/ Save(w) \/ Fail(w))
               /\ UNCHANGED <<mainVars, pipeVars, R_vars>>)
  /\ \A w \in Pool :
       SF_vars(Lock(w) /\ UNCHANGED <<mainVars, pipeVars, R_vars>>)

FairSpec == Spec /\ Fairness

-----------------------------------------------------------------------------
(* Properties.                                                             *)

\* Every variable has its type.
TypeOK ==
  /\ path \in Paths /\ starts \in 0 .. MaxStarts /\ main \in MainPCs
  /\ cfgs \in Seq(PipelineCfgs) /\ (cfgs = <<>> <=> main \in {"off", "new"})
  /\ flow \in {"none", "running", "stalled", "cancelled", "stopped"}
  /\ src \in {"next", "gone"}
  /\ flight \in Seq(Messages \cup {NoMessage}) /\ Len(flight) <= InFlight
  /\ R_TypeOK /\ F_TypeOK

\* The loaded configurations are those that the files describe, each once,
\* in the order of the files and in that of each file; a file that describes
\* none still counts as one, without a consumer.
Size(f) ==
  IF IsSupported(f.ext) /\ f.body = "array" THEN Len(f.cfgs) ELSE 1

Entries ==
  {e \in UNION {{i} \X (1 .. Size(path.files[i])) : i \in DOMAIN path.files} :
     IsDir(path) => IsSupported(path.files[e[1]].ext)}

Described(e) ==
  LET f == path.files[e[1]]
  IN IF IsSupported(f.ext) /\ f.body \in {"array", "object"} THEN f.cfgs[e[2]]
     ELSE NoConsumer

Position(e) ==
  Cardinality({d \in Entries :
                 d[1] < e[1] \/ (d[1] = e[1] /\ d[2] <= e[2])})

LoadsAll ==
  main = "validate" => /\ Len(cfgs) = Cardinality(Entries)
                 /\ \A e \in Entries : cfgs[Position(e)] = Described(e)

\* The worker that is at a file holds the mutex and the shared field names
\* its document; whoever holds the mutex is such a worker, so that no error
\* leaves it locked.
OneWriter ==
  \A w \in Pool : /\ mu = w <=> worker[w] \in {"open", "write"}
                  /\ mu = w => file = task[w]

\* With the default processor in the chain no file is made of a record that
\* was nil, and with the normalizer after it every file has the meta data.
Names1 == IF cfgs = <<>> THEN <<>> ELSE cfgs[1].processors

Before(a, b, names) ==
  \E i, j \in DOMAIN names : i < j /\ names[i] = a /\ names[j] = b

ValidatedFiles ==
  /\ "rabbitmq_default" \in ToSet(Names1) => files[NoMessage] = "absent"
  /\ Before("rabbitmq_default", "rabbitmq_normalizer", Names1)
       => \A m \in Messages : files[m] # "value"

\* Taken from the queue, and neither stored nor lost yet.
OnTheWay(m) == InConsumer(m) \/ m \in ToSet(flight) \/ InStorage(m)

\* Messages are stored in the order of the queue, but for those that wait
\* with other workers of the storage's pool; with one worker there are none.
Overtaking ==
  \A m \in Messages : Whole(m) =>
    LET late == {n \in 1 .. m : n \in ToSet(queue) \/ (OnTheWay(n) /\ n # m)}
    IN Cardinality(late) < PoolSize /\ \A n \in late : WithWorker(n)

\* A message that was taken and is lost is lost for one of these reasons:
\* the process ends, the connection or the channel is lost with it buffered,
\* its body is malformed, the pipeline was cancelled, or its write fails.
LossHasCause ==
  [][\A m \in Messages :
       OnTheWay(m) /\ ~(OnTheWay(m) \/ Whole(m))' =>
         \/ main' = "off"
         \/ m \in ToSet(buffer) /\ (conn' # conn \/ closes' # closes)
         \/ m \in Malformed
         \/ flow = "cancelled" /\ ~InStorage(m)
         \/ flow = "stopped" /\ InConsumer(m)
         \/ m \in failed']_vars

\* Over all restarts each message is taken once and stored at most once, and
\* what is stored stays.
Place(m) ==
  IF m > sent THEN "unsent"
  ELSE IF OnTheWay(m) THEN "taken"
  ELSE IF Whole(m) THEN "stored"
  ELSE IF m \in ToSet(queue) THEN "queued"
  ELSE "gone"

EndToEnd == INSTANCE AtMostOnce WITH where <- [m \in Messages |-> Place(m)]

AtMostOnceSpec == EndToEnd!Spec

\* No loss stays unnoticed.  That of the connection cancels the pipeline (or
\* the process ends), even after a stage's error was dropped.  That of the
\* channel or the subscription alone shows in nil records only: a chain that
\* validates fails on the first of them.
Unnoticed ==
  /\ main \in {"start", "process"}
  /\ \/ conn = "closed" /\ flow \in {"running", "stalled"}
     \/ /\ delivery = "closed" /\ flow = "running"
        /\ "rabbitmq_default" \in ToSet(Names1)

LossNoticed == []<>~Unnoticed

\* As long as nothing fails, all that is published is stored, or refused by
\* the disk: no message stays behind.
Healthy ==
  main = "process" /\ flow = "running" /\ conn = "open" /\ delivery = "open"

AllStored ==
  <>[]Healthy =>
    <>[](\A m \in Messages : Place(m) \notin {"queued", "taken"})
=============================================================================
