------------------------ MODULE EventDataSetupProofs ------------------------
(***************************************************************************)
(* Proofs about EventDataPipeline that need no order of the messages: its  *)
(* types, the mutex of the storage and the field that its workers share,   *)
(* that what is written has passed the chain, and that no configuration    *)
(* is left out, for every set of configuration files, any pool, any number *)
(* of messages, faults and restarts.                                       *)
(*                                                                         *)
(* Two recursive functions are involved, the chain of the processors and   *)
(* the loader of the files; what they compute is proved from their         *)
(* equations, by induction over sets of numbers (SetInduction).            *)
(***************************************************************************)
EXTENDS EventDataPipeline, SetInduction, SequenceTheorems

-----------------------------------------------------------------------------
(* What the processors make of a payload.                                  *)

\* The payloads of message m.
PayloadsOf(m) == [type : PayloadTypes, msg : {m}, meta : BOOLEAN, data : DataKinds]

\* What a processor, or a chain of them, may return for one.
Outcomes(m) == [result : {"ok", "error", "panic"}, payload : PayloadsOf(m)]

\* A processor returns a payload of the message it was given.
LEMMA ProcessOutcome ==
  ASSUME NEW m, NEW p \in PayloadsOf(m), NEW name \in ProcessorNames
  PROVE  Process(name, p) \in Outcomes(m)
<1> USE DEF PayloadsOf, Outcomes, PayloadTypes, DataKinds, Ok, Error, Panic
<1>1. Ok(p) \in Outcomes(m) /\ Error(p) \in Outcomes(m) /\ Panic(p) \in Outcomes(m)
  OBVIOUS
<1>2. \A t : MetaInjector(t, p) \in Outcomes(m) /\ Validate(t, p) \in Outcomes(m)
               /\ Normalize(t, p) \in Outcomes(m)
  BY DEF MetaInjector, Validate, Normalize
<1>3. \A t : DefaultProcessor(t, p) \in Outcomes(m)
  BY <1>2 DEF DefaultProcessor
<1> HIDE DEF Outcomes, PayloadsOf
<1> QED BY <1>1, <1>2, <1>3 DEF Process, ProcessorNames, NoopProcessor,
    KafkaDefaultProcessor, KafkaMetaInjector, NormalizeKafkaPayload,
  RabbitMQDefaultProcessor, RabbitMQMetaInjector, NormalizeRabbitMQPayload

\* The chain runs the processors one after the other: its value is the last
\* of a run that starts with the payload and applies each processor to what
\* the one before returned. (Chain is a recursive function; this is its
\* definition by recursion, and the type of its values.)
LEMMA ChainRuns ==
  ASSUME NEW m, NEW p \in PayloadsOf(m), NEW names \in Seq(ProcessorNames)
  PROVE  \E run \in [0 .. Len(names) -> Outcomes(m)] :
           /\ run[0] = Ok(p)
           /\ \A i \in 1 .. Len(names) : run[i] = Then(run[i - 1], names[i])
           /\ Chain(names, p) = run[Len(names)]
<1> DEFINE n == Len(names)
           S == Outcomes(m)
           op == [i \in 1 .. n |-> [o \in S |-> Then(o, names[i])]]
           Body(f) == [i \in 0 .. n |-> IF i = 0 THEN Ok(p) ELSE Then(f[i - 1], names[i])]
           run == CHOOSE f : f = [i \in 0 .. n |-> IF i = 0 THEN Ok(p) ELSE Then(f[i - 1], names[i])]
<1>0. n \in Nat
  OBVIOUS
<1>1. Ok(p) \in S
  BY DEF Ok, Outcomes, PayloadsOf
<1>2. ASSUME NEW o \in S, NEW i \in 1 .. n PROVE Then(o, names[i]) \in S
  <2>1. names[i] \in ProcessorNames
    OBVIOUS
  <2>2. o.payload \in PayloadsOf(m)
    BY DEF Outcomes
  <2> QED BY <2>1, <2>2, ProcessOutcome DEF Then
<1>3. op \in [1 .. n -> [S -> S]]
  BY <1>2
<1>4. PICK f \in [0 .. n -> S] : f[0] = Ok(p) /\ \A i \in 1 .. n : f[i] = op[i][f[i - 1]]
  <2> DEFINE b == Ok(p)
             Runs(T, c, k, o) == \E f \in [0 .. k -> T] :
               f[0] = c /\ \A i \in 1 .. k : f[i] = o[i][f[i - 1]]
  <2>1. \A T : \A c \in T : \A k \in Nat : \A o \in [1 .. k -> [T -> T]] : Runs(T, c, k, o)
    BY RunExists, Zenon
  <2>2. b \in S
    BY <1>1
  <2> HIDE DEF op, S, n, Runs, b
  <2>3. Runs(S, b, n, op)
    BY <1>0, <1>3, <2>1, <2>2
  <2> QED BY <2>3 DEF Runs, b
<1>5. f = Body(f)
  <2>1. ASSUME NEW i \in 0 .. n PROVE f[i] = IF i = 0 THEN Ok(p) ELSE Then(f[i - 1], names[i])
    <3>1. CASE i = 0
      BY <1>4, <3>1
    <3>2. CASE i # 0
      <4>1. i \in 1 .. n /\ f[i - 1] \in S
        BY <3>2
      <4>2. f[i] = op[i][f[i - 1]]
        BY <1>4, <3>2
      <4> QED BY <4>1, <4>2, <3>2
    <3> QED BY <3>1, <3>2
  <2>2. f = [i \in 0 .. n |-> f[i]]
    OBVIOUS
  <2> QED BY <2>1, <2>2, Zenon
<1>6. run = Body(run)
  BY <1>5, Zenon
<1>7. \A i \in 0 .. n : run[i] = IF i = 0 THEN Ok(p) ELSE Then(run[i - 1], names[i])
  <2> HIDE DEF run
  <2> QED BY <1>6
<1>8. \A i \in 0 .. n : run[i] \in S
  <2> DEFINE P == {i \in Nat : i <= n => run[i] \in S}
  <2> HIDE DEF run
  <2>1. 0 \in P
    BY <1>1, <1>7
  <2>2. ASSUME NEW i \in Nat, i \in P PROVE i + 1 \in P
    <3> SUFFICES ASSUME i + 1 <= n PROVE run[i + 1] \in S
      OBVIOUS
    <3>1. i + 1 \in 1 .. n /\ i + 1 # 0 /\ (i + 1) - 1 = i
      OBVIOUS
    <3>2. run[i] \in S
      BY <2>2
    <3>3. run[i + 1] = Then(run[i], names[i + 1])
      BY <1>7, <3>1
    <3> QED BY <3>1, <3>2, <3>3, <1>2
  <2>3. Nat \subseteq P
    <3> HIDE DEF P
    <3> QED BY <2>1, <2>2, SetInduction
  <2> QED BY <2>3
<1>9. run \in [0 .. n -> S]
  <2> HIDE DEF run, S
  <2> QED BY <1>6, <1>8
<1>10. Chain(names, p) = run[n]
  BY Zenon DEF Chain
<1>11. /\ run[0] = Ok(p)
       /\ \A i \in 1 .. n : run[i] = Then(run[i - 1], names[i])
  <2> HIDE DEF run
  <2> QED BY <1>0, <1>7
<1> QED BY <1>9, <1>10, <1>11, Zenon

\* A processor that succeeds keeps the meta data; the default processor
\* succeeds only on a record that is not nil and leaves meta data behind, and
\* the normalizer makes no plain value of a payload that has them.
LEMMA ProcessEffect ==
  ASSUME NEW m, NEW p \in PayloadsOf(m), NEW name \in ProcessorNames,
         Process(name, p).result = "ok"
  PROVE  LET q == Process(name, p).payload
         IN /\ name = "rabbitmq_default" => m # NoMessage /\ q.meta
            /\ p.meta => q.meta
            /\ p.meta /\ name = "rabbitmq_normalizer" => q.data # "value"
            /\ p.meta /\ p.data # "value" => q.data # "value"
<1> USE DEF PayloadsOf, DataKinds, PayloadTypes
<1>1. \A t : /\ Ok(p).payload = p /\ Error(p).result # "ok" /\ Panic(p).result # "ok"
  BY DEF Ok, Error, Panic
<1>2. \A t : MetaInjector(t, p).result = "ok" =>
        /\ p.msg # NoMessage /\ MetaInjector(t, p).payload.meta
        /\ MetaInjector(t, p).payload.data = p.data
  BY DEF MetaInjector, Ok, Panic
<1>3. \A t : DefaultProcessor(t, p).result = "ok" => DefaultProcessor(t, p) = MetaInjector(t, p)
  BY DEF DefaultProcessor
<1>4. \A t : Normalize(t, p).result = "ok" => 
        /\ Normalize(t, p).payload.meta = p.meta
        /\ p.meta => Normalize(t, p).payload.data = "stamped"
  BY DEF Normalize, Ok, Panic
<1>5. p.msg = m
  OBVIOUS
<1> HIDE DEF PayloadsOf, DataKinds, PayloadTypes
<1> QED BY <1>1, <1>2, <1>3, <1>4, <1>5
        DEF Process, ProcessorNames, NoopProcessor, KafkaDefaultProcessor,
            KafkaMetaInjector, NormalizeKafkaPayload, RabbitMQDefaultProcessor,
            RabbitMQMetaInjector, NormalizeRabbitMQPayload

\* What a chain guarantees of a document it lets through.
Validated(names, d) ==
  /\ "rabbitmq_default" \in ToSet(names) => d.msg # NoMessage
  /\ Before("rabbitmq_default", "rabbitmq_normalizer", names) => d.data # "value"

\* A chain that succeeds guarantees it.
LEMMA ChainValidates ==
  ASSUME NEW m, NEW p \in PayloadsOf(m), NEW names \in Seq(ProcessorNames),
         Chain(names, p).result = "ok"
  PROVE  Validated(names, [msg |-> m, data |-> Chain(names, p).payload.data])
<1> DEFINE n == Len(names)
<1>0. n \in Nat /\ DOMAIN names = 1 .. n
  OBVIOUS
<1>1. PICK run \in [0 .. n -> Outcomes(m)] :
        /\ run[0] = Ok(p)
        /\ \A i \in 1 .. n : run[i] = Then(run[i - 1], names[i])
        /\ Chain(names, p) = run[n]
  BY ChainRuns
<1> HIDE DEF n
<1>2. \A k \in 0 .. n : run[k].result = "ok"
  <2> DEFINE P == {k \in Nat : k <= n => run[n - k].result = "ok"}
  <2>1. 0 \in P
    BY <1>0, <1>1
  <2>2. ASSUME NEW k \in Nat, k \in P PROVE k + 1 \in P
    <3> SUFFICES ASSUME k + 1 <= n PROVE run[n - (k + 1)].result = "ok"
      OBVIOUS
    <3>1. n - k \in 1 .. n /\ (n - k) - 1 = n - (k + 1)
      BY <1>0
    <3>2. run[n - k].result = "ok"
      BY <1>0, <2>2
    <3>3. run[n - k] = Then(run[n - (k + 1)], names[n - k])
      BY <1>1, <3>1
    <3> QED BY <3>2, <3>3 DEF Then
  <2>3. Nat \subseteq P
    <3> HIDE DEF P
    <3> QED BY <2>1, <2>2, SetInduction
  <2>4. SUFFICES ASSUME NEW k \in 0 .. n PROVE run[k].result = "ok"
    OBVIOUS
  <2>5. n - k \in Nat /\ n - k <= n /\ n - (n - k) = k
    BY <1>0
  <2>6. n - k \in P
    BY <2>3, <2>5
  <2> QED BY <2>5, <2>6
<1> DEFINE pl(k) == run[k].payload
<1>3. ASSUME NEW k \in 1 .. n
      PROVE  /\ names[k] = "rabbitmq_default" => m # NoMessage /\ pl(k).meta
             /\ pl(k - 1).meta => pl(k).meta
             /\ pl(k - 1).meta /\ names[k] = "rabbitmq_normalizer" => pl(k).data # "value"
             /\ pl(k - 1).meta /\ pl(k - 1).data # "value" => pl(k).data # "value"
  <2>1. k - 1 \in 0 .. n /\ k \in 0 .. n
    BY <1>0
  <2>2. run[k - 1].payload \in PayloadsOf(m) /\ names[k] \in ProcessorNames
    BY <1>0, <2>1 DEF Outcomes
  <2>3. run[k] = Process(names[k], run[k - 1].payload) /\ run[k].result = "ok"
    BY <1>1, <1>2, <2>1 DEF Then
  <2> QED BY <2>2, <2>3, ProcessEffect
<1> HIDE DEF pl
<1>4. ASSUME "rabbitmq_default" \in ToSet(names) PROVE m # NoMessage
  <2>1. PICK i \in 1 .. n : names[i] = "rabbitmq_default"
    BY <1>0, <1>4 DEF ToSet
  <2> QED BY <1>3, <2>1
<1>5. ASSUME Before("rabbitmq_default", "rabbitmq_normalizer", names)
      PROVE  pl(n).data # "value"
  <2>1. PICK i, j \in 1 .. n : i < j /\ names[i] = "rabbitmq_default"
                                    /\ names[j] = "rabbitmq_normalizer"
    BY <1>0, <1>5 DEF Before
  <2> DEFINE P == {k \in Nat : i + k <= n => pl(i + k).meta /\ (j <= i + k => pl(i + k).data # "value")}
  <2>2. 0 \in P
    BY <1>3, <2>1
  <2>3. ASSUME NEW k \in Nat, k \in P PROVE k + 1 \in P
    <3> SUFFICES ASSUME i + (k + 1) <= n
                 PROVE  pl(i + (k + 1)).meta /\ (j <= i + (k + 1) => pl(i + (k + 1)).data # "value")
      OBVIOUS
    <3>1. i + (k + 1) \in 1 .. n /\ (i + (k + 1)) - 1 = i + k /\ i + k <= n
      BY <1>0
    <3>2. pl(i + k).meta /\ (j <= i + k => pl(i + k).data # "value")
      BY <2>3, <3>1
    <3>3. j <= i + (k + 1) => j <= i + k \/ j = i + (k + 1)
      OBVIOUS
    <3> QED BY <1>3, <2>1, <3>1, <3>2, <3>3
  <2>4. Nat \subseteq P
    <3> HIDE DEF P
    <3> QED BY <2>2, <2>3, SetInduction
  <2>5. n - i \in Nat /\ i + (n - i) = n /\ j <= n
    BY <1>0
  <2>6. n - i \in P
    BY <2>4, <2>5
  <2> QED BY <2>5, <2>6
<1> QED BY <1>1, <1>4, <1>5 DEF Validated, pl

-----------------------------------------------------------------------------
(* What the loader makes of the configuration files.                       *)

\* A file adds at least one configuration.
LEMMA AppendConfsType ==
  ASSUME NEW f \in ConfigFiles
  PROVE  AppendConfs(f) \in Seq(PipelineCfgs) \ {<<>>}
<1>1. f.cfgs \in Seq(PipelineCfgs) /\ (f.body = "object" => f.cfgs # <<>>)
  BY DEF ConfigFiles
<1>2. UnmarshalArr(f) \in Seq(PipelineCfgs)
  BY <1>1 DEF UnmarshalArr
<1>3. NoConsumer \in PipelineCfgs
  <2> DEFINE T == Seq(Strings)
             e == <<>>
  <2>1. e \in T
    BY EmptySeq, Zenon
  <2>2. "none" \in Strings
    BY ConfigAssumption
  <2> HIDE DEF T, e
  <2>3. [consumer |-> "none", queue |-> "none", processors |-> e, storages |-> e]
          \in [consumer : Strings, queue : Strings, processors : T, storages : T]
    BY <2>1, <2>2
  <2> QED BY <2>3 DEF NoConsumer, PipelineCfgs, T, e
<1>4. Unmarshal(f) \in PipelineCfgs
  <2>1. f.body = "object" => f.cfgs[1] \in PipelineCfgs
    <3> HIDE DEF PipelineCfgs
    <3> QED BY <1>1
  <2> QED BY <2>1, <1>3 DEF Unmarshal
<1>5. <<Unmarshal(f)>> \in Seq(PipelineCfgs) /\ <<Unmarshal(f)>> # <<>>
  BY <1>4
<1> QED BY <1>2, <1>5 DEF AppendConfs

\* The loader reads the files one after the other: its value is the last of a
\* run that starts empty and appends what each file adds.
LEMMA LoadRuns ==
  ASSUME NEW p \in ConfigPaths, PathExists(p)
  PROVE  \E loaded \in [0 .. Len(p.files) -> Seq(PipelineCfgs)] :
           /\ loaded[0] = <<>>
           /\ \A i \in 1 .. Len(p.files) :
                loaded[i] = loaded[i - 1] \o Loads(p, p.files[i])
           /\ NewPipelineConfig(p) = loaded[Len(p.files)]
<1> DEFINE n == Len(p.files)
           S == Seq(PipelineCfgs)
           After(o, i) == o \o Loads(p, p.files[i])
           op == [i \in 1 .. n |-> [o \in S |-> o \o Loads(p, p.files[i])]]
           Body(f) == [i \in 0 .. n |-> IF i = 0 THEN <<>> ELSE f[i - 1] \o Loads(p, p.files[i])]
           run == CHOOSE f : f = [i \in 0 .. n |-> IF i = 0 THEN <<>> ELSE f[i - 1] \o Loads(p, p.files[i])]
<1>0. n \in Nat /\ p.files \in Seq(ConfigFiles)
  BY DEF ConfigPaths
<1>1. <<>> \in S
  OBVIOUS
<1>2. ASSUME NEW o \in S, NEW i \in 1 .. n PROVE o \o Loads(p, p.files[i]) \in S
  <2>1. p.files[i] \in ConfigFiles
    <3> HIDE DEF ConfigFiles
    <3> QED BY <1>0
  <2>2. Loads(p, p.files[i]) \in S
    BY <2>1, AppendConfsType DEF Loads
  <2> QED BY <2>2
<1>3. op \in [1 .. n -> [S -> S]]
  <2> HIDE DEF S
  <2> QED BY <1>2
<1>4. PICK f \in [0 .. n -> S] : f[0] = <<>> /\ \A i \in 1 .. n : f[i] = op[i][f[i - 1]]
  <2> DEFINE b == <<>>
             Runs(T, c, k, o) == \E f \in [0 .. k -> T] :
               f[0] = c /\ \A i \in 1 .. k : f[i] = o[i][f[i - 1]]
  <2>1. \A T : \A c \in T : \A k \in Nat : \A o \in [1 .. k -> [T -> T]] : Runs(T, c, k, o)
    BY RunExists, Zenon
  <2>2. b \in S
    BY <1>1
  <2> HIDE DEF op, S, n, Runs, b
  <2>3. Runs(S, b, n, op)
    BY <1>0, <1>3, <2>1, <2>2
  <2> QED BY <2>3 DEF Runs, b
<1>5. f = Body(f)
  <2>1. ASSUME NEW i \in 0 .. n PROVE f[i] = IF i = 0 THEN <<>> ELSE f[i - 1] \o Loads(p, p.files[i])
    <3>1. CASE i = 0
      BY <1>4, <3>1
    <3>2. CASE i # 0
      <4> HIDE DEF S
      <4>1. i \in 1 .. n /\ f[i - 1] \in S
        BY <1>0, <3>2
      <4>2. f[i] = op[i][f[i - 1]]
        BY <1>4, <4>1
      <4> QED BY <4>1, <4>2, <3>2
    <3> QED BY <3>1, <3>2
  <2>2. f = [i \in 0 .. n |-> f[i]]
    OBVIOUS
  <2> QED BY <2>1, <2>2, Zenon
<1>6. run = Body(run)
  BY <1>5, Zenon
<1>7. \A i \in 0 .. n : run[i] = IF i = 0 THEN <<>> ELSE run[i - 1] \o Loads(p, p.files[i])
  <2> HIDE DEF run
  <2> QED BY <1>6
<1>8. \A i \in 0 .. n : run[i] \in S
  <2> DEFINE P == {i \in Nat : i <= n => run[i] \in S}
  <2> HIDE DEF run, S
  <2>1. 0 \in P
    BY <1>0, <1>1, <1>7
  <2>2. ASSUME NEW i \in Nat, i \in P PROVE i + 1 \in P
    <3> SUFFICES ASSUME i + 1 <= n PROVE run[i + 1] \in S
      OBVIOUS
    <3>1. i + 1 \in 1 .. n /\ i + 1 # 0 /\ (i + 1) - 1 = i
      BY <1>0
    <3>2. run[i] \in S
      BY <1>0, <2>2
    <3>3. \A j \in 0 .. n : j # 0 => run[j] = After(run[j - 1], j)
      BY <1>7
    <3>4. run[i + 1] = After(run[i], i + 1)
      <4> HIDE DEF After
      <4> QED BY <1>0, <3>1, <3>3
    <3> QED BY <3>1, <3>2, <3>4, <1>2
  <2>3. Nat \subseteq P
    <3> HIDE DEF P
    <3> QED BY <2>1, <2>2, SetInduction
  <2> QED BY <2>3, <1>0
<1>9. run \in [0 .. n -> S]
  <2> HIDE DEF run, S
  <2> QED BY <1>6, <1>8
<1>10. NewPipelineConfig(p) = run[n]
  BY Zenon DEF NewPipelineConfig
<1>11. /\ run[0] = <<>>
       /\ \A i \in 1 .. n : run[i] = run[i - 1] \o Loads(p, p.files[i])
  <2> HIDE DEF run
  <2>1. \A i \in 0 .. n : run[i] = IF i = 0 THEN <<>> ELSE After(run[i - 1], i)
    BY <1>7
  <2>2. run[0] = <<>> /\ \A i \in 1 .. n : run[i] = After(run[i - 1], i)
    <3> HIDE DEF After
    <3> QED BY <1>0, <2>1
  <2> QED BY <2>2
<1> QED BY <1>9, <1>10, <1>11, Zenon

-----------------------------------------------------------------------------
(* Types: the consumer and the storage, each for itself.                   *)

\* The steps of the consumer.
R_Step == \/ Publish \/ Push \/ R_InitStep \/ R_Loss
          \/ ReceiveDelivery \/ RecordSent \/ CloseReported \/ R_Down

\* They keep its types.
LEMMA R_StepType ==
  ASSUME R_TypeOK, R_Step
  PROVE  R_TypeOK'
<1> USE RabbitMQAssumption DEF R_TypeOK, R_broker, R_memory, NoMessage, Stages
<1>1. CASE Publish
  <2>1. sent + 1 \in Messages /\ sent' \in 0 .. MaxSent
    BY <1>1 DEF Publish, Messages
  <2>2. queue' \in Seq(Messages)
    BY <1>1, <2>1 DEF Publish
  <2> QED BY <1>1, <2>1, <2>2 DEF Publish
<1>2. CASE Push
  <2>1. queue' \in Seq(Messages) /\ buffer' \in Seq(Messages)
    BY <1>2 DEF Push
  <2> QED BY <1>2, <2>1 DEF Push
<1>3. CASE R_InitStep
  BY <1>3 DEF R_InitStep, Connect, CreateChannel, QueueDeclare,
      InitDeliveryChannel
<1>4. CASE R_Loss
  <2>1. closes' \in 0 .. MaxCloses
    BY <1>4 DEF R_Loss, ConnectionCloses, ConnectionShutdown, ChannelCloses,
                SubscriptionCancelled
  <2>2. buffer' = buffer \/ buffer' = <<>>
    BY <1>4 DEF R_Loss, ConnectionCloses, ConnectionShutdown, ChannelCloses,
                SubscriptionCancelled
  <2>3. buffer' \in Seq(Messages)
    BY <2>2, EmptySeq
  <2>4. /\ conn' \in {"none", "open", "closing", "closed"}
        /\ delivery' \in {"none", "open", "closed"}
        /\ notify' \in {"none", "wait", "send", "done"}
        /\ UNCHANGED <<sent, queue, stage, reader, record>>
    BY <1>4 DEF R_Loss, ConnectionCloses, ConnectionShutdown, ChannelCloses,
                SubscriptionCancelled
  <2> QED BY <2>1, <2>3, <2>4
<1>5. CASE ReceiveDelivery
  <2>1. record' \in Messages \cup {NoMessage} /\ buffer' \in Seq(Messages)
    <3>1. CASE buffer # <<>>
      <4>1. Head(buffer) \in Messages /\ Tail(buffer) \in Seq(Messages)
        BY <3>1
      <4> QED BY <3>1, <4>1, <1>5 DEF ReceiveDelivery, Cast
    <3>2. CASE buffer = <<>>
      BY <3>2, <1>5 DEF ReceiveDelivery
    <3> QED BY <3>1, <3>2
  <2> QED BY <1>5, <2>1 DEF ReceiveDelivery
<1>6. CASE RecordSent
  BY <1>6 DEF RecordSent
<1>7. CASE CloseReported
  BY <1>7 DEF CloseReported
<1>8. CASE R_Down
  BY <1>8 DEF R_Down
<1> QED BY <1>1, <1>2, <1>3, <1>4, <1>5, <1>6, <1>7, <1>8 DEF R_Step

\* The steps of the storage keep its types, as long as it is given documents.
LEMMA F_StepType ==
  ASSUME F_TypeOK, F_Next \/ F_Down \/ \E d \in Documents : DrainTo(d)
  PROVE  F_TypeOK'
<1> USE FilesystemAssumption DEF F_TypeOK, Pool, WorkerPCs
<1>0. NoDocument \in Documents /\ \A d \in Documents : d.msg \in Names /\ d.data \in DataKinds
  BY DEF NoDocument, Documents, DataKinds, NoMessage
<1>1. CASE F_Down
  BY <1>0, <1>1 DEF F_Down
<1>2. ASSUME NEW d \in Documents, DrainTo(d) PROVE F_TypeOK'
  <2>1. inCh' \in Seq(Documents) /\ Len(inCh') <= Buffer
    <3>1. CASE inCh' = inCh
      BY <3>1
    <3>2. CASE Len(inCh) < Buffer /\ inCh' = Append(inCh, d)
      <4>1. inCh' \in Seq(Documents) /\ Len(inCh') = Len(inCh) + 1
        BY <3>2, AppendProperties
      <4> QED BY <3>2, <4>1
    <3> QED BY <1>2, <3>1, <3>2 DEF DrainTo
  <2>2. worker' \in [Pool -> WorkerPCs] /\ task' \in [Pool -> Documents]
    <3>1. ASSUME NEW w \in Pool, Give(w, d)
          PROVE  worker' \in [Pool -> WorkerPCs] /\ task' \in [Pool -> Documents]
      BY <3>1 DEF Give
    <3>2. UNCHANGED <<worker, task>> \/ \E w \in Pool : Give(w, d)
      BY <1>2 DEF DrainTo
    <3> QED BY <3>1, <3>2
  <2> QED BY <1>2, <2>1, <2>2 DEF DrainTo
<1>3. ASSUME NEW w \in Pool, Receive(w) PROVE F_TypeOK'
  <2>1. Head(inCh) \in Documents /\ inCh' \in Seq(Documents) /\ Len(inCh') <= Buffer
    BY <1>3 DEF Receive
  <2> QED BY <1>3, <2>1 DEF Receive, Give
<1>4. ASSUME NEW w \in Pool, Lock(w) PROVE F_TypeOK'
  BY <1>4 DEF Lock
<1>5. ASSUME NEW w \in Pool, Open(w) PROVE F_TypeOK'
  <2>1. file.msg \in Names
    BY <1>0
  <2>2. /\ worker' \in [Pool -> WorkerPCs] /\ task' \in [Pool -> Documents]
        /\ files' \in [Names -> {"absent", "partial"} \cup DataKinds]
    BY <1>5, <2>1 DEF Open
  <2> QED BY <1>5, <2>2 DEF Open
<1>6. ASSUME NEW w \in Pool, Save(w) PROVE F_TypeOK'
  <2>1. files' \in [Names -> {"absent", "partial"} \cup DataKinds]
    BY <1>0, <1>6 DEF Save
  <2> QED BY <1>0, <1>6, <2>1 DEF Save, Return
<1>7. ASSUME NEW w \in Pool, Fail(w) PROVE F_TypeOK'
  <2>1. worker' \in [Pool -> WorkerPCs] /\ task' \in [Pool -> Documents]
    BY <1>0, <1>7 DEF Fail, Return
  <2>2. task[w].msg \in Names
    BY <1>0
  <2>3. failed' \subseteq Names /\ mu' = 0 /\ UNCHANGED <<inCh, file, files>>
    BY <1>7, <2>2 DEF Fail, Return
  <2> QED BY <2>1, <2>3
<1> QED BY <1>1, <1>2, <1>3, <1>4, <1>5, <1>6, <1>7 DEF F_Next, Write

-----------------------------------------------------------------------------
(* Types: the whole program.                                               *)

\* What the set-up has done when the main goroutine has come so far: the
\* processors that run exist, nothing is read before they do, and the
\* configurations are those of the path.
SetUp ==
  /\ main \in {"storages", "start", "process"}
       => cfgs[1].processors \in Seq(ProcessorNames)
  /\ src = "next" \/ flight # <<>> \/ reader # "none"
       => main \in {"start", "process"}
  /\ cfgs # <<>> => cfgs = NewPipelineConfig(path)

\* The type invariant that is inductive.
TypeInv == TypeOK /\ SetUp

\* Once the configurations are loaded there is a first.
LEMMA FirstCfg ==
  ASSUME TypeOK, main \notin {"off", "new"}
  PROVE  cfgs[1] \in PipelineCfgs
<1>1. cfgs \in Seq(PipelineCfgs) /\ cfgs # <<>>
  BY DEF TypeOK
<1>2. 1 \in 1 .. Len(cfgs)
  BY <1>1, EmptySeq, LenProperties
<1> QED BY <1>1, <1>2, ElementOfSeq

\* What the chain that runs makes of a message is a payload of it.
LEMMA OutcomeType ==
  ASSUME TypeInv, main \in {"start", "process"}, NEW m
  PROVE  Outcome(m) \in Outcomes(m)
<1> DEFINE p == NewPayload("rabbitmq", m)
           names == cfgs[1].processors
<1>1. p \in PayloadsOf(m)
  BY DEF NewPayload, PayloadsOf, PayloadTypes, DataKinds
<1>2. names \in Seq(ProcessorNames)
  BY DEF TypeInv, SetUp
<1>3. names \in Seq(ProcessorNames) => Len(names) \in Nat
  OBVIOUS
<1> HIDE DEF p, names
<1>4. PICK run \in [0 .. Len(names) -> Outcomes(m)] : Chain(names, p) = run[Len(names)]
  BY <1>1, <1>2, ChainRuns
<1>5. Len(names) \in 0 .. Len(names)
  BY <1>2, <1>3
<1>6. Chain(names, p) \in Outcomes(m)
  BY <1>4, <1>5
<1> QED BY <1>6 DEF Outcome, p, names

\* That payload becomes a document the storage can take.
LEMMA OutcomeDocument ==
  ASSUME TypeInv, main \in {"start", "process"}, NEW m \in Messages \cup {NoMessage}
  PROVE  [msg |-> m, data |-> Outcome(m).payload.data] \in Documents
<1>1. Outcome(m).payload.data \in DataKinds
  BY OutcomeType DEF Outcomes, PayloadsOf
<1>2. m \in Names
  BY EventDataAssumption, FilesystemAssumption
<1> QED BY <1>1, <1>2 DEF Documents

\* The initial states have their types.
LEMMA InitType == Init => TypeInv
<1> SUFFICES ASSUME Init PROVE TypeInv
  OBVIOUS
<1>1. R_TypeOK
  BY RabbitMQAssumption, EmptySeq DEF Init, R_Init, R_Fresh, R_TypeOK, Stages,
      NoMessage
<1>2. NoDocument \in Documents
  BY FilesystemAssumption DEF NoDocument, Documents, DataKinds
<1>3. F_TypeOK
  BY <1>2, FilesystemAssumption, EmptySeq
  DEF Init, F_Init, F_Fresh, F_TypeOK, WorkerPCs
<1>4. SetUp
  BY DEF Init, SetUp, R_Init, R_Fresh
<1>5. /\ cfgs \in Seq(PipelineCfgs) /\ flight \in Seq(Messages \cup {NoMessage})
      /\ Len(flight) <= InFlight
  BY EmptySeq, EventDataAssumption DEF Init
<1> QED BY <1>1, <1>3, <1>4, <1>5, EventDataAssumption DEF Init, TypeInv,
    TypeOK, MainPCs

\* The end of the process keeps them.
LEMMA ExitType == ASSUME TypeInv, Exit PROVE TypeInv'
<1>1. R_TypeOK'
  BY R_StepType DEF Exit, R_Step, TypeInv, TypeOK
<1>2. F_TypeOK'
  BY F_StepType DEF Exit, TypeInv, TypeOK
<1>3. /\ cfgs' \in Seq(PipelineCfgs) /\ flight' \in Seq(Messages \cup {NoMessage})
      /\ Len(flight') <= InFlight
  BY EmptySeq, EventDataAssumption DEF Exit
<1> QED BY <1>1, <1>2, <1>3 DEF Exit, R_Down, TypeInv, TypeOK, SetUp, MainPCs,
    R_vars, R_memory

\* What a step leaves alone keeps its type.
LEMMA UnchangedTypes ==
  /\ R_TypeOK /\ UNCHANGED R_vars => R_TypeOK'
  /\ F_TypeOK /\ UNCHANGED F_vars => F_TypeOK'
<1>1. R_TypeOK /\ UNCHANGED R_vars => R_TypeOK'
  BY DEF R_TypeOK, R_vars, R_broker, R_memory
<1>2. F_TypeOK /\ UNCHANGED F_vars => F_TypeOK'
  BY DEF F_TypeOK, F_vars, F_memory
<1> QED BY <1>1, <1>2

\* What the loader returns are configurations.
LEMMA ConfigsType ==
  ASSUME TypeOK, NewPipelineConfig(path) # <<>>
  PROVE  NewPipelineConfig(path) \in Seq(PipelineCfgs)
<1>1. path \in ConfigPaths
  BY EventDataAssumption DEF TypeOK
<1>2. PathExists(path)
  BY DEF NewPipelineConfig
<1>3. PICK loaded \in [0 .. Len(path.files) -> Seq(PipelineCfgs)] :
        NewPipelineConfig(path) = loaded[Len(path.files)]
  BY <1>1, <1>2, LoadRuns
<1>4. Len(path.files) \in 0 .. Len(path.files)
  BY <1>1 DEF ConfigPaths
<1> QED BY <1>3, <1>4

\* The start of the process keeps the types.
LEMMA StartType == ASSUME TypeInv, Start PROVE TypeInv'
  BY UnchangedTypes, EventDataAssumption
  DEF Start, TypeInv, TypeOK, SetUp, MainPCs, R_vars, R_memory, pipeVars

\* The set-up keeps them; it creates the processors only of names that are
\* registered.
LEMMA SetupType == ASSUME TypeInv, Setup PROVE TypeInv'
<1> USE DEF TypeInv
<1>1. CASE NewEventDataPipeline
  <2>1. CASE Exit
    BY <2>1, ExitType
  <2>2. CASE ~ Exit
    <3>1. NewPipelineConfig(path) \in Seq(PipelineCfgs) \ {<<>>}
      BY <1>1, <2>2, ConfigsType DEF NewEventDataPipeline
    <3> QED BY <1>1, <2>2, <3>1, UnchangedTypes
            DEF NewEventDataPipeline, TypeOK, SetUp, MainPCs, R_vars,
                R_memory, pipeVars
  <2> QED BY <2>1, <2>2
<1>2. CASE ValidateConfigs
  BY <1>2, UnchangedTypes DEF ValidateConfigs, Goto, TypeOK, SetUp, MainPCs,
      R_vars, R_memory, pipeVars
<1>3. CASE CreateConsumer
  <2>1. CASE Exit
    BY <2>1, ExitType
  <2>2. CASE ~ Exit
    <3>1. R_TypeOK'
      BY <1>3, <2>2 DEF CreateConsumer, TypeOK, R_TypeOK, R_broker, Stages
    <3> QED BY <1>3, <2>2, <3>1, UnchangedTypes
            DEF CreateConsumer, Goto, TypeOK, SetUp, MainPCs, R_vars,
                R_memory, pipeVars
  <2> QED BY <2>1, <2>2
<1>4. CASE InitConsumer
  <2>1. CASE Exit
    BY <2>1, ExitType
  <2>2. CASE R_InitStep /\ UNCHANGED <<mainVars, pipeVars, F_vars>>
    <3>1. R_TypeOK'
      BY <2>2, R_StepType DEF R_Step, TypeOK
    <3>2. UNCHANGED reader
      BY <2>2 DEF R_InitStep, Connect, CreateChannel, QueueDeclare,
                  InitDeliveryChannel
    <3> QED BY <2>2, <3>1, <3>2, UnchangedTypes
            DEF TypeOK, SetUp, mainVars, pipeVars
  <2>3. CASE Goto("processors") /\ main = "init" /\ UNCHANGED <<pipeVars, R_vars, F_vars>>
    BY <2>3, UnchangedTypes DEF Goto, TypeOK, SetUp, MainPCs, R_vars,
        R_memory, pipeVars
  <2> QED BY <1>4, <2>1, <2>2, <2>3 DEF InitConsumer
<1>5. CASE CreateProcessors
  <2>1. CASE Exit
    BY <2>1, ExitType
  <2>2. CASE ~ Exit
    <3>1. /\ ToSet(cfgs[1].processors) \subseteq ProcessorNames
          /\ Goto("storages") /\ main = "processors"
          /\ UNCHANGED <<pipeVars, R_vars, F_vars>>
      BY <1>5, <2>2 DEF CreateProcessors
    <3>2. cfgs[1].processors \in Seq(Strings)
      BY <3>1, FirstCfg DEF PipelineCfgs
    <3>3. cfgs[1].processors \in Seq(ProcessorNames)
      BY <3>1, <3>2 DEF ToSet
    <3> QED BY <3>1, <3>3, UnchangedTypes
            DEF Goto, TypeOK, SetUp, MainPCs, R_vars, R_memory, pipeVars
  <2> QED BY <2>1, <2>2
<1>6. CASE RunPipeline
  <2>1. CASE Exit
    BY <2>1, ExitType
  <2>2. CASE ~ Exit
    <3>1. R_TypeOK'
      BY <1>6, <2>2 DEF RunPipeline, TypeOK, R_TypeOK, R_broker
    <3> QED BY <1>6, <2>2, <3>1, UnchangedTypes
            DEF RunPipeline, Goto, TypeOK, SetUp, MainPCs, R_vars, R_memory
  <2> QED BY <2>1, <2>2
<1>7. CASE Collect
  BY <1>7, UnchangedTypes DEF Collect, Goto, TypeOK, SetUp, MainPCs, R_vars,
      R_memory, pipeVars
<1> QED BY <1>1, <1>2, <1>3, <1>4, <1>5, <1>6, <1>7 DEF Setup

\* The pipeline keeps them; it never holds more than InFlight payloads.
LEMMA PipeType == ASSUME TypeInv, Pipe PROVE TypeInv'
<1> USE DEF TypeInv
<1> DEFINE Flying == Messages \cup {NoMessage}
<1>0. flight \in Seq(Flying) /\ R_TypeOK /\ F_TypeOK
  BY DEF TypeOK
<1>1. CASE Send
  <2>1. R_TypeOK'
    BY <1>0, <1>1, R_StepType DEF Send, R_Step
  <2>2. flight' \in Seq(Flying) /\ Len(flight') <= InFlight
    <3>1. record \in Flying
      BY <1>0 DEF R_TypeOK
    <3>2. Append(flight, record) \in Seq(Flying) /\ Len(Append(flight, record)) = Len(flight) + 1
      BY <1>0, <3>1, AppendProperties
    <3>3. Len(flight) \in Nat
      BY <1>0
    <3> HIDE DEF Flying
    <3> QED BY <1>0, <1>1, <3>2, <3>3, EventDataAssumption DEF Send
  <2>3. main \in {"start", "process"} /\ src' \in {"next", "gone"}
    BY <1>1 DEF Send, SetUp
  <2> QED BY <1>1, <2>1, <2>2, <2>3, UnchangedTypes DEF Send, TypeOK, SetUp,
      mainVars, R_vars, R_memory
<1>2. CASE ReportClose
  <2>1. R_TypeOK'
    BY <1>0, <1>2, R_StepType DEF ReportClose, R_Step
  <2> QED BY <1>2, <2>1, UnchangedTypes DEF ReportClose, TypeOK, SetUp,
      mainVars, R_vars, R_memory
<1>3. CASE ProcessorFails
  BY <1>3, UnchangedTypes DEF ProcessorFails, TypeOK, SetUp, mainVars, R_vars,
      R_memory
<1>4. CASE ProcessorPanics
  BY <1>4, ExitType DEF ProcessorPanics
<1>5. CASE Drain
  <2>1. Head(flight) \in Flying /\ Tail(flight) \in Seq(Flying)
        /\ Len(Tail(flight)) <= Len(flight) /\ Len(Tail(flight)) \in Nat
    BY <1>0, <1>5 DEF Drain
  <2>2. main \in {"start", "process"}
    BY <1>5 DEF Drain, SetUp
  <2>3. F_TypeOK'
    BY <1>0, <1>5, <2>1, <2>2, OutcomeDocument, F_StepType DEF Drain
  <2> QED BY <1>5, <2>1, <2>2, <2>3, UnchangedTypes, EventDataAssumption
          DEF Drain, TypeOK, SetUp, mainVars, R_vars, R_memory
<1>6. CASE SourceLeaves
  BY <1>6, UnchangedTypes DEF SourceLeaves, TypeOK, SetUp, mainVars, R_vars,
      R_memory
<1>7. CASE WorkersStop
  <2>1. flight' \in Seq(Flying) /\ Len(flight') <= InFlight
    BY <1>7, EmptySeq, EventDataAssumption DEF WorkersStop
  <2> QED BY <1>7, <2>1, UnchangedTypes DEF WorkersStop, TypeOK, SetUp,
      mainVars, R_vars, R_memory
<1> QED BY <1>1, <1>2, <1>3, <1>4, <1>5, <1>6, <1>7 DEF Pipe

\* The broker, the consumer and the storage keep them.
LEMMA EnvironmentType ==
  ASSUME TypeInv, Broker \/ Loss \/ Read \/ Storage
  PROVE  TypeInv'
<1> USE DEF TypeInv
<1>1. R_TypeOK' /\ F_TypeOK'
  <2>1. CASE Broker \/ Loss \/ Read
    BY <2>1, R_StepType, UnchangedTypes DEF Broker, Loss, Read, R_Step, TypeOK
  <2>2. CASE Storage
    BY <2>2, F_StepType, UnchangedTypes DEF Storage, TypeOK
  <2> QED BY <2>1, <2>2
<1>2. UNCHANGED <<mainVars, pipeVars>>
  BY DEF Broker, Loss, Read, Storage
<1>3. reader' = reader \/ reader = "recv"
  BY DEF Broker, Publish, Push, Loss, R_Loss, ConnectionCloses,
         ConnectionShutdown, ChannelCloses, SubscriptionCancelled, Read,
         ReceiveDelivery, Storage, R_vars, R_memory
<1> QED BY <1>1, <1>2, <1>3 DEF TypeOK, SetUp, mainVars, R_vars, R_memory,
    pipeVars

\* Every step keeps them.
LEMMA NextType == ASSUME TypeInv, [Next]_vars PROVE TypeInv'
<1>1. CASE UNCHANGED vars
  BY <1>1, UnchangedTypes
  DEF vars, mainVars, pipeVars, R_vars, R_memory, TypeInv, TypeOK, SetUp
<1> QED BY <1>1, StartType, SetupType, ExitType, PipeType, EnvironmentType
    DEF Next, Crash

\* The types, and what the set-up has done, hold in every state.
THEOREM TypeInvariant == Spec => []TypeInv
  BY InitType, NextType, PTL DEF Spec

\* Every variable of the program keeps its type (TypeOK), over all restarts,
\* losses of the connection and failing set-ups: no index or field that a
\* step uses is missing, the configurations are loaded exactly between
\* "validate" and the end, and the channels keep their capacities.
THEOREM TypeCorrect == Spec => []TypeOK
<1>1. TypeInv => TypeOK
  BY DEF TypeInv
<1> QED BY <1>1, TypeInvariant, PTL

-----------------------------------------------------------------------------
(* The kinds of steps that messages and files tell apart.                  *)

\* The storage moves, everything else stands.
Alone == UNCHANGED <<mainVars, pipeVars, R_vars>>

\* The consumer or the broker moves, everything else stands.
OfConsumer == UNCHANGED <<mainVars, pipeVars, F_vars>>

\* Nothing that holds a message moves.
Quiet ==
  /\ UNCHANGED <<path, sent, queue, buffer, record, flight, F_vars>>
  /\ reader' = reader \/ (reader = "none" /\ reader' = "recv")
  /\ cfgs' = cfgs \/ cfgs' = NewPipelineConfig(path)

\* Every step is of one of these kinds.
StepKinds ==
  \/ Quiet
  \/ Exit
  \/ (Publish \/ Push \/ ReceiveDelivery) /\ OfConsumer
  \/ (ConnectionShutdown \/ ChannelCloses) /\ OfConsumer
  \/ Send \/ WorkersStop \/ Drain
  \/ (\E w \in Pool : Receive(w) \/ Lock(w) \/ Open(w) \/ Save(w) \/ Fail(w)) /\ Alone

\* It is: the set-up, the library's goroutine, the collector and the
\* processors' errors move no message.
LEMMA Steps == ASSUME TypeInv, [Next]_vars PROVE StepKinds
<1> USE DEF R_vars, R_broker, R_memory, mainVars, pipeVars
<1>1. UNCHANGED vars => Quiet
  BY DEF vars, Quiet
<1>2. Start => Quiet
  BY DEF Start, Quiet
<1>3. Setup => Quiet \/ Exit
  <2> SUFFICES ASSUME Setup, ~ Exit PROVE Quiet
    OBVIOUS
  <2>1. CASE NewEventDataPipeline
    BY <2>1 DEF NewEventDataPipeline, Quiet
  <2>2. CASE ValidateConfigs \/ CreateConsumer \/ CreateProcessors \/ Collect
    BY <2>2 DEF ValidateConfigs, CreateConsumer, CreateProcessors, Collect,
                Goto, Quiet
  <2>3. CASE InitConsumer
    <3>1. CASE R_InitStep /\ UNCHANGED <<mainVars, pipeVars, F_vars>>
      BY <3>1 DEF R_InitStep, Connect, CreateChannel, QueueDeclare,
                  InitDeliveryChannel, Quiet
    <3>2. CASE Goto("processors") /\ UNCHANGED <<pipeVars, R_vars, F_vars>>
      BY <3>2 DEF Goto, Quiet
    <3> QED BY <2>3, <3>1, <3>2 DEF InitConsumer
  <2>4. CASE RunPipeline
    <3>1. reader = "none"
      BY <2>4 DEF RunPipeline, TypeInv, SetUp
    <3> QED BY <2>4, <3>1 DEF RunPipeline, Goto, Quiet
  <2> QED BY <2>1, <2>2, <2>3, <2>4 DEF Setup
<1>4. Broker => (Publish \/ Push) /\ OfConsumer
  BY DEF Broker, OfConsumer
<1>5. Loss => Quiet \/ ((ConnectionShutdown \/ ChannelCloses) /\ OfConsumer)
  BY DEF Loss, R_Loss, ConnectionCloses, SubscriptionCancelled, Quiet,
      OfConsumer
<1>6. Read => ReceiveDelivery /\ OfConsumer
  BY DEF Read, OfConsumer
<1>7. Pipe => Quiet \/ Exit \/ Send \/ WorkersStop \/ Drain
  <2>1. ReportClose \/ ProcessorFails \/ SourceLeaves => Quiet
    BY DEF ReportClose, CloseReported, ProcessorFails, SourceLeaves, Quiet
  <2>2. ProcessorPanics => Exit
    BY DEF ProcessorPanics
  <2> QED BY <2>1, <2>2 DEF Pipe
<1>8. Storage =>
        (\E w \in Pool : Receive(w) \/ Lock(w) \/ Open(w) \/ Save(w) \/ Fail(w)) /\ Alone
  BY DEF Storage, F_Next, Write, Alone
<1>9. Crash => Exit
  BY DEF Crash
<1> QED BY <1>1, <1>2, <1>3, <1>4, <1>5, <1>6, <1>7, <1>8, <1>9
        DEF Next, StepKinds

\* What these steps do to the storage alone.
LEMMA StepsAgain ==
  ASSUME StepKinds
  PROVE  /\ path' = path
         /\ \/ UNCHANGED F_vars \/ F_Down \/ Drain
            \/ \E w \in Pool : Receive(w) \/ Lock(w) \/ Open(w) \/ Save(w) \/ Fail(w)
  BY DEF StepKinds, Quiet, Exit, OfConsumer, Send, WorkersStop, Drain, Alone,
      mainVars

-----------------------------------------------------------------------------
(* The mutex of the storage.                                               *)

\* No step breaks OneWriter: who leaves the mutex is the one that holds it,
\* and f.file is set only by the worker that takes it.
LEMMA OneWriterStep ==
  ASSUME TypeInv, OneWriter, StepKinds
  PROVE  OneWriter'
<1> USE FilesystemAssumption DEF Pool
<1>0. /\ worker \in [Pool -> WorkerPCs] /\ task \in [Pool -> Documents] /\ 0 \notin Pool
      /\ PoolSize \in Nat
  BY DEF TypeInv, TypeOK, F_TypeOK
<1> HIDE DEF Pool
<1>1. CASE UNCHANGED F_vars
  BY <1>1 DEF F_vars, F_memory, OneWriter
<1>2. CASE F_Down
  BY <1>0, <1>2 DEF F_Down, OneWriter
<1>3. CASE Drain
  <2>1. PICK d : DrainTo(d)
    BY <1>3 DEF Drain
  <2> QED BY <1>0, <2>1 DEF DrainTo, Give, OneWriter
<1>4. ASSUME NEW w \in Pool, Receive(w) PROVE OneWriter'
  BY <1>0, <1>4 DEF Receive, Give, OneWriter
<1>5. ASSUME NEW w \in Pool, Lock(w) PROVE OneWriter'
  BY <1>0, <1>5 DEF Lock, OneWriter
<1>6. ASSUME NEW w \in Pool, Open(w) PROVE OneWriter'
  BY <1>0, <1>6 DEF Open, OneWriter
<1>7. ASSUME NEW w \in Pool, Save(w) PROVE OneWriter'
  BY <1>0, <1>7 DEF Save, Return, OneWriter
<1>8. ASSUME NEW w \in Pool, Fail(w) PROVE OneWriter'
  BY <1>0, <1>8 DEF Fail, Return, OneWriter
<1> QED BY <1>1, <1>2, <1>3, <1>4, <1>5, <1>6, <1>7, <1>8, StepsAgain

-----------------------------------------------------------------------------
(* What is written has passed the chain.                                   *)

\* The processors of the first configuration; the path stays what it is, so
\* that they are the same in every process.
Configured ==
  IF NewPipelineConfig(path) = <<>> THEN <<>>
  ELSE NewPipelineConfig(path)[1].processors

\* The documents in the storage have passed them.
DocumentsValidated ==
  /\ \A i \in DOMAIN inCh : Validated(Configured, inCh[i])
  /\ \A w \in Pool : worker[w] # "recv" => Validated(Configured, task[w])

\* The files do not hold what they refuse.
FilesValidated ==
  /\ "rabbitmq_default" \in ToSet(Configured) => files[NoMessage] = "absent"
  /\ Before("rabbitmq_default", "rabbitmq_normalizer", Configured)
       => \A m \in Messages : files[m] # "value"

\* The invariant that makes ValidatedFiles inductive: files outlive the
\* process, and what they hold has to be related to the chain of every
\* process, not of the one that runs.
ValidInv == TypeInv /\ OneWriter /\ DocumentsValidated /\ FilesValidated

\* While configurations are loaded, they are those of the path.
LEMMA ConfiguredNames ==
  ASSUME TypeInv
  PROVE  Names1 = <<>> \/ Names1 = Configured
  BY DEF TypeInv, SetUp, Names1, Configured

\* What the pipeline hands to the storage has passed the chain.
LEMMA ValidatedDrain ==
  ASSUME TypeInv, Drain
  PROVE  \E d \in Documents : DrainTo(d) /\ Validated(Configured, d)
<1> DEFINE m == Head(flight)
           d == [msg |-> m, data |-> Outcome(m).payload.data]
           p == NewPayload("rabbitmq", m)
           names == cfgs[1].processors
<1>1. main \in {"start", "process"} /\ cfgs # <<>> /\ cfgs = NewPipelineConfig(path)
  BY DEF Drain, TypeInv, TypeOK, SetUp
<1>2. m \in Messages \cup {NoMessage}
  <2>1. flight \in Seq(Messages \cup {NoMessage}) /\ flight # <<>>
    BY DEF Drain, TypeInv, TypeOK
  <2> QED BY <2>1
<1>3. d \in Documents
  BY <1>1, <1>2, OutcomeDocument
<1>4. names \in Seq(ProcessorNames) /\ names = Configured
  BY <1>1 DEF TypeInv, SetUp, Configured
<1>5. p \in PayloadsOf(m)
  BY DEF NewPayload, PayloadsOf, PayloadTypes, DataKinds
<1>6. Outcome(m) = Chain(names, p) /\ Outcome(m).result = "ok"
  BY DEF Drain, Outcome
<1> HIDE DEF m, p, names
<1>7. Validated(Configured, d)
  BY <1>4, <1>5, <1>6, ChainValidates
<1> QED BY <1>3, <1>7 DEF Drain, m

\* The storage gets no other documents.
LEMMA DocumentsValidatedStep ==
  ASSUME ValidInv, StepKinds
  PROVE  DocumentsValidated'
<1>1. Configured' = Configured
  BY StepsAgain DEF Configured
<1>2. /\ inCh \in Seq(Documents) /\ worker \in [Pool -> WorkerPCs]
      /\ task \in [Pool -> Documents]
  BY DEF ValidInv, TypeInv, TypeOK, F_TypeOK
<1>3. DocumentsValidated /\ OneWriter
  BY DEF ValidInv
<1> HIDE DEF Configured
<1>4. ASSUME UNCHANGED <<inCh, worker, task>> PROVE DocumentsValidated'
  BY <1>1, <1>3, <1>4 DEF DocumentsValidated
<1>5. CASE F_Down
  BY <1>5 DEF F_Down, DocumentsValidated
<1>6. CASE Drain
  <2>1. PICK d \in Documents : DrainTo(d) /\ Validated(Configured, d)
    BY <1>6, ValidatedDrain DEF ValidInv
  <2>2. \A i \in DOMAIN inCh' : Validated(Configured, inCh'[i])
    <3>1. CASE inCh' = inCh
      BY <1>3, <3>1 DEF DocumentsValidated
    <3>2. CASE inCh' = Append(inCh, d)
      <4>1. ASSUME NEW i \in DOMAIN inCh' PROVE inCh'[i] = d \/ (i \in DOMAIN inCh /\ inCh'[i] = inCh[i])
        BY <1>2, <3>2
      <4> QED BY <1>3, <2>1, <4>1 DEF DocumentsValidated
    <3> QED BY <2>1, <3>1, <3>2 DEF DrainTo
  <2>3. \A w \in Pool : worker'[w] # "recv" => Validated(Configured, task'[w])
    <3>1. CASE UNCHANGED <<worker, task>>
      BY <1>3, <3>1 DEF DocumentsValidated
    <3>2. ASSUME NEW w \in Pool, Give(w, d)
          PROVE  \A v \in Pool : worker'[v] # "recv" => Validated(Configured, task'[v])
      BY <1>2, <1>3, <2>1, <3>2 DEF DocumentsValidated, Give
    <3> QED BY <2>1, <3>1, <3>2 DEF DrainTo
  <2> QED BY <1>1, <2>2, <2>3 DEF DocumentsValidated
<1>7. ASSUME NEW w \in Pool, Receive(w) PROVE DocumentsValidated'
  <2>1. inCh # <<>> /\ inCh' = Tail(inCh) /\ Give(w, Head(inCh))
    BY <1>7 DEF Receive
  <2>2. 1 \in DOMAIN inCh /\ Head(inCh) = inCh[1]
    BY <1>2, <2>1
  <2>3. ASSUME NEW i \in DOMAIN inCh' PROVE i + 1 \in DOMAIN inCh /\ inCh'[i] = inCh[i + 1]
    BY <1>2, <2>1
  <2>4. \A i \in DOMAIN inCh' : Validated(Configured, inCh'[i])
    BY <1>3, <2>3 DEF DocumentsValidated
  <2>5. Validated(Configured, Head(inCh))
    BY <1>3, <2>2 DEF DocumentsValidated
  <2>6. \A v \in Pool : worker'[v] # "recv" => Validated(Configured, task'[v])
    BY <1>2, <1>3, <2>1, <2>5 DEF DocumentsValidated, Give
  <2> QED BY <1>1, <2>4, <2>6 DEF DocumentsValidated
<1>8. ASSUME NEW w \in Pool, Lock(w) \/ Open(w) PROVE DocumentsValidated'
  <2>1. UNCHANGED inCh /\ worker[w] # "recv"
        /\ (task' = task \/ task' = [task EXCEPT ![w] = file])
        /\ \A v \in Pool : worker'[v] # "recv" => worker[v] # "recv"
    BY <1>2, <1>8 DEF Lock, Open
  <2>2. Open(w) => file = task[w]
    BY <1>3 DEF Open, OneWriter
  <2>3. task' = task
    BY <1>2, <1>8, <2>2 DEF Lock, Open
  <2> QED BY <1>1, <1>3, <2>1, <2>3 DEF DocumentsValidated
<1>9. ASSUME NEW w \in Pool, Save(w) \/ Fail(w) PROVE DocumentsValidated'
  <2>1. UNCHANGED inCh /\ Return(w)
    BY <1>9 DEF Save, Fail
  <2> QED BY <1>1, <1>2, <1>3, <2>1 DEF DocumentsValidated, Return
<1> QED BY <1>4, <1>5, <1>6, <1>7, <1>8, <1>9, StepsAgain DEF F_vars, F_memory

\* A worker writes the document it was given: f.file is its own while it
\* holds the mutex, though all workers share that field.
LEMMA FilesValidatedStep ==
  ASSUME ValidInv, StepKinds
  PROVE  FilesValidated'
<1>1. Configured' = Configured
  BY StepsAgain DEF Configured
<1>2. /\ files \in [Names -> {"absent", "partial"} \cup DataKinds]
      /\ NoMessage \in Names /\ Messages \subseteq Names /\ NoMessage \notin Messages
  BY FilesystemAssumption, EventDataAssumption
     DEF ValidInv, TypeInv, TypeOK, F_TypeOK, NoMessage, Messages
<1>3. DocumentsValidated /\ FilesValidated /\ OneWriter
  BY DEF ValidInv
<1> HIDE DEF Configured
<1>4. ASSUME UNCHANGED files PROVE FilesValidated'
  BY <1>1, <1>3, <1>4 DEF FilesValidated
<1>5. ASSUME NEW w \in Pool, Open(w) PROVE FilesValidated'
  <2>1. file = task[w] /\ Validated(Configured, file)
    BY <1>3, <1>5 DEF Open, OneWriter, DocumentsValidated
  <2> QED BY <1>1, <1>2, <1>3, <1>5, <2>1 DEF FilesValidated, Open, Validated
<1>6. ASSUME NEW w \in Pool, Save(w) PROVE FilesValidated'
  <2>1. Validated(Configured, task[w])
    BY <1>3, <1>6 DEF Save, DocumentsValidated
  <2> QED BY <1>1, <1>2, <1>3, <1>6, <2>1 DEF FilesValidated, Save, Validated
<1>7. UNCHANGED files \/ \E w \in Pool : Open(w) \/ Save(w)
  BY StepsAgain DEF F_vars, F_Down, Drain, DrainTo, Receive, Lock, Fail
<1> QED BY <1>4, <1>5, <1>6, <1>7

\* At first there are no documents and no files.
LEMMA InitValid == Init => ValidInv
<1> SUFFICES ASSUME Init PROVE ValidInv
  OBVIOUS
<1>1. inCh = <<>> /\ \A w \in Pool : worker[w] = "recv"
  BY DEF Init, F_Init, F_Fresh
<1>2. DocumentsValidated
  BY <1>1 DEF DocumentsValidated
<1>3. \A n \in Names : files[n] = "absent"
  BY DEF Init, F_Init
<1>4. FilesValidated
  BY <1>3, FilesystemAssumption, EventDataAssumption DEF FilesValidated
<1>5. OneWriter
  BY <1>1, FilesystemAssumption DEF OneWriter, Init, F_Init, F_Fresh, Pool
<1> QED BY InitType, <1>2, <1>4, <1>5 DEF ValidInv

\* Every step keeps the invariant.
LEMMA NextValid == ASSUME ValidInv, [Next]_vars PROVE ValidInv'
  BY NextType, Steps, OneWriterStep, DocumentsValidatedStep,
      FilesValidatedStep DEF ValidInv

\* So it holds in every state.
LEMMA ValidInvariant == Spec => []ValidInv
  BY InitValid, NextValid, PTL DEF Spec

\* OneWriter, for any number of workers: a worker that opens or writes a file
\* holds the mutex and finds its own document in f.file, and no worker leaves
\* the mutex locked behind an error.
THEOREM MutualExclusion == Spec => []OneWriter
<1>1. ValidInv => OneWriter
  BY DEF ValidInv
<1> QED BY <1>1, ValidInvariant, PTL

\* ValidatedFiles, for every configuration, number of workers and number of
\* restarts: with the default processor configured no file is made of a nil
\* record, and with the normalizer behind it no file lacks the meta data.
THEOREM OnlyValidated == Spec => []ValidatedFiles
<1>1. ValidInv => ValidatedFiles
  <2> SUFFICES ASSUME ValidInv PROVE ValidatedFiles
    OBVIOUS
  <2>1. CASE Names1 = <<>>
    BY <2>1 DEF ValidatedFiles, Before, ToSet
  <2>2. CASE Names1 = Configured
    BY <2>2 DEF ValidInv, FilesValidated, ValidatedFiles
  <2> QED BY <2>1, <2>2, ConfiguredNames DEF ValidInv
<1> QED BY <1>1, ValidInvariant, PTL

-----------------------------------------------------------------------------
(* Loading: nothing that a file describes is left out or comes twice.      *)

\* How many configurations file i of the path contributes, and the places of
\* those of the files up to it.
Share(i) ==
  IF IsRead(path, path.files[i]) THEN Size(path.files[i]) ELSE 0
Upto(i) == {e \in Entries : e[1] <= i}

\* A file contributes what it describes.
LEMMA FileLoads ==
  ASSUME path \in ConfigPaths, NEW i \in 1 .. Len(path.files)
  PROVE  LET l == Loads(path, path.files[i])
         IN  /\ l \in Seq(PipelineCfgs)
             /\ Len(l) = Share(i) /\ Share(i) \in Nat
             /\ \A k \in 1 .. Share(i) : l[k] = Described(<<i, k>>)
<1> DEFINE f == path.files[i]
<1>1. f \in ConfigFiles
  <2>1. path.files \in Seq(ConfigFiles)
    BY DEF ConfigPaths
  <2> HIDE DEF ConfigFiles
  <2> QED BY <2>1
<1>2. f.cfgs \in Seq(PipelineCfgs) /\ (f.cfgs = <<>> <=> f.body \in {"other", "none"})
  BY <1>1 DEF ConfigFiles
<1>3. AppendConfs(f) \in Seq(PipelineCfgs)
  BY <1>1, AppendConfsType
<1>4. \A k : <<i, k>>[1] = i /\ <<i, k>>[2] = k
  OBVIOUS
<1>5. \A k : Described(<<i, k>>)
               = IF IsSupported(f.ext) /\ f.body \in {"array", "object"}
                 THEN f.cfgs[k] ELSE NoConsumer
  BY <1>4 DEF Described
<1> HIDE DEF f
<1>6. /\ Len(AppendConfs(f)) = Size(f) /\ Size(f) \in Nat
      /\ \A k \in 1 .. Size(f) : AppendConfs(f)[k] = Described(<<i, k>>)
  <2>1. CASE IsSupported(f.ext) /\ f.body = "array"
    <3>1. AppendConfs(f) = f.cfgs /\ Size(f) = Len(f.cfgs)
      BY <1>2, <2>1 DEF AppendConfs, UnmarshalArr, Size
    <3> QED BY <1>2, <1>5, <2>1, <3>1
  <2>2. CASE ~(IsSupported(f.ext) /\ f.body = "array")
    <3>1. AppendConfs(f) = <<Unmarshal(f)>> /\ Size(f) = 1
      BY <2>2 DEF AppendConfs, UnmarshalArr, Size
    <3>2. Unmarshal(f) = Described(<<i, 1>>)
      BY <1>5, <2>2 DEF Unmarshal
    <3> QED BY <3>1, <3>2
  <2> QED BY <2>1, <2>2
<1>7. CASE IsRead(path, f)
  BY <1>3, <1>6, <1>7 DEF Loads, Share, f
<1>8. CASE ~IsRead(path, f)
  <2>1. Loads(path, f) = <<>> /\ Share(i) = 0
    BY <1>8 DEF Loads, Share, f
  <2> QED BY <2>1, EmptySeq DEF f
<1> QED BY <1>7, <1>8

\* An entry is a file and a place among what it describes.
LEMMA EntriesAre ==
  ASSUME path \in ConfigPaths
  PROVE  /\ \A e \in Entries :
              \E i \in 1 .. Len(path.files) : \E k \in 1 .. Share(i) :
                e = <<i, k>>
         /\ \A i \in 1 .. Len(path.files) : \A k \in 1 .. Share(i) :
              <<i, k>> \in Entries
<1>1. DOMAIN path.files = 1 .. Len(path.files)
  BY DEF ConfigPaths
<1>2. \A i, k : <<i, k>>[1] = i /\ <<i, k>>[2] = k
  OBVIOUS
<1>3. ASSUME NEW e \in Entries
      PROVE  \E i \in 1 .. Len(path.files) : \E k \in 1 .. Share(i) : e = <<i, k>>
  <2>1. PICK i \in DOMAIN path.files : e \in {i} \X (1 .. Size(path.files[i]))
    BY DEF Entries
  <2>2. PICK k \in 1 .. Size(path.files[i]) : e = <<i, k>>
    BY <2>1
  <2>3. IsRead(path, path.files[i])
    BY <1>2, <2>2 DEF Entries, IsRead
  <2> QED BY <1>1, <2>1, <2>2, <2>3 DEF Share
<1>4. ASSUME NEW i \in 1 .. Len(path.files), NEW k \in 1 .. Share(i)
      PROVE  <<i, k>> \in Entries
  <2>1. IsRead(path, path.files[i]) /\ k \in 1 .. Size(path.files[i])
    BY DEF Share
  <2>2. <<i, k>> \in {i} \X (1 .. Size(path.files[i]))
    BY <2>1
  <2>3. PICK e : e = <<i, k>> /\ e[1] = i
    BY <1>2
  <2>4. e \in UNION {{j} \X (1 .. Size(path.files[j])) : j \in DOMAIN path.files}
    BY <1>1, <2>2, <2>3
  <2> QED BY <2>1, <2>3, <2>4 DEF Entries, IsRead
<1> QED BY <1>3, <1>4

\* The pairs of i and the numbers up to k are k.
LEMMA Row ==
  ASSUME NEW i, NEW k \in Nat
  PROVE  /\ IsFiniteSet({i} \X (1 .. k))
         /\ Cardinality({i} \X (1 .. k)) = k
<1>1. IsFiniteSet(1 .. k) /\ Cardinality(1 .. k) = k
  BY FS_Interval
<1>2. IsFiniteSet({i}) /\ Cardinality({i}) = 1
  BY FS_Singleton
<1>3. /\ IsFiniteSet({i} \X (1 .. k))
      /\ Cardinality({i} \X (1 .. k)) = Cardinality({i}) * Cardinality(1 .. k)
  BY <1>1, <1>2, FS_Product
<1> QED BY <1>1, <1>2, <1>3

\* A set of entries of earlier files, and k of file i.
LEMMA AddRow ==
  ASSUME NEW S, IsFiniteSet(S), NEW i, NEW k \in Nat,
         \A e \in S : e[1] # i
  PROVE  /\ IsFiniteSet(S \cup ({i} \X (1 .. k)))
         /\ Cardinality(S \cup ({i} \X (1 .. k))) = Cardinality(S) + k
<1> DEFINE T == {i} \X (1 .. k)
<1>1. IsFiniteSet(T) /\ Cardinality(T) = k
  BY Row
<1>2. \A e \in T : e[1] = i
  OBVIOUS
<1> HIDE DEF T
<1>3. S \cap T = {}
  BY <1>2
<1>4. /\ IsFiniteSet(S \cup T)
      /\ Cardinality(S \cup T) = Cardinality(S) + Cardinality(T) - Cardinality(S \cap T)
  BY <1>1, FS_Union
<1>5. Cardinality(S \cap T) = 0 /\ Cardinality(S) \in Nat
  BY <1>3, FS_EmptySet, FS_CardinalityType
<1>6. /\ IsFiniteSet(S \cup T) /\ Cardinality(S \cup T) = Cardinality(S) + k
  BY <1>1, <1>4, <1>5
<1> QED BY <1>6 DEF T

\* The entries up to file i, and the place of each of file i's own.
LEMMA UptoStep ==
  ASSUME path \in ConfigPaths, NEW i \in 1 .. Len(path.files),
         IsFiniteSet(Upto(i - 1))
  PROVE  /\ IsFiniteSet(Upto(i))
         /\ Cardinality(Upto(i)) = Cardinality(Upto(i - 1)) + Share(i)
         /\ \A e \in Upto(i) :
              e \notin Upto(i - 1) =>
                \E k \in 1 .. Share(i) :
                  e = <<i, k>> /\ Position(e) = Cardinality(Upto(i - 1)) + k
<1>0. /\ \A e \in Entries :
           \E j \in 1 .. Len(path.files) : \E k \in 1 .. Share(j) : e = <<j, k>>
      /\ \A j \in 1 .. Len(path.files) : \A k \in 1 .. Share(j) :
           <<j, k>> \in Entries
  BY EntriesAre
<1>1. Share(i) \in Nat
  BY FileLoads
<1>2. \A j, k : <<j, k>>[1] = j /\ <<j, k>>[2] = k
  OBVIOUS
<1>3. i \in Int /\ \A e \in Upto(i - 1) : e[1] \in Int /\ e[1] < i
  <2>1. \A e \in Entries : e[1] \in Int
    BY <1>0, <1>2
  <2> QED BY <2>1 DEF Upto
<1>4. ASSUME NEW k \in 0 .. Share(i)
      PROVE  /\ IsFiniteSet(Upto(i - 1) \cup ({i} \X (1 .. k)))
             /\ Cardinality(Upto(i - 1) \cup ({i} \X (1 .. k)))
                  = Cardinality(Upto(i - 1)) + k
  <2>1. \A e \in Upto(i - 1) : e[1] # i
    BY <1>3
  <2>2. k \in Nat
    BY <1>1
  <2> HIDE DEF Upto
  <2> QED BY <2>1, <2>2, AddRow
<1>5. ASSUME NEW k \in 0 .. Share(i)
      PROVE  {d \in Entries : d[1] < i \/ (d[1] = i /\ d[2] <= k)}
               = Upto(i - 1) \cup ({i} \X (1 .. k))
  <2> DEFINE D == {d \in Entries : d[1] < i \/ (d[1] = i /\ d[2] <= k)}
  <2>1. ASSUME NEW d \in D PROVE d \in Upto(i - 1) \cup ({i} \X (1 .. k))
    <3>1. PICK j \in 1 .. Len(path.files) : \E m \in 1 .. Share(j) : d = <<j, m>>
      BY <1>0
    <3>2. PICK m \in 1 .. Share(j) : d = <<j, m>>
      BY <3>1
    <3>3. j = d[1] /\ m = d[2] /\ m \in Int /\ 1 <= m
      BY <1>2, <3>2
    <3>4. CASE d[1] < i
      BY <3>3, <3>4 DEF Upto
    <3>5. CASE d[1] = i /\ d[2] <= k
      <4>1. m \in 1 .. k
        BY <3>3, <3>5, <1>1
      <4> QED BY <3>2, <3>3, <3>5, <4>1
    <3> QED BY <3>4, <3>5
  <2>2. Upto(i - 1) \subseteq D
    BY <1>3 DEF Upto
  <2>3. ASSUME NEW m \in 1 .. k PROVE <<i, m>> \in D
    <3>1. m \in 1 .. Share(i) /\ m <= k
      BY <1>1
    <3>2. PICK d : d = <<i, m>>
      OBVIOUS
    <3>3. d \in Entries /\ d[1] = i /\ d[2] = m
      BY <1>0, <1>2, <3>1, <3>2
    <3> QED BY <3>1, <3>2, <3>3
  <2>4. {i} \X (1 .. k) \subseteq D
    <3>1. ASSUME NEW d \in {i} \X (1 .. k) PROVE d \in D
      <4>1. PICK m \in 1 .. k : d = <<i, m>>
        OBVIOUS
      <4> HIDE DEF D
      <4> QED BY <4>1, <2>3
    <3> QED BY <3>1
  <2> HIDE DEF D
  <2>5. D = Upto(i - 1) \cup ({i} \X (1 .. k))
    BY <2>1, <2>2, <2>4
  <2> QED BY <2>5 DEF D
<1>6. Upto(i) = Upto(i - 1) \cup ({i} \X (1 .. Share(i)))
  <2>1. Share(i) \in 0 .. Share(i)
    BY <1>1
  <2>2. Upto(i) = {d \in Entries : d[1] < i \/ (d[1] = i /\ d[2] <= Share(i))}
    <3>1. ASSUME NEW d \in Entries
          PROVE  d[1] \in Int /\ (d[1] = i => d[2] <= Share(i))
      <4>1. PICK j \in 1 .. Len(path.files) : \E m \in 1 .. Share(j) : d = <<j, m>>
        BY <1>0
      <4>2. PICK m \in 1 .. Share(j) : d = <<j, m>>
        BY <4>1
      <4>3. j = d[1] /\ m = d[2]
        BY <1>2, <4>2
      <4>4. Share(j) \in Nat
        BY FileLoads
      <4> QED BY <4>3, <4>4
    <3> QED BY <1>3, <3>1 DEF Upto
  <2> QED BY <1>5, <2>1, <2>2
<1>7. /\ IsFiniteSet(Upto(i))
      /\ Cardinality(Upto(i)) = Cardinality(Upto(i - 1)) + Share(i)
  <2>1. Share(i) \in 0 .. Share(i)
    BY <1>1
  <2> HIDE DEF Upto
  <2> QED BY <1>4, <1>6, <2>1
<1>8. ASSUME NEW e \in Upto(i), e \notin Upto(i - 1)
      PROVE  \E k \in 1 .. Share(i) :
               e = <<i, k>> /\ Position(e) = Cardinality(Upto(i - 1)) + k
  <2>1. e \in {i} \X (1 .. Share(i))
    <3> HIDE DEF Upto
    <3> QED BY <1>6, <1>8
  <2>2. PICK k \in 1 .. Share(i) : e = <<i, k>>
    BY <2>1
  <2>3. k \in 0 .. Share(i) /\ e[1] = i /\ e[2] = k
    BY <1>1, <1>2, <2>2
  <2>4. Position(e) = Cardinality(Upto(i - 1) \cup ({i} \X (1 .. k)))
    BY <1>5, <2>3 DEF Position
  <2> QED BY <1>4, <2>2, <2>3, <2>4
<1> QED BY <1>7, <1>8

\* b is c, of w elements, behind a.
IsBehind(b, a, c, w) ==
  /\ Len(b) = Len(a) + w
  /\ \A k \in 1 .. Len(a) + w :
       b[k] = IF k <= Len(a) THEN a[k] ELSE c[k - Len(a)]

\* Which is what the loader makes by appending.
LEMMA Appended ==
  \A a, c \in Seq(PipelineCfgs) : IsBehind(a \o c, a, c, Len(c))
<1> SUFFICES ASSUME NEW T, NEW a \in Seq(T), NEW c \in Seq(T)
             PROVE  IsBehind(a \o c, a, c, Len(c))
  OBVIOUS
<1> QED BY ConcatProperties DEF IsBehind

\* After file i the sequence is what the files up to it describe.
LEMMA LoadsUpto ==
  ASSUME path \in ConfigPaths,
         NEW loaded \in [0 .. Len(path.files) -> Seq(PipelineCfgs)],
         loaded[0] = <<>>,
         \A i \in 1 .. Len(path.files) :
           loaded[i] = loaded[i - 1] \o Loads(path, path.files[i])
  PROVE  LET n == Len(path.files)
         IN  /\ IsFiniteSet(Upto(n)) /\ Len(loaded[n]) = Cardinality(Upto(n))
             /\ \A e \in Upto(n) : loaded[n][Position(e)] = Described(e)
<1> DEFINE n == Len(path.files)
           Done(i) == /\ IsFiniteSet(Upto(i))
                      /\ Len(loaded[i]) = Cardinality(Upto(i))
                      /\ \A e \in Upto(i) :
                           /\ Position(e) \in 1 .. Len(loaded[i])
                           /\ loaded[i][Position(e)] = Described(e)
           P == {i \in Nat : i <= n => Done(i)}
<1>0. n \in Nat
  BY DEF ConfigPaths
<1>1. 0 \in P
  <2>1. Upto(0) = {}
    <3>1. \A e \in Entries : e[1] \in 1 .. n
      BY EntriesAre
    <3> QED BY <3>1 DEF Upto
  <2> QED BY <2>1, FS_EmptySet
<1>2. ASSUME NEW j \in Nat, j \in P PROVE j + 1 \in P
  <2> SUFFICES ASSUME j + 1 <= n PROVE Done(j + 1)
    OBVIOUS
  <2>1. PICK i : i = j + 1
    OBVIOUS
  <2>2. i \in 1 .. n /\ j = i - 1 /\ j \in 0 .. n
    BY <1>0, <2>1
  <2>3. /\ IsFiniteSet(Upto(j)) /\ Len(loaded[j]) = Cardinality(Upto(j))
        /\ \A e \in Upto(j) : /\ Position(e) \in 1 .. Len(loaded[j])
                              /\ loaded[j][Position(e)] = Described(e)
    BY <1>0, <1>2, <2>2
  <2> DEFINE l == Loads(path, path.files[i])
             w == Share(i)
  <2>4. /\ l \in Seq(PipelineCfgs) /\ Len(l) = w /\ w \in Nat
        /\ \A k \in 1 .. w : l[k] = Described(<<i, k>>)
    BY <2>2, FileLoads
  <2>5. /\ IsFiniteSet(Upto(i)) /\ Cardinality(Upto(i)) = Cardinality(Upto(j)) + w
        /\ \A e \in Upto(i) : e \notin Upto(j) =>
             \E k \in 1 .. w :
               e = <<i, k>> /\ Position(e) = Cardinality(Upto(j)) + k
    BY <2>2, <2>3, UptoStep
  <2> HIDE DEF l, w
  <2>6. loaded[j] \in Seq(PipelineCfgs) /\ loaded[i] = loaded[j] \o l
    BY <2>2 DEF l
  <2>7. /\ Len(loaded[j]) \in Nat
        /\ Len(loaded[i]) = Len(loaded[j]) + w
        /\ \A k \in 1 .. Len(loaded[j]) + w :
             loaded[i][k] = IF k <= Len(loaded[j]) THEN loaded[j][k]
                            ELSE l[k - Len(loaded[j])]
    <3>1. PICK a, b, c : a = loaded[j] /\ b = loaded[i] /\ c = l
      OBVIOUS
    <3>2. /\ a \in Seq(PipelineCfgs) /\ c \in Seq(PipelineCfgs) /\ b = a \o c
          /\ Len(c) = w /\ w \in Nat /\ Len(a) \in Nat
      BY <2>4, <2>6, <3>1, LenProperties
    <3>3. IsBehind(b, a, c, w)
      BY <3>2, Appended
    <3>4. /\ Len(b) = Len(a) + w
          /\ \A k \in 1 .. Len(a) + w :
               b[k] = IF k <= Len(a) THEN a[k] ELSE c[k - Len(a)]
      BY <3>3 DEF IsBehind
    <3> QED BY <3>1, <3>2, <3>4
  <2>8. ASSUME NEW e \in Upto(i)
        PROVE  /\ Position(e) \in 1 .. Len(loaded[i])
               /\ loaded[i][Position(e)] = Described(e)
    <3>1. CASE e \in Upto(j)
      <4>1. /\ Position(e) \in 1 .. Len(loaded[j])
            /\ loaded[j][Position(e)] = Described(e)
        BY <2>3, <3>1
      <4>2. PICK p : p = Position(e)
        OBVIOUS
      <4>3. p \in 1 .. Len(loaded[j]) /\ p \in 1 .. Len(loaded[j]) + w
        BY <2>4, <2>7, <4>1, <4>2
      <4>4. loaded[i][p] = loaded[j][p]
        BY <2>7, <4>3
      <4> QED BY <2>4, <2>7, <4>1, <4>2, <4>3, <4>4
    <3>2. CASE e \notin Upto(j)
      <4>1. PICK k \in 1 .. w :
              e = <<i, k>> /\ Position(e) = Len(loaded[j]) + k
        BY <2>3, <2>5, <3>2
      <4>2. l[k] = Described(e)
        BY <2>4, <4>1
      <4>3. PICK p : p = Position(e)
        OBVIOUS
      <4>4. /\ p \in 1 .. Len(loaded[j]) + w /\ ~(p <= Len(loaded[j]))
            /\ p - Len(loaded[j]) = k
        BY <2>4, <2>7, <4>1, <4>3
      <4>5. loaded[i][p] = l[k]
        BY <2>7, <4>4
      <4> QED BY <2>4, <2>7, <4>2, <4>3, <4>4, <4>5
    <3> QED BY <3>1, <3>2
  <2>9. Done(i)
    BY <2>3, <2>5, <2>7, <2>8
  <2> QED BY <2>1, <2>9
<1>3. n \in P
  <2> HIDE DEF P
  <2> QED BY <1>0, <1>1, <1>2, SetInduction
<1> QED BY <1>0, <1>3

\* The configurations the pipeline is made of are those that the files
\* describe, each once and in their order, whatever the files hold.
THEOREM NothingLeftOut == Spec => []LoadsAll
<1>1. TypeInv => LoadsAll
  <2> SUFFICES ASSUME TypeInv, main = "validate"
               PROVE  /\ Len(cfgs) = Cardinality(Entries)
                      /\ \A e \in Entries : cfgs[Position(e)] = Described(e)
    BY DEF LoadsAll
  <2>1. cfgs # <<>> /\ cfgs = NewPipelineConfig(path) /\ path \in ConfigPaths
    BY EventDataAssumption DEF TypeInv, TypeOK, SetUp
  <2>2. PathExists(path)
    BY <2>1 DEF NewPipelineConfig
  <2> DEFINE n == Len(path.files)
  <2>3. PICK loaded \in [0 .. n -> Seq(PipelineCfgs)] :
          /\ loaded[0] = <<>>
          /\ \A i \in 1 .. n : loaded[i] = loaded[i - 1] \o Loads(path, path.files[i])
          /\ cfgs = loaded[n]
    BY <2>1, <2>2, LoadRuns
  <2>4. /\ Len(loaded[n]) = Cardinality(Upto(n))
        /\ \A e \in Upto(n) : loaded[n][Position(e)] = Described(e)
    BY <2>1, <2>3, LoadsUpto
  <2>5. Upto(n) = Entries
    <3>1. \A e \in Entries : e[1] <= n
      BY <2>1, EntriesAre
    <3> QED BY <3>1 DEF Upto
  <2> QED BY <2>3, <2>4, <2>5
<1> QED BY <1>1, TypeInvariant, PTL

=============================================================================
