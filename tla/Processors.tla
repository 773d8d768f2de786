----------------------------- MODULE Processors -----------------------------
(***************************************************************************)
(* The registered processors (pkg/processors) as functions of a payload,   *)
(* and what becomes of a payload that runs through a chain of them.        *)
(*                                                                         *)
(* A payload has the message it was made from (NoMessage when its record   *)
(* was nil, so that its Value is nil too), whether its value has the key   *)
(* "meta", and the data that Out returns with the index and the id.        *)
(***************************************************************************)
EXTENDS Naturals, Sequences, SequencesExt

NoMessage == 0

PayloadTypes == {"kafka", "rabbitmq"}

\* Data that is not made yet, made of the value alone, or with the meta data.
DataKinds == {"unset", "value", "stamped"}

NewPayload(type, m) ==
  [type |-> type, msg |-> m, meta |-> FALSE, data |-> "unset"]

Ok(p) == [result |-> "ok", payload |-> p]
Error(p) == [result |-> "error", payload |-> p]
Panic(p) == [result |-> "panic", payload |-> p]

\* The type assertion fails, or an entry of a nil map is assigned.
MetaInjector(type, p) ==
  IF p.type # type \/ p.msg = NoMessage THEN Panic(p)
  ELSE Ok([p EXCEPT !.meta = TRUE])

KafkaMetaInjector(p) == MetaInjector("kafka", p)
RabbitMQMetaInjector(p) == MetaInjector("rabbitmq", p)

\* Validate: the type assertion fails, or the value is nil, which is an error.
Validate(type, p) ==
  IF p.type # type THEN Panic(p)
  ELSE IF p.msg = NoMessage THEN Error(p) ELSE Ok(p)

\* Validate leaves the payload as it is.
DefaultProcessor(type, p) ==
  IF Validate(type, p).result = "ok" THEN MetaInjector(type, p)
  ELSE Validate(type, p)

KafkaDefaultProcessor(p) == DefaultProcessor("kafka", p)
RabbitMQDefaultProcessor(p) == DefaultProcessor("rabbitmq", p)

\* Index, id and data of the payload, the data as the value is now.
Normalize(type, p) ==
  IF p.type # type THEN Panic(p)
  ELSE Ok([p EXCEPT !.data = IF p.meta THEN "stamped" ELSE "value"])

NormalizeKafkaPayload(p) == Normalize("kafka", p)
NormalizeRabbitMQPayload(p) == Normalize("rabbitmq", p)

\* Validate has no effect: the error of the embedded Validator is dropped.
NoopProcessor(p) == Ok(p)

ProcessorNames ==
  {"noop", "kafka_default", "kafka_meta_injector", "kafka_normalizer",
   "rabbitmq_default", "rabbitmq_meta_injector", "rabbitmq_normalizer"}

Process(name, p) ==
  CASE name = "noop" -> NoopProcessor(p)
    [] name = "kafka_default" -> KafkaDefaultProcessor(p)
    [] name = "kafka_meta_injector" -> KafkaMetaInjector(p)
    [] name = "kafka_normalizer" -> NormalizeKafkaPayload(p)
    [] name = "rabbitmq_default" -> RabbitMQDefaultProcessor(p)
    [] name = "rabbitmq_meta_injector" -> RabbitMQMetaInjector(p)
    [] name = "rabbitmq_normalizer" -> NormalizeRabbitMQPayload(p)

\* What a stage makes of what it is sent: behind one that fails, nothing.
Then(o, name) == IF o.result = "ok" THEN Process(name, o.payload) ELSE o

\* Mutant: the last configured processor runs first.
ChainReversed(names, p) ==
  LET run[i \in 0 .. Len(names)] ==
        IF i = 0 THEN Ok(p) ELSE Then(run[i - 1], names[Len(names) + 1 - i])
  IN run[Len(names)]

\* The stages in the order of the configuration.
Chain(names, p) ==
  LET run[i \in 0 .. Len(names)] ==
        IF i = 0 THEN Ok(p) ELSE Then(run[i - 1], names[i])
  IN run[Len(names)]
=============================================================================
