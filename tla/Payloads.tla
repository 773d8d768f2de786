------------------------------ MODULE Payloads ------------------------------
(***************************************************************************)
(* The payload objects behind the numbers of Pipeline: pkg/payloads keeps  *)
(* processed objects in a sync.Pool, Clone takes one from it, and the      *)
(* goroutines of Process hand pointers to each other and to the workers of *)
(* a storage.  Every step of Pipeline is a step here, with what it does to *)
(* the objects.                                                            *)
(*                                                                         *)
(* A pointer that is not read again is None.  A clone that waits to be     *)
(* sent is made when the receiver takes it: nobody else sees it before.    *)
(***************************************************************************)
EXTENDS Pipeline

CONSTANTS Objects,      \* payload objects
          None,         \* no object
          Kinds,        \* KafkaPayload, RabbitMQPayload
          Normalizers,  \* the stages whose processor is the normalizer
          Capacity      \* payloads a storage takes before it writes one

PayloadKinds == {"kafka", "rabbitmq"}

ASSUME HeapAssumption == /\ None \notin Objects
                         /\ Kinds \subseteq PayloadKinds
                         /\ Normalizers \subseteq Stages
                         /\ Capacity \in Nat \ {0}

VARIABLES
  kind,      \* the type of payload the consumer's source makes
  heap,      \* the fields of each object
  pool,      \* the objects in the sync.Pool
  srcObj,    \* payload of the source worker
  inObj,     \* payloadIn of each stage
  outObj,    \* payloadOut of each stage
  sinkObj,   \* payload of each sink worker
  handed,    \* the objects the workers of each storage have taken
  written    \* what each storage has got from Out: <<index, document>>

refVars == <<srcObj, inObj, outObj, sinkObj, handed>>
heapVars == <<kind, heap, pool, refVars, written>>

\* The fields by the record they are made from, 0 for the zero value: rec is
\* the topic, the offset, the queue, the value and all else that the source
\* sets but the timestamp; day is the index, which the normalizer makes from
\* the timestamp; doc is the document's id and its data.
Contents == [rec : 0 .. MaxRead, time : 0 .. MaxRead,
             day : 0 .. MaxRead, doc : 0 .. MaxRead]
Zero == [rec |-> 0, time |-> 0, day |-> 0, doc |-> 0]

HeapInit ==
  /\ kind \in Kinds
  /\ heap = [o \in Objects |-> Zero]
  /\ pool = {}
  /\ srcObj = None
  /\ inObj = [i \in Stages |-> None]
  /\ outObj = [i \in Stages |-> None]
  /\ sinkObj = [s \in Sinks |-> None]
  /\ handed = [s \in Sinks |-> {}]
  /\ written = [s \in Sinks |-> {}]

PayloadInit == Init /\ HeapInit

-----------------------------------------------------------------------------
(* Objects.                                                                *)

Referenced ==
  ({srcObj} \cup {inObj[i] : i \in Stages} \cup {outObj[i] : i \in Stages}
            \cup {sinkObj[s] : s \in Sinks} \cup UNION {handed[s] : s \in Sinks})
  \ {None}

\* An object that nobody refers to, as new and the garbage collector give it.
Unused == Objects \ (Referenced \cup pool)
New(o) == Unused # {} /\ o = CHOOSE u \in Unused : TRUE

\* What sync.Pool's Get returns.
Get(o) == o \in pool \/ New(o)

\* Mutant: the timestamp of a RabbitMQ payload is not copied either.
CopyWithoutTime(from, to) == [heap[from] EXCEPT !.time = heap[to].time]

\* Clone copies the fields of one object to another, but for the timestamp
\* of a Kafka payload, which it leaves as the object has it.
Copy(from, to) ==
  [heap[from] EXCEPT !.time = IF kind = "kafka" THEN heap[to].time ELSE @]

\* Mutant: the timestamp is not cleared.
ClearedButTime(o) == [Zero EXCEPT !.time = heap[o].time]

\* The fields after MarkAsProcessed.
Cleared(o) == Zero

\* Mutant: the id is made from the next offset.
NormalizedNext(fields) ==
  [fields EXCEPT !.day = fields.time, !.doc = fields.rec + 1]

\* NormalizeKafkaPayload and NormalizeRabbitMQPayload.
Normalized(fields) == [fields EXCEPT !.day = fields.time, !.doc = fields.rec]

\* What the processor of stage i makes of its clone; the other processors
\* change the value only, which the clone shares with the original.
Processed(i, fields) == IF i \in Normalizers THEN Normalized(fields) ELSE fields

-----------------------------------------------------------------------------
(* The steps of Pipeline.                                                  *)

\* Next unmarshals the record into an object that is not from the pool.
SourceNextPayload ==
  /\ SourceNext
  /\ IF src' = "send"
     THEN \E o \in Objects :
            /\ New(o)
            /\ srcObj' = o
            /\ heap' = [heap EXCEPT ![o] =
                          [Zero EXCEPT !.rec = read', !.time = read']]
     ELSE UNCHANGED <<srcObj, heap>>
  /\ UNCHANGED <<kind, pool, inObj, outObj, sinkObj, handed, written>>

SourceSendPayload ==
  /\ \/ /\ SourceToStage
        /\ inObj' = [inObj EXCEPT ![0] = srcObj] /\ UNCHANGED sinkObj
     \/ /\ SourceToSink
        /\ sinkObj' = [sinkObj EXCEPT ![NSinks - 1] = srcObj]
        /\ UNCHANGED inObj
  /\ srcObj' = None
  /\ UNCHANGED <<kind, heap, pool, outObj, handed, written>>

\* A discarded payload goes to the pool; its clone, like payloadIn when the
\* processor returns a payload or an error, is left to the collector.
StageProcessPayload(i) ==
  /\ StageProcess(i)
  /\ inObj' = [inObj EXCEPT ![i] = None]
  /\ \E c \in Objects :
       /\ Get(c)
       /\ CASE stage'[i] = "emit" ->
                 /\ outObj' = [outObj EXCEPT ![i] = c]
                 /\ heap' = [heap EXCEPT ![c] = Processed(i, Copy(inObj[i], c)),
                                         ![inObj[i]] = Zero]
                 /\ pool' = pool \ {c}
            [] stage'[i] = "recv" ->
                 /\ heap' = [heap EXCEPT ![inObj[i]] = Cleared(inObj[i])]
                 /\ pool' = (pool \ {c}) \cup {inObj[i]}
                 /\ UNCHANGED outObj
            [] OTHER ->
                 /\ heap' = [heap EXCEPT ![inObj[i]] = Zero]
                 /\ pool' = pool \ {c}
                 /\ UNCHANGED outObj
  /\ UNCHANGED <<kind, srcObj, sinkObj, handed, written>>

\* A clone of payloadOut goes to the next stage, and payloadOut to the
\* collector.
StageForwardPayload(i) ==
  /\ StageForward(i)
  /\ \E c \in Objects :
       /\ Get(c)
       /\ inObj' = [inObj EXCEPT ![i + 1] = c]
       /\ heap' = [heap EXCEPT ![c] = Copy(outObj[i], c), ![outObj[i]] = Zero]
       /\ pool' = pool \ {c}
  /\ outObj' = [outObj EXCEPT ![i] = None]
  /\ UNCHANGED <<kind, srcObj, sinkObj, handed, written>>

\* Mutant: the outputs share payloadOut.
StageBroadcastShared(s) ==
  /\ StageBroadcast(s)
  /\ sinkObj' = [sinkObj EXCEPT ![s] = outObj[Last]]
  /\ outObj' = IF stage'[Last] = "recv" THEN [outObj EXCEPT ![Last] = None]
                                        ELSE outObj
  /\ UNCHANGED <<kind, heap, pool, srcObj, inObj, handed, written>>

\* Each sink worker is sent a clone of its own; payloadOut is left to the
\* collector after the last one.
StageBroadcastPayload(s) ==
  /\ StageBroadcast(s)
  /\ \E c \in Objects :
       /\ Get(c)
       /\ sinkObj' = [sinkObj EXCEPT ![s] = c]
       /\ pool' = pool \ {c}
       /\ IF stage'[Last] = "recv"
          THEN /\ outObj' = [outObj EXCEPT ![Last] = None]
               /\ heap' = [heap EXCEPT ![c] = Copy(outObj[Last], c),
                                       ![outObj[Last]] = Zero]
          ELSE /\ heap' = [heap EXCEPT ![c] = Copy(outObj[Last], c)]
               /\ UNCHANGED outObj
  /\ UNCHANGED <<kind, srcObj, inObj, handed, written>>

\* A stage that stops drops what it was about to send.
StageStopPayload(i) ==
  /\ StageStop(i)
  /\ outObj' = [outObj EXCEPT ![i] = None]
  /\ heap' = IF outObj[i] = None THEN heap ELSE [heap EXCEPT ![outObj[i]] = Zero]
  /\ UNCHANGED <<kind, pool, srcObj, inObj, sinkObj, handed, written>>

\* Mutant: the storage is handed the payload itself.
SinkDrainPayloadItself(s) ==
  /\ SinkDrain(s)
  /\ sinkObj' = [sinkObj EXCEPT ![s] = None]
  /\ IF sink'[s] = "recv"
     THEN /\ Cardinality(handed[s]) < Capacity
          /\ handed' = [handed EXCEPT ![s] = @ \cup {sinkObj[s]}]
          /\ heap' = [heap EXCEPT ![sinkObj[s]] = Cleared(sinkObj[s])]
          /\ pool' = pool \cup {sinkObj[s]}
     ELSE UNCHANGED <<handed, heap, pool>>
  /\ UNCHANGED <<kind, srcObj, inObj, outObj, written>>

\* The storage takes a clone, and payload goes to the pool.
SinkDrainPayload(s) ==
  /\ SinkDrain(s)
  /\ sinkObj' = [sinkObj EXCEPT ![s] = None]
  /\ \E c \in Objects :
       /\ Get(c)
       /\ IF sink'[s] = "recv"
          THEN /\ Cardinality(handed[s]) < Capacity
               /\ handed' = [handed EXCEPT ![s] = @ \cup {c}]
               /\ heap' = [heap EXCEPT ![c] = Copy(sinkObj[s], c),
                                       ![sinkObj[s]] = Cleared(sinkObj[s])]
               /\ pool' = (pool \ {c}) \cup {sinkObj[s]}
          ELSE /\ heap' = [heap EXCEPT ![sinkObj[s]] = Zero]
               /\ pool' = pool \ {c}
               /\ UNCHANGED handed
  /\ UNCHANGED <<kind, srcObj, inObj, outObj, written>>

\* The steps that touch no object.
OtherStep ==
  /\ \/ SourceCheck
     \/ \E i \in Stages : StageFail(i) \/ StageExit(i)
     \/ \E s \in Sinks : SinkFail(s) \/ SinkStop(s) \/ SinkExit(s)
     \/ Collector \/ CloseErrCh
     \/ ConsumerError \/ ConsumerErrorPanics \/ ContextExpires
  /\ UNCHANGED heapVars

\* A worker of storage s, whenever it gets to it, reads a payload with Out.
StorageWrite(s) ==
  /\ \E o \in handed[s] :
       /\ written' = [written EXCEPT ![s] = @ \cup {<<heap[o].day, heap[o].doc>>}]
       /\ handed' = [handed EXCEPT ![s] = @ \ {o}]
       /\ heap' = [heap EXCEPT ![o] = Zero]
  /\ UNCHANGED <<vars, kind, pool, srcObj, inObj, outObj, sinkObj>>

PayloadNext ==
  /\ ~crashed
  /\ \/ SourceNextPayload
     \/ SourceSendPayload
     \/ \E i \in Stages : \/ StageProcessPayload(i) \/ StageForwardPayload(i)
                          \/ StageStopPayload(i)
     \/ \E s \in Sinks : \/ StageBroadcastPayload(s) \/ SinkDrainPayload(s)
                         \/ StorageWrite(s)
     \/ OtherStep

PayloadSpec == PayloadInit /\ [][PayloadNext]_<<vars, heapVars>>

-----------------------------------------------------------------------------
(* Properties.                                                             *)

Refs == Objects \cup {None}

\* Every variable of this module has its type.
HeapTypeOK ==
  /\ kind \in Kinds
  /\ heap \in [Objects -> Contents]
  /\ pool \subseteq Objects
  /\ srcObj \in Refs
  /\ inObj \in [Stages -> Refs] /\ outObj \in [Stages -> Refs]
  /\ sinkObj \in [Sinks -> Refs]
  /\ handed \in [Sinks -> SUBSET Objects]
  /\ written \in [Sinks -> SUBSET ((0 .. MaxRead) \X (0 .. MaxRead))]

\* Who holds a pointer to object o.
Holders(o) ==
  {<<"source", 0>> : x \in {srcObj} \cap {o}}
    \cup {<<"in", i>> : i \in {j \in Stages : inObj[j] = o}}
    \cup {<<"out", i>> : i \in {j \in Stages : outObj[j] = o}}
    \cup {<<"sink", s>> : s \in {t \in Sinks : sinkObj[t] = o}}
    \cup {<<"storage", s>> : s \in {t \in Sinks : o \in handed[t]}}

\* Each object belongs to one goroutine, and the pool recycles none that a
\* goroutine still reads: what MarkAsProcessed clears and Clone hands out
\* again is out of everybody's hands.
Exclusive ==
  \A o \in Objects : /\ Cardinality(Holders(o)) <= 1
                     /\ o \in pool => Holders(o) = {}

\* What a storage has accepted is what its workers hold or have read: the
\* object that arrives for a payload is one with the fields of its record,
\* whatever the pool has recycled in the meantime.
StorageGets ==
  \A s \in Sinks : Normalizers # {} =>
    drained[s] = {w[2] : w \in written[s]} \cup {heap[o].doc : o \in handed[s]}

\* No document goes to the day of another record: a recycled object carries
\* nothing of its former payload.
OneRecord == \A s \in Sinks : \A w \in written[s] : w[1] \in {0, w[2]}

\* The index of a RabbitMQ document is made from its own record's time.
RabbitDay ==
  kind = "rabbitmq" => \A s \in Sinks : \A w \in written[s] : w[1] = w[2]

-----------------------------------------------------------------------------
(* The inductive invariant behind the safety properties.                   *)

\* A goroutine has an object where it is about to read one, and only there.
Held ==
  /\ srcObj # None <=> src = "send"
  /\ \A i \in Stages : /\ inObj[i] # None <=> stage[i] = "proc"
                       /\ outObj[i] # None <=> stage[i] = "emit"
  /\ \A s \in Sinks : sinkObj[s] # None <=> sink[s] = "drain"

\* Nobody has a pointer to object o.
Free(o) ==
  /\ o # srcObj
  /\ \A i \in Stages : o # inObj[i] /\ o # outObj[i]
  /\ \A s \in Sinks : o # sinkObj[s] /\ o \notin handed[s]

\* Who has a pointer to object o is the only one.
Single(o) ==
  /\ o = srcObj =>
       /\ \A i \in Stages : o # inObj[i] /\ o # outObj[i]
       /\ \A s \in Sinks : o # sinkObj[s] /\ o \notin handed[s]
  /\ \A i \in Stages : o = inObj[i] =>
       /\ \A j \in Stages : o # outObj[j] /\ (j # i => o # inObj[j])
       /\ \A s \in Sinks : o # sinkObj[s] /\ o \notin handed[s]
  /\ \A i \in Stages : o = outObj[i] =>
       /\ \A j \in Stages : j # i => o # outObj[j]
       /\ \A s \in Sinks : o # sinkObj[s] /\ o \notin handed[s]
  /\ \A s \in Sinks : o = sinkObj[s] =>
       \A t \in Sinks : o \notin handed[t] /\ (t # s => o # sinkObj[t])
  /\ \A s, t \in Sinks : o \in handed[s] /\ o \in handed[t] => s = t
OneHolder == \A o \in Objects : Single(o)

\* What Clone may be given has nobody's pointer and nobody's data.
FreeIsClear == /\ \A o \in pool : Free(o)
               /\ \A o \in Objects : Free(o) => heap[o] = Zero

\* The fields f of payload p, a payload of type k that a normalizer has been
\* at, or not.
FieldsOf(k, f, p, normalized) ==
  /\ f.rec = p /\ f.time \in {0, p}
  /\ f.doc = IF normalized THEN p ELSE 0
  /\ f.day \in {0, f.doc}
  /\ k = "rabbitmq" => f.time = p /\ f.day = f.doc

\* Stage i, or one before it, is a normalizer.
NormalizedAt(i) == \E n \in Normalizers : n <= i

\* The object a goroutine holds is the payload Pipeline says it has.
RightFields ==
  /\ srcObj # None => FieldsOf(kind, heap[srcObj], read, FALSE)
  /\ \A i \in Stages :
       /\ inObj[i] # None =>
            FieldsOf(kind, heap[inObj[i]], cur[i], NormalizedAt(i - 1))
       /\ outObj[i] # None =>
            FieldsOf(kind, heap[outObj[i]], cur[i], NormalizedAt(i))
  /\ \A s \in Sinks :
       /\ sinkObj[s] # None =>
            FieldsOf(kind, heap[sinkObj[s]], got[s], Normalizers # {})
       /\ \A o \in handed[s] :
            FieldsOf(kind, heap[o], heap[o].rec, Normalizers # {})

HeapInv == /\ HeapTypeOK /\ Held /\ OneHolder /\ FreeIsClear /\ RightFields
           /\ StorageGets /\ OneRecord /\ RabbitDay

-----------------------------------------------------------------------------
\* "Clone returns a new Payload that is a deep-copy of the original": then
\* every payload in the pipeline has the timestamp of its record.
DeepCopy == \A o \in Referenced : heap[o].time = heap[o].rec
=============================================================================
