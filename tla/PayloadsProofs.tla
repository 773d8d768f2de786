--------------------------- MODULE PayloadsProofs ---------------------------
(***************************************************************************)
(* Proofs about Payloads: its steps are those of Pipeline, and no payload  *)
(* object is shared, recycled too early or mixed up with another record's, *)
(* for any number of processors, storages, objects and records.            *)
(***************************************************************************)
EXTENDS Payloads, PipelineProofs

(***************************************************************************)
(* Every behaviour of the objects is a behaviour of Pipeline.              *)
(***************************************************************************)

LEMMA StepRefines ==
  [PayloadNext]_<<vars, heapVars>> => [Next]_vars
<1> SUFFICES ASSUME PayloadNext PROVE Next \/ UNCHANGED vars
  BY DEF vars
<1>1. ~crashed
  BY DEF PayloadNext
<1>2. CASE SourceNextPayload \/ SourceSendPayload
  BY <1>1, <1>2 DEF SourceNextPayload, SourceSendPayload, Next, Source,
                    SourceSend
<1>3. ASSUME NEW i \in Stages,
             \/ StageProcessPayload(i) \/ StageForwardPayload(i)
             \/ StageStopPayload(i)
      PROVE  Next
  <2>1. Stage(i)
    BY <1>3 DEF StageProcessPayload, StageForwardPayload, StageStopPayload,
                Stage
  <2> QED BY <1>1, <2>1 DEF Next
<1>4. ASSUME NEW s \in Sinks, StageBroadcastPayload(s) \/ SinkDrainPayload(s)
      PROVE  Next
  <2>1. Sink(s)
    BY <1>4 DEF StageBroadcastPayload, SinkDrainPayload, Sink
  <2> QED BY <1>1, <2>1 DEF Next
<1>5. ASSUME NEW s \in Sinks, StorageWrite(s) PROVE UNCHANGED vars
  BY <1>5 DEF StorageWrite
<1>6. CASE OtherStep
  BY <1>1, <1>6 DEF OtherStep, Next, Source, Stage, Sink
<1> QED BY <1>2, <1>3, <1>4, <1>5, <1>6 DEF PayloadNext

\* The pools, the clones and the storages' workers add nothing that Pipeline's
\* goroutines do not do: what is proved of Process holds with them too.
THEOREM ImplementsPipeline == PayloadSpec => Spec
<1>1. PayloadInit => Init
  BY DEF PayloadInit
<1> QED BY <1>1, StepRefines, PTL DEF PayloadSpec, Spec

(***************************************************************************)
(* What Clone and the normalizer make of the fields of an object.          *)
(***************************************************************************)

\* An object that Clone gets has nobody's pointer and nobody's data.
LEMMA GetFree ==
  ASSUME HeapTypeOK, FreeIsClear, NEW c, Get(c)
  PROVE  c \in Objects /\ Free(c) /\ heap[c] = Zero
<1>1. c \in pool \/ c \in Unused
  BY DEF Get, New
<1>2. c \in pool => c \in Objects /\ Free(c)
  BY DEF HeapTypeOK, FreeIsClear
<1>3. c \in Unused => c \in Objects /\ Free(c)
  BY HeapAssumption DEF Unused, Referenced, Free
<1> QED BY <1>1, <1>2, <1>3 DEF FreeIsClear

\* Clone leaves the timestamp of a cleared Kafka payload at its zero value.
LEMMA CopiedFields ==
  ASSUME NEW k \in PayloadKinds, NEW f \in Contents,
         NEW p \in 0 .. MaxRead, NEW n \in BOOLEAN, FieldsOf(k, f, p, n)
  PROVE  LET g == [f EXCEPT !.time = IF k = "kafka" THEN 0 ELSE @]
         IN  g \in Contents /\ g.rec = f.rec /\ g.doc = f.doc
             /\ FieldsOf(k, g, p, n)
  BY ParamAssumption DEF FieldsOf, Contents, PayloadKinds

\* The normalizer makes the index of the timestamp the payload has, and the
\* id of the record.
LEMMA NormalizedFields ==
  ASSUME NEW k \in PayloadKinds, NEW f \in Contents,
         NEW p \in 0 .. MaxRead, NEW n \in BOOLEAN, FieldsOf(k, f, p, n)
  PROVE  Normalized(f) \in Contents /\ FieldsOf(k, Normalized(f), p, TRUE)
  BY ParamAssumption DEF FieldsOf, Contents, PayloadKinds, Normalized

\* A clone has the fields of the original.
LEMMA CloneFields ==
  ASSUME HeapTypeOK, NEW a \in Objects, NEW c \in Objects, heap[c] = Zero,
         NEW p, NEW n \in BOOLEAN, FieldsOf(kind, heap[a], p, n)
  PROVE  /\ Copy(a, c) \in Contents
         /\ Copy(a, c).rec = heap[a].rec /\ Copy(a, c).doc = heap[a].doc
         /\ FieldsOf(kind, Copy(a, c), p, n)
<1>1. kind \in PayloadKinds /\ heap[a] \in Contents
  BY HeapAssumption DEF HeapTypeOK
<1>2. p \in 0 .. MaxRead
  BY <1>1 DEF FieldsOf, Contents
<1>3. Copy(a, c) = [heap[a] EXCEPT !.time = IF kind = "kafka" THEN 0 ELSE @]
  BY DEF Copy, Zero
<1> QED BY <1>1, <1>2, <1>3, CopiedFields

\* Stage i is a normalizer, or what it gets has met the same ones before.
LEMMA NormalizedStep ==
  ASSUME NEW i \in Stages
  PROVE  /\ i \in Normalizers => NormalizedAt(i) = TRUE
         /\ i \notin Normalizers => NormalizedAt(i) = NormalizedAt(i - 1)
<1>1. Normalizers \subseteq Int /\ i \in Int
  BY HeapAssumption, ParamAssumption DEF Stages
<1>2. ASSUME i \notin Normalizers PROVE NormalizedAt(i) <=> NormalizedAt(i - 1)
  <2>1. \A n \in Normalizers : n <= i <=> n <= i - 1
    BY <1>1, <1>2
  <2> QED BY <2>1 DEF NormalizedAt
<1>3. i \in Normalizers => NormalizedAt(i)
  BY <1>1 DEF NormalizedAt
<1>4. NormalizedAt(i) \in BOOLEAN /\ NormalizedAt(i - 1) \in BOOLEAN
  BY DEF NormalizedAt
<1> QED BY <1>2, <1>3, <1>4

\* What the processor of a stage makes of a payload.
LEMMA ProcessedFields ==
  ASSUME NEW i \in Stages, NEW k \in PayloadKinds, NEW f \in Contents,
         NEW p \in 0 .. MaxRead, FieldsOf(k, f, p, NormalizedAt(i - 1))
  PROVE  /\ Processed(i, f) \in Contents
         /\ FieldsOf(k, Processed(i, f), p, NormalizedAt(i))
<1>1. NormalizedAt(i - 1) \in BOOLEAN
  BY DEF NormalizedAt
<1>2. CASE i \in Normalizers
  BY <1>1, <1>2, NormalizedFields, NormalizedStep DEF Processed
<1>3. CASE i \notin Normalizers
  BY <1>1, <1>3, NormalizedStep DEF Processed
<1> QED BY <1>2, <1>3

(***************************************************************************)
(* One lemma for each step that touches objects, one for all the others.   *)
(***************************************************************************)

\* Nobody gets a pointer to object o.
Less(o) ==
  /\ srcObj' = o => srcObj = o
  /\ \A i \in Stages : /\ inObj'[i] = o => inObj[i] = o
                       /\ outObj'[i] = o => outObj[i] = o
  /\ \A s \in Sinks : /\ sinkObj'[s] = o => sinkObj[s] = o
                      /\ o \in handed'[s] => o \in handed[s]

\* An object to which nobody gets a pointer keeps its holder, or loses it.
LEMMA LessSingle ==
  ASSUME NEW o, Single(o), Less(o)
  PROVE  Single(o)'
BY DEF Single, Less

\* Steps that leave what the storages have been handed alone.
LEMMA StorageUntouched ==
  ASSUME StorageGets, OneRecord, RabbitDay,
         UNCHANGED <<drained, handed, written, kind>>,
         \A s \in Sinks : \A o \in handed[s] : heap'[o] = heap[o]
  PROVE  StorageGets' /\ OneRecord' /\ RabbitDay'
<1>1. StorageGets'
  BY DEF StorageGets
<1>2. OneRecord' /\ RabbitDay'
  BY DEF OneRecord, RabbitDay
<1> QED BY <1>1, <1>2

\* The source worker's new object was nobody's.
LEMMA SourceNextHeap ==
  ASSUME DataOK, HeapInv, SourceNextPayload
  PROVE  HeapInv'
<1> USE DEF HeapInv
<1>1. CASE src' # "send"
  <2>1. UNCHANGED <<heapVars, stage, sink, cur, got, drained>> /\ src # "send"
    BY <1>1 DEF SourceNextPayload, SourceNext, heapVars, refVars, stgVars,
       sinkVars
  <2>2. srcObj' = None
    BY <2>1 DEF Held, heapVars, refVars
  <2> QED BY <1>1, <2>1, <2>2 DEF heapVars, refVars, HeapTypeOK, Held,
             OneHolder, Single,
    FreeIsClear, Free, RightFields, StorageGets, OneRecord, RabbitDay
<1>2. CASE src' = "send"
  <2>1. /\ src = "next" /\ read' \in 0 .. MaxRead
        /\ UNCHANGED <<kind, pool, inObj, outObj, sinkObj, handed, written,
                       stage, sink, cur, got, drained>>
    BY ParamAssumption DEF SourceNextPayload, SourceNext, stgVars, sinkVars,
       DataOK
  <2>2. PICK o \in Objects :
          New(o) /\ srcObj' = o
          /\ heap' = [heap EXCEPT ![o] =
                        [Zero EXCEPT !.rec = read', !.time = read']]
    BY <1>2 DEF SourceNextPayload
  <2>3. srcObj = None /\ o # None
    BY <2>1, HeapAssumption DEF Held
  <2>4. Free(o) /\ o \notin pool
    BY <2>2, GetFree DEF Get, New, Unused
  <2>5. PICK r \in 0 .. MaxRead : r = read'
    BY <2>1
  <2>6. DEFINE f == [rec |-> r, time |-> r, day |-> 0, doc |-> 0]
  <2>7. heap' = [heap EXCEPT ![o] = f]
    <3> DEFINE g == [rec |-> r, time |-> 0, day |-> 0, doc |-> 0]
    <3>1. [Zero EXCEPT !.rec = r] = g
      BY DEF Zero
    <3>2. [g EXCEPT !.time = r] = f
      OBVIOUS
    <3>3. [Zero EXCEPT !.rec = r, !.time = r] = f
      BY <3>1, <3>2, Zenon
    <3>4. [Zero EXCEPT !.rec = read', !.time = read'] = f
      BY <2>5, <3>3
    <3> QED BY <2>2, <3>4
  <2>8. f \in Contents /\ FieldsOf(kind, f, r, FALSE)
    BY <2>5, ParamAssumption DEF Contents, FieldsOf
  <2> HIDE DEF f
  <2>9. HeapTypeOK'
    BY <2>1, <2>2, <2>7, <2>8 DEF HeapTypeOK, Refs
  <2>10. Held'
    BY <1>2, <2>1, <2>2, <2>3 DEF Held
  <2>11. heap'[o] = f /\ \A x \in Objects : x # o => heap'[x] = heap[x]
    BY <2>7 DEF HeapTypeOK
  <2>12. OneHolder'
    <3> SUFFICES ASSUME NEW x \in Objects PROVE Single(x)'
      BY DEF OneHolder
    <3>1. CASE x = o
      BY <2>1, <2>2, <2>4, <3>1 DEF Single, Free
    <3>2. CASE x # o
      BY <2>1, <2>2, <3>2, LessSingle DEF Less, OneHolder
    <3> QED BY <3>1, <3>2
  <2>13. FreeIsClear'
    BY <2>1, <2>2, <2>3, <2>4, <2>11, HeapAssumption DEF FreeIsClear, Free,
       HeapTypeOK
  <2>14. RightFields'
    <3>1. FieldsOf(kind, heap[srcObj], read, FALSE)'
      BY <2>1, <2>2, <2>5, <2>8, <2>11
    <3>2. ASSUME NEW x \in Objects, x # o PROVE heap'[x] = heap[x]
      BY <2>11, <3>2
    <3>3. ASSUME NEW i \in Stages
          PROVE  /\ inObj[i] # None => heap'[inObj[i]] = heap[inObj[i]]
                 /\ outObj[i] # None => heap'[outObj[i]] = heap[outObj[i]]
      BY <2>4, <3>2 DEF Free, HeapTypeOK, Refs
    <3>4. ASSUME NEW s \in Sinks
          PROVE  /\ sinkObj[s] # None => heap'[sinkObj[s]] = heap[sinkObj[s]]
                 /\ \A x \in handed[s] : heap'[x] = heap[x]
      BY <2>4, <3>2 DEF Free, HeapTypeOK, Refs
    <3> QED BY <2>1, <3>1, <3>3, <3>4 DEF RightFields, NormalizedAt
  <2>15. \A s \in Sinks : \A x \in handed[s] : heap'[x] = heap[x]
    BY <2>4, <2>11 DEF Free, HeapTypeOK
  <2>16. StorageGets' /\ OneRecord' /\ RabbitDay'
    BY <2>1, <2>15, StorageUntouched
  <2> QED BY <2>9, <2>10, <2>12, <2>13, <2>14, <2>16
<1> QED BY <1>1, <1>2

\* The payload changes hands: the receiver had none.
LEMMA SourceSendHeap ==
  ASSUME DataOK, HeapInv, SourceSendPayload
  PROVE  HeapInv'
<1> USE DEF HeapInv
<1>1. /\ srcObj' = None /\ src = "send" /\ src' = "check"
      /\ UNCHANGED <<kind, heap, pool, outObj, handed, written, drained>>
  BY DEF SourceSendPayload, SourceToStage, SourceToSink, sinkVars
<1>2. /\ srcObj \in Objects
      /\ FieldsOf(kind, heap[srcObj], read, FALSE)
  BY <1>1 DEF Held, RightFields, HeapTypeOK, Refs
<1>3. StorageGets' /\ OneRecord' /\ RabbitDay'
  BY <1>1, StorageUntouched
<1>4. CASE /\ SourceToStage
           /\ inObj' = [inObj EXCEPT ![0] = srcObj] /\ sinkObj' = sinkObj
  <2>1. /\ 0 \in Stages /\ stage[0] = "recv"
        /\ stage' = [stage EXCEPT ![0] = "proc"]
        /\ cur' = [cur EXCEPT ![0] = read]
        /\ UNCHANGED <<sink, got>>
        /\ stage \in [Stages -> StgPCs] /\ cur \in [Stages -> Nat]
        /\ inObj \in [Stages -> Refs]
    BY <1>4, ParamAssumption DEF SourceToStage, sinkVars, Stages, DataOK,
       HeapTypeOK
  <2>2. inObj[0] = None
    BY <2>1 DEF Held
  <2>3. HeapTypeOK'
    BY <1>1, <1>2, <1>4 DEF HeapTypeOK, Refs
  <2>4. Held'
    BY <1>1, <1>2, <1>4, <2>1, HeapAssumption DEF Held
  <2>5. OneHolder'
    <3> SUFFICES ASSUME NEW x \in Objects PROVE Single(x)'
      BY DEF OneHolder
    <3>1. Single(x)
      BY DEF OneHolder
    <3>2. CASE x = srcObj
      <4>1. Free(x)'  \/ \A i \in Stages : i # 0 => x # inObj'[i]
        BY <1>1, <1>4, <2>1, <3>1, <3>2 DEF Single
      <4> QED BY <1>1, <1>2, <1>4, <2>1, <3>1, <3>2, HeapAssumption DEF Single
    <3>3. CASE x # srcObj
      BY <1>1, <1>4, <2>1, <3>1, <3>3, LessSingle, HeapAssumption DEF Less
    <3> QED BY <3>2, <3>3
  <2>6. FreeIsClear'
    <3> SUFFICES ASSUME NEW x \in Objects, x \in pool \/ Free(x)'
                 PROVE  IF x \in pool THEN Free(x)' ELSE heap[x] = Zero
      BY <1>1 DEF FreeIsClear, HeapTypeOK
    <3>1. x # srcObj
      BY <1>1, <1>4, <2>1 DEF FreeIsClear, Free
    <3>2. Free(x)' <=> Free(x)
      BY <1>1, <1>4, <2>1, <2>2, <3>1, HeapAssumption DEF Free
    <3> QED BY <3>2 DEF FreeIsClear
  <2>7. RightFields'
    <3>1. ~NormalizedAt(0 - 1)
      BY HeapAssumption DEF NormalizedAt, Stages
    <3>2. ASSUME NEW i \in Stages, inObj'[i] # None
          PROVE  FieldsOf(kind, heap[inObj'[i]], cur'[i], NormalizedAt(i - 1))
      <4>1. CASE i = 0
        BY <1>2, <1>4, <2>1, <3>1, <4>1 DEF FieldsOf
      <4>2. CASE i # 0
        BY <1>4, <2>1, <3>2, <4>2 DEF RightFields
      <4> QED BY <4>1, <4>2
    <3>3. ASSUME NEW i \in Stages, outObj[i] # None
          PROVE  FieldsOf(kind, heap[outObj[i]], cur'[i], NormalizedAt(i))
      <4>1. i # 0
        BY <2>1, <3>3 DEF Held
      <4> QED BY <2>1, <3>3, <4>1 DEF RightFields
    <3> QED BY <1>1, <1>4, <2>1, <3>2, <3>3 DEF RightFields, NormalizedAt
  <2> QED BY <1>3, <2>3, <2>4, <2>5, <2>6, <2>7
<1>5. CASE /\ SourceToSink
           /\ sinkObj' = [sinkObj EXCEPT ![NSinks - 1] = srcObj]
           /\ inObj' = inObj
  <2> DEFINE t == NSinks - 1
  <2>1. /\ t \in Sinks /\ sink[t] = "recv" /\ Stages = {}
        /\ sink' = [sink EXCEPT ![t] = "drain"] /\ got' = [got EXCEPT ![t] = read]
        /\ UNCHANGED <<stage, cur>>
        /\ sink \in [Sinks -> SinkPCs] /\ got \in [Sinks -> Nat]
        /\ sinkObj \in [Sinks -> Refs]
    BY <1>5, ParamAssumption DEF SourceToSink, stgVars, Stages, Sinks,
       DataOK, HeapTypeOK
  <2>2. sinkObj' = [sinkObj EXCEPT ![t] = srcObj]
    BY <1>5
  <2> HIDE DEF t
  <2>3. HeapTypeOK'
    BY <1>1, <1>2, <1>5, <2>1, <2>2 DEF HeapTypeOK, Refs
  <2>4. Held'
    BY <1>1, <1>2, <2>1, <2>2, HeapAssumption DEF Held
  <2>5. OneHolder'
    <3> SUFFICES ASSUME NEW x \in Objects PROVE Single(x)'
      BY DEF OneHolder
    <3>1. Single(x)
      BY DEF OneHolder
    <3>2. CASE x = srcObj
      BY <1>1, <1>2, <1>5, <2>1, <2>2, <3>1, <3>2, HeapAssumption DEF Single
    <3>3. CASE x # srcObj
      BY <1>1, <1>5, <2>1, <2>2, <3>1, <3>3, LessSingle, HeapAssumption
         DEF Less
    <3> QED BY <3>2, <3>3
  <2>6. FreeIsClear'
    <3> SUFFICES ASSUME NEW x \in Objects, x \in pool \/ Free(x)'
                 PROVE  IF x \in pool THEN Free(x)' ELSE heap[x] = Zero
      BY <1>1 DEF FreeIsClear, HeapTypeOK
    <3>1. x # srcObj
      BY <1>1, <2>1, <2>2 DEF FreeIsClear, Free
    <3>2. sinkObj[t] = None
      BY <2>1 DEF Held
    <3>3. Free(x)' <=> Free(x)
      BY <1>1, <1>5, <2>1, <2>2, <3>1, <3>2, HeapAssumption DEF Free
    <3> QED BY <3>3 DEF FreeIsClear
  <2>7. RightFields'
    <3>1. Normalizers = {}
      BY <2>1, HeapAssumption
    <3>2. ASSUME NEW s \in Sinks, sinkObj'[s] # None
          PROVE  FieldsOf(kind, heap[sinkObj'[s]], got'[s], Normalizers # {})
      <4>1. CASE s = t
        BY <1>2, <2>1, <2>2, <3>1, <4>1
      <4>2. CASE s # t
        BY <2>1, <2>2, <3>2, <4>2 DEF RightFields
      <4> QED BY <4>1, <4>2
    <3> QED BY <1>1, <2>1, <3>2 DEF RightFields
  <2> QED BY <1>3, <2>3, <2>4, <2>5, <2>6, <2>7
<1> QED BY <1>4, <1>5 DEF SourceSendPayload

\* The stage keeps the processed clone, or nothing; what it was given goes to
\* the pool, or to the collector, and nobody else has it.
LEMMA StageProcessHeap ==
  ASSUME DataOK, HeapInv, NEW i \in Stages, StageProcessPayload(i)
  PROVE  HeapInv'
<1> USE DEF HeapInv
<1>1. /\ stage[i] = "proc"
      /\ inObj' = [inObj EXCEPT ![i] = None]
      /\ stage' = [stage EXCEPT ![i] = stage'[i]]
      /\ stage'[i] \in {"emit", "recv", "fail"}
      /\ UNCHANGED <<kind, srcObj, sinkObj, handed, written, src, read, cur,
                     sink, got, drained>>
      /\ stage \in [Stages -> StgPCs] /\ inObj \in [Stages -> Refs]
      /\ outObj \in [Stages -> Refs]
  BY DEF StageProcessPayload, StageProcess, srcVars, sinkVars, DataOK,
     HeapTypeOK
<1>0. PICK q : q = inObj[i]
  OBVIOUS
<1>2. /\ q \in Objects /\ q # None /\ outObj[i] = None
      /\ FieldsOf(kind, heap[q], cur[i], NormalizedAt(i - 1))
  BY <1>0, <1>1 DEF Held, RightFields, Refs
<1>3. PICK c :
       /\ Get(c)
       /\ CASE stage'[i] = "emit" ->
                 /\ outObj' = [outObj EXCEPT ![i] = c]
                 /\ heap' = [heap EXCEPT ![c] = Processed(i, Copy(q, c)),
                                         ![q] = Zero]
                 /\ pool' = pool \ {c}
            [] stage'[i] = "recv" ->
                 /\ heap' = [heap EXCEPT ![q] = Cleared(q)]
                 /\ pool' = (pool \ {c}) \cup {q}
                 /\ UNCHANGED outObj
            [] OTHER ->
                 /\ heap' = [heap EXCEPT ![q] = Zero]
                 /\ pool' = pool \ {c}
                 /\ UNCHANGED outObj
  BY <1>0 DEF StageProcessPayload
<1>4. c \in Objects /\ Free(c) /\ heap[c] = Zero
  BY <1>3, GetFree
<1>5. c # q /\ c # None
  BY <1>0, <1>4, HeapAssumption DEF Free
<1>7. /\ q # srcObj
      /\ \A j \in Stages : q # outObj[j] /\ (j # i => q # inObj[j])
      /\ \A s \in Sinks : q # sinkObj[s] /\ q \notin handed[s]
  BY <1>0, <1>2 DEF OneHolder, Single
<1>8. inObj'[i] = None /\ \A j \in Stages : j # i => inObj'[j] = inObj[j]
  BY <1>1
<1>9. CASE stage'[i] = "emit"
  <2>1. /\ outObj' = [outObj EXCEPT ![i] = c] /\ pool' = pool \ {c}
        /\ heap' = [heap EXCEPT ![c] = Processed(i, Copy(q, c)), ![q] = Zero]
    BY <1>3, <1>9
  <2> DEFINE f == Processed(i, Copy(q, c))
  <2>2. f \in Contents /\ FieldsOf(kind, f, cur[i], NormalizedAt(i))
    <3>1. kind \in PayloadKinds /\ heap[q] \in Contents
      BY <1>2, HeapAssumption DEF HeapTypeOK
    <3>2. NormalizedAt(i - 1) \in BOOLEAN
      BY DEF NormalizedAt
    <3>3. cur[i] \in 0 .. MaxRead
      BY <1>2, <3>1 DEF FieldsOf, Contents
    <3>4. Copy(q, c) \in Contents
          /\ FieldsOf(kind, Copy(q, c), cur[i], NormalizedAt(i - 1))
      BY <1>2, <1>4, <3>2, CloneFields
    <3> QED BY <3>1, <3>3, <3>4, ProcessedFields
  <2> HIDE DEF f
  <2>3. /\ heap'[c] = f /\ heap'[q] = Zero
        /\ \A x \in Objects \ {c, q} : heap'[x] = heap[x]
    BY <1>2, <1>4, <1>5, <2>1 DEF HeapTypeOK, f
  <2>4. HeapTypeOK'
    <3>1. Zero \in Contents
      BY ParamAssumption DEF Zero, Contents
    <3> QED BY <1>1, <1>2, <1>4, <2>1, <2>2, <3>1 DEF HeapTypeOK, Refs, f
  <2>5. outObj'[i] = c /\ \A j \in Stages : j # i => outObj'[j] = outObj[j]
    BY <1>1, <2>1
  <2>6. Held'
    BY <1>1, <1>5, <1>8, <1>9, <2>5 DEF Held
  <2>7. OneHolder'
    <3> SUFFICES ASSUME NEW x \in Objects PROVE Single(x)'
      BY DEF OneHolder
    <3>1. CASE x = c
      BY <1>1, <1>4, <1>5, <1>8, <2>5, <3>1 DEF Single, Free
    <3>2. CASE x # c
      BY <1>1, <1>8, <2>5, <3>2, LessSingle, HeapAssumption DEF Less, OneHolder
    <3> QED BY <3>1, <3>2
  <2>8. FreeIsClear'
    <3>1. ASSUME NEW x \in pool' PROVE Free(x)'
      <4>1. Free(x) /\ x # c /\ x # None
        BY <2>1, HeapAssumption DEF FreeIsClear, HeapTypeOK
      <4> QED BY <1>1, <1>8, <2>5, <4>1 DEF Free
    <3>2. ASSUME NEW x \in Objects, Free(x)' PROVE heap'[x] = Zero
      <4>1. x # c
        BY <2>5, <3>2 DEF Free
      <4>2. CASE x # q
        <5>1. Free(x)
          BY <1>1, <1>2, <1>8, <2>5, <3>2, <4>2, HeapAssumption, <1>0 DEF Free
        <5> QED BY <2>3, <4>1, <4>2, <5>1 DEF FreeIsClear
      <4> QED BY <2>3, <4>2
    <3> QED BY <3>1, <3>2 DEF FreeIsClear
  <2>9. ASSUME NEW x \in Objects, x # q, ~Free(x) PROVE heap'[x] = heap[x]
    BY <1>4, <2>3, <2>9
  <2>10. RightFields'
    <3>1. srcObj # None => heap'[srcObj] = heap[srcObj]
      BY <1>7, <2>9 DEF Free, HeapTypeOK, Refs
    <3>2. ASSUME NEW j \in Stages
          PROVE  /\ inObj[j] # None /\ j # i => heap'[inObj[j]] = heap[inObj[j]]
                 /\ outObj[j] # None => heap'[outObj[j]] = heap[outObj[j]]
      BY <1>1, <1>7, <2>9 DEF Free, Refs
    <3>3. ASSUME NEW s \in Sinks
          PROVE  /\ sinkObj[s] # None => heap'[sinkObj[s]] = heap[sinkObj[s]]
                 /\ \A x \in handed[s] : heap'[x] = heap[x]
      BY <1>7, <2>9 DEF Free, HeapTypeOK, Refs
    <3>4. ASSUME NEW j \in Stages
          PROVE  /\ inObj'[j] # None =>
                      FieldsOf(kind, heap'[inObj'[j]], cur[j], NormalizedAt(j - 1))
                 /\ outObj'[j] # None =>
                      FieldsOf(kind, heap'[outObj'[j]], cur[j], NormalizedAt(j))
      <4>1. CASE j = i
        BY <1>8, <2>2, <2>3, <2>5, <4>1
      <4>2. CASE j # i
        BY <1>8, <2>5, <3>2, <4>2 DEF RightFields
      <4> QED BY <4>1, <4>2
    <3>5. (srcObj # None => FieldsOf(kind, heap[srcObj], read, FALSE))'
      BY <1>1, <3>1 DEF RightFields
    <3>6. ASSUME NEW s \in Sinks
          PROVE  /\ sinkObj'[s] # None =>
                      FieldsOf(kind, heap'[sinkObj'[s]], got[s], Normalizers # {})
                 /\ \A x \in handed'[s] :
                      FieldsOf(kind, heap'[x], heap'[x].rec, Normalizers # {})
      BY <1>1, <3>3 DEF RightFields
    <3> QED BY <1>1, <3>4, <3>5, <3>6 DEF RightFields, NormalizedAt
  <2>11. \A s \in Sinks : \A x \in handed[s] : heap'[x] = heap[x]
    BY <1>7, <2>9 DEF Free, HeapTypeOK
  <2>12. StorageGets' /\ OneRecord' /\ RabbitDay'
    BY <1>1, <2>11, StorageUntouched
  <2> QED BY <2>4, <2>6, <2>7, <2>8, <2>10, <2>12
<1>10. CASE stage'[i] # "emit"
  <2>1. /\ outObj' = outObj /\ pool' \subseteq pool \cup {q}
        /\ heap' = [heap EXCEPT ![q] = Zero]
    BY <1>1, <1>3, <1>10 DEF Cleared
  <2>3. heap'[q] = Zero /\ \A x \in Objects \ {q} : heap'[x] = heap[x]
    BY <1>2, <2>1 DEF HeapTypeOK
  <2>4. HeapTypeOK'
    <3>1. Zero \in Contents
      BY ParamAssumption DEF Zero, Contents
    <3> QED BY <1>1, <1>2, <2>1, <3>1 DEF HeapTypeOK, Refs
  <2>6. Held'
    BY <1>1, <1>2, <1>8, <1>10, <2>1 DEF Held
  <2>7. OneHolder'
    <3> SUFFICES ASSUME NEW x \in Objects PROVE Single(x)'
      BY DEF OneHolder
    <3> QED BY <1>1, <1>8, <2>1, LessSingle, HeapAssumption DEF Less, OneHolder
  <2>8. FreeIsClear'
    <3>1. Free(q)'
      BY <1>1, <1>2, <1>7, <1>8, <2>1, HeapAssumption DEF Free
    <3>2. ASSUME NEW x \in Objects, x # q PROVE Free(x)' <=> Free(x)
      BY <1>1, <1>8, <2>1, <3>2, HeapAssumption, <1>0 DEF Free
    <3> QED BY <2>1, <2>3, <3>1, <3>2 DEF FreeIsClear, HeapTypeOK
  <2>10. RightFields'
    <3>1. srcObj # None => heap'[srcObj] = heap[srcObj]
      BY <1>7, <2>3 DEF HeapTypeOK, Refs
    <3>2. ASSUME NEW j \in Stages
          PROVE  /\ inObj[j] # None /\ j # i => heap'[inObj[j]] = heap[inObj[j]]
                 /\ outObj[j] # None => heap'[outObj[j]] = heap[outObj[j]]
      BY <1>1, <1>7, <2>3 DEF Refs
    <3>3. ASSUME NEW s \in Sinks
          PROVE  /\ sinkObj[s] # None => heap'[sinkObj[s]] = heap[sinkObj[s]]
                 /\ \A x \in handed[s] : heap'[x] = heap[x]
      BY <1>7, <2>3 DEF HeapTypeOK, Refs
    <3>4. ASSUME NEW j \in Stages
          PROVE  /\ inObj'[j] # None =>
                      FieldsOf(kind, heap'[inObj'[j]], cur[j], NormalizedAt(j - 1))
                 /\ outObj'[j] # None =>
                      FieldsOf(kind, heap'[outObj'[j]], cur[j], NormalizedAt(j))
      <4>1. CASE j = i
        BY <1>2, <1>8, <2>1, <4>1
      <4>2. CASE j # i
        BY <1>8, <2>1, <3>2, <4>2 DEF RightFields
      <4> QED BY <4>1, <4>2
    <3>5. (srcObj # None => FieldsOf(kind, heap[srcObj], read, FALSE))'
      BY <1>1, <3>1 DEF RightFields
    <3>6. ASSUME NEW s \in Sinks
          PROVE  /\ sinkObj'[s] # None =>
                      FieldsOf(kind, heap'[sinkObj'[s]], got[s], Normalizers # {})
                 /\ \A x \in handed'[s] :
                      FieldsOf(kind, heap'[x], heap'[x].rec, Normalizers # {})
      BY <1>1, <3>3 DEF RightFields
    <3> QED BY <1>1, <3>4, <3>5, <3>6 DEF RightFields, NormalizedAt
  <2>11. \A s \in Sinks : \A x \in handed[s] : heap'[x] = heap[x]
    BY <1>7, <2>3 DEF HeapTypeOK
  <2>12. StorageGets' /\ OneRecord' /\ RabbitDay'
    BY <1>1, <2>11, StorageUntouched
  <2> QED BY <2>4, <2>6, <2>7, <2>8, <2>10, <2>12
<1> QED BY <1>9, <1>10

\* The next stage gets a clone, and the original is nobody's.
LEMMA StageForwardHeap ==
  ASSUME DataOK, HeapInv, NEW i \in Stages, StageForwardPayload(i)
  PROVE  HeapInv'
<1> USE DEF HeapInv
<1>0. PICK q, k : q = outObj[i] /\ k = i + 1
  OBVIOUS
<1>1. /\ stage[i] = "emit" /\ stage[k] = "recv" /\ k \in Stages /\ k # i
      /\ stage' = [stage EXCEPT ![i] = "recv", ![k] = "proc"]
      /\ cur' = [cur EXCEPT ![k] = cur[i]]
      /\ outObj' = [outObj EXCEPT ![i] = None]
      /\ UNCHANGED <<kind, srcObj, sinkObj, handed, written, src, read,
                     sink, got, drained>>
      /\ stage \in [Stages -> StgPCs] /\ inObj \in [Stages -> Refs]
      /\ outObj \in [Stages -> Refs] /\ cur \in [Stages -> Nat]
  BY <1>0, ParamAssumption DEF StageForwardPayload, StageForward, srcVars,
     sinkVars, DataOK, HeapTypeOK, Stages, Last
<1>2. /\ q \in Objects /\ q # None /\ inObj[i] = None /\ inObj[k] = None
      /\ outObj[k] = None
      /\ FieldsOf(kind, heap[q], cur[i], NormalizedAt(i))
  BY <1>0, <1>1 DEF Held, RightFields, Refs
<1>3. PICK c :
       /\ Get(c)
       /\ inObj' = [inObj EXCEPT ![k] = c]
       /\ heap' = [heap EXCEPT ![c] = Copy(q, c), ![q] = Zero]
       /\ pool' = pool \ {c}
  BY <1>0 DEF StageForwardPayload
<1>4. c \in Objects /\ Free(c) /\ heap[c] = Zero
  BY <1>3, GetFree
<1>5. c # q /\ c # None
  BY <1>0, <1>4, HeapAssumption DEF Free
<1>7. /\ q # srcObj
      /\ \A j \in Stages : q # inObj[j] /\ (j # i => q # outObj[j])
      /\ \A s \in Sinks : q # sinkObj[s] /\ q \notin handed[s]
  BY <1>0, <1>2 DEF OneHolder, Single
<1>8. /\ outObj'[i] = None /\ \A j \in Stages : j # i => outObj'[j] = outObj[j]
      /\ inObj'[k] = c /\ \A j \in Stages : j # k => inObj'[j] = inObj[j]
      /\ cur'[k] = cur[i] /\ \A j \in Stages : j # k => cur'[j] = cur[j]
      /\ stage'[i] = "recv" /\ stage'[k] = "proc"
      /\ \A j \in Stages \ {i, k} : stage'[j] = stage[j]
  BY <1>1, <1>3
<1> DEFINE f == Copy(q, c)
<1>9. f \in Contents /\ FieldsOf(kind, f, cur[i], NormalizedAt(i))
  <2>1. NormalizedAt(i) \in BOOLEAN
    BY DEF NormalizedAt
  <2> QED BY <1>2, <1>4, <2>1, CloneFields
<1> HIDE DEF f
<1>10. /\ heap'[c] = f /\ heap'[q] = Zero
       /\ \A x \in Objects \ {c, q} : heap'[x] = heap[x]
  BY <1>2, <1>3, <1>4, <1>5 DEF HeapTypeOK, f
<1>11. HeapTypeOK'
  <2>1. Zero \in Contents
    BY ParamAssumption DEF Zero, Contents
  <2> QED BY <1>1, <1>2, <1>3, <1>4, <1>9, <2>1 DEF HeapTypeOK, Refs, f
<1>12. Held'
  BY <1>1, <1>2, <1>5, <1>8 DEF Held
<1>13. OneHolder'
  <2> SUFFICES ASSUME NEW x \in Objects PROVE Single(x)'
    BY DEF OneHolder
  <2>1. CASE x = c
    BY <1>1, <1>4, <1>5, <1>8, <2>1 DEF Single, Free
  <2>2. CASE x # c
    BY <1>1, <1>8, <2>2, LessSingle, HeapAssumption DEF Less, OneHolder
  <2> QED BY <2>1, <2>2
<1>14. FreeIsClear'
  <2>1. ASSUME NEW x \in pool' PROVE Free(x)'
    <3>1. Free(x) /\ x # c /\ x # None
      BY <1>3, HeapAssumption DEF FreeIsClear, HeapTypeOK
    <3> QED BY <1>1, <1>8, <3>1 DEF Free
  <2>2. ASSUME NEW x \in Objects, Free(x)' PROVE heap'[x] = Zero
    <3>1. x # c
      BY <1>1, <1>8, <2>2 DEF Free
    <3>2. CASE x # q
      <4>1. Free(x)
        BY <1>0, <1>1, <1>2, <1>8, <2>2, <3>2, HeapAssumption DEF Free
      <4> QED BY <1>10, <3>1, <3>2, <4>1 DEF FreeIsClear
    <3> QED BY <1>10, <3>2
  <2> QED BY <2>1, <2>2 DEF FreeIsClear
<1>15. ASSUME NEW x \in Objects, x # q, ~Free(x) PROVE heap'[x] = heap[x]
  BY <1>4, <1>10, <1>15
<1>16. RightFields'
  <2>1. srcObj # None => heap'[srcObj] = heap[srcObj]
    BY <1>7, <1>15 DEF Free, HeapTypeOK, Refs
  <2>2. ASSUME NEW j \in Stages
        PROVE  /\ inObj[j] # None => heap'[inObj[j]] = heap[inObj[j]]
               /\ outObj[j] # None /\ j # i => heap'[outObj[j]] = heap[outObj[j]]
    BY <1>1, <1>7, <1>15 DEF Free, Refs
  <2>3. ASSUME NEW s \in Sinks
        PROVE  /\ sinkObj[s] # None => heap'[sinkObj[s]] = heap[sinkObj[s]]
               /\ \A x \in handed[s] : heap'[x] = heap[x]
    BY <1>7, <1>15 DEF Free, HeapTypeOK, Refs
  <2>4. ASSUME NEW j \in Stages
        PROVE  /\ inObj'[j] # None =>
                    FieldsOf(kind, heap'[inObj'[j]], cur'[j], NormalizedAt(j - 1))
               /\ outObj'[j] # None =>
                    FieldsOf(kind, heap'[outObj'[j]], cur'[j], NormalizedAt(j))
    <3>1. CASE j = k
      <4>1. j - 1 = i
        BY <1>0, <3>1 DEF Stages
      <4> QED BY <1>1, <1>2, <1>8, <1>9, <1>10, <3>1, <4>1
    <3>2. CASE j = i
      BY <1>1, <1>2, <1>8, <3>2
    <3>3. CASE j # k /\ j # i
      BY <1>8, <2>2, <3>3 DEF RightFields
    <3> QED BY <3>1, <3>2, <3>3
  <2>5. (srcObj # None => FieldsOf(kind, heap[srcObj], read, FALSE))'
    BY <1>1, <2>1 DEF RightFields
  <2>6. ASSUME NEW s \in Sinks
        PROVE  /\ sinkObj'[s] # None =>
                    FieldsOf(kind, heap'[sinkObj'[s]], got[s], Normalizers # {})
               /\ \A x \in handed'[s] :
                    FieldsOf(kind, heap'[x], heap'[x].rec, Normalizers # {})
    BY <1>1, <2>3 DEF RightFields
  <2> QED BY <1>1, <2>4, <2>5, <2>6 DEF RightFields, NormalizedAt
<1>17. \A s \in Sinks : \A x \in handed[s] : heap'[x] = heap[x]
  BY <1>7, <1>15 DEF Free, HeapTypeOK
<1>18. StorageGets' /\ OneRecord' /\ RabbitDay'
  BY <1>1, <1>17, StorageUntouched
<1> QED BY <1>11, <1>12, <1>13, <1>14, <1>16, <1>18

\* What a stopping stage was about to send is nobody's.
LEMMA StageStopHeap ==
  ASSUME DataOK, HeapInv, NEW i \in Stages, StageStopPayload(i)
  PROVE  HeapInv'
<1> USE DEF HeapInv
<1>0. PICK q : q = outObj[i]
  OBVIOUS
<1>1. /\ stage[i] \in {"recv", "emit"}
      /\ stage' = [stage EXCEPT ![i] = "return"]
      /\ outObj' = [outObj EXCEPT ![i] = None]
      /\ heap' = IF q = None THEN heap ELSE [heap EXCEPT ![q] = Zero]
      /\ UNCHANGED <<kind, pool, srcObj, inObj, sinkObj, handed, written, src,
                     read, cur, sink, got, drained>>
      /\ stage \in [Stages -> StgPCs] /\ outObj \in [Stages -> Refs]
  BY <1>0 DEF StageStopPayload, StageStop, srcVars, sinkVars, DataOK,
     HeapTypeOK
<1>2. inObj[i] = None
  BY <1>1 DEF Held
<1>3. q # None =>
        /\ q \in Objects /\ q # srcObj
        /\ \A j \in Stages : q # inObj[j] /\ (j # i => q # outObj[j])
        /\ \A s \in Sinks : q # sinkObj[s] /\ q \notin handed[s]
  BY <1>0, <1>1 DEF OneHolder, Single, Refs
<1>4. /\ outObj'[i] = None /\ \A j \in Stages : j # i => outObj'[j] = outObj[j]
      /\ stage'[i] = "return" /\ \A j \in Stages : j # i => stage'[j] = stage[j]
  BY <1>1
<1>5. /\ q # None => heap'[q] = Zero
      /\ \A x \in Objects : x # q => heap'[x] = heap[x]
  BY <1>1, <1>3 DEF HeapTypeOK
<1>6. HeapTypeOK'
  <2>1. Zero \in Contents
    BY ParamAssumption DEF Zero, Contents
  <2> QED BY <1>1, <1>3, <2>1 DEF HeapTypeOK, Refs
<1>7. Held'
  BY <1>1, <1>2, <1>4 DEF Held
<1>8. OneHolder'
  <2> SUFFICES ASSUME NEW x \in Objects PROVE Single(x)'
    BY DEF OneHolder
  <2> QED BY <1>1, <1>4, LessSingle, HeapAssumption DEF Less, OneHolder
<1>9. FreeIsClear'
  <2>1. ASSUME NEW x \in Objects, Free(x) PROVE Free(x)'
    BY <1>1, <1>4, <2>1, HeapAssumption DEF Free
  <2>2. ASSUME NEW x \in Objects, Free(x)', x # q PROVE Free(x)
    BY <1>0, <1>1, <1>4, <2>2 DEF Free
  <2>3. ASSUME NEW x \in Objects, Free(x)' PROVE heap'[x] = Zero
    <3>1. CASE x = q
      BY <1>5, <3>1, HeapAssumption
    <3>2. CASE x # q
      BY <1>5, <2>2, <2>3, <3>2 DEF FreeIsClear
    <3> QED BY <3>1, <3>2
  <2> QED BY <1>1, <2>1, <2>3 DEF FreeIsClear, HeapTypeOK
<1>10. RightFields'
  <2>1. srcObj # None => heap'[srcObj] = heap[srcObj]
    BY <1>3, <1>5 DEF HeapTypeOK, Refs
  <2>2. ASSUME NEW j \in Stages
        PROVE  /\ inObj[j] # None => heap'[inObj[j]] = heap[inObj[j]]
               /\ outObj[j] # None /\ j # i => heap'[outObj[j]] = heap[outObj[j]]
    BY <1>3, <1>5 DEF HeapTypeOK, Refs
  <2>3. ASSUME NEW s \in Sinks
        PROVE  /\ sinkObj[s] # None => heap'[sinkObj[s]] = heap[sinkObj[s]]
               /\ \A x \in handed[s] : heap'[x] = heap[x]
    BY <1>3, <1>5, HeapAssumption DEF HeapTypeOK, Refs
  <2>4. ASSUME NEW j \in Stages
        PROVE  /\ inObj'[j] # None =>
                    FieldsOf(kind, heap'[inObj'[j]], cur[j], NormalizedAt(j - 1))
               /\ outObj'[j] # None =>
                    FieldsOf(kind, heap'[outObj'[j]], cur[j], NormalizedAt(j))
    BY <1>1, <1>4, <2>2 DEF RightFields
  <2>5. (srcObj # None => FieldsOf(kind, heap[srcObj], read, FALSE))'
    BY <1>1, <2>1 DEF RightFields
  <2>6. ASSUME NEW s \in Sinks
        PROVE  /\ sinkObj'[s] # None =>
                    FieldsOf(kind, heap'[sinkObj'[s]], got[s], Normalizers # {})
               /\ \A x \in handed'[s] :
                    FieldsOf(kind, heap'[x], heap'[x].rec, Normalizers # {})
    BY <1>1, <2>3 DEF RightFields
  <2> QED BY <1>1, <2>4, <2>5, <2>6 DEF RightFields, NormalizedAt
<1>11. \A s \in Sinks : \A x \in handed[s] : heap'[x] = heap[x]
  BY <1>3, <1>5, HeapAssumption DEF HeapTypeOK
<1>12. StorageGets' /\ OneRecord' /\ RabbitDay'
  BY <1>1, <1>11, StorageUntouched
<1> QED BY <1>6, <1>7, <1>8, <1>9, <1>10, <1>12

\* Each sink worker gets a clone of its own; the original goes after the last.
LEMMA StageBroadcastHeap ==
  ASSUME DataOK, HeapInv, NEW s \in Sinks, StageBroadcastPayload(s)
  PROVE  HeapInv'
<1> USE DEF HeapInv
<1>0. PICK q, l : q = outObj[Last] /\ l = Last
  OBVIOUS
<1>1. /\ l \in Stages /\ stage[l] = "emit" /\ sink[s] = "recv"
      /\ stage' = [stage EXCEPT ![l] = stage'[l]]
      /\ stage'[l] \in {"emit", "recv"}
      /\ sink' = [sink EXCEPT ![s] = "drain"]
      /\ got' = [got EXCEPT ![s] = cur[l]]
      /\ UNCHANGED <<kind, srcObj, inObj, handed, written, src, read, cur,
                     drained>>
      /\ stage \in [Stages -> StgPCs] /\ sink \in [Sinks -> SinkPCs]
      /\ got \in [Sinks -> Nat]
      /\ outObj \in [Stages -> Refs] /\ sinkObj \in [Sinks -> Refs]
  BY <1>0 DEF StageBroadcastPayload, StageBroadcast, srcVars, DataOK,
     HeapTypeOK
<1>2. /\ q \in Objects /\ q # None /\ inObj[l] = None /\ sinkObj[s] = None
      /\ FieldsOf(kind, heap[q], cur[l], NormalizedAt(l))
  BY <1>0, <1>1 DEF Held, RightFields, Refs
<1>3. PICK c :
       /\ Get(c)
       /\ sinkObj' = [sinkObj EXCEPT ![s] = c]
       /\ pool' = pool \ {c}
       /\ IF stage'[l] = "recv"
          THEN /\ outObj' = [outObj EXCEPT ![l] = None]
               /\ heap' = [heap EXCEPT ![c] = Copy(q, c), ![q] = Zero]
          ELSE /\ heap' = [heap EXCEPT ![c] = Copy(q, c)]
               /\ UNCHANGED outObj
  BY <1>0 DEF StageBroadcastPayload
<1>4. c \in Objects /\ Free(c) /\ heap[c] = Zero
  BY <1>3, GetFree
<1>5. c # q /\ c # None
  BY <1>0, <1>1, <1>4, HeapAssumption DEF Free
<1>6. /\ q # srcObj
      /\ \A j \in Stages : q # inObj[j] /\ (j # l => q # outObj[j])
      /\ \A t \in Sinks : q # sinkObj[t] /\ q \notin handed[t]
  BY <1>0, <1>1, <1>2 DEF OneHolder, Single
<1>7. /\ outObj'[l] = IF stage'[l] = "recv" THEN None ELSE q
      /\ \A j \in Stages : j # l => outObj'[j] = outObj[j]
      /\ \A j \in Stages : j # l => stage'[j] = stage[j]
      /\ sinkObj'[s] = c /\ \A t \in Sinks : t # s => sinkObj'[t] = sinkObj[t]
      /\ got'[s] = cur[l] /\ \A t \in Sinks : t # s => got'[t] = got[t]
      /\ sink'[s] = "drain" /\ \A t \in Sinks : t # s => sink'[t] = sink[t]
  BY <1>0, <1>1, <1>3
<1> DEFINE f == Copy(q, c)
<1>8. f \in Contents /\ FieldsOf(kind, f, cur[l], NormalizedAt(l))
  <2>1. NormalizedAt(l) \in BOOLEAN
    BY DEF NormalizedAt
  <2> QED BY <1>2, <1>4, <2>1, CloneFields
<1> HIDE DEF f
<1>9. /\ heap'[c] = f
      /\ heap'[q] = IF stage'[l] = "recv" THEN Zero ELSE heap[q]
      /\ \A x \in Objects \ {c, q} : heap'[x] = heap[x]
  BY <1>2, <1>3, <1>4, <1>5 DEF HeapTypeOK, f
<1>10. HeapTypeOK'
  <2>1. Zero \in Contents
    BY ParamAssumption DEF Zero, Contents
  <2>2. heap' \in [Objects -> Contents]
    BY <1>2, <1>3, <1>4, <1>8, <2>1 DEF HeapTypeOK, f
  <2> QED BY <1>1, <1>2, <1>3, <1>4, <2>2 DEF HeapTypeOK, Refs
<1>11. Held'
  BY <1>0, <1>1, <1>2, <1>5, <1>7 DEF Held
<1>12. OneHolder'
  <2> SUFFICES ASSUME NEW x \in Objects PROVE Single(x)'
    BY DEF OneHolder
  <2>1. CASE x = c
    BY <1>1, <1>4, <1>5, <1>7, <2>1, HeapAssumption DEF Single, Free
  <2>2. CASE x # c
    BY <1>0, <1>1, <1>7, <2>2, LessSingle, HeapAssumption DEF Less, OneHolder
  <2> QED BY <2>1, <2>2
<1>13. FreeIsClear'
  <2>1. ASSUME NEW x \in pool' PROVE Free(x)'
    <3>1. Free(x) /\ x # c /\ x # None
      BY <1>3, HeapAssumption DEF FreeIsClear, HeapTypeOK
    <3> QED BY <1>0, <1>1, <1>7, <3>1 DEF Free
  <2>2. ASSUME NEW x \in Objects, Free(x)' PROVE heap'[x] = Zero
    <3>1. x # c
      BY <1>1, <1>7, <2>2 DEF Free
    <3>2. CASE x # q
      <4>1. Free(x)
        BY <1>0, <1>1, <1>2, <1>7, <2>2, <3>2, HeapAssumption DEF Free
      <4> QED BY <1>9, <3>1, <3>2, <4>1 DEF FreeIsClear
    <3>3. CASE x = q
      BY <1>1, <1>7, <1>9, <2>2, <3>3 DEF Free
    <3> QED BY <3>2, <3>3
  <2> QED BY <2>1, <2>2 DEF FreeIsClear
<1>14. ASSUME NEW x \in Objects, x # q, ~Free(x) PROVE heap'[x] = heap[x]
  BY <1>4, <1>9, <1>14
<1>15. ASSUME NEW t \in Sinks
       PROVE  /\ sinkObj[t] # None => heap'[sinkObj[t]] = heap[sinkObj[t]]
              /\ \A x \in handed[t] : heap'[x] = heap[x]
  BY <1>6, <1>14 DEF Free, HeapTypeOK, Refs
<1>16. RightFields'
  <2>1. srcObj # None => heap'[srcObj] = heap[srcObj]
    BY <1>6, <1>14 DEF Free, HeapTypeOK, Refs
  <2>2. ASSUME NEW j \in Stages
        PROVE  /\ inObj[j] # None => heap'[inObj[j]] = heap[inObj[j]]
               /\ outObj[j] # None /\ j # l => heap'[outObj[j]] = heap[outObj[j]]
    BY <1>1, <1>6, <1>14 DEF Free, Refs, HeapTypeOK
  <2>3. ASSUME NEW j \in Stages
        PROVE  /\ inObj'[j] # None =>
                    FieldsOf(kind, heap'[inObj'[j]], cur[j], NormalizedAt(j - 1))
               /\ outObj'[j] # None =>
                    FieldsOf(kind, heap'[outObj'[j]], cur[j], NormalizedAt(j))
    <3>1. CASE j = l
      BY <1>1, <1>2, <1>7, <1>9, <3>1
    <3>2. CASE j # l
      BY <1>1, <1>7, <2>2, <3>2 DEF RightFields
    <3> QED BY <3>1, <3>2
  <2>4. (srcObj # None => FieldsOf(kind, heap[srcObj], read, FALSE))'
    BY <1>1, <2>1 DEF RightFields
  <2>5. (Normalizers # {}) = NormalizedAt(l)
    <3>1. \A n \in Normalizers : n <= l
      BY <1>0, HeapAssumption, ParamAssumption DEF Stages, Last
    <3> QED BY <3>1 DEF NormalizedAt
  <2>6. ASSUME NEW t \in Sinks
        PROVE  /\ sinkObj'[t] # None =>
                    FieldsOf(kind, heap'[sinkObj'[t]], got'[t], Normalizers # {})
               /\ \A x \in handed'[t] :
                    FieldsOf(kind, heap'[x], heap'[x].rec, Normalizers # {})
    <3>1. CASE t = s
      BY <1>1, <1>7, <1>8, <1>9, <1>15, <2>5, <3>1 DEF RightFields
    <3>2. CASE t # s
      BY <1>1, <1>7, <1>15, <3>2 DEF RightFields
    <3> QED BY <3>1, <3>2
  <2> QED BY <1>1, <2>3, <2>4, <2>6 DEF RightFields, NormalizedAt
<1>17. StorageGets' /\ OneRecord' /\ RabbitDay'
  BY <1>1, <1>15, StorageUntouched
<1> QED BY <1>10, <1>11, <1>12, <1>13, <1>16, <1>17

\* Steps that leave all objects, and all goroutines that hold one, alone.
LEMMA OtherHeap ==
  ASSUME DataOK, HeapInv, OtherStep
  PROVE  HeapInv'
<1> USE DEF HeapInv
<1>1. /\ UNCHANGED <<kind, heap, pool, srcObj, inObj, outObj, sinkObj, handed,
                     written>>
  BY DEF OtherStep, heapVars, refVars
<1>2. /\ UNCHANGED <<read, cur, got, drained>>
      /\ src' = "send" <=> src = "send"
      /\ \A i \in Stages : /\ stage'[i] = "proc" <=> stage[i] = "proc"
                           /\ stage'[i] = "emit" <=> stage[i] = "emit"
      /\ \A s \in Sinks : sink'[s] = "drain" <=> sink[s] = "drain"
  <2>1. CASE SourceCheck
    BY <2>1 DEF SourceCheck, stgVars, sinkVars
  <2>2. ASSUME NEW i \in Stages, StageFail(i) \/ StageExit(i)
        PROVE  /\ UNCHANGED <<src, read, cur, sink, got, drained>>
               /\ \A j \in Stages : /\ stage'[j] = "proc" <=> stage[j] = "proc"
                                    /\ stage'[j] = "emit" <=> stage[j] = "emit"
    BY <2>2 DEF StageFail, StageExit, srcVars, sinkVars, DataOK
  <2>3. ASSUME NEW s \in Sinks, SinkFail(s) \/ SinkStop(s) \/ SinkExit(s)
        PROVE  /\ UNCHANGED <<src, read, stage, cur, got, drained>>
               /\ \A t \in Sinks : sink'[t] = "drain" <=> sink[t] = "drain"
    BY <2>3 DEF SinkFail, SinkStop, SinkExit, srcVars, stgVars, DataOK
  <2>4. CASE \/ Collector \/ CloseErrCh \/ ConsumerError \/ ConsumerErrorPanics
             \/ ContextExpires
    <3>1. UNCHANGED <<srcVars, stgVars, sinkVars>>
      BY <2>4 DEF Collector, CollectorStart, CollectorHandle, CollectorReturn,
                  ConsumerErrorReceived, CloseErrCh, ConsumerError,
                  ConsumerErrorPanics, ContextExpires
    <3> QED BY <3>1 DEF srcVars, stgVars, sinkVars
  <2> QED BY <2>1, <2>2, <2>3, <2>4 DEF OtherStep
<1>3. HeapTypeOK' /\ Held'
  BY <1>1, <1>2 DEF HeapTypeOK, Held
<1>4. OneHolder' /\ FreeIsClear'
  BY <1>1 DEF OneHolder, Single, FreeIsClear, Free
<1>5. RightFields'
  BY <1>1, <1>2 DEF RightFields, NormalizedAt
<1>6. StorageGets' /\ OneRecord' /\ RabbitDay'
  BY <1>1, <1>2, StorageUntouched
<1> QED BY <1>3, <1>4, <1>5, <1>6

\* The storage gets a clone, and the original goes to the pool; or both are
\* left to the collector.
LEMMA SinkDrainHeap ==
  ASSUME DataOK, SetsOK, HeapInv, NEW s \in Sinks, SinkDrainPayload(s)
  PROVE  HeapInv'
<1> USE DEF HeapInv
<1>0. PICK q : q = sinkObj[s]
  OBVIOUS
<1>1. /\ sink[s] = "drain" /\ sink'[s] \in {"recv", "fail"}
      /\ sink' = [sink EXCEPT ![s] = sink'[s]]
      /\ sinkObj' = [sinkObj EXCEPT ![s] = None]
      /\ IF sink'[s] = "recv"
         THEN drained' = [drained EXCEPT ![s] = @ \cup {got[s]}]
         ELSE drained' = drained
      /\ UNCHANGED <<kind, srcObj, inObj, outObj, written, src, read, stage,
                     cur, got>>
      /\ sink \in [Sinks -> SinkPCs] /\ sinkObj \in [Sinks -> Refs]
      /\ handed \in [Sinks -> SUBSET Objects]
  BY DEF SinkDrainPayload, SinkDrain, srcVars, stgVars, DataOK, HeapTypeOK
<1>2. /\ q \in Objects /\ q # None
      /\ FieldsOf(kind, heap[q], got[s], Normalizers # {})
  BY <1>0, <1>1 DEF Held, RightFields, Refs
<1>3. PICK c :
       /\ Get(c)
       /\ IF sink'[s] = "recv"
          THEN /\ handed' = [handed EXCEPT ![s] = @ \cup {c}]
               /\ heap' = [heap EXCEPT ![c] = Copy(q, c), ![q] = Cleared(q)]
               /\ pool' = (pool \ {c}) \cup {q}
          ELSE /\ heap' = [heap EXCEPT ![q] = Zero]
               /\ pool' = pool \ {c}
               /\ UNCHANGED handed
  BY <1>0 DEF SinkDrainPayload
<1>4. c \in Objects /\ Free(c) /\ heap[c] = Zero
  BY <1>3, GetFree
<1>5. c # q /\ c # None
  BY <1>0, <1>4, HeapAssumption DEF Free
<1>6. /\ q # srcObj
      /\ \A j \in Stages : q # inObj[j] /\ q # outObj[j]
      /\ \A t \in Sinks : q \notin handed[t] /\ (t # s => q # sinkObj[t])
  BY <1>0, <1>2 DEF OneHolder, Single
<1>7. /\ sinkObj'[s] = None /\ \A t \in Sinks : t # s => sinkObj'[t] = sinkObj[t]
      /\ \A t \in Sinks : t # s => sink'[t] = sink[t]
  BY <1>1
<1>8. CASE sink'[s] = "recv"
  <2> DEFINE f == Copy(q, c)
  <2>1. /\ f \in Contents /\ FieldsOf(kind, f, got[s], Normalizers # {})
        /\ FieldsOf(kind, f, f.rec, Normalizers # {})
    <3>1. f \in Contents /\ FieldsOf(kind, f, got[s], Normalizers # {})
      BY <1>2, <1>4, CloneFields
    <3>2. f.rec = got[s]
      BY <3>1 DEF FieldsOf
    <3> QED BY <3>1, <3>2
  <2>2. /\ handed' = [handed EXCEPT ![s] = @ \cup {c}]
        /\ heap' = [heap EXCEPT ![c] = f, ![q] = Zero]
        /\ pool' = (pool \ {c}) \cup {q}
        /\ drained' = [drained EXCEPT ![s] = @ \cup {got[s]}]
    BY <1>1, <1>3, <1>8 DEF Cleared
  <2> HIDE DEF f
  <2>3. /\ heap'[c] = f /\ heap'[q] = Zero
        /\ \A x \in Objects \ {c, q} : heap'[x] = heap[x]
    BY <1>2, <1>4, <1>5, <2>2 DEF HeapTypeOK
  <2>4. /\ handed'[s] = handed[s] \cup {c}
        /\ \A t \in Sinks : t # s => handed'[t] = handed[t]
    BY <1>1, <2>2
  <2>5. HeapTypeOK'
    <3>1. Zero \in Contents
      BY ParamAssumption DEF Zero, Contents
    <3>2. heap' \in [Objects -> Contents]
      BY <1>2, <1>4, <2>1, <2>2, <3>1 DEF HeapTypeOK
    <3> QED BY <1>1, <1>2, <1>4, <2>2, <3>2 DEF HeapTypeOK, Refs
  <2>6. Held'
    BY <1>1, <1>7, <1>8 DEF Held
  <2>7. OneHolder'
    <3> SUFFICES ASSUME NEW x \in Objects PROVE Single(x)'
      BY DEF OneHolder
    <3>1. CASE x = c
      BY <1>1, <1>4, <1>5, <1>7, <2>4, <3>1, HeapAssumption DEF Single, Free
    <3>2. CASE x # c
      BY <1>1, <1>7, <2>4, <3>2, LessSingle, HeapAssumption DEF Less, OneHolder
    <3> QED BY <3>1, <3>2
  <2>8. FreeIsClear'
    <3>1. Free(q)'
      BY <1>1, <1>2, <1>5, <1>6, <1>7, <2>4, HeapAssumption DEF Free
    <3>2. ASSUME NEW x \in Objects, x # q, x # c PROVE Free(x)' <=> Free(x)
      BY <1>0, <1>1, <1>7, <2>4, <3>2, HeapAssumption DEF Free
    <3>3. ~Free(c)'
      BY <2>4 DEF Free
    <3> QED BY <2>2, <2>3, <3>1, <3>2, <3>3 DEF FreeIsClear, HeapTypeOK
  <2>9. ASSUME NEW x \in Objects, x # q, ~Free(x) PROVE heap'[x] = heap[x]
    BY <1>4, <2>3, <2>9
  <2>10. ASSUME NEW t \in Sinks
         PROVE  /\ sinkObj[t] # None /\ t # s =>
                     heap'[sinkObj[t]] = heap[sinkObj[t]]
                /\ \A x \in handed[t] : heap'[x] = heap[x]
    BY <1>6, <2>9 DEF Free, HeapTypeOK, Refs
  <2>11. RightFields'
    <3>1. srcObj # None => heap'[srcObj] = heap[srcObj]
      BY <1>6, <2>9 DEF Free, HeapTypeOK, Refs
    <3>2. ASSUME NEW j \in Stages
          PROVE  /\ inObj[j] # None => heap'[inObj[j]] = heap[inObj[j]]
                 /\ outObj[j] # None => heap'[outObj[j]] = heap[outObj[j]]
      BY <1>6, <2>9 DEF Free, Refs, HeapTypeOK
    <3>3. (srcObj # None => FieldsOf(kind, heap[srcObj], read, FALSE))'
      BY <1>1, <3>1 DEF RightFields
    <3>4. ASSUME NEW j \in Stages
          PROVE  /\ inObj'[j] # None =>
                      FieldsOf(kind, heap'[inObj'[j]], cur[j], NormalizedAt(j - 1))
                 /\ outObj'[j] # None =>
                      FieldsOf(kind, heap'[outObj'[j]], cur[j], NormalizedAt(j))
      BY <1>1, <3>2 DEF RightFields
    <3>5. ASSUME NEW t \in Sinks
          PROVE  /\ sinkObj'[t] # None =>
                      FieldsOf(kind, heap'[sinkObj'[t]], got'[t], Normalizers # {})
                 /\ \A x \in handed'[t] :
                      FieldsOf(kind, heap'[x], heap'[x].rec, Normalizers # {})
      <4>1. CASE t = s
        BY <1>7, <2>1, <2>3, <2>4, <2>10, <4>1 DEF RightFields
      <4>2. CASE t # s
        BY <1>1, <1>7, <2>4, <2>10, <4>2 DEF RightFields
      <4> QED BY <4>1, <4>2
    <3> QED BY <1>1, <3>3, <3>4, <3>5 DEF RightFields, NormalizedAt
  <2>12. StorageGets'
    <3> SUFFICES ASSUME NEW t \in Sinks, Normalizers # {}
                 PROVE  drained'[t] = {w[2] : w \in written[t]}
                                        \cup {heap'[x].doc : x \in handed'[t]}
      BY <1>1 DEF StorageGets
    <3>1. drained[t] = {w[2] : w \in written[t]} \cup {heap[x].doc : x \in handed[t]}
      BY DEF StorageGets
    <3>2. {heap'[x].doc : x \in handed[t]} = {heap[x].doc : x \in handed[t]}
      BY <2>10
    <3>3. CASE t = s
      <4>1. f.doc = got[s]
        BY <2>1 DEF FieldsOf
      <4>2. {heap'[x].doc : x \in handed'[s]}
              = {heap'[x].doc : x \in handed[s]} \cup {got[s]}
        BY <2>3, <2>4, <4>1
      <4>3. drained'[s] = drained[s] \cup {got[s]}
        BY <2>2 DEF SetsOK
      <4> QED BY <3>1, <3>2, <3>3, <4>2, <4>3
    <3>4. CASE t # s
      BY <2>2, <2>4, <3>1, <3>2, <3>4 DEF SetsOK
    <3> QED BY <3>3, <3>4
  <2>13. OneRecord' /\ RabbitDay'
    BY <1>1 DEF OneRecord, RabbitDay
  <2> QED BY <2>5, <2>6, <2>7, <2>8, <2>11, <2>12, <2>13
<1>9. CASE sink'[s] # "recv"
  <2>1. /\ UNCHANGED <<handed, drained>> /\ pool' = pool \ {c}
        /\ heap' = [heap EXCEPT ![q] = Zero]
    BY <1>1, <1>3, <1>9
  <2>2. heap'[q] = Zero /\ \A x \in Objects \ {q} : heap'[x] = heap[x]
    BY <1>2, <2>1 DEF HeapTypeOK
  <2>3. HeapTypeOK'
    <3>1. Zero \in Contents
      BY ParamAssumption DEF Zero, Contents
    <3> QED BY <1>1, <1>2, <2>1, <3>1 DEF HeapTypeOK, Refs
  <2>4. Held'
    BY <1>1, <1>7, <1>9 DEF Held
  <2>5. OneHolder'
    <3> SUFFICES ASSUME NEW x \in Objects PROVE Single(x)'
      BY DEF OneHolder
    <3> QED BY <1>1, <1>7, <2>1, LessSingle, HeapAssumption DEF Less, OneHolder
  <2>6. FreeIsClear'
    <3>1. ASSUME NEW x \in Objects, x # q PROVE Free(x)' <=> Free(x)
      BY <1>0, <1>1, <1>7, <2>1, <3>1, HeapAssumption DEF Free
    <3>2. ~Free(q)
      BY <1>0 DEF Free
    <3> QED BY <2>1, <2>2, <3>1, <3>2 DEF FreeIsClear, HeapTypeOK
  <2>7. ASSUME NEW t \in Sinks
        PROVE  /\ sinkObj[t] # None /\ t # s =>
                    heap'[sinkObj[t]] = heap[sinkObj[t]]
               /\ \A x \in handed[t] : heap'[x] = heap[x]
    BY <1>6, <2>2 DEF HeapTypeOK, Refs
  <2>8. RightFields'
    <3>1. srcObj # None => heap'[srcObj] = heap[srcObj]
      BY <1>6, <2>2 DEF HeapTypeOK, Refs
    <3>2. ASSUME NEW j \in Stages
          PROVE  /\ inObj[j] # None => heap'[inObj[j]] = heap[inObj[j]]
                 /\ outObj[j] # None => heap'[outObj[j]] = heap[outObj[j]]
      BY <1>6, <2>2 DEF Refs, HeapTypeOK
    <3>3. (srcObj # None => FieldsOf(kind, heap[srcObj], read, FALSE))'
      BY <1>1, <3>1 DEF RightFields
    <3>4. ASSUME NEW j \in Stages
          PROVE  /\ inObj'[j] # None =>
                      FieldsOf(kind, heap'[inObj'[j]], cur[j], NormalizedAt(j - 1))
                 /\ outObj'[j] # None =>
                      FieldsOf(kind, heap'[outObj'[j]], cur[j], NormalizedAt(j))
      BY <1>1, <3>2 DEF RightFields
    <3>5. ASSUME NEW t \in Sinks
          PROVE  /\ sinkObj'[t] # None =>
                      FieldsOf(kind, heap'[sinkObj'[t]], got'[t], Normalizers # {})
                 /\ \A x \in handed'[t] :
                      FieldsOf(kind, heap'[x], heap'[x].rec, Normalizers # {})
      BY <1>1, <1>7, <2>1, <2>7 DEF RightFields
    <3> QED BY <1>1, <3>3, <3>4, <3>5 DEF RightFields, NormalizedAt
  <2>9. StorageGets' /\ OneRecord' /\ RabbitDay'
    BY <1>1, <2>1, <2>7, StorageUntouched
  <2> QED BY <2>3, <2>4, <2>5, <2>6, <2>8, <2>9
<1> QED BY <1>8, <1>9

\* A worker of the storage reads what the storage took from the pipeline.
LEMMA StorageWriteHeap ==
  ASSUME DataOK, SetsOK, HeapInv, NEW s \in Sinks, StorageWrite(s)
  PROVE  HeapInv'
<1> USE DEF HeapInv
<1>1. PICK o \in handed[s] :
        /\ written' = [written EXCEPT ![s] = @ \cup {<<heap[o].day, heap[o].doc>>}]
        /\ handed' = [handed EXCEPT ![s] = @ \ {o}]
        /\ heap' = [heap EXCEPT ![o] = Zero]
  BY DEF StorageWrite
<1>2. /\ UNCHANGED <<kind, pool, srcObj, inObj, outObj, sinkObj, src, read,
                     stage, cur, sink, got, drained>>
  BY DEF StorageWrite, vars, srcVars, stgVars, sinkVars
<1>3. /\ o \in Objects /\ heap[o] \in Contents
      /\ FieldsOf(kind, heap[o], heap[o].rec, Normalizers # {})
  BY <1>1 DEF HeapTypeOK, RightFields
<1>4. /\ o # srcObj /\ \A i \in Stages : o # inObj[i] /\ o # outObj[i]
      /\ \A t \in Sinks : o # sinkObj[t] /\ (t # s => o \notin handed[t])
  BY <1>1, <1>3 DEF OneHolder, Single
<1>5. PICK d, e : d = heap[o].day /\ e = heap[o].doc
  OBVIOUS
<1>6. /\ d \in 0 .. MaxRead /\ e \in 0 .. MaxRead /\ d \in {0, e}
      /\ kind = "rabbitmq" => d = e
  BY <1>3, <1>5 DEF FieldsOf, Contents
<1>7. /\ handed'[s] = handed[s] \ {o}
      /\ \A t \in Sinks : t # s => handed'[t] = handed[t]
      /\ written'[s] = written[s] \cup {<<d, e>>}
      /\ \A t \in Sinks : t # s => written'[t] = written[t]
      /\ heap'[o] = Zero /\ \A x \in Objects \ {o} : heap'[x] = heap[x]
  BY <1>1, <1>3, <1>5 DEF HeapTypeOK
<1>8. HeapTypeOK'
  <2>1. Zero \in Contents
    BY ParamAssumption DEF Zero, Contents
  <2>2. heap' \in [Objects -> Contents] /\ handed' \in [Sinks -> SUBSET Objects]
    BY <1>1, <2>1 DEF HeapTypeOK
  <2>3. <<d, e>> \in (0 .. MaxRead) \X (0 .. MaxRead)
    BY <1>6
  <2> DEFINE Docs == (0 .. MaxRead) \X (0 .. MaxRead)
  <2>4. written' \in [Sinks -> SUBSET Docs]
    <3>1. <<d, e>> \in Docs /\ written \in [Sinks -> SUBSET Docs]
      BY <2>3 DEF HeapTypeOK
    <3> HIDE DEF Docs
    <3> QED BY <1>1, <1>5, <3>1
  <2> QED BY <1>2, <2>2, <2>4 DEF HeapTypeOK
<1>9. Held'
  BY <1>2 DEF Held
<1>10. OneHolder'
  <2> SUFFICES ASSUME NEW x \in Objects PROVE Single(x)'
    BY DEF OneHolder
  <2> QED BY <1>2, <1>7, LessSingle DEF Less, OneHolder
<1>11. FreeIsClear'
  <2>1. ASSUME NEW x \in Objects, x # o PROVE Free(x)' <=> Free(x)
    BY <1>2, <1>7, <2>1 DEF Free
  <2>2. ~Free(o)
    BY <1>1 DEF Free
  <2> QED BY <1>2, <1>7, <2>1, <2>2 DEF FreeIsClear, HeapTypeOK
<1>12. ASSUME NEW t \in Sinks
       PROVE  \A x \in handed'[t] : x \in handed[t] /\ heap'[x] = heap[x]
  BY <1>4, <1>7 DEF HeapTypeOK
<1>13. RightFields'
  <2>1. srcObj # None => heap'[srcObj] = heap[srcObj]
    BY <1>4, <1>7 DEF HeapTypeOK, Refs
  <2>2. ASSUME NEW j \in Stages
        PROVE  /\ inObj[j] # None => heap'[inObj[j]] = heap[inObj[j]]
               /\ outObj[j] # None => heap'[outObj[j]] = heap[outObj[j]]
    BY <1>4, <1>7 DEF HeapTypeOK, Refs
  <2>3. ASSUME NEW t \in Sinks, sinkObj[t] # None
        PROVE  heap'[sinkObj[t]] = heap[sinkObj[t]]
    BY <1>4, <1>7, <2>3 DEF HeapTypeOK, Refs
  <2>4. (srcObj # None => FieldsOf(kind, heap[srcObj], read, FALSE))'
    BY <1>2, <2>1 DEF RightFields
  <2>5. ASSUME NEW j \in Stages
        PROVE  /\ inObj'[j] # None =>
                    FieldsOf(kind, heap'[inObj'[j]], cur[j], NormalizedAt(j - 1))
               /\ outObj'[j] # None =>
                    FieldsOf(kind, heap'[outObj'[j]], cur[j], NormalizedAt(j))
    BY <1>2, <2>2 DEF RightFields
  <2>6. ASSUME NEW t \in Sinks
        PROVE  /\ sinkObj'[t] # None =>
                    FieldsOf(kind, heap'[sinkObj'[t]], got[t], Normalizers # {})
               /\ \A x \in handed'[t] :
                    FieldsOf(kind, heap'[x], heap'[x].rec, Normalizers # {})
    BY <1>2, <1>12, <2>3 DEF RightFields
  <2> QED BY <1>2, <2>4, <2>5, <2>6 DEF RightFields, NormalizedAt
<1>14. StorageGets'
  <2> SUFFICES ASSUME NEW t \in Sinks, Normalizers # {}
               PROVE  drained[t] = {w[2] : w \in written'[t]}
                                     \cup {heap'[x].doc : x \in handed'[t]}
    BY <1>2 DEF StorageGets
  <2>1. drained[t] = {w[2] : w \in written[t]} \cup {heap[x].doc : x \in handed[t]}
    BY DEF StorageGets
  <2>2. {heap'[x].doc : x \in handed'[t]} = {heap[x].doc : x \in handed'[t]}
    BY <1>12
  <2>3. CASE t = s
    <3>1. {w[2] : w \in written'[s]} = {w[2] : w \in written[s]} \cup {e}
      <4>1. PICK m : m = <<d, e>>
        OBVIOUS
      <4>2. m[2] = e /\ written'[s] = written[s] \cup {m}
        BY <1>7, <4>1
      <4> QED BY <4>2
    <3>2. {heap[x].doc : x \in handed[s]}
            = {heap[x].doc : x \in handed'[s]} \cup {e}
      BY <1>1, <1>5, <1>7
    <3> QED BY <2>1, <2>2, <2>3, <3>1, <3>2
  <2>4. CASE t # s
    BY <1>7, <2>1, <2>2, <2>4
  <2> QED BY <2>3, <2>4
<1>15. OneRecord'
  <2> SUFFICES ASSUME NEW t \in Sinks, NEW w \in written'[t]
               PROVE  w[1] \in {0, w[2]}
    BY DEF OneRecord
  <2>1. CASE w \in written[t]
    BY <2>1 DEF OneRecord
  <2>2. CASE w = <<d, e>>
    BY <1>6, <2>2
  <2> QED BY <1>7, <2>1, <2>2
<1>16. RabbitDay'
  <2> SUFFICES ASSUME kind = "rabbitmq", NEW t \in Sinks, NEW w \in written'[t]
               PROVE  w[1] = w[2]
    BY <1>2 DEF RabbitDay
  <2>1. CASE w \in written[t]
    BY <2>1 DEF RabbitDay
  <2>2. CASE w = <<d, e>>
    BY <1>6, <2>2
  <2> QED BY <1>7, <2>1, <2>2
<1> QED BY <1>8, <1>9, <1>10, <1>11, <1>13, <1>14, <1>15, <1>16

LEMMA HeapInitially == PayloadInit => HeapInv
<1> SUFFICES ASSUME PayloadInit PROVE HeapInv
  OBVIOUS
<1> USE ParamAssumption, HeapAssumption DEF PayloadInit, Init, HeapInit
<1>1. Zero \in Contents
  BY DEF Zero, Contents
<1>2. HeapTypeOK /\ Held
  BY <1>1 DEF HeapTypeOK, Held, Refs
<1>3. OneHolder /\ FreeIsClear
  BY DEF OneHolder, Single, FreeIsClear, Free
<1>4. RightFields
  BY DEF RightFields
<1>5. StorageGets /\ OneRecord /\ RabbitDay
  BY DEF StorageGets, OneRecord, RabbitDay
<1> QED BY <1>2, <1>3, <1>4, <1>5 DEF HeapInv

LEMMA HeapStep ==
  DataOK /\ SetsOK /\ HeapInv /\ [PayloadNext]_<<vars, heapVars>> => HeapInv'
<1> SUFFICES ASSUME DataOK, SetsOK, HeapInv, [PayloadNext]_<<vars, heapVars>>
             PROVE  HeapInv'
  OBVIOUS
<1>1. CASE UNCHANGED <<vars, heapVars>>
  <2> USE <1>1 DEF vars, srcVars, stgVars, sinkVars, heapVars, refVars, HeapInv
  <2>1. HeapTypeOK' /\ Held'
    BY DEF HeapTypeOK, Held
  <2>2. OneHolder' /\ FreeIsClear'
    BY DEF OneHolder, Single, FreeIsClear, Free
  <2>3. RightFields'
    BY DEF RightFields, NormalizedAt
  <2>4. StorageGets' /\ OneRecord' /\ RabbitDay'
    BY DEF StorageGets, OneRecord, RabbitDay
  <2> QED BY <2>1, <2>2, <2>3, <2>4
<1> QED BY <1>1, SourceNextHeap, SourceSendHeap, StageProcessHeap,
           StageForwardHeap, StageStopHeap, StageBroadcastHeap, SinkDrainHeap,
           StorageWriteHeap, OtherHeap DEF PayloadNext

\* The inductive invariant: who holds an object is the only one, and it has
\* the fields of the payload Pipeline says its holder has.
THEOREM HeapInductive == PayloadSpec => []HeapInv
<1>1. TypeOK => DataOK /\ SetsOK
  BY DEF TypeOK
<1> QED BY <1>1, HeapInitially, HeapStep, ImplementsPipeline, TypeCorrect, PTL
        DEF PayloadSpec

(***************************************************************************)
(* What follows from it.                                                   *)
(***************************************************************************)

\* Holders counts what OneHolder says in pairs.
LEMMA SingleHolder ==
  ASSUME HeapInv
  PROVE  Exclusive
<1> USE DEF HeapInv
<1> SUFFICES ASSUME NEW o \in Objects
             PROVE  /\ Cardinality(Holders(o)) <= 1
                    /\ o \in pool => Holders(o) = {}
  BY DEF Exclusive
<1>1. o # None
  BY HeapAssumption
<1>2. Free(o) => Holders(o) = {}
  BY DEF Free, Holders
<1>3. ASSUME NEW g \in Holders(o), NEW h \in Holders(o) PROVE g = h
  BY DEF Holders, OneHolder, Single
<1>4. CASE Holders(o) = {}
  BY <1>4, FS_EmptySet
<1>5. CASE Holders(o) # {}
  <2>1. PICK g \in Holders(o) : TRUE
    BY <1>5
  <2>2. Holders(o) = {g}
    BY <1>3, <2>1
  <2>3. Cardinality({g}) = 1
    BY FS_Singleton
  <2>4. o \notin pool
    BY <1>2, <1>5 DEF FreeIsClear
  <2> QED BY <2>2, <2>3, <2>4
<1> QED BY <1>4, <1>5, <1>2 DEF FreeIsClear

\* Every variable of the objects keeps its type.
THEOREM HeapTypeCorrect == PayloadSpec => []HeapTypeOK
  BY HeapInductive, PTL DEF HeapInv

\* Each object belongs to at most one goroutine or storage, and the pool
\* recycles none that somebody still reads.
THEOREM NoSharing == PayloadSpec => []Exclusive
  BY HeapInductive, SingleHolder, PTL

\* What a storage accepted is what its workers hold or have read, however
\* often the pool recycles objects.
THEOREM RightDocuments == PayloadSpec => []StorageGets
  BY HeapInductive, PTL DEF HeapInv

\* No document goes to the day of another record.
THEOREM NoMixedDay == PayloadSpec => []OneRecord
  BY HeapInductive, PTL DEF HeapInv

\* A RabbitMQ document goes to the day of its own record.
THEOREM RabbitDayRight == PayloadSpec => []RabbitDay
  BY HeapInductive, PTL DEF HeapInv

=============================================================================
