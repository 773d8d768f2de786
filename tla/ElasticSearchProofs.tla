------------------------ MODULE ElasticSearchProofs ------------------------
(***************************************************************************)
(* Proofs about ElasticSearch, for any pool, any batch size, any sequence  *)
(* of payloads and any faults: concurrent writers keep the buffer a        *)
(* sequence of complete documents, and no document disappears before a     *)
(* retry starts with a partly read reader.                                 *)
(***************************************************************************)
EXTENDS ElasticSearch, TLAPS

-----------------------------------------------------------------------------
(* The buffer as a sequence.                                               *)

\* Payloads are numbered from one, and each has an index.
LEMMA DocFacts == /\ \A m \in Docs : m \in Nat \ {0} /\ IndexOf[m] \in Indexes
                  /\ 0 \notin Docs
BY ParamAssumption DEF Docs, Indexes

\* Appending a line keeps the others, and adds its document.
LEMMA AppendLine ==
  ASSUME NEW lines \in Seq(Lines), NEW k \in {"meta", "data"}, NEW m \in Docs
  PROVE  LET more == Append(lines, <<k, m>>) IN
         /\ more \in Seq(Lines) /\ Len(more) = Len(lines) + 1
         /\ \A i \in 1 .. Len(lines) : more[i] = lines[i]
         /\ more[Len(lines) + 1] = <<k, m>>
         /\ DocsOf(more) = DocsOf(lines) \cup {m}
<1> DEFINE more == Append(lines, <<k, m>>)
<1>1. <<k, m>> \in Lines  BY DEF Lines
<1>2. more \in Seq(Lines) /\ Len(more) = Len(lines) + 1  BY <1>1
<1>3. \A i \in 1 .. Len(lines) : more[i] = lines[i]  BY <1>1
<1>4. more[Len(lines) + 1] = <<k, m>>  BY <1>1
<1>5. DOMAIN lines = 1 .. Len(lines) /\ DOMAIN more = 1 .. (Len(lines) + 1)
  BY <1>2
<1>6. DocsOf(more) \subseteq DocsOf(lines) \cup {m}
  <2> SUFFICES ASSUME NEW i \in DOMAIN more
               PROVE  more[i][2] \in DocsOf(lines) \cup {m}
    BY DEF DocsOf
  <2>1. CASE i = Len(lines) + 1  BY <2>1, <1>4
  <2>2. CASE i \in 1 .. Len(lines)  BY <2>2, <1>3, <1>5 DEF DocsOf
  <2> QED  BY <2>1, <2>2, <1>5
<1>7. DocsOf(lines) \subseteq DocsOf(more)
  <2> SUFFICES ASSUME NEW i \in DOMAIN lines
               PROVE  lines[i][2] \in DocsOf(more)
    BY DEF DocsOf
  <2> QED  BY <1>3, <1>5 DEF DocsOf
<1>8. m \in DocsOf(more)
  <2>1. Len(lines) + 1 \in DOMAIN more  BY <1>5
  <2> QED  BY <2>1, <1>4 DEF DocsOf
<1> QED  BY <1>2, <1>3, <1>4, <1>6, <1>7, <1>8

\* The documents of the buffer and of the request are payloads.
LEMMA LinesDocs ==
  ASSUME NEW lines \in Seq(Lines)
  PROVE  DocsOf(lines) \subseteq Docs
BY DEF DocsOf, Lines

LEMMA BodyDocs ==
  ASSUME buf \in Seq(Lines), pos \in Nat
  PROVE  DocsOf(Body) \subseteq Docs
<1>1. Body \in Seq(Lines)  BY DEF Body
<1> QED  BY <1>1, LinesDocs

\* A reader at the start of the buffer gives all of it.
LEMMA BodyFull ==
  ASSUME buf \in Seq(Lines), pos = 0
  PROVE  Body = buf
BY DEF Body

-----------------------------------------------------------------------------
(* What a step of bulkWrite does.                                          *)

\* A failed attempt goes on, or keeps the buffer; an answer ends the call.
\* Nothing that was stored or refused is forgotten.
LEMMA BulkStep ==
  ASSUME NEW w \in Workers, TypeOK, HeldDocs, Answer(w) \/ Fail(w)
  PROVE  /\ pc[w] = "bulk" /\ UNCHANGED <<handed, doc, maxRetries>>
         /\ stored \subseteq stored' /\ refused \subseteq refused'
         /\ pos' \in Nat /\ retry' \in Nat
         /\ stored' \subseteq Docs \X Indexes /\ refused' \subseteq Docs
         /\ torn' \in BOOLEAN /\ crashed' \in BOOLEAN
         /\ \/ UNCHANGED <<pc, mu, count, buf>>
            \/ KeepBuffer(w)
            \/ ResetBuffer(w)
<1> USE DEF TypeOK, NumbersOK, DocumentsOK
<1>1. DocsOf(Body) \subseteq Docs  BY BodyDocs
<1>2. pc[w] = "bulk"
  BY DEF Answer, Fail, BulkAnswered, BulkRejected, BulkUndecodable,
         BulkNotSent, BulkBroken, BulkPanics
<1>3. doc[w] \in Docs /\ IndexOf[doc[w]] \in Indexes
  BY <1>2, DocFacts DEF HeldDocs
<1>4. \A ms \in SUBSET Docs : Indexed(w, ms) \subseteq Docs \X Indexes
  BY <1>3 DEF Indexed
<1>5. Len(buf) \in Nat  OBVIOUS
<1>12. ASSUME RetryOrFail(w)
       PROVE  /\ torn' \in BOOLEAN /\ retry' \in Nat
              /\ UNCHANGED <<pc, mu, count, buf>> \/ KeepBuffer(w)
  <2>1. torn' = torn \/ torn' = (torn \/ pos' # 0)
    BY <1>12, Zenon DEF RetryOrFail
  <2>2. torn' \in BOOLEAN  BY <2>1, Zenon
  <2>3. retry' \in Nat  BY <1>12 DEF RetryOrFail
  <2>4. UNCHANGED <<pc, mu, count, buf>> \/ KeepBuffer(w)
    BY <1>12 DEF RetryOrFail
  <2> QED  BY <2>2, <2>3, <2>4
<1>6. CASE BulkNotSent(w)
  <2>1. RetryOrFail(w)  BY <1>6 DEF BulkNotSent
  <2> QED  BY <1>2, <1>6, <1>12, <2>1 DEF BulkNotSent
<1>7. CASE BulkBroken(w)
  <2>1. pos' \in Nat  BY <1>5, <1>7 DEF BulkBroken
  <2>2. stored' \subseteq Docs \X Indexes /\ stored \subseteq stored'
    BY <1>1, <1>4, <1>7 DEF BulkBroken
  <2>3. RetryOrFail(w)  BY <1>7 DEF BulkBroken
  <2> QED  BY <1>2, <1>7, <1>12, <2>1, <2>2, <2>3 DEF BulkBroken
<1>8. CASE BulkAnswered(w)
  BY <1>1, <1>2, <1>4, <1>8 DEF BulkAnswered, bulkVars
<1>9. CASE BulkRejected(w)
  BY <1>1, <1>2, <1>9 DEF BulkRejected, bulkVars
<1>10. CASE BulkUndecodable(w)
  BY <1>1, <1>2, <1>4, <1>10 DEF BulkUndecodable, bulkVars
<1>11. CASE BulkPanics(w)
  BY <1>2, <1>11 DEF BulkPanics, bulkVars, outVars
<1> QED  BY <1>6, <1>7, <1>8, <1>9, <1>10, <1>11 DEF Answer, Fail

\* The steps, one by one; those of bulkWrite count as one.
LEMMA NextCases ==
  ASSUME Next
  PROVE  \E w \in Workers :
           \/ Drain(w) \/ Refuse(w) \/ Lock(w) \/ WriteMeta(w) \/ WriteData(w)
           \/ Answer(w) \/ Fail(w)
BY DEF Next, Write

-----------------------------------------------------------------------------
(* The parts of the invariant, step by step.                               *)

LEMMA TypeStep ==
  ASSUME TypeOK, HeldDocs, [Next]_vars
  PROVE  TypeOK'
<1>1. CASE UNCHANGED vars  BY <1>1 DEF vars, bulkVars, outVars,
           TypeOK, NumbersOK, WorkersOK, DocumentsOK, PCs
<1>2. ASSUME NEW w \in Workers, Drain(w)
      PROVE  TypeOK'
  BY <1>2 DEF Drain, Goto, bulkVars, outVars,
           TypeOK, NumbersOK, WorkersOK, DocumentsOK, PCs
<1>3. ASSUME NEW w \in Workers, Refuse(w)
      PROVE  TypeOK'
  BY <1>3 DEF Refuse, Goto, bulkVars, HeldDocs,
           TypeOK, NumbersOK, WorkersOK, DocumentsOK, PCs
<1>4. ASSUME NEW w \in Workers, Lock(w)
      PROVE  TypeOK'
  BY <1>4 DEF Lock, Goto, bulkVars, outVars,
           TypeOK, NumbersOK, WorkersOK, DocumentsOK, PCs
<1>5. ASSUME NEW w \in Workers, WriteMeta(w)
      PROVE  TypeOK'
  <2>1. doc[w] \in Docs  BY <1>5 DEF WriteMeta, HeldDocs
  <2>2. buf' \in Seq(Lines)  BY <1>5, <2>1, AppendLine
    DEF WriteMeta, TypeOK, DocumentsOK
  <2> QED  BY <1>5, <2>2 DEF WriteMeta, Goto, bulkVars, outVars,
           TypeOK, NumbersOK, WorkersOK, DocumentsOK, PCs
<1>6. ASSUME NEW w \in Workers, WriteData(w)
      PROVE  TypeOK'
  <2>1. doc[w] \in Docs  BY <1>6 DEF WriteData, HeldDocs
  <2>2. buf' \in Seq(Lines)  BY <1>6, <2>1, AppendLine
    DEF WriteData, TypeOK, DocumentsOK
  <2> QED  BY <1>6, <2>2 DEF WriteData, Goto, bulkVars, outVars,
           TypeOK, NumbersOK, WorkersOK, DocumentsOK, PCs
<1>7. ASSUME NEW w \in Workers, Answer(w) \/ Fail(w)
      PROVE  TypeOK'
  <2>1. /\ UNCHANGED <<handed, doc, maxRetries>>
        /\ pos' \in Nat /\ retry' \in Nat
        /\ stored' \subseteq Docs \X Indexes /\ refused' \subseteq Docs
    BY <1>7, BulkStep
  <2>2. torn' \in BOOLEAN /\ crashed' \in BOOLEAN  BY <1>7, BulkStep
  <2>3. \/ UNCHANGED <<pc, mu, count, buf>>
        \/ Goto(w, "idle") /\ mu' = Free /\ UNCHANGED <<count, buf>>
        \/ Goto(w, "idle") /\ mu' = Free /\ count' = 0 /\ buf' = <<>>
    BY <1>7, BulkStep DEF KeepBuffer, ResetBuffer
  <2>4. buf' \in Seq(Lines) /\ count' \in Nat
    <3>1. buf' = buf \/ buf' = <<>>  BY <2>3
    <3>2. count' = count \/ count' = 0  BY <2>3
    <3>3. <<>> \in Seq(Lines)  OBVIOUS
    <3>4. buf \in Seq(Lines) /\ count \in Nat
      BY DEF TypeOK, NumbersOK, DocumentsOK
    <3>5. buf' \in Seq(Lines)  BY <3>1, <3>3, <3>4, Zenon
    <3>6. count' \in Nat  BY <3>2, <3>4
    <3> QED  BY <3>5, <3>6
  <2>5. WorkersOK'  BY <2>1, <2>3 DEF TypeOK, WorkersOK, PCs, Goto
  <2> QED  BY <2>1, <2>2, <2>4, <2>5 DEF TypeOK, NumbersOK, DocumentsOK
<1> QED  BY <1>1, <1>2, <1>3, <1>4, <1>5, <1>6, <1>7, NextCases

\* Only the worker that acts changes its place, and it takes the mutex only
\* when it is free.
LEMMA OwnerStep ==
  ASSUME TypeOK, MutexOwner, HeldDocs, [Next]_vars
  PROVE  MutexOwner' /\ HeldDocs'
<1> USE DEF WorkersOK, PCs, MutexOwner, Holding, HeldDocs
<1>0. WorkersOK /\ Free \notin Workers  BY ParamAssumption DEF TypeOK
<1>1. CASE UNCHANGED vars  BY <1>1 DEF vars
<1>2. ASSUME NEW w \in Workers, Drain(w)
      PROVE  MutexOwner' /\ HeldDocs'
  BY <1>0, <1>2 DEF Drain, Goto
<1>3. ASSUME NEW w \in Workers, Refuse(w)
      PROVE  MutexOwner' /\ HeldDocs'
  BY <1>0, <1>3 DEF Refuse, Goto
<1>4. ASSUME NEW w \in Workers, Lock(w)
      PROVE  MutexOwner' /\ HeldDocs'
  BY <1>0, <1>4 DEF Lock, Goto
<1>5. ASSUME NEW w \in Workers, WriteMeta(w)
      PROVE  MutexOwner' /\ HeldDocs'
  BY <1>0, <1>5 DEF WriteMeta, Goto
<1>6. ASSUME NEW w \in Workers, WriteData(w)
      PROVE  MutexOwner' /\ HeldDocs'
  BY <1>0, <1>6 DEF WriteData, Goto
<1>7. ASSUME NEW w \in Workers, Answer(w) \/ Fail(w)
      PROVE  MutexOwner' /\ HeldDocs'
  BY <1>0, <1>7, BulkStep DEF KeepBuffer, ResetBuffer, Goto
<1> QED  BY <1>1, <1>2, <1>3, <1>4, <1>5, <1>6, <1>7, NextCases

\* The worker between Lock and Unlock is the only one there.
LEMMA Holder ==
  ASSUME TypeOK, MutexOwner, NEW w \in Workers
  PROVE  /\ Holding(w) => mu = w /\ mu # Free
         /\ \A v \in Workers \ {w} : Holding(w) => ~Holding(v)
         /\ mu = Free => ~Holding(w)
BY ParamAssumption DEF MutexOwner

LEMMA ShapeStep ==
  ASSUME TypeOK, MutexOwner, HeldDocs, BufferShape, [Next]_vars
  PROVE  BufferShape'
<1> USE DEF PCs, Holding
<1>0. /\ pc \in [Workers -> PCs] /\ doc \in [Workers -> Docs \cup {0}]
      /\ mu \in Workers \cup {Free} /\ Free \notin Workers
      /\ count \in Nat /\ buf \in Seq(Lines) /\ Len(buf) \in Nat
  BY ParamAssumption DEF TypeOK, NumbersOK, WorkersOK, DocumentsOK
<1>1. CASE UNCHANGED vars
  BY <1>1 DEF vars, BufferShape, Complete, Started, Documents, DocsOf
<1>2. ASSUME NEW w \in Workers, ~Holding(w), ~Holding(w)',
             \A v \in Workers \ {w} : pc'[v] = pc[v] /\ doc'[v] = doc[v],
             UNCHANGED <<mu, count, buf>>
      PROVE  BufferShape'
  <2>1. mu # w  BY <1>2 DEF MutexOwner
  <2>2. Complete' = Complete /\ Started' = Started
    BY <1>0, <1>2, <2>1 DEF Complete, Started
  <2>3. Documents(Complete)' = Documents(Complete)
    BY <1>2, <2>2 DEF Documents
  <2>4. ASSUME NEW v \in Workers
        PROVE  /\ pc'[v] = "data" => buf'[Len(buf')] = <<"meta", doc'[v]>>
               /\ pc'[v] = "bulk" => doc'[v] \in DocsOf(buf') /\ count' # 0
    BY <1>2, <2>4 DEF BufferShape
  <2> QED  BY <1>2, <2>2, <2>3, <2>4 DEF BufferShape
<1>3. ASSUME NEW w \in Workers, Drain(w)
      PROVE  BufferShape'
  BY <1>0, <1>2, <1>3 DEF Drain, Goto
<1>4. ASSUME NEW w \in Workers, Refuse(w)
      PROVE  BufferShape'
  BY <1>0, <1>2, <1>4 DEF Refuse, Goto
<1>5. ASSUME NEW w \in Workers, Lock(w)
      PROVE  BufferShape'
  <2>1. \A v \in Workers : ~Holding(v)  BY <1>5, Holder DEF Lock
  <2>2. mu' # Free /\ pc'[mu'] = "meta"  BY <1>0, <1>5 DEF Lock, Goto
  <2>3. Complete' = count /\ Started' = 0
    BY <1>0, <1>5, <2>2 DEF Lock, Complete, Started
  <2>4. Complete = count /\ Started = 0  BY <1>5 DEF Lock, Complete, Started
  <2>5. Documents(Complete)'
    BY <1>5, <2>3, <2>4 DEF Lock, Documents, BufferShape
  <2>6. \A v \in Workers : pc'[v] \notin {"data", "bulk"}
    BY <1>0, <1>5, <2>1 DEF Lock, Goto
  <2> QED  BY <1>0, <1>5, <2>3, <2>4, <2>5, <2>6 DEF BufferShape, Lock
<1>6. ASSUME NEW w \in Workers, WriteMeta(w)
      PROVE  BufferShape'
  <2>1. /\ mu = w /\ mu # Free /\ mu' = mu
        /\ \A v \in Workers \ {w} : ~Holding(v)
    BY <1>6, Holder DEF WriteMeta
  <2>2. pc'[w] = "data" /\ \A v \in Workers \ {w} : pc'[v] = pc[v]
    BY <1>0, <1>6 DEF WriteMeta, Goto
  <2>3. Complete = count - 1 /\ Started = 0
    BY <1>6, <2>1 DEF WriteMeta, Complete, Started
  <2>4. Complete' = Complete /\ Started' = 1
    BY <1>6, <2>1, <2>2, <2>3 DEF WriteMeta, Complete, Started
  <2>5. doc[w] \in Docs  BY <1>6 DEF WriteMeta, HeldDocs
  <2>6. /\ Len(buf') = Len(buf) + 1 /\ buf'[Len(buf) + 1] = <<"meta", doc[w]>>
        /\ \A i \in 1 .. Len(buf) : buf'[i] = buf[i]
    BY <1>0, <1>6, <2>5, AppendLine DEF WriteMeta
  <2>7. Complete \in Nat /\ Len(buf) = 2 * Complete
    BY <2>3 DEF BufferShape
  <2>8. Documents(Complete)'
    BY <2>4, <2>6, <2>7 DEF Documents, BufferShape
  <2>9. ASSUME NEW v \in Workers
        PROVE  /\ pc'[v] = "data" => buf'[Len(buf')] = <<"meta", doc'[v]>>
               /\ pc'[v] # "bulk"
    BY <1>6, <2>1, <2>2, <2>6 DEF WriteMeta
  <2> QED  BY <2>4, <2>6, <2>7, <2>8, <2>9 DEF BufferShape
<1>7. ASSUME NEW w \in Workers, WriteData(w)
      PROVE  BufferShape'
  <2>1. mu = w /\ mu # Free /\ \A v \in Workers \ {w} : ~Holding(v)
    BY <1>7, Holder DEF WriteData
  <2>2. \/ pc'[w] = "bulk" /\ mu' = mu /\ count >= Batch
        \/ pc'[w] = "idle" /\ mu' = Free
    BY <1>0, <1>7 DEF WriteData, Goto
  <2>3. \A v \in Workers \ {w} : pc'[v] = pc[v]
    BY <1>0, <1>7 DEF WriteData, Goto
  <2>4. Complete = count - 1 /\ Started = 1
    BY <1>7, <2>1 DEF WriteData, Complete, Started
  <2>5. Complete' = count /\ Started' = 0 /\ count' = count
    BY <1>7, <2>1, <2>2 DEF WriteData, Complete, Started
  <2>6. doc[w] \in Docs  BY <1>7 DEF WriteData, HeldDocs
  <2>7. /\ Len(buf') = Len(buf) + 1 /\ buf'[Len(buf) + 1] = <<"data", doc[w]>>
        /\ \A i \in 1 .. Len(buf) : buf'[i] = buf[i]
        /\ doc[w] \in DocsOf(buf')
    BY <1>0, <1>7, <2>6, AppendLine DEF WriteData
  <2>8. Complete \in Nat /\ Len(buf) = 2 * Complete + 1
    BY <2>4 DEF BufferShape
  <2>9. buf[Len(buf)] = <<"meta", doc[w]>>
    BY <1>7 DEF WriteData, BufferShape
  <2>10. Documents(Complete)'
    <3> SUFFICES ASSUME NEW i \in 1 .. count
                 PROVE  \E m \in Docs : /\ buf'[2 * i - 1] = <<"meta", m>>
                                        /\ buf'[2 * i] = <<"data", m>>
      BY <2>5 DEF Documents
    <3>1. CASE i = count
      <4>1. 2 * i = Len(buf) + 1 /\ 2 * i - 1 = Len(buf) /\ Len(buf) >= 1
        BY <1>0, <2>4, <2>8, <3>1
      <4>2. buf'[2 * i] = <<"data", doc[w]>>  BY <2>7, <4>1
      <4>3. buf'[2 * i - 1] = <<"meta", doc[w]>>  BY <1>0, <2>7, <2>9, <4>1
      <4> QED  BY <2>6, <4>2, <4>3
    <3>2. CASE i # count
      <4>1. i \in 1 .. Complete  BY <1>0, <2>4, <3>2
      <4>2. 2 * i \in 1 .. Len(buf) /\ 2 * i - 1 \in 1 .. Len(buf)
        BY <2>8, <4>1
      <4>3. PICK m \in Docs : /\ buf[2 * i - 1] = <<"meta", m>>
                              /\ buf[2 * i] = <<"data", m>>
        BY <4>1 DEF BufferShape, Documents
      <4> QED  BY <2>7, <4>2, <4>3
    <3> QED  BY <3>1, <3>2
  <2>11. ASSUME NEW v \in Workers
         PROVE  /\ pc'[v] # "data"
                /\ pc'[v] = "bulk" => doc'[v] \in DocsOf(buf') /\ count' # 0
    BY <1>0, <1>7, <2>1, <2>2, <2>3, <2>5, <2>7, ParamAssumption DEF WriteData
  <2> QED  BY <1>0, <2>4, <2>5, <2>7, <2>8, <2>10, <2>11 DEF BufferShape
<1>8. ASSUME NEW w \in Workers, Answer(w) \/ Fail(w)
      PROVE  BufferShape'
  <2>1. pc[w] = "bulk" /\ doc' = doc  BY <1>8, BulkStep
  <2>2. mu = w /\ mu # Free /\ \A v \in Workers \ {w} : ~Holding(v)
    BY <2>1, Holder
  <2>3. Complete = count /\ Started = 0
    BY <2>1, <2>2 DEF Complete, Started
  <2>4. CASE UNCHANGED <<pc, mu, count, buf>>
    BY <2>1, <2>4 DEF BufferShape, Complete, Started, Documents, DocsOf
  <2>5. CASE KeepBuffer(w)
    <3>1. \A v \in Workers : ~Holding(v)'
      BY <1>0, <2>2, <2>5 DEF KeepBuffer, Goto
    <3>2. Complete' = count /\ Started' = 0
      BY <2>5 DEF KeepBuffer, Complete, Started
    <3> QED  BY <2>3, <2>5, <3>1, <3>2 DEF KeepBuffer, BufferShape, Documents
  <2>6. CASE ResetBuffer(w)
    <3>1. \A v \in Workers : ~Holding(v)'
      BY <1>0, <2>2, <2>6 DEF ResetBuffer, Goto
    <3>2. Complete' = 0 /\ Started' = 0 /\ Len(buf') = 0
      BY <2>6 DEF ResetBuffer, Complete, Started
    <3> QED  BY <3>1, <3>2 DEF BufferShape, Documents
  <2> QED  BY <1>8, <2>4, <2>5, <2>6, BulkStep
<1> QED
  BY <1>1, <1>3, <1>4, <1>5, <1>6, <1>7, <1>8, NextCases

\* A reader is made for each bulk write, and a retry with one that is partly
\* read is what torn remembers.
LEMMA ReaderStep ==
  ASSUME TypeOK, MutexOwner, HeldDocs, ReaderWhole, [Next]_vars
  PROVE  ReaderWhole'
<1> SUFFICES ASSUME ~torn', NEW v \in Workers, pc'[v] = "bulk"
             PROVE  pos' = 0
  BY DEF ReaderWhole
<1>0. pc \in [Workers -> PCs]  BY DEF TypeOK, WorkersOK
<1>1. ASSUME ~torn, pc[v] = "bulk"
      PROVE  pos = 0
  BY <1>1 DEF ReaderWhole
<1>2. CASE UNCHANGED vars  BY <1>1, <1>2 DEF vars, bulkVars, outVars
<1>3. ASSUME NEW w \in Workers,
             Drain(w) \/ Refuse(w) \/ Lock(w) \/ WriteMeta(w)
      PROVE  pos' = 0
  <2>1. pos' = pos /\ torn' = torn
    BY <1>3 DEF Drain, Refuse, Lock, WriteMeta, bulkVars, outVars
  <2>2. pc[v] = "bulk"
    BY <1>0, <1>3 DEF Drain, Refuse, Lock, WriteMeta, Goto
  <2> QED  BY <1>1, <2>1, <2>2
<1>4. ASSUME NEW w \in Workers, WriteData(w)
      PROVE  pos' = 0
  <2>1. ~Holding(v) \/ v = w
    BY <1>4, Holder DEF WriteData, Holding
  <2>2. v = w  BY <1>0, <1>4, <2>1 DEF WriteData, Goto, Holding
  <2> QED  BY <1>0, <1>4, <2>2 DEF WriteData, Goto
<1>5. ASSUME NEW w \in Workers, Answer(w) \/ Fail(w)
      PROVE  pos' = 0
  <2>1. pc[w] = "bulk"  BY <1>5, BulkStep
  <2>2. ~Holding(v) \/ v = w  BY <2>1, Holder DEF Holding
  <2>3. \A u \in Workers \ {w} : pc'[u] = pc[u]
    BY <1>0, <1>5, BulkStep DEF KeepBuffer, ResetBuffer, Goto
  <2>4. v = w  BY <2>2, <2>3 DEF Holding
  <2>5. ~Answer(w)
    BY <1>0, <2>4 DEF Answer, BulkAnswered, BulkRejected, BulkUndecodable,
       KeepBuffer, ResetBuffer, Goto
  <2>6. CASE BulkPanics(w)
    BY <1>1, <2>1, <2>4, <2>6 DEF BulkPanics, bulkVars, outVars
  <2>7. ASSUME RetryOrFail(w)
        PROVE  ~torn /\ ~(pos' # 0)
    <3>1. ~KeepBuffer(w)  BY <1>0, <2>4 DEF KeepBuffer, Goto
    <3>2. torn' = (torn \/ pos' # 0)  BY <2>7, <3>1, Zenon DEF RetryOrFail
    <3> QED  BY <3>2, Zenon
  <2>8. CASE BulkNotSent(w)  BY <2>7, <2>8 DEF BulkNotSent
  <2>9. CASE BulkBroken(w)  BY <2>7, <2>9 DEF BulkBroken
  <2> QED  BY <1>5, <2>5, <2>6, <2>8, <2>9 DEF Fail
<1> QED  BY <1>2, <1>3, <1>4, <1>5, NextCases

\* Until a retry with a partly read reader the body of a request is all of
\* the buffer, and Elasticsearch takes it for a bulk request.
LEMMA BodyWhole ==
  ASSUME TypeOK, MutexOwner, BufferShape, ReaderWhole, ~torn,
         NEW w \in Workers, pc[w] = "bulk"
  PROVE  Body = buf /\ Acceptable /\ doc[w] \in DocsOf(buf)
<1>1. mu = w /\ mu # Free  BY Holder DEF Holding
<1>2. Complete = count /\ count # 0 /\ doc[w] \in DocsOf(buf)
  BY <1>1 DEF Complete, BufferShape
<1>3. pos = 0 /\ buf \in Seq(Lines) /\ Len(buf) \in Nat
  BY DEF ReaderWhole, TypeOK, DocumentsOK
<1>4. Body = buf  BY <1>3, BodyFull
<1>5. PICK m \in Docs : buf[1] = <<"meta", m>>
  <2>1. count \in Nat /\ Documents(count)  BY <1>2 DEF BufferShape
  <2>2. 1 \in 1 .. count  BY <1>2, <2>1
  <2> QED  BY <2>1, <2>2 DEF Documents
<1>6. Len(buf) # 0
  BY <1>2 DEF BufferShape, Started
<1>7. buf # <<>>  BY <1>6
<1> QED  BY <1>2, <1>4, <1>5, <1>7 DEF Acceptable

\* torn is never forgotten.
LEMMA TornStep ==
  ASSUME TypeOK, HeldDocs, [Next]_vars, torn
  PROVE  torn'
<1>1. CASE UNCHANGED vars  BY <1>1 DEF vars, outVars
<1>2. ASSUME NEW w \in Workers,
             Drain(w) \/ Refuse(w) \/ Lock(w) \/ WriteMeta(w) \/ WriteData(w)
      PROVE  torn'
  BY <1>2 DEF Drain, Refuse, Lock, WriteMeta, WriteData, outVars
<1>3. ASSUME NEW w \in Workers, RetryOrFail(w)
      PROVE  torn'
  BY <1>3, Zenon DEF RetryOrFail
<1>4. ASSUME NEW w \in Workers, Answer(w) \/ Fail(w)
      PROVE  torn'
  BY <1>3, <1>4 DEF Answer, Fail, BulkAnswered, BulkRejected, BulkUndecodable,
     BulkPanics, BulkNotSent, BulkBroken, outVars
<1> QED  BY <1>1, <1>2, <1>4, NextCases

\* Only the worker that acts can stop holding its payload.
LEMMA HeldStep ==
  ASSUME NEW w \in Workers, NEW m,
         \A v \in Workers \ {w} : pc'[v] = pc[v] /\ doc'[v] = doc[v],
         m \in Held
  PROVE  m \in Held' \/ (pc[w] # "idle" /\ m = doc[w])
BY DEF Held

\* A payload leaves a worker for the buffer or for refused, and the buffer
\* for what Elasticsearch has answered.
LEMMA AccountedStep ==
  ASSUME TypeOK, MutexOwner, HeldDocs, BufferShape, ReaderWhole, Accounted,
         [Next]_vars
  PROVE  Accounted'
<1> DEFINE Somewhere(m) == m \in Held \cup DocsOf(buf) \cup Stored \cup refused
<1> SUFFICES ASSUME ~torn', NEW m \in 1 .. handed'
             PROVE  Somewhere(m)'
  BY DEF Accounted, AllAccounted
<1>0. /\ pc \in [Workers -> PCs] /\ doc \in [Workers -> Docs \cup {0}]
      /\ buf \in Seq(Lines) /\ handed \in Nat
  BY DEF TypeOK, NumbersOK, WorkersOK, DocumentsOK
<1>1. ~torn  BY TornStep
<1>2. \A n \in 1 .. handed : Somewhere(n)  BY <1>1 DEF Accounted, AllAccounted
<1>3. CASE UNCHANGED vars
  <2>1. Somewhere(m)  BY <1>2, <1>3 DEF vars
  <2> QED  BY <1>3, <2>1 DEF vars, outVars, Held, Stored, DocsOf
<1>4. ASSUME NEW w \in Workers, Drain(w)
      PROVE  Somewhere(m)'
  <2>1. UNCHANGED <<buf, stored, refused>>  BY <1>4 DEF Drain, outVars
  <2>2. Stored' = Stored /\ DocsOf(buf)' = DocsOf(buf)
    BY <2>1 DEF Stored, DocsOf
  <2>3. pc[w] = "idle" /\ pc'[w] # "idle" /\ doc'[w] = handed + 1
        /\ \A v \in Workers \ {w} : pc'[v] = pc[v] /\ doc'[v] = doc[v]
    BY <1>0, <1>4, DocFacts DEF Drain, Goto
  <2>4. CASE m = handed + 1  BY <2>3, <2>4 DEF Held
  <2>5. CASE m # handed + 1
    <3>1. m \in 1 .. handed  BY <1>0, <1>4, <2>5 DEF Drain
    <3>2. Somewhere(m)  BY <1>2, <3>1
    <3>3. m \in Held => m \in Held'  BY <2>3, HeldStep
    <3> QED  BY <2>1, <2>2, <3>2, <3>3
  <2> QED  BY <2>4, <2>5
<1>5. ASSUME NEW w \in Workers, Refuse(w) \/ Lock(w) \/ WriteMeta(w)
                                \/ WriteData(w)
      PROVE  Somewhere(m)'
  <2>1. /\ handed' = handed /\ doc' = doc /\ stored' = stored
        /\ refused \subseteq refused'
        /\ \A v \in Workers \ {w} : pc'[v] = pc[v]
    BY <1>0, <1>5 DEF Refuse, Lock, WriteMeta, WriteData, Goto, outVars
  <2>2. Somewhere(m)  BY <1>2, <2>1
  <2>3. pc[w] # "idle" /\ doc[w] \in Docs
    BY <1>5 DEF Refuse, Lock, WriteMeta, WriteData, HeldDocs
  <2>4. DocsOf(buf) \subseteq DocsOf(buf)'
    <3>1. CASE Refuse(w) \/ Lock(w)  BY <3>1 DEF Refuse, Lock, DocsOf
    <3>2. CASE WriteMeta(w)
      <4>1. buf' = Append(buf, <<"meta", doc[w]>>)  BY <3>2 DEF WriteMeta
      <4> QED  BY <1>0, <2>3, <4>1, AppendLine
    <3>3. CASE WriteData(w)
      <4>1. buf' = Append(buf, <<"data", doc[w]>>)  BY <3>3 DEF WriteData
      <4> QED  BY <1>0, <2>3, <4>1, AppendLine
    <3> QED  BY <1>5, <3>1, <3>2, <3>3
  <2>5. doc[w] \in Held' \cup DocsOf(buf)' \cup refused'
    <3>1. CASE Refuse(w)  BY <3>1 DEF Refuse
    <3>2. CASE Lock(w) \/ WriteMeta(w)
      BY <1>0, <2>1, <3>2 DEF Lock, WriteMeta, Goto, Held
    <3>3. CASE WriteData(w)
      BY <1>0, <2>3, <3>3, AppendLine DEF WriteData
    <3> QED  BY <1>5, <3>1, <3>2, <3>3
  <2>6. m \in Held => m \in Held' \/ m = doc[w]  BY <2>1, HeldStep
  <2>7. Stored' = Stored  BY <2>1 DEF Stored
  <2> QED  BY <2>1, <2>2, <2>4, <2>5, <2>6, <2>7
<1>6. ASSUME NEW w \in Workers, Answer(w) \/ Fail(w)
      PROVE  Somewhere(m)'
  <2>1. /\ pc[w] = "bulk" /\ UNCHANGED <<handed, doc>>
        /\ stored \subseteq stored' /\ refused \subseteq refused'
    BY <1>6, BulkStep
  <2>2. Body = buf /\ Acceptable /\ doc[w] \in DocsOf(buf)
    BY <1>1, <2>1, BodyWhole
  <2>3. Somewhere(m)  BY <1>2, <2>1
  <2>4. Stored \subseteq Stored'  BY <2>1 DEF Stored
  <2>5. \A v \in Workers \ {w} : pc'[v] = pc[v]
    BY <1>0, <1>6, BulkStep DEF KeepBuffer, ResetBuffer, Goto
  <2>6. m \in Held => m \in Held' \/ m \in DocsOf(buf)
    BY <2>1, <2>2, <2>5, HeldStep
  <2>7. DocsOf(buf) \subseteq DocsOf(buf)' \cup Stored' \cup refused'
    <3>1. CASE UNCHANGED buf  BY <3>1 DEF DocsOf
    <3>2. CASE BulkAnswered(w)
      <4>1. PICK bad \in SUBSET DocsOf(buf) :
              /\ stored' = stored \cup Indexed(w, DocsOf(buf) \ bad)
              /\ refused' = refused \cup bad
        BY <2>2, <3>2 DEF BulkAnswered
      <4>2. \A d \in DocsOf(buf) \ bad : <<d, IndexOf[doc[w]]>> \in stored'
        BY <4>1 DEF Indexed
      <4>3. DocsOf(buf) \ bad \subseteq Stored'
        <5> SUFFICES ASSUME NEW d \in DocsOf(buf) \ bad
                     PROVE  d \in Stored'
          OBVIOUS
        <5>1. <<d, IndexOf[doc[w]]>>[1] = d  OBVIOUS
        <5> QED  BY <4>2, <5>1 DEF Stored
      <4> QED  BY <4>1, <4>3
    <3>3. CASE BulkRejected(w)  BY <2>2, <3>3 DEF BulkRejected
    <3>4. CASE Fail(w) \/ BulkUndecodable(w)
      <4>1. UNCHANGED buf
        BY <3>4 DEF Fail, BulkNotSent, BulkBroken, BulkPanics, RetryOrFail,
                    BulkUndecodable, KeepBuffer
      <4> QED  BY <3>1, <4>1
    <3> QED  BY <1>6, <3>2, <3>3, <3>4 DEF Answer
  <2> QED  BY <2>1, <2>3, <2>4, <2>6, <2>7
<1> QED  BY <1>3, <1>4, <1>5, <1>6, NextCases

-----------------------------------------------------------------------------
(* The theorems.                                                           *)

LEMMA InitInv == Init => IInv
<1> SUFFICES ASSUME Init
             PROVE  IInv
  OBVIOUS
<1>1. NumbersOK  BY ParamAssumption DEF Init, NumbersOK
<1>2. WorkersOK  BY DEF Init, WorkersOK, PCs
<1>3. <<>> \in Seq(Lines)  OBVIOUS
<1>4. DocumentsOK  BY <1>3 DEF Init, DocumentsOK
<1>5. torn \in BOOLEAN /\ crashed \in BOOLEAN  BY DEF Init
<1>6. TypeOK  BY <1>1, <1>2, <1>4, <1>5 DEF TypeOK
<1>7. MutexOwner /\ HeldDocs
  BY ParamAssumption DEF Init, MutexOwner, Holding, HeldDocs
<1>8. BufferShape
  BY DEF Init, BufferShape, Complete, Started, Documents
<1>9. ReaderWhole  BY DEF Init, ReaderWhole
<1>10. Accounted  BY DEF Init, Accounted, AllAccounted
<1> QED  BY <1>6, <1>7, <1>8, <1>9, <1>10 DEF IInv

LEMMA StepInv == IInv /\ [Next]_vars => IInv'
BY TypeStep, OwnerStep, ShapeStep, ReaderStep, AccountedStep DEF IInv

\* Every behaviour keeps the whole inductive invariant of the storage: types,
\* the owner of e.mu, the shape of e.buf and where its documents are.
THEOREM Inductive == Spec => []IInv
BY InitInv, StepInv, PTL DEF Spec

\* Every variable keeps its type.
THEOREM TypeCorrect == Spec => []TypeOK
<1>1. IInv => TypeOK  BY DEF IInv
<1> QED  BY <1>1, Inductive, PTL

\* However many goroutines call Write, whenever e.mu is free the buffer holds
\* e.count complete documents: a metadata line and then its own data line.
THEOREM BufferWhole == Spec => []Whole
<1>1. IInv => Whole
  <2> SUFFICES ASSUME IInv, mu = Free
               PROVE  Len(buf) = 2 * count /\ Documents(count)
    BY DEF Whole
  <2>1. Complete = count /\ Started = 0  BY DEF Complete, Started
  <2>2. count \in Nat  BY DEF IInv, TypeOK, NumbersOK
  <2> QED  BY <2>1, <2>2 DEF IInv, BufferShape
<1> QED  BY <1>1, Inductive, PTL

\* No failure of a bulk request, and no order of the writers, loses a
\* document that Drain was given, until a retry starts with a reader that
\* the attempt before it has partly read.
THEOREM NothingLost == Spec => []Accounted
<1>1. IInv => Accounted  BY DEF IInv
<1> QED  BY <1>1, Inductive, PTL
=============================================================================
