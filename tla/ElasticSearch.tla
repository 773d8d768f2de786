--------------------------- MODULE ElasticSearch ---------------------------
(***************************************************************************)
(* The Elasticsearch storage (pkg/storage_providers/es.go): Drain hands a  *)
(* payload to one of the goroutines of a worker pool (pkg/concur), and     *)
(* Write, under a mutex, appends it to a shared buffer and sends the       *)
(* buffer as one bulk request once it holds Batch documents (1000 in the   *)
(* code).  A payload is the number under which it was handed over; a line  *)
(* of the bulk body is <<"meta", m>> or <<"data", m>>.  What Elasticsearch *)
(* and its client library do is seen from how the code uses them.          *)
(***************************************************************************)
EXTENDS Integers, Sequences

CONSTANTS Workers,        \* goroutines of the worker pool
          Batch,          \* e.count that triggers a bulk write
          IndexOf,        \* the index of each payload, as Out returns it
          RetrySettings,  \* values that e.maxRetries may be configured to
          Faults,         \* what may go wrong
          Free,           \* the mutex has no owner
          MaxRetry        \* bound: failed attempts of one bulk write

FaultKinds == {"dial",          \* no connection: nothing is sent
               "broken",        \* the connection breaks, the body is consumed
               "reject",        \* an HTTP error status
               "item",          \* a status above 201 for a single document
               "garble",        \* a success with a body that does not decode
               "panic",         \* an error status without an "error" object
               "unnormalized"}  \* a payload without index, id or data

Docs == DOMAIN IndexOf
Indexes == {IndexOf[m] : m \in Docs}

ASSUME ParamAssumption == /\ Batch \in Nat \ {0}
                          /\ IndexOf \in Seq(Indexes)
                          /\ RetrySettings \subseteq Int
                          /\ Faults \subseteq FaultKinds
                          /\ Free \notin Workers
                          /\ MaxRetry \in Nat

VARIABLES
  handed,      \* how many payloads Drain has handed over
  pc,          \* where each worker is
  doc,         \* the payload of each worker
  mu,          \* the worker that holds e.mu
  count,       \* e.count
  buf,         \* e.buf
  pos,         \* how much of the buffer the reader of bulkWrite has given away
  retry,       \* retry of bulkWrite
  maxRetries,  \* e.maxRetries
  stored,      \* <<m, index>>: what Elasticsearch has indexed
  refused,     \* payloads that Write or Elasticsearch did not accept
  torn,        \* history: bulkWrite has retried with a reader partly read
  crashed      \* a worker panicked

bulkVars == <<pos, retry>>
outVars == <<stored, refused, torn>>
vars == <<handed, pc, doc, mu, count, buf, bulkVars, maxRetries, outVars,
          crashed>>

Init ==
  /\ handed = 0
  /\ pc = [w \in Workers |-> "idle"]
  /\ doc = [w \in Workers |-> 0]
  /\ mu = Free
  /\ count = 0 /\ buf = <<>>
  /\ pos = 0 /\ retry = 0
  /\ maxRetries \in RetrySettings
  /\ stored = {} /\ refused = {} /\ torn = FALSE
  /\ crashed = FALSE

Goto(w, l) == pc' = [pc EXCEPT ![w] = l]
DocsOf(lines) == {lines[i][2] : i \in DOMAIN lines}

-----------------------------------------------------------------------------
(* Drain and Write.                                                        *)

\* e.inCh <- p: the channel is unbuffered, so an idle worker takes it.  A
\* payload that was not normalized has no index, id or data.
Drain(w) ==
  /\ pc[w] = "idle" /\ handed + 1 \in Docs
  /\ handed' = handed + 1
  /\ doc' = [doc EXCEPT ![w] = handed + 1]
  /\ \/ Goto(w, "write")
     \/ "unnormalized" \in Faults /\ Goto(w, "refuse")
  /\ UNCHANGED <<mu, count, buf, bulkVars, maxRetries, outVars, crashed>>

\* Write returns an error for a payload that was not normalized; the pool
\* logs it.
Refuse(w) ==
  /\ pc[w] = "refuse"
  /\ refused' = refused \cup {doc[w]}
  /\ Goto(w, "idle")
  /\ UNCHANGED <<handed, doc, mu, count, buf, bulkVars, maxRetries, stored,
                 torn, crashed>>

\* Mutant: Write does not take the mutex.
NoLock(w) ==
  /\ pc[w] = "write"
  /\ mu' = w
  /\ count' = count + 1
  /\ Goto(w, "meta")
  /\ UNCHANGED <<handed, doc, buf, bulkVars, maxRetries, outVars, crashed>>

Lock(w) ==
  /\ pc[w] = "write" /\ mu = Free
  /\ mu' = w
  /\ count' = count + 1
  /\ Goto(w, "meta")
  /\ UNCHANGED <<handed, doc, buf, bulkVars, maxRetries, outVars, crashed>>

WriteMeta(w) ==
  /\ pc[w] = "meta"
  /\ buf' = Append(buf, <<"meta", doc[w]>>)
  /\ Goto(w, "data")
  /\ UNCHANGED <<handed, doc, mu, count, bulkVars, maxRetries, outVars,
                 crashed>>

\* Mutant: the reader is not made anew for each bulk write.
WriteDataOldReader(w) ==
  /\ pc[w] = "data"
  /\ buf' = Append(buf, <<"data", doc[w]>>)
  /\ IF count >= Batch
     THEN Goto(w, "bulk") /\ retry' = 0 /\ UNCHANGED <<pos, mu>>
     ELSE Goto(w, "idle") /\ mu' = Free /\ UNCHANGED bulkVars
  /\ UNCHANGED <<handed, doc, count, maxRetries, outVars, crashed>>

\* Below the threshold Write returns, and the deferred Unlock runs.
WriteData(w) ==
  /\ pc[w] = "data"
  /\ buf' = Append(buf, <<"data", doc[w]>>)
  /\ IF count >= Batch
     THEN Goto(w, "bulk") /\ pos' = 0 /\ retry' = 0 /\ UNCHANGED mu
     ELSE Goto(w, "idle") /\ mu' = Free /\ UNCHANGED bulkVars
  /\ UNCHANGED <<handed, doc, count, maxRetries, outVars, crashed>>

-----------------------------------------------------------------------------
(* bulkWrite.  The request goes to the index of the payload that completed *)
(* the batch, and its body is what the reader still has.                   *)

Body == SubSeq(buf, pos + 1, Len(buf))

\* Elasticsearch accepts a body that starts with a metadata line; an empty
\* one, or one that starts in the middle of a document, is malformed.
Acceptable == Body # <<>> /\ Body[1][1] = "meta"

\* The documents of a request, under the index the request names.
Indexed(w, ms) == ms \X {IndexOf[doc[w]]}

\* bulkWrite returned an error: Write keeps the buffer and returns.
KeepBuffer(w) ==
  /\ Goto(w, "idle") /\ mu' = Free
  /\ UNCHANGED <<count, buf>>

\* bulkWrite returned without an error: Write empties the buffer.
ResetBuffer(w) ==
  /\ Goto(w, "idle") /\ mu' = Free
  /\ count' = 0 /\ buf' = <<>>

\* Mutant: Write empties the buffer whatever bulkWrite returned.
RetryOrReset(w) ==
  /\ retry' = retry + 1
  /\ IF maxRetries >= 0 /\ retry + 1 > maxRetries
     THEN /\ Goto(w, "idle") /\ mu' = Free
          /\ count' = 0 /\ buf' = <<>> /\ UNCHANGED torn
     ELSE torn' = (torn \/ pos' # 0) /\ UNCHANGED <<pc, mu, count, buf>>

\* Mutant: every failed attempt takes the batch off the count.
RetryCountsDown(w) ==
  /\ retry' = retry + 1 /\ count' = count - Batch
  /\ IF maxRetries >= 0 /\ retry + 1 > maxRetries
     THEN Goto(w, "idle") /\ mu' = Free /\ UNCHANGED <<buf, torn>>
     ELSE torn' = (torn \/ pos' # 0) /\ UNCHANGED <<pc, mu, buf>>

\* The client returned an error: try again with the same reader, or give up.
RetryOrFail(w) ==
  /\ retry' = retry + 1
  /\ IF maxRetries >= 0 /\ retry + 1 > maxRetries
     THEN KeepBuffer(w) /\ UNCHANGED torn
     ELSE torn' = (torn \/ pos' # 0) /\ UNCHANGED <<pc, mu, count, buf>>

\* No connection.  The client has copied the whole body before, to have it
\* for retries of its own; only when these are switched off is the reader
\* where it was.
BulkNotSent(w) ==
  /\ pc[w] = "bulk" /\ retry < MaxRetry
  /\ "dial" \in Faults
  /\ pos' \in {pos, Len(buf)}
  /\ UNCHANGED <<handed, doc, maxRetries, stored, refused, crashed>>
  /\ RetryOrFail(w)

\* The connection broke after the reader gave away part or all of the body.
\* Elasticsearch may have indexed the request whose answer did not arrive
\* (the client's own retries send all of Body again).
BulkBroken(w) ==
  /\ pc[w] = "bulk" /\ retry < MaxRetry
  /\ "broken" \in Faults
  /\ pos' \in pos .. Len(buf)
  /\ \/ UNCHANGED stored
     \/ Acceptable /\ stored' = stored \cup Indexed(w, DocsOf(Body))
  /\ RetryOrFail(w)
  /\ UNCHANGED <<handed, doc, maxRetries, refused, crashed>>

\* A success: each document of the request is indexed or refused on its own.
BulkAnswered(w) ==
  /\ pc[w] = "bulk" /\ Acceptable
  /\ \E bad \in SUBSET DocsOf(Body) :
       /\ bad = {} \/ "item" \in Faults
       /\ stored' = stored \cup Indexed(w, DocsOf(Body) \ bad)
       /\ refused' = refused \cup bad
  /\ ResetBuffer(w)
  /\ UNCHANGED <<handed, doc, bulkVars, maxRetries, torn, crashed>>

\* An HTTP error status is logged and counts as a written batch.  It is an
\* answer about the documents only if they were in the request.
BulkRejected(w) ==
  /\ pc[w] = "bulk"
  /\ "reject" \in Faults \/ ~Acceptable
  /\ refused' = refused \cup (IF Acceptable THEN DocsOf(Body) ELSE {})
  /\ ResetBuffer(w)
  /\ UNCHANGED <<handed, doc, bulkVars, maxRetries, stored, torn, crashed>>

\* Mutant: this return leaves the mutex locked.
UndecodableKeepsLock(w) ==
  /\ pc[w] = "bulk" /\ Acceptable /\ "garble" \in Faults
  /\ stored' = stored \cup Indexed(w, DocsOf(Body))
  /\ Goto(w, "idle")
  /\ UNCHANGED <<handed, doc, mu, count, buf, bulkVars, maxRetries, refused,
                 torn, crashed>>

\* A success whose body does not decode is an error without a retry.
BulkUndecodable(w) ==
  /\ pc[w] = "bulk" /\ Acceptable /\ "garble" \in Faults
  /\ stored' = stored \cup Indexed(w, DocsOf(Body))
  /\ KeepBuffer(w)
  /\ UNCHANGED <<handed, doc, bulkVars, maxRetries, refused, torn, crashed>>

\* bodyObj["error"].(jsonObj) panics when the answer has no such object.
BulkPanics(w) ==
  /\ pc[w] = "bulk" /\ "panic" \in Faults
  /\ crashed' = TRUE
  /\ UNCHANGED <<handed, pc, doc, mu, count, buf, bulkVars, maxRetries,
                 outVars>>

Answer(w) == BulkAnswered(w) \/ BulkRejected(w) \/ BulkUndecodable(w)
Write(w) == Refuse(w) \/ WriteMeta(w) \/ WriteData(w)
Fail(w) == BulkNotSent(w) \/ BulkBroken(w) \/ BulkPanics(w)

Next == /\ ~crashed
        /\ \E w \in Workers : Drain(w) \/ Write(w) \/ Lock(w)
                              \/ Answer(w) \/ Fail(w)

Spec == Init /\ [][Next]_vars

\* Goroutines run, a mutex is not withheld from a waiting goroutine for
\* ever, and Elasticsearch answers after at most MaxRetry failed attempts.
Fairness ==
  \A w \in Workers : /\ WF_vars(~crashed /\ (Write(w) \/ Answer(w)))
                     /\ SF_vars(~crashed /\ Lock(w))

FairSpec == Spec /\ Fairness

-----------------------------------------------------------------------------
(* Safety.                                                                 *)

PCs == {"idle", "write", "refuse", "meta", "data", "bulk"}
Lines == {"meta", "data"} \X Docs

NumbersOK ==
  /\ handed \in Nat /\ count \in Nat /\ pos \in Nat /\ retry \in Nat
  /\ maxRetries \in Int
WorkersOK ==
  /\ pc \in [Workers -> PCs]
  /\ doc \in [Workers -> Docs \cup {0}]
  /\ mu \in Workers \cup {Free}
DocumentsOK ==
  buf \in Seq(Lines) /\ stored \subseteq Docs \X Indexes /\ refused \subseteq Docs

\* Every variable has its type.
TypeOK == /\ NumbersOK /\ WorkersOK /\ DocumentsOK
          /\ torn \in BOOLEAN /\ crashed \in BOOLEAN

\* The buffer begins with n complete documents.
Documents(n) ==
  \A i \in 1 .. n : \E m \in Docs :
    buf[2 * i - 1] = <<"meta", m>> /\ buf[2 * i] = <<"data", m>>

\* Between two calls of Write the buffer is a sequence of complete documents,
\* each metadata line followed by its own data line, and e.count of them:
\* writers that run at the same time do not mix their lines.
Whole == mu = Free => Len(buf) = 2 * count /\ Documents(count)

Held == {doc[w] : w \in {v \in Workers : pc[v] # "idle"}}
Stored == {s[1] : s \in stored}

AllAccounted ==
  1 .. handed \subseteq Held \cup DocsOf(buf) \cup Stored \cup refused

\* A payload that was handed over is with a worker, in the buffer, or in
\* Elasticsearch, or was refused by Write or by an answer about it: a failed
\* bulk request makes no document disappear, whether its failure is retried
\* or the buffer kept for the next payload, as long as no retry starts with a
\* reader that the failed attempt has partly read.
Accounted == torn \/ AllAccounted

\* The code's "retrying" sends the batch again, so the same holds of every
\* retry.
RetriesWhole == AllAccounted

-----------------------------------------------------------------------------
(* The inductive invariant.  The mutex belongs to the one worker that is   *)
(* between Lock and Unlock, the buffer is complete but for the lines that  *)
(* worker has still to write, and until a retry with a partly read reader  *)
(* the body of the request is the buffer.                                  *)

Holding(w) == pc[w] \in {"meta", "data", "bulk"}
MutexOwner == \A w \in Workers : mu = w <=> Holding(w)

\* Documents in the buffer, and lines of one that is being written.
Complete == IF mu # Free /\ pc[mu] \in {"meta", "data"} THEN count - 1 ELSE count
Started == IF mu # Free /\ pc[mu] = "data" THEN 1 ELSE 0
BufferShape ==
  /\ Complete \in Nat /\ Len(buf) = 2 * Complete + Started
  /\ Documents(Complete)
  /\ \A w \in Workers :
       /\ pc[w] = "data" => buf[Len(buf)] = <<"meta", doc[w]>>
       /\ pc[w] = "bulk" => doc[w] \in DocsOf(buf) /\ count # 0
HeldDocs == \A w \in Workers : pc[w] # "idle" => doc[w] \in Docs

ReaderWhole == ~torn => \A w \in Workers : pc[w] = "bulk" => pos = 0

IInv == /\ TypeOK /\ MutexOwner /\ HeldDocs /\ BufferShape /\ ReaderWhole
        /\ Accounted

-----------------------------------------------------------------------------
(* Liveness.                                                               *)

\* Every call of Write returns, also when it has to wait for one that is
\* retrying: no way out of bulkWrite leaves the mutex locked.
WriteReturns ==
  \A w \in Workers : (pc[w] = "write") ~> (pc[w] = "idle" \/ crashed)
=============================================================================
