------------------------------ MODULE Pipeline ------------------------------
(***************************************************************************)
(* Pipeline.Process (pkg/pipelines/pipeline.go) and the goroutines it      *)
(* starts: the source worker, one FIFO stage runner per processor          *)
(* (fifo.go), one sink worker per storage, the goroutine that waits for    *)
(* them, and the caller's goroutine, which collects errors.  All channels  *)
(* are unbuffered, so a send and its receive are one step of two           *)
(* goroutines.                                                             *)
(*                                                                         *)
(* A payload is the number of the record it was made from, in the order in *)
(* which the source takes records from the consumer's stream.  A variable  *)
(* of a goroutine that the code never reads again keeps its last value.    *)
(***************************************************************************)
EXTENDS Integers, FiniteSets

CONSTANTS NStages,      \* number of processors, len(p.stages)
          NSinks,       \* number of storages, len(storageProviders)
          CallerAdds,   \* wg.Add calls made by the caller and never undone
          Faults,       \* what may go wrong around the pipeline
          MaxRead,      \* bound: records the consumer offers
          MaxErrs       \* bound: errors collected or waiting to be

FaultKinds == {"marshal",   \* source.Next fails to marshal a record
               "process",   \* a processor returns an error
               "discard",   \* a processor returns no payload
               "drain",     \* a storage's Drain returns an error
               "consumer",  \* the consumer sends an error to errCh
               "expire"}    \* the context given to Process expires

ASSUME ParamAssumption == /\ NStages \in Nat
                          /\ NSinks \in Nat \ {0}
                          /\ CallerAdds \in Nat
                          /\ Faults \subseteq FaultKinds
                          /\ MaxRead \in Nat
                          /\ MaxErrs \in Nat

Stages == 0 .. (NStages - 1)
Sinks  == 0 .. (NSinks - 1)
Last   == NStages - 1

VARIABLES
  ctxDone,    \* pCtx has been cancelled
  src,        \* where the source worker is
  read,       \* the payload the source worker holds: records taken so far
  late,       \* records taken after ctxDone
  stage,      \* where each stage runner is
  cur,        \* payloadIn of each stage
  out,        \* index of the output channel the last stage sends to next
  sink,       \* where each sink worker is
  got,        \* payload of each sink worker
  drained,    \* the payloads each storage accepted
  dropped,    \* payloads discarded by the source or by a stage
  collector,  \* where the goroutine inside Process is
  errs,       \* number of errors in the multierror
  lost,       \* number of errors maybeEmitError gave up
  pending,    \* consumer goroutines blocked sending to errCh
  errClosed,  \* errCh has been closed
  crashed     \* a goroutine panicked: the process is gone

srcVars  == <<src, read, late>>
stgVars  == <<stage, cur, out>>
sinkVars == <<sink, got, drained>>
errVars  == <<collector, errs, lost, pending, errClosed>>
vars == <<ctxDone, srcVars, stgVars, sinkVars, dropped, errVars, crashed>>

SrcPCs  == {"check", "next", "send", "exited"}
StgPCs  == {"recv", "proc", "emit", "fail", "return", "exited"}
SinkPCs == {"recv", "drain", "fail", "return", "exited"}
CollPCs == {"starting", "recv", "handle", "returned"}

Init ==
  /\ ctxDone = FALSE
  /\ src = "check" /\ read = 0 /\ late = 0
  /\ stage = [i \in Stages |-> "recv"]
  /\ cur = [i \in Stages |-> 0]
  /\ out = 0
  /\ sink = [s \in Sinks |-> "recv"]
  /\ got = [s \in Sinks |-> 0]
  /\ drained = [s \in Sinks |-> {}]
  /\ dropped = {}
  /\ collector = "starting"
  /\ errs = 0 /\ lost = 0 /\ pending = 0
  /\ errClosed = FALSE
  /\ crashed = FALSE

-----------------------------------------------------------------------------
(* Wiring.                                                                 *)

\* The place of sink worker s's channel among the outputs of the last
\* stage: outCh[k] is stageCh[NStages+k], and worker s reads
\* stageCh[len(stageCh)-1-s].
OutIndex(s) == NSinks - 1 - s

\* The channel worker s reads is closed: the last stage closes
\* stageCh[NStages], its first output, and no other; with no stage at all
\* the source worker closes stageCh[0].
SinkClosed(s) ==
  /\ OutIndex(s) = 0
  /\ IF NStages = 0 THEN src = "exited" ELSE stage[Last] = "exited"

\* The input channel of stage i is closed.
StageClosed(i) == IF i = 0 THEN src = "exited" ELSE stage[i - 1] = "exited"

-----------------------------------------------------------------------------
(* Errors.                                                                 *)

\* maybeEmitError: a non-blocking send on the unbuffered errCh.  It panics
\* once errCh is closed.
MaybeEmit ==
  /\ crashed' = errClosed
  /\ IF collector = "recv" /\ ~errClosed
     THEN collector' = "handle" /\ errs' = errs + 1 /\ UNCHANGED lost
     ELSE lost' = lost + 1 /\ UNCHANGED <<collector, errs>>
  /\ UNCHANGED <<pending, errClosed>>

\* Process has started its goroutines and enters "for pErr := range errCh".
CollectorStart ==
  /\ collector = "starting"
  /\ collector' = "recv"
  /\ UNCHANGED <<ctxDone, srcVars, stgVars, sinkVars, dropped,
                 errs, lost, pending, errClosed, crashed>>

\* Mutant: the collector appends the error and does not cancel.
CollectorHandleOnly ==
  /\ collector = "handle"
  /\ collector' = "recv"
  /\ UNCHANGED <<ctxDone, srcVars, stgVars, sinkVars, dropped,
                 errs, lost, pending, errClosed, crashed>>

\* The body of that loop: append the error, then cancel the context.
CollectorHandle ==
  /\ collector = "handle"
  /\ collector' = "recv"
  /\ ctxDone' = TRUE
  /\ UNCHANGED <<srcVars, stgVars, sinkVars, dropped,
                 errs, lost, pending, errClosed, crashed>>

\* The loop ends when errCh is closed, and Process returns.
CollectorReturn ==
  /\ collector = "recv" /\ errClosed
  /\ collector' = "returned"
  /\ UNCHANGED <<ctxDone, srcVars, stgVars, sinkVars, dropped,
                 errs, lost, pending, errClosed, crashed>>

\* A goroutine of the consumer meets an error and sends it to errCh; the
\* send blocks it until the collector receives.
ConsumerError ==
  /\ "consumer" \in Faults
  /\ pending + errs < MaxErrs
  /\ pending' = pending + 1
  /\ UNCHANGED <<ctxDone, srcVars, stgVars, sinkVars, dropped,
                 collector, errs, lost, errClosed, crashed>>

\* Mutant: the collector accepts an error nobody sent.
ReceiveUnsent ==
  /\ collector = "recv" /\ ~errClosed /\ errs < MaxErrs
  /\ pending' = pending - 1
  /\ errs' = errs + 1
  /\ collector' = "handle"
  /\ UNCHANGED <<ctxDone, srcVars, stgVars, sinkVars, dropped,
                 lost, errClosed, crashed>>

ConsumerErrorReceived ==
  /\ pending > 0 /\ collector = "recv" /\ ~errClosed
  /\ pending' = pending - 1
  /\ errs' = errs + 1
  /\ collector' = "handle"
  /\ UNCHANGED <<ctxDone, srcVars, stgVars, sinkVars, dropped,
                 lost, errClosed, crashed>>

\* A send on a closed channel panics, and nothing recovers it.
ConsumerErrorPanics ==
  /\ pending > 0 /\ errClosed
  /\ crashed' = TRUE
  /\ UNCHANGED <<ctxDone, srcVars, stgVars, sinkVars, dropped, errVars>>

\* Mutant: the sink workers are not added to wg.
StagesExited == src = "exited" /\ \A i \in Stages : stage[i] = "exited"

\* wg is back to zero: the caller's own Adds count too.
WorkersExited ==
  /\ src = "exited"
  /\ \A i \in Stages : stage[i] = "exited"
  /\ \A s \in Sinks : sink[s] = "exited"

WaitGroupZero == CallerAdds = 0 /\ WorkersExited

\* Mutant: it cancels and leaves errCh open.
CancelOnly ==
  /\ WaitGroupZero /\ ~ctxDone
  /\ ctxDone' = TRUE
  /\ UNCHANGED <<srcVars, stgVars, sinkVars, dropped, errVars, crashed>>

\* The goroutine that waits for the workers closes errCh and cancels.
CloseErrCh ==
  /\ WaitGroupZero /\ ~errClosed
  /\ errClosed' = TRUE
  /\ ctxDone' = TRUE
  /\ UNCHANGED <<srcVars, stgVars, sinkVars, dropped,
                 collector, errs, lost, pending, crashed>>

\* The parent context expires.
ContextExpires ==
  /\ "expire" \in Faults /\ ~ctxDone
  /\ ctxDone' = TRUE
  /\ UNCHANGED <<srcVars, stgVars, sinkVars, dropped, errVars, crashed>>

-----------------------------------------------------------------------------
(* The source worker.                                                      *)

\* Mutant: the loop does not look at the context.
SourceNoCheck ==
  /\ src = "check"
  /\ src' = "next"
  /\ UNCHANGED <<ctxDone, read, late, stgVars, sinkVars, dropped, errVars,
                 crashed>>

\* The select at the head of sourceWorker's loop.  Leaving the loop closes
\* stageCh[0]; source.Error() is nil for both sources.
SourceCheck ==
  /\ src = "check"
  /\ src' = IF ctxDone THEN "exited" ELSE "next"
  /\ UNCHANGED <<ctxDone, read, late, stgVars, sinkVars, dropped, errVars,
                 crashed>>

\* source.Next receives a record.  It does not leave its loop when the
\* context is done, and returns only once there is a record.
SourceNext ==
  /\ src = "next" /\ read < MaxRead
  /\ read' = read + 1
  /\ late' = IF ctxDone THEN late + 1 ELSE late
  /\ \/ src' = "send" /\ UNCHANGED dropped
     \/ /\ "marshal" \in Faults
        /\ src' = "check"
        /\ dropped' = dropped \cup {read + 1}
  /\ UNCHANGED <<ctxDone, stgVars, sinkVars, errVars, crashed>>

\* outCh <- payload, outside of any select, to the first stage.
SourceToStage ==
  /\ src = "send" /\ NStages # 0 /\ stage[0] = "recv"
  /\ src' = "check"
  /\ stage' = [stage EXCEPT ![0] = "proc"]
  /\ cur' = [cur EXCEPT ![0] = read]
  /\ UNCHANGED <<ctxDone, read, late, out, sinkVars, dropped, errVars, crashed>>

\* Without stages: to the sink worker that reads stageCh[0].
SourceToSink ==
  /\ src = "send" /\ NStages = 0 /\ sink[NSinks - 1] = "recv"
  /\ src' = "check"
  /\ sink' = [sink EXCEPT ![NSinks - 1] = "drain"]
  /\ got' = [got EXCEPT ![NSinks - 1] = read]
  /\ UNCHANGED <<ctxDone, read, late, stgVars, drained, dropped, errVars,
                 crashed>>

-----------------------------------------------------------------------------
(* The stage runners.                                                      *)

\* Mutant: the output loop goes on where the last payload's ended.
StageProcessNoReset(i) ==
  /\ stage[i] = "proc"
  /\ stage' = [stage EXCEPT ![i] = "emit"]
  /\ UNCHANGED <<ctxDone, srcVars, cur, out, sinkVars, dropped, errVars,
                 crashed>>

\* Mutant: no "continue" after a discarded payload.
StageProcessFallThrough(i) ==
  /\ stage[i] = "proc"
  /\ stage' = [stage EXCEPT ![i] = "emit"]
  /\ \/ UNCHANGED dropped
     \/ "discard" \in Faults /\ dropped' = dropped \cup {cur[i]}
  /\ out' = IF i = Last THEN 0 ELSE out
  /\ UNCHANGED <<ctxDone, srcVars, cur, sinkVars, errVars, crashed>>

\* The processor works on a clone of the payload.
StageProcess(i) ==
  /\ stage[i] = "proc"
  /\ \/ stage' = [stage EXCEPT ![i] = "emit"] /\ UNCHANGED dropped
     \/ /\ "discard" \in Faults
        /\ stage' = [stage EXCEPT ![i] = "recv"]
        /\ dropped' = dropped \cup {cur[i]}
     \/ /\ "process" \in Faults
        /\ stage' = [stage EXCEPT ![i] = "fail"]
        /\ UNCHANGED dropped
  /\ out' = IF i = Last THEN 0 ELSE out
  /\ UNCHANGED <<ctxDone, srcVars, cur, sinkVars, errVars, crashed>>

\* Mutant: it reports the error and goes on with the next payload.
StageFailContinue(i) ==
  /\ stage[i] = "fail"
  /\ MaybeEmit
  /\ stage' = [stage EXCEPT ![i] = "recv"]
  /\ UNCHANGED <<ctxDone, srcVars, cur, out, sinkVars, dropped>>

\* A stage whose processor failed reports the error and returns.
StageFail(i) ==
  /\ stage[i] = "fail"
  /\ MaybeEmit
  /\ stage' = [stage EXCEPT ![i] = "return"]
  /\ UNCHANGED <<ctxDone, srcVars, cur, out, sinkVars, dropped>>

\* Mutant: stage i keeps offering the payload it has handed over.
StageForwardAgain(i) ==
  /\ i # Last
  /\ stage[i] = "emit" /\ stage[i + 1] = "recv"
  /\ stage' = [stage EXCEPT ![i + 1] = "proc"]
  /\ cur' = [cur EXCEPT ![i + 1] = cur[i]]
  /\ UNCHANGED <<ctxDone, srcVars, out, sinkVars, dropped, errVars, crashed>>

\* Stage i hands its payload to the next stage.
StageForward(i) ==
  /\ i # Last
  /\ stage[i] = "emit" /\ stage[i + 1] = "recv"
  /\ stage' = [stage EXCEPT ![i] = "recv", ![i + 1] = "proc"]
  /\ cur' = [cur EXCEPT ![i + 1] = cur[i]]
  /\ UNCHANGED <<ctxDone, srcVars, out, sinkVars, dropped, errVars, crashed>>

\* Mutant: the broadcast skips a sink worker that is not ready.
StageBroadcastNoWait(s) ==
  /\ Last \in Stages
  /\ stage[Last] = "emit" /\ out = OutIndex(s)
  /\ IF sink[s] = "recv"
     THEN /\ sink' = [sink EXCEPT ![s] = "drain"]
          /\ got' = [got EXCEPT ![s] = cur[Last]]
     ELSE UNCHANGED <<sink, got>>
  /\ out' = out + 1
  /\ stage' = [stage EXCEPT ![Last] =
                 IF out + 1 = NSinks THEN "recv" ELSE "emit"]
  /\ UNCHANGED <<ctxDone, srcVars, cur, drained, dropped, errVars, crashed>>

\* The last stage hands a clone to each sink worker in turn.
StageBroadcast(s) ==
  /\ Last \in Stages
  /\ stage[Last] = "emit" /\ out = OutIndex(s) /\ sink[s] = "recv"
  /\ sink' = [sink EXCEPT ![s] = "drain"]
  /\ got' = [got EXCEPT ![s] = cur[Last]]
  /\ out' = out + 1
  /\ stage' = [stage EXCEPT ![Last] =
                 IF out + 1 = NSinks THEN "recv" ELSE "emit"]
  /\ UNCHANGED <<ctxDone, srcVars, cur, drained, dropped, errVars, crashed>>

\* Mutant: the send to an output channel is not in a select.
StageStopReceiving(i) ==
  /\ stage[i] = "recv" /\ (ctxDone \/ StageClosed(i))
  /\ stage' = [stage EXCEPT ![i] = "return"]
  /\ UNCHANGED <<ctxDone, srcVars, cur, out, sinkVars, dropped, errVars,
                 crashed>>

\* Both selects of FIFO's Run return when the context is done, and the
\* first one also when its input is closed.
StageStop(i) ==
  /\ \/ stage[i] \in {"recv", "emit"} /\ ctxDone
     \/ stage[i] = "recv" /\ StageClosed(i)
  /\ stage' = [stage EXCEPT ![i] = "return"]
  /\ UNCHANGED <<ctxDone, srcVars, cur, out, sinkVars, dropped, errVars,
                 crashed>>

\* Run has returned: close the next channel, wg.Done.
StageExit(i) ==
  /\ stage[i] = "return"
  /\ stage' = [stage EXCEPT ![i] = "exited"]
  /\ UNCHANGED <<ctxDone, srcVars, cur, out, sinkVars, dropped, errVars,
                 crashed>>

-----------------------------------------------------------------------------
(* The sink workers.                                                       *)

\* Drain hands a clone to the storage; it blocks until the storage takes it.
SinkDrain(s) ==
  /\ sink[s] = "drain"
  /\ \/ /\ drained' = [drained EXCEPT ![s] = @ \cup {got[s]}]
        /\ sink' = [sink EXCEPT ![s] = "recv"]
     \/ /\ "drain" \in Faults
        /\ sink' = [sink EXCEPT ![s] = "fail"]
        /\ UNCHANGED drained
  /\ UNCHANGED <<ctxDone, srcVars, stgVars, got, dropped, errVars, crashed>>

\* Mutant: a sink worker goes on after an error.
SinkFailContinue(s) ==
  /\ sink[s] = "fail"
  /\ MaybeEmit
  /\ sink' = [sink EXCEPT ![s] = "recv"]
  /\ UNCHANGED <<ctxDone, srcVars, stgVars, got, drained, dropped>>

SinkFail(s) ==
  /\ sink[s] = "fail"
  /\ MaybeEmit
  /\ sink' = [sink EXCEPT ![s] = "return"]
  /\ UNCHANGED <<ctxDone, srcVars, stgVars, got, drained, dropped>>

SinkStop(s) ==
  /\ sink[s] = "recv"
  /\ ctxDone \/ SinkClosed(s)
  /\ sink' = [sink EXCEPT ![s] = "return"]
  /\ UNCHANGED <<ctxDone, srcVars, stgVars, got, drained, dropped, errVars,
                 crashed>>

SinkExit(s) ==
  /\ sink[s] = "return"
  /\ sink' = [sink EXCEPT ![s] = "exited"]
  /\ UNCHANGED <<ctxDone, srcVars, stgVars, got, drained, dropped, errVars,
                 crashed>>

-----------------------------------------------------------------------------
SourceSend == SourceToStage \/ SourceToSink
Source   == SourceCheck \/ SourceNext \/ SourceSend
Stage(i) == StageProcess(i) \/ StageFail(i) \/ StageForward(i)
            \/ StageStop(i) \/ StageExit(i)
Sink(s)  == SinkDrain(s) \/ SinkFail(s) \/ SinkStop(s) \/ SinkExit(s)
            \/ StageBroadcast(s)
Collector == CollectorStart \/ CollectorHandle \/ CollectorReturn
             \/ ConsumerErrorReceived

Next ==
  /\ ~crashed
  /\ \/ Source
     \/ \E i \in Stages : Stage(i)
     \/ \E s \in Sinks : Sink(s)
     \/ Collector
     \/ CloseErrCh
     \/ ConsumerError
     \/ ConsumerErrorPanics
     \/ ContextExpires

Spec == Init /\ [][Next]_vars

\* Every goroutine that can take a step eventually takes one, and a storage
\* eventually takes the payload it is offered.  Nothing is assumed of the
\* consumer: SourceNext, like the faults, may never happen.
Fairness ==
  /\ WF_vars(~crashed /\ (SourceCheck \/ SourceSend))
  /\ \A i \in Stages : WF_vars(~crashed /\ Stage(i))
  /\ \A s \in Sinks : WF_vars(~crashed /\ Sink(s))
  /\ WF_vars(~crashed /\ Collector)
  /\ WF_vars(~crashed /\ CloseErrCh)

FairSpec == Spec /\ Fairness

-----------------------------------------------------------------------------
(* Safety.                                                                 *)

FlagsOK == ctxDone \in BOOLEAN /\ errClosed \in BOOLEAN /\ crashed \in BOOLEAN
DataOK ==
  /\ src \in SrcPCs /\ read \in 0 .. MaxRead /\ late \in Nat
  /\ stage \in [Stages -> StgPCs]
  /\ cur \in [Stages -> Nat]
  /\ out \in 0 .. NSinks
  /\ sink \in [Sinks -> SinkPCs]
  /\ got \in [Sinks -> Nat]
  /\ collector \in CollPCs
  /\ errs \in Nat /\ lost \in Nat /\ pending \in Nat
SetsOK == drained \in [Sinks -> SUBSET Nat] /\ dropped \in SUBSET Nat

\* Every variable has its type.
TypeOK == FlagsOK /\ DataOK /\ SetsOK

\* No storage has a payload while it misses an earlier one that no stage
\* discarded: what a storage holds is a prefix of what came through, also
\* when workers fail, the context is cancelled and the others go on.
GapFree ==
  \A s \in Sinks : \A m \in drained[s] : \A k \in 1 .. (m - 1) :
    k \in drained[s] \cup dropped

\* A storage is offered each payload once, and in the order of the source:
\* the payload being drained is later than all that were drained.
InOrder ==
  \A s \in Sinks : sink[s] = "drain" => \A m \in drained[s] : m < got[s]

\* Process promises its storages what Delivery says.
D == INSTANCE Delivery WITH Storages <- Sinks, taken <- read,
                            discarded <- dropped, stored <- drained
DeliverySpec == D!Spec

\* One broadcast loop feeds all storages, so a storage that is slow, or
\* whose worker has died, holds the others back: none gets more than two
\* payloads ahead.
FanoutSkew ==
  \A s, t \in Sinks : Cardinality(drained[s] \ drained[t]) <= 2

\* Backpressure: a payload that was taken and that a storage has not got is
\* held by the source worker, a stage or the sink worker.  This also bounds
\* what a cancellation loses.
InFlightBound ==
  \A s \in Sinks :
    Cardinality((1 .. read) \ (dropped \cup drained[s])) <= NStages + 2

\* After a cancellation the source takes at most the record that the call
\* of source.Next in progress was waiting for.
LateReads == late <= 1

\* errCh is not closed while a worker of Process may still report to it, so
\* only the consumer, which wg does not count, can send on it closed.
NoWorkerPanic == crashed => pending > 0

\* Every sink worker's channel has a sender. Without processors the source
\* feeds one channel only, and the other sink workers never get a payload.
AllFed == NStages # 0 \/ NSinks = 1

-----------------------------------------------------------------------------
(* The inductive invariant behind the safety properties.  Every goroutine  *)
(* has seen a prefix of what the one before it has seen, and misses of it  *)
(* at most the payload that one is about to hand over.                     *)

Busy(i) == stage[i] \in {"proc", "emit"}

\* Nobody is ahead of a goroutine it gets its payloads from, and all are
\* strictly behind one that has still to hand its payload over.
SourceAhead ==
  /\ \A i \in Stages : cur[i] <= read /\ (src = "send" => cur[i] < read)
  /\ \A s \in Sinks : got[s] <= read /\ (src = "send" => got[s] < read)
StagesAhead ==
  /\ \A i, j \in Stages :
       i < j => cur[j] <= cur[i] /\ (Busy(i) => cur[j] < cur[i])
  /\ \A i \in Stages, s \in Sinks :
       /\ got[s] <= cur[i]
       /\ (Busy(i) /\ (stage[i] = "emit" /\ i = Last => out <= OutIndex(s)))
            => got[s] < cur[i]

\* Payload k was discarded, or whoever holds `there` has seen it.
Seen(k, there) == k \in dropped \/ k <= there

SourceGives ==
  \A k \in 1 .. read : ~(k = read /\ src = "send") =>
    IF NStages = 0 THEN Seen(k, got[NSinks - 1]) ELSE Seen(k, cur[0])
StagesGive ==
  /\ \A i \in Stages : i # Last =>
       \A k \in 1 .. cur[i] :
         Seen(k, cur[i + 1]) \/ (k = cur[i] /\ stage[i] # "recv")
  /\ NStages # 0 =>
       \A s \in Sinks : \A k \in 1 .. cur[Last] :
         \/ Seen(k, got[s])
         \/ /\ k = cur[Last] /\ stage[Last] # "recv"
            /\ stage[Last] = "emit" => out <= OutIndex(s)
EmitOut == NStages # 0 /\ stage[Last] = "emit" => out < NSinks

\* A sink worker that has no payload has drained all it ever got.
SinksDrain ==
  \A s \in Sinks :
    /\ drained[s] \subseteq 1 .. got[s]
    /\ \A k \in 1 .. got[s] :
         k \in drained[s] \cup dropped \/ (k = got[s] /\ sink[s] # "recv")
    /\ sink[s] = "drain" => got[s] \notin drained[s]
    /\ NStages = 0 /\ s # NSinks - 1 => got[s] = 0

\* What was discarded was taken, and neither a storage nor a goroutine that
\* hands a payload on has it.
DroppedApart ==
  /\ dropped \subseteq 1 .. read
  /\ src = "send" => read \in (1 .. read) \ dropped
  /\ \A i \in Stages : Busy(i) => cur[i] \in (1 .. read) \ dropped
  /\ \A s \in Sinks :
       /\ drained[s] \cap dropped = {}
       /\ sink[s] = "drain" => got[s] \in (1 .. read) \ dropped

Chain == /\ SourceAhead /\ StagesAhead /\ SourceGives /\ StagesGive
         /\ EmitOut /\ SinksDrain /\ DroppedApart
IInv == TypeOK /\ Chain

\* A record is taken after the cancellation only by the call of source.Next
\* that was in progress.
LateOnce == late = 0 \/ (late = 1 /\ ctxDone /\ src # "next")

\* errCh is closed when every worker has returned, and none starts again.
ClosedLast == errClosed => WorkersExited

-----------------------------------------------------------------------------
(* Liveness.                                                               *)

Stopped == /\ \A i \in Stages : stage[i] = "exited"
           /\ \A s \in Sinks : sink[s] = "exited"

GaveUp == \/ \E i \in Stages : stage[i] \in {"fail", "return", "exited"}
          \/ \E s \in Sinks : sink[s] \in {"fail", "return", "exited"}

\* An error of a stage or of a storage that comes up once the collector has
\* started ends in a cancellation, even if that error itself is dropped.
FailureCancels ==
  /\ \A i \in Stages :
       (stage[i] = "fail" /\ collector # "starting") ~> (ctxDone \/ crashed)
  /\ \A s \in Sinks :
       (sink[s] = "fail" /\ collector # "starting") ~> (ctxDone \/ crashed)

\* After a cancellation all stages and sink workers exit, whatever channel
\* they are blocked on.
CancelStops == ctxDone ~> (Stopped \/ crashed)

\* Without a cancellation, and as long as no worker has given up, a taken
\* payload reaches every storage.
Delivers ==
  \A s \in Sinks : \A m \in 1 .. MaxRead :
    (read >= m) ~> (m \in dropped \cup drained[s] \/ ctxDone \/ GaveUp)

\* Once all workers have exited, Process returns.
Returns == WorkersExited ~> (collector = "returned" \/ crashed)

\* "Calls to Process block until [...] the supplied context expires."
ExpiryReturns == ctxDone ~> (collector = "returned" \/ crashed)

-----------------------------------------------------------------------------
\* maybeEmitError drops an error only because others are ahead of it ("error
\* channel is full with other errors"): then one of those is collected.
DroppedBehindOthers == lost > 0 => errs > 0
=============================================================================
