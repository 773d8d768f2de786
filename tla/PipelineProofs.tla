--------------------------- MODULE PipelineProofs ---------------------------
(***************************************************************************)
(* Proofs about Pipeline, for any number of processors and storages, any   *)
(* faults and any number of records.                                       *)
(***************************************************************************)
EXTENDS Pipeline, SetInduction

(***************************************************************************)
(* Types.                                                                  *)
(***************************************************************************)

LEMMA FlagsStep == FlagsOK /\ [Next]_vars => FlagsOK'
<1> SUFFICES ASSUME FlagsOK, [Next]_vars PROVE FlagsOK'
  OBVIOUS
<1> USE DEF FlagsOK, errVars
<1>1. CASE Source
  BY <1>1 DEF Source, SourceCheck, SourceNext, SourceSend, SourceToStage,
              SourceToSink
<1>2. CASE \E i \in Stages : Stage(i)
  BY <1>2 DEF Stage, StageProcess, StageFail, StageForward, StageStop,
              StageExit, MaybeEmit
<1>3. CASE \E s \in Sinks : Sink(s)
  BY <1>3 DEF Sink, SinkDrain, SinkFail, SinkStop, SinkExit, StageBroadcast,
              MaybeEmit
<1>4. CASE Collector
  BY <1>4 DEF Collector, CollectorStart, CollectorHandle, CollectorReturn,
              ConsumerErrorReceived
<1>5. CASE CloseErrCh \/ ConsumerError \/ ConsumerErrorPanics \/ ContextExpires
  BY <1>5 DEF CloseErrCh, ConsumerError, ConsumerErrorPanics, ContextExpires
<1>6. CASE UNCHANGED vars
  BY <1>6 DEF vars
<1> QED BY <1>1, <1>2, <1>3, <1>4, <1>5, <1>6 DEF Next

LEMMA SetsStep == SetsOK /\ DataOK /\ [Next]_vars => SetsOK'
<1> SUFFICES ASSUME SetsOK, DataOK, [Next]_vars PROVE SetsOK'
  OBVIOUS
<1> USE DEF SetsOK
<1>1. CASE SourceNext
  <2>1. drained' = drained
    BY <1>1 DEF SourceNext, sinkVars
  <2>2. read + 1 \in Nat
    BY ParamAssumption DEF DataOK
  <2>3. dropped' = dropped \/ dropped' = dropped \cup {read + 1}
    BY <1>1 DEF SourceNext
  <2> QED BY <2>1, <2>2, <2>3
<1>2. CASE SourceCheck \/ SourceSend
  BY <1>2 DEF SourceCheck, SourceSend, SourceToStage, SourceToSink, sinkVars
<1>3. ASSUME NEW i \in Stages, Stage(i) PROVE SetsOK'
  <2>1. CASE StageProcess(i)
    BY <2>1 DEF StageProcess, DataOK, sinkVars
  <2>2. CASE ~StageProcess(i)
    BY <1>3, <2>2 DEF Stage, StageFail, StageForward, StageStop, StageExit,
                      sinkVars
  <2> QED BY <2>1, <2>2
<1>4. ASSUME NEW s \in Sinks, Sink(s) PROVE SetsOK'
  <2>1. CASE SinkDrain(s)
    BY <2>1 DEF SinkDrain, DataOK
  <2>2. CASE ~SinkDrain(s)
    BY <1>4, <2>2 DEF Sink, SinkFail, SinkStop, SinkExit, StageBroadcast
  <2> QED BY <2>1, <2>2
<1>5. CASE Collector
  BY <1>5 DEF Collector, CollectorStart, CollectorHandle, CollectorReturn,
              ConsumerErrorReceived, sinkVars
<1>6. CASE CloseErrCh \/ ConsumerError \/ ConsumerErrorPanics \/ ContextExpires
  BY <1>6 DEF CloseErrCh, ConsumerError, ConsumerErrorPanics, ContextExpires,
              sinkVars
<1>7. CASE UNCHANGED vars
  BY <1>7 DEF vars, sinkVars
<1> QED BY <1>1, <1>2, <1>3, <1>4, <1>5, <1>6, <1>7 DEF Next, Source

LEMMA DataStep == DataOK /\ [Next]_vars => DataOK'
<1> SUFFICES ASSUME DataOK, [Next]_vars PROVE DataOK'
  OBVIOUS
<1> USE ParamAssumption
        DEF DataOK, SrcPCs, StgPCs, SinkPCs, CollPCs, Stages, Sinks, Last,
            srcVars, stgVars, sinkVars, errVars
<1>1. CASE SourceCheck
  BY <1>1 DEF SourceCheck
<1>2. CASE SourceNext
  BY <1>2 DEF SourceNext
<1>3. CASE SourceSend
  <2>1. CASE SourceToStage
    BY <2>1 DEF SourceToStage
  <2>2. CASE SourceToSink
    BY <2>2 DEF SourceToSink
  <2> QED BY <1>3, <2>1, <2>2 DEF SourceSend
<1>4. ASSUME NEW i \in Stages, Stage(i) PROVE DataOK'
  <2>1. CASE StageProcess(i)
    BY <2>1 DEF StageProcess
  <2>2. CASE StageFail(i)
    BY <2>2 DEF StageFail, MaybeEmit
  <2>3. CASE StageForward(i)
    BY <2>3 DEF StageForward
  <2>4. CASE StageStop(i) \/ StageExit(i)
    BY <2>4 DEF StageStop, StageExit
  <2> QED BY <1>4, <2>1, <2>2, <2>3, <2>4 DEF Stage
<1>5. ASSUME NEW s \in Sinks, Sink(s) PROVE DataOK'
  <2>1. CASE SinkDrain(s)
    BY <2>1 DEF SinkDrain
  <2>2. CASE SinkFail(s)
    BY <2>2 DEF SinkFail, MaybeEmit
  <2>3. CASE SinkStop(s) \/ SinkExit(s)
    BY <2>3 DEF SinkStop, SinkExit
  <2>4. CASE StageBroadcast(s)
    BY <2>4 DEF StageBroadcast, OutIndex
  <2> QED BY <1>5, <2>1, <2>2, <2>3, <2>4 DEF Sink
<1>6. CASE Collector
  <2>1. CASE CollectorStart
    BY <2>1 DEF CollectorStart
  <2>2. CASE CollectorHandle
    BY <2>2 DEF CollectorHandle
  <2>3. CASE CollectorReturn
    BY <2>3 DEF CollectorReturn
  <2>4. CASE ConsumerErrorReceived
    BY <2>4 DEF ConsumerErrorReceived
  <2> QED BY <1>6, <2>1, <2>2, <2>3, <2>4 DEF Collector
<1>7. CASE CloseErrCh
  BY <1>7 DEF CloseErrCh
<1>8. CASE ConsumerError
  BY <1>8 DEF ConsumerError
<1>9. CASE ConsumerErrorPanics
  BY <1>9 DEF ConsumerErrorPanics
<1>10. CASE ContextExpires
  BY <1>10 DEF ContextExpires
<1>11. CASE UNCHANGED vars
  BY <1>11 DEF vars
<1> QED BY <1>1, <1>2, <1>3, <1>4, <1>5, <1>6, <1>7, <1>8, <1>9, <1>10, <1>11
        DEF Next, Source

LEMMA TypeInit == Init => TypeOK
<1>1. Init => FlagsOK
  BY DEF Init, FlagsOK
<1>2. Init => DataOK
  BY ParamAssumption DEF Init, DataOK, SrcPCs, StgPCs, SinkPCs, CollPCs
<1>3. Init => SetsOK
  BY DEF Init, SetsOK
<1> QED BY <1>1, <1>2, <1>3 DEF TypeOK

\* Every variable keeps its type.
THEOREM TypeCorrect == Spec => []TypeOK
<1>1. TypeOK /\ [Next]_vars => TypeOK'
  BY FlagsStep, DataStep, SetsStep DEF TypeOK
<1> QED BY <1>1, TypeInit, PTL DEF Spec

(***************************************************************************)
(* The chain of goroutines: one lemma for each step that moves a payload,  *)
(* one for all the others.                                                 *)
(***************************************************************************)

LEMMA ChainInit == Init => Chain
  BY ParamAssumption DEF Init, Chain, SourceAhead, StagesAhead, SourceGives,
     StagesGive, EmitOut, SinksDrain, DroppedApart, Busy, Seen, Stages, Sinks,
     Last

\* Steps that move no payload: where they change the place of a goroutine,
\* it stops, or is not about to send.
LEMMA NoPayloadMoves ==
  ASSUME DataOK, Chain, UNCHANGED <<read, cur, out, got, drained, dropped>>,
         src' = src \/ "send" \notin {src, src'},
         \A i \in Stages : stage'[i] \in {stage[i], "return", "exited"},
         \A s \in Sinks : sink'[s] \in {sink[s], "return", "exited"}
  PROVE  Chain'
<1> USE ParamAssumption DEF DataOK, Stages, Sinks, Last, Busy, Seen, Chain,
        OutIndex
<1>0. NStages # 0 =>
        Last \in Stages /\ stage'[Last] \in {stage[Last], "return", "exited"}
  OBVIOUS
<1>1. SourceAhead'
  BY DEF SourceAhead, DroppedApart
<1>2. StagesAhead'
  BY DEF SourceAhead, StagesAhead
<1>3. SourceGives'
  BY DEF SourceGives
<1>4. StagesGive'
  BY <1>0 DEF StagesGive
<1>5. EmitOut'
  BY <1>0 DEF EmitOut
<1>6. SinksDrain'
  BY DEF SinksDrain
<1>7. DroppedApart'
  BY DEF DroppedApart
<1> QED BY <1>1, <1>2, <1>3, <1>4, <1>5, <1>6, <1>7 DEF Chain

\* A record that cannot be marshalled is new: nobody has it.
LEMMA SourceNextDropped ==
  ASSUME DataOK, SetsOK, Chain, SourceNext
  PROVE  DroppedApart'
<1>1. read \in Nat /\ read' = read + 1 /\ UNCHANGED <<sinkVars, stgVars>>
  BY ParamAssumption DEF SourceNext, DataOK
<1>2. /\ dropped' \subseteq dropped \cup {read + 1}
      /\ src' = "send" => dropped' = dropped
  BY DEF SourceNext
<1>3. \A i \in Stages : cur[i] \in Nat /\ cur[i] < read + 1
  BY <1>1 DEF DataOK, Chain, SourceAhead
<1>4. \A s \in Sinks : drained[s] \subseteq 1 .. read
  BY <1>1 DEF Chain, SinksDrain, SourceAhead, DataOK
<1>5. dropped' \subseteq 1 .. read'
  BY <1>1, <1>2 DEF Chain, DroppedApart
<1>6. \A i \in Stages : Busy(i)' => cur'[i] \in (1 .. read') \ dropped'
  BY <1>1, <1>2, <1>3 DEF Chain, DroppedApart, stgVars, Busy
<1>7. \A s \in Sinks : drained'[s] \cap dropped' = {}
  BY <1>1, <1>2, <1>4 DEF Chain, DroppedApart, sinkVars
<1>8. src' = "send" => read' \in (1 .. read') \ dropped'
  BY <1>1, <1>2 DEF Chain, DroppedApart
<1>9. \A s \in Sinks : sink'[s] = "drain" => got'[s] \in (1 .. read') \ dropped'
  BY <1>1, <1>2 DEF Chain, DroppedApart, sinkVars
<1> QED BY <1>5, <1>6, <1>7, <1>8, <1>9 DEF DroppedApart

LEMMA SourceNextChain ==
  ASSUME DataOK, SetsOK, Chain, SourceNext
  PROVE  Chain'
<1> USE ParamAssumption DEF DataOK, Stages, Sinks, Last, Busy, Seen, Chain,
        SrcPCs, stgVars, sinkVars
<1>1. SourceAhead'
  BY DEF SourceNext, SourceAhead, DroppedApart
<1>2. StagesAhead'
  BY DEF SourceNext, SourceAhead, StagesAhead
<1>3. SourceGives'
  BY DEF SourceNext, SourceAhead, SourceGives
<1>4. StagesGive'
  BY DEF SourceNext, StagesAhead, SourceGives, StagesGive, EmitOut
<1>5. EmitOut'
  BY DEF SourceNext, EmitOut
<1>6. SinksDrain'
  BY DEF SourceNext, SourceAhead, StagesAhead, SourceGives, SinksDrain,
         DroppedApart
<1>7. DroppedApart'
  BY SourceNextDropped
<1> QED BY <1>1, <1>2, <1>3, <1>4, <1>5, <1>6, <1>7 DEF Chain

LEMMA SourceToStageChain ==
  ASSUME DataOK, SetsOK, Chain, SourceToStage
  PROVE  Chain'
<1> USE ParamAssumption DEF DataOK, Stages, Sinks, Last, Busy, Seen, Chain,
        StgPCs, sinkVars
<1>1. SourceAhead'
  BY DEF SourceToStage, SourceAhead, DroppedApart
<1>2. StagesAhead'
  BY DEF SourceToStage, SourceAhead, StagesAhead
<1>3. SourceGives'
  BY DEF SourceToStage, SourceAhead, SourceGives
<1>4. StagesGive'
  BY DEF SourceToStage, StagesAhead, SourceGives, StagesGive, EmitOut
<1>5. EmitOut'
  BY DEF SourceToStage, EmitOut
<1>6. SinksDrain'
  BY DEF SourceToStage, SourceAhead, StagesAhead, SourceGives, SinksDrain,
         DroppedApart
<1>7. DroppedApart'
  BY DEF SourceToStage, SourceAhead, StagesAhead, SinksDrain, DroppedApart
<1> QED BY <1>1, <1>2, <1>3, <1>4, <1>5, <1>6, <1>7 DEF Chain

LEMMA SourceToSinkChain ==
  ASSUME DataOK, SetsOK, Chain, SourceToSink
  PROVE  Chain'
<1> USE ParamAssumption DEF DataOK, Stages, Sinks, Last, Busy, Seen, Chain,
        SinkPCs, stgVars
<1>1. SourceAhead'
  BY DEF SourceToSink, SourceAhead, DroppedApart
<1>2. StagesAhead'
  BY DEF SourceToSink, SourceAhead, StagesAhead
<1>3. SourceGives'
  BY DEF SourceToSink, SourceAhead, SourceGives
<1>4. StagesGive'
  BY DEF SourceToSink, StagesAhead, SourceGives, StagesGive, EmitOut
<1>5. EmitOut'
  BY DEF SourceToSink, EmitOut
<1>6. SinksDrain'
  BY DEF SourceToSink, SourceAhead, StagesAhead, SourceGives, SinksDrain,
         DroppedApart
<1>7. DroppedApart'
  BY DEF SourceToSink, SourceAhead, StagesAhead, SinksDrain, DroppedApart
<1> QED BY <1>1, <1>2, <1>3, <1>4, <1>5, <1>6, <1>7 DEF Chain

\* A stage that discards its payload is ahead of all that follow it.
LEMMA StageProcessGives ==
  ASSUME DataOK, SetsOK, Chain, NEW i \in Stages, StageProcess(i)
  PROVE  StagesGive' /\ DroppedApart'
<1>1. /\ stage[i] = "proc" /\ stage' \in [Stages -> StgPCs]
      /\ \A j \in Stages : j # i => stage'[j] = stage[j]
      /\ i = Last => out' = 0
      /\ i # Last => out' = out
      /\ UNCHANGED <<src, read, cur, got, sink, drained>>
      /\ cur \in [Stages -> Nat] /\ stage \in [Stages -> StgPCs] /\ read \in Nat
      /\ dropped \subseteq dropped' /\ dropped' \subseteq dropped \cup {cur[i]}
      /\ stage'[i] = "recv" => cur[i] \in dropped'
      /\ stage'[i] \in {"proc", "emit"} => dropped' = dropped
  BY ParamAssumption DEF StageProcess, DataOK, sinkVars, srcVars, StgPCs
<1>2. cur[i] \in (1 .. read) \ dropped
  BY <1>1 DEF Chain, DroppedApart, Busy
<1>3. ASSUME NEW j \in Stages, j # Last, NEW k \in 1 .. cur[j]
      PROVE  Seen(k, cur[j + 1])' \/ (k = cur[j] /\ stage'[j] # "recv")
  BY <1>1, <1>3 DEF Chain, StagesGive, Seen
<1>4. ASSUME NStages # 0, NEW s \in Sinks, NEW k \in 1 .. cur[Last]
      PROVE  \/ Seen(k, got[s])'
             \/ /\ k = cur[Last] /\ stage'[Last] # "recv"
                /\ stage'[Last] = "emit" => out' <= OutIndex(s)
  <2>1. Last \in Stages /\ 0 <= OutIndex(s)
    BY <1>4, ParamAssumption DEF Stages, Last, Sinks, OutIndex
  <2> QED
    BY <1>1, <1>4, <2>1 DEF Chain, StagesGive, Seen
<1>5. StagesGive'
  BY <1>1, <1>3, <1>4 DEF StagesGive, OutIndex, Last
<1>6. \A j \in Stages : j # i /\ Busy(j) => cur[j] # cur[i]
  <2> SUFFICES ASSUME NEW j \in Stages, j # i, Busy(j) PROVE cur[j] # cur[i]
    OBVIOUS
  <2>1. i \in Int /\ j \in Int /\ Busy(i) /\ cur[i] \in Nat /\ cur[j] \in Nat
    BY <1>1, ParamAssumption DEF Stages, Busy
  <2>2. CASE i < j
    BY <2>1, <2>2 DEF Chain, StagesAhead
  <2>3. CASE j < i
    BY <2>1, <2>3 DEF Chain, StagesAhead
  <2> QED BY <2>1, <2>2, <2>3
<1>7. \A j \in Stages : Busy(j)' => cur'[j] \in (1 .. read') \ dropped'
  <2> SUFFICES ASSUME NEW j \in Stages, Busy(j)'
               PROVE  cur[j] \in (1 .. read) \ dropped'
    BY <1>1
  <2>1. CASE j = i
    BY <1>1, <1>2, <2>1 DEF Busy
  <2>2. CASE j # i
    BY <1>1, <1>6, <2>2 DEF Busy, Chain, DroppedApart
  <2> QED BY <2>1, <2>2
<1>8. src = "send" => cur[i] # read
  BY <1>1 DEF Chain, SourceAhead
<1>9. \A s \in Sinks : got[s] < cur[i] /\ got[s] \in Nat
  BY <1>1 DEF Chain, StagesAhead, Busy, DataOK
<1>10. \A s \in Sinks : drained[s] \cap dropped' = {}
  BY <1>1, <1>9 DEF Chain, DroppedApart, SinksDrain
<1>11. \A s \in Sinks : sink[s] = "drain" => got[s] \in (1 .. read) \ dropped'
  BY <1>1, <1>9 DEF Chain, DroppedApart
<1>12. /\ dropped' \subseteq 1 .. read
       /\ src = "send" => read \in (1 .. read) \ dropped'
  BY <1>1, <1>2, <1>8 DEF Chain, DroppedApart
<1>13. DroppedApart'
  BY <1>1, <1>7, <1>10, <1>11, <1>12 DEF DroppedApart
<1> QED BY <1>5, <1>13

LEMMA StageProcessChain ==
  ASSUME DataOK, SetsOK, Chain, NEW i \in Stages, StageProcess(i)
  PROVE  Chain'
<1> USE ParamAssumption DEF DataOK, Stages, Sinks, Last, Busy, Seen, Chain,
        StgPCs, srcVars, sinkVars
<1>1. SourceAhead'
  BY DEF StageProcess, SourceAhead, DroppedApart
<1>2. StagesAhead'
  BY DEF StageProcess, SourceAhead, StagesAhead
<1>3. SourceGives'
  BY DEF StageProcess, SourceAhead, SourceGives
<1>4. StagesGive'
  BY StageProcessGives
<1>5. EmitOut'
  BY DEF StageProcess, EmitOut
<1>6. SinksDrain'
  BY DEF StageProcess, SourceAhead, StagesAhead, SourceGives, SinksDrain,
         DroppedApart
<1>7. DroppedApart'
  BY StageProcessGives
<1> QED BY <1>1, <1>2, <1>3, <1>4, <1>5, <1>6, <1>7 DEF Chain

\* The payload handed over is the one stage i + 1 misses, and later than all
\* that follow.
LEMMA StageForwardOrder ==
  ASSUME DataOK, SetsOK, Chain, NEW i \in Stages, StageForward(i)
  PROVE  StagesAhead' /\ StagesGive'
<1>1. /\ i + 1 \in Stages /\ i # Last /\ i \in Int
      /\ stage[i] = "emit" /\ stage[i + 1] = "recv"
      /\ stage' = [stage EXCEPT ![i] = "recv", ![i + 1] = "proc"]
      /\ cur' = [cur EXCEPT ![i + 1] = cur[i]]
      /\ cur \in [Stages -> Nat] /\ stage \in [Stages -> StgPCs]
      /\ UNCHANGED <<out, got, dropped>>
  BY ParamAssumption DEF StageForward, Stages, Last, DataOK, sinkVars
<1>2. /\ \A j \in Stages : j # i + 1 => cur'[j] = cur[j]
      /\ \A j \in Stages : j \notin {i, i + 1} => stage'[j] = stage[j]
      /\ cur'[i + 1] = cur[i] /\ stage'[i + 1] = "proc" /\ stage'[i] = "recv"
      /\ \A j \in Stages : cur[j] \in Nat /\ j \in Int
  BY <1>1 DEF Stages
<1>3. \A j, k \in Stages :
        j < k => cur'[k] <= cur'[j] /\ (Busy(j)' => cur'[k] < cur'[j])
  <2> SUFFICES ASSUME NEW j \in Stages, NEW k \in Stages, j < k
               PROVE  cur'[k] <= cur'[j] /\ (Busy(j)' => cur'[k] < cur'[j])
    OBVIOUS
  <2>1. \A a, b \in Stages :
          a < b => cur[b] <= cur[a] /\ (Busy(a) => cur[b] < cur[a])
    BY DEF Chain, StagesAhead
  <2>2. CASE k = i + 1
    BY <1>1, <1>2, <2>1, <2>2 DEF Busy
  <2>3. CASE j = i + 1
    BY <1>1, <1>2, <2>1, <2>3 DEF Busy
  <2>4. CASE j # i + 1 /\ k # i + 1
    BY <1>1, <1>2, <2>1, <2>4 DEF Busy
  <2> QED BY <2>2, <2>3, <2>4
<1>4. \A j \in Stages, s \in Sinks :
       /\ got'[s] <= cur'[j]
       /\ (Busy(j)' /\ (stage'[j] = "emit" /\ j = Last => out' <= OutIndex(s)))
            => got'[s] < cur'[j]
  <2> SUFFICES ASSUME NEW j \in Stages, NEW s \in Sinks
               PROVE  /\ got'[s] <= cur'[j]
                      /\ (/\ Busy(j)'
                          /\ stage'[j] = "emit" /\ j = Last
                                => out' <= OutIndex(s))
                           => got'[s] < cur'[j]
    OBVIOUS
  <2>1. \A a \in Stages :
       /\ got[s] <= cur[a]
       /\ (Busy(a) /\ (stage[a] = "emit" /\ a = Last => out <= OutIndex(s)))
            => got[s] < cur[a]
    BY DEF Chain, StagesAhead
  <2>2. CASE j = i + 1
    BY <1>1, <1>2, <2>1, <2>2 DEF Busy
  <2>3. CASE j # i + 1
    BY <1>1, <1>2, <2>1, <2>3 DEF Busy
  <2> QED BY <2>2, <2>3
<1>5. StagesAhead'
  BY <1>3, <1>4 DEF StagesAhead, OutIndex
<1>6. \A k \in 1 .. cur[i] : k \in dropped \/ k <= cur[i + 1] \/ k = cur[i]
  BY <1>1 DEF Chain, StagesGive, Seen
<1>7. \A j \in Stages : j # Last => j + 1 \in Stages
  BY ParamAssumption DEF Stages, Last
<1>8. ASSUME NEW j \in Stages, j # Last, NEW k \in 1 .. cur'[j]
      PROVE  Seen(k, cur[j + 1])' \/ (k = cur'[j] /\ stage'[j] # "recv")
  <2>1. \A a \in Stages : a # Last => \A m \in 1 .. cur[a] :
          m \in dropped \/ m <= cur[a + 1] \/ (m = cur[a] /\ stage[a] # "recv")
    BY DEF Chain, StagesGive, Seen
  <2>2. CASE j = i + 1
    BY <1>1, <1>2, <1>6, <1>7, <1>8, <2>1, <2>2 DEF Seen
  <2>3. CASE j = i
    BY <1>1, <1>2, <1>6, <1>8, <2>3 DEF Seen
  <2>4. CASE j \notin {i, i + 1}
    BY <1>1, <1>2, <1>7, <1>8, <2>1, <2>4 DEF Seen
  <2> QED BY <2>2, <2>3, <2>4
<1>9. ASSUME NStages # 0, NEW s \in Sinks, NEW k \in 1 .. cur'[Last]
      PROVE  \/ Seen(k, got[s])'
             \/ /\ k = cur'[Last] /\ stage'[Last] # "recv"
                /\ stage'[Last] = "emit" => out' <= OutIndex(s)
  <2>1. \A m \in 1 .. cur[Last] : 
             \/ m \in dropped \/ m <= got[s]
             \/ /\ m = cur[Last] /\ stage[Last] # "recv"
                /\ stage[Last] = "emit" => out <= OutIndex(s)
    BY <1>9 DEF Chain, StagesGive, Seen
  <2>2. Last \in Stages
    BY <1>9, ParamAssumption DEF Stages, Last
  <2>3. CASE Last = i + 1
    <3>1. /\ stage[Last] = "recv" /\ stage'[Last] = "proc"
          /\ cur'[Last] = cur[i] /\ cur[i] \in Nat /\ cur[Last] \in Nat
          /\ got' = got /\ dropped' = dropped
      BY <1>1, <1>2, <2>2, <2>3
    <3>2. k \in dropped \/ k <= cur[Last] \/ k = cur[i]
      BY <1>6, <1>9, <2>3, <3>1
    <3> QED BY <1>9, <2>1, <3>1, <3>2 DEF Seen
  <2>4. CASE Last # i + 1
    BY <1>1, <1>2, <1>9, <2>1, <2>2, <2>4 DEF Seen
  <2> QED BY <2>3, <2>4
<1>10. StagesGive'
  BY <1>8, <1>9 DEF StagesGive, OutIndex, Last
<1> QED BY <1>5, <1>10

LEMMA StageForwardChain ==
  ASSUME DataOK, SetsOK, Chain, NEW i \in Stages, StageForward(i)
  PROVE  Chain'
<1> USE ParamAssumption DEF DataOK, Stages, Sinks, Last, Busy, Seen, Chain,
        StgPCs, srcVars, sinkVars
<1>1. SourceAhead'
  BY DEF StageForward, SourceAhead, DroppedApart
<1>2. StagesAhead'
  BY StageForwardOrder
<1>3. SourceGives'
  BY DEF StageForward, SourceAhead, SourceGives
<1>4. StagesGive'
  BY StageForwardOrder
<1>5. EmitOut'
  BY DEF StageForward, EmitOut
<1>6. SinksDrain'
  BY DEF StageForward, SourceAhead, StagesAhead, SourceGives, SinksDrain,
         DroppedApart
<1>7. DroppedApart'
  BY DEF StageForward, SourceAhead, StagesAhead, SinksDrain, DroppedApart
<1> QED BY <1>1, <1>2, <1>3, <1>4, <1>5, <1>6, <1>7 DEF Chain

\* The sink worker served is level with the last stage, those after it in
\* the broadcast are still behind.
LEMMA StageBroadcastAhead ==
  ASSUME DataOK, SetsOK, Chain, NEW s \in Sinks, StageBroadcast(s)
  PROVE  StagesAhead'
<1>1. /\ Last \in Stages /\ stage[Last] = "emit" /\ out = OutIndex(s)
      /\ cur' = cur /\ cur \in [Stages -> Nat] /\ out' = out + 1
      /\ stage' \in [Stages -> StgPCs] /\ stage'[Last] # "proc"
      /\ \A i \in Stages : i # Last => stage'[i] = stage[i]
  BY ParamAssumption DEF StageBroadcast, Stages, Last, DataOK, StgPCs
<1>2. \A i, j \in Stages :
        i < j => cur[j] <= cur[i] /\ (Busy(i)' => cur[j] < cur[i])
  BY <1>1 DEF Chain, StagesAhead, Busy
<1>3. \A i \in Stages : /\ cur[Last] <= cur[i]
                        /\ i # Last /\ Busy(i) => cur[Last] < cur[i]
  BY <1>1, ParamAssumption DEF Chain, StagesAhead, Stages, Last
<1>4. \A t \in Sinks : t # s => /\ got'[t] = got[t]
                                /\ OutIndex(t) # OutIndex(s)
                                /\ OutIndex(t) \in Int
  BY ParamAssumption DEF StageBroadcast, Sinks, OutIndex, DataOK
<1>5. got'[s] = cur[Last]
  BY DEF StageBroadcast, DataOK
<1>6. \A i \in Stages : /\ cur[Last] <= cur[i]
                        /\ Busy(i)' /\ i # Last => cur[Last] < cur[i]
  BY <1>1, <1>3 DEF Busy
<1>7. OutIndex(s) \in Int
  BY ParamAssumption DEF Sinks, OutIndex
<1>8. \A i \in Stages, t \in Sinks : t # s =>
         /\ got[t] <= cur[i]
         /\ (Busy(i) /\ (stage[i] = "emit" /\ i = Last => out <= OutIndex(t)))
              => got[t] < cur[i]
  BY DEF Chain, StagesAhead
<1>9. \A i \in Stages, t \in Sinks : 
         /\ got'[t] <= cur[i]
         /\ (Busy(i)' /\ (stage'[i] = "emit" /\ i = Last => out' <= OutIndex(t)))
              => got'[t] < cur[i]
  <2> SUFFICES ASSUME NEW i \in Stages, NEW t \in Sinks
       PROVE /\ got'[t] <= cur[i]
             /\ (/\ Busy(i)'
                 /\ stage'[i] = "emit" /\ i = Last => out' <= OutIndex(t))
                  => got'[t] < cur[i]
     OBVIOUS
  <2>1. CASE t = s
    BY <2>1, <1>1, <1>5, <1>6, <1>7 DEF Busy
  <2>2. CASE t # s
    BY <2>2, <1>1, <1>4, <1>7, <1>8 DEF Busy
  <2> QED BY <2>1, <2>2
<1> QED BY <1>1, <1>2, <1>9 DEF StagesAhead, OutIndex

\* The sink worker served has drained all that it got before.
LEMMA StageBroadcastDrain ==
  ASSUME DataOK, SetsOK, Chain, NEW s \in Sinks, StageBroadcast(s)
  PROVE  SinksDrain'
<1>1. /\ NStages # 0 /\ Last \in Stages /\ cur[Last] \in Nat
      /\ stage[Last] = "emit" /\ sink[s] = "recv" /\ out = OutIndex(s)
  BY ParamAssumption DEF StageBroadcast, Stages, Last, DataOK
<1>2. got[s] < cur[Last]
  BY <1>1 , ParamAssumption DEF Chain, StagesAhead, Busy, Sinks, OutIndex
<1>3. \A k \in 1 .. cur[Last] : k \in dropped \/ k <= got[s] \/ k = cur[Last]
  BY <1>1 DEF Chain, StagesGive, Seen
<1>4. /\ drained' = drained /\ dropped' = dropped
      /\ sink' = [sink EXCEPT ![s] = "drain"]
      /\ got' = [got EXCEPT ![s] = cur[Last]]
  BY DEF StageBroadcast
<1> QED
  BY ParamAssumption, <1>1, <1>2, <1>3, <1>4
     DEF DataOK, SetsOK, Sinks, Chain, SinksDrain

LEMMA StageBroadcastChain ==
  ASSUME DataOK, SetsOK, Chain, NEW s \in Sinks, StageBroadcast(s)
  PROVE  Chain'
<1> USE ParamAssumption DEF DataOK, Stages, Sinks, Last, Busy, Seen, Chain,
        StgPCs, srcVars, OutIndex
<1>1. SourceAhead'
  BY DEF StageBroadcast, SourceAhead, DroppedApart
<1>2. StagesAhead'
  BY StageBroadcastAhead
<1>3. SourceGives'
  BY DEF StageBroadcast, SourceAhead, SourceGives
<1>4. StagesGive'
  BY DEF StageBroadcast, StagesAhead, SourceGives, StagesGive, EmitOut
<1>5. EmitOut'
  BY DEF StageBroadcast, EmitOut
<1>6. SinksDrain'
  BY StageBroadcastDrain
<1>7. DroppedApart'
  BY DEF StageBroadcast, SourceAhead, StagesAhead, SinksDrain, DroppedApart
<1> QED BY <1>1, <1>2, <1>3, <1>4, <1>5, <1>6, <1>7 DEF Chain

LEMMA SinkDrainChain ==
  ASSUME DataOK, SetsOK, Chain, NEW s \in Sinks, SinkDrain(s)
  PROVE  Chain'
<1> USE ParamAssumption DEF DataOK, Stages, Sinks, Last, Busy, Seen, Chain,
        SetsOK, SinkPCs, srcVars, stgVars
<1>1. SourceAhead'
  BY DEF SinkDrain, SourceAhead, DroppedApart
<1>2. StagesAhead'
  BY DEF SinkDrain, SourceAhead, StagesAhead
<1>3. SourceGives'
  BY DEF SinkDrain, SourceAhead, SourceGives
<1>4. StagesGive'
  BY DEF SinkDrain, StagesAhead, SourceGives, StagesGive, EmitOut
<1>5. EmitOut'
  BY DEF SinkDrain, EmitOut
<1>6. SinksDrain'
  BY DEF SinkDrain, SourceAhead, SinksDrain, DroppedApart
<1>7. DroppedApart'
  BY DEF SinkDrain, SinksDrain, DroppedApart
<1> QED BY <1>1, <1>2, <1>3, <1>4, <1>5, <1>6, <1>7 DEF Chain

LEMMA ChainStep == DataOK /\ SetsOK /\ Chain /\ [Next]_vars => Chain'
<1> SUFFICES ASSUME DataOK, SetsOK, Chain, [Next]_vars PROVE Chain'
  OBVIOUS
<1>1. CASE Source
  <2>1. CASE SourceCheck
    BY <2>1, NoPayloadMoves DEF SourceCheck, stgVars, sinkVars
  <2> QED BY <1>1, <2>1, SourceNextChain, SourceToStageChain,
             SourceToSinkChain DEF Source, SourceSend
<1>2. ASSUME NEW i \in Stages, Stage(i) PROVE Chain'
  <2>1. CASE StageFail(i) \/ StageStop(i) \/ StageExit(i)
    BY <2>1, NoPayloadMoves
       DEF StageFail, StageStop, StageExit, DataOK, srcVars, sinkVars
  <2> QED BY <1>2, <2>1, StageProcessChain, StageForwardChain DEF Stage
<1>3. ASSUME NEW s \in Sinks, Sink(s) PROVE Chain'
  <2>1. CASE SinkFail(s) \/ SinkStop(s) \/ SinkExit(s)
    BY <2>1, NoPayloadMoves
       DEF SinkFail, SinkStop, SinkExit, DataOK, srcVars, stgVars
  <2> QED BY <1>3, <2>1, SinkDrainChain, StageBroadcastChain DEF Sink
<1>4. CASE \/ Collector \/ CloseErrCh \/ ConsumerError \/ ConsumerErrorPanics
           \/ ContextExpires \/ UNCHANGED vars
  <2>1. UNCHANGED <<srcVars, stgVars, sinkVars, dropped>>
    BY <1>4 DEF Collector, CollectorStart, CollectorHandle, CollectorReturn,
                ConsumerErrorReceived, CloseErrCh, ConsumerError,
                ConsumerErrorPanics, ContextExpires, vars
  <2> QED BY <2>1, NoPayloadMoves DEF srcVars, stgVars, sinkVars
<1> QED BY <1>1, <1>2, <1>3, <1>4 DEF Next

\* The inductive invariant.
THEOREM Inductive == Spec => []IInv
<1>1. Init => IInv
  BY TypeInit, ChainInit DEF IInv
<1>2. IInv /\ [Next]_vars => IInv'
  BY FlagsStep, DataStep, SetsStep, ChainStep DEF IInv, TypeOK
<1> QED BY <1>1, <1>2, PTL DEF Spec

(***************************************************************************)
(* What follows from it.                                                   *)
(***************************************************************************)

LEMMA ChainGapFree == DataOK /\ SetsOK /\ Chain => GapFree
<1> SUFFICES ASSUME DataOK, SetsOK, Chain, NEW s \in Sinks,
                    NEW m \in drained[s], NEW k \in 1 .. (m - 1)
             PROVE  k \in drained[s] \cup dropped
  BY DEF GapFree
<1>1. m \in 1 .. got[s] /\ got[s] \in Nat
  BY DEF Chain, SinksDrain, DataOK
<1>2. k \in 1 .. got[s] /\ k # got[s]
  BY <1>1
<1> QED BY <1>2 DEF Chain, SinksDrain

LEMMA ChainInOrder == DataOK /\ SetsOK /\ Chain => InOrder
<1> SUFFICES ASSUME DataOK, SetsOK, Chain, NEW s \in Sinks, sink[s] = "drain",
                    NEW m \in drained[s]
             PROVE  m < got[s]
  BY DEF InOrder
<1>1. m \in 1 .. got[s] /\ got[s] \in Nat /\ m # got[s]
  BY DEF Chain, SinksDrain, DataOK
<1> QED BY <1>1

\* No storage ever misses an undiscarded payload that is earlier than one it
\* has.
THEOREM NoGap == Spec => []GapFree
  BY Inductive, ChainGapFree, PTL DEF IInv, TypeOK

\* Every storage is offered the payloads once each, in the order in which
\* the source took them.
THEOREM Ordered == Spec => []InOrder
  BY Inductive, ChainInOrder, PTL DEF IInv, TypeOK

\* At most one record is taken after the cancellation.
THEOREM OneLateRead == Spec => []LateReads
<1>1. Init => LateOnce
  BY DEF Init, LateOnce
<1>2. LateOnce /\ DataOK /\ [Next]_vars => LateOnce'
  <2> SUFFICES ASSUME LateOnce, DataOK, [Next]_vars PROVE LateOnce'
    OBVIOUS
  <2> USE DEF LateOnce
  <2>1. CASE Source
    BY <2>1 DEF Source, SourceCheck, SourceNext, SourceSend, SourceToStage,
                SourceToSink, DataOK
  <2>2. CASE ~Source
    <3>1. UNCHANGED srcVars /\ (ctxDone => ctxDone')
      BY <2>2 DEF Next, Stage, StageProcess, StageFail, StageForward,
                  StageStop, StageExit, Sink, SinkDrain, SinkFail, SinkStop,
                  SinkExit, StageBroadcast, Collector, CollectorStart,
                  CollectorHandle, CollectorReturn, ConsumerErrorReceived,
                  CloseErrCh, ConsumerError, ConsumerErrorPanics,
                  ContextExpires, vars
    <3> QED BY <3>1 DEF srcVars
  <2> QED BY <2>1, <2>2
<1>3. LateOnce => LateReads
  BY DEF LateOnce, LateReads
<1>4. TypeOK => DataOK
  BY DEF TypeOK
<1> QED BY <1>1, <1>2, <1>3, <1>4, TypeCorrect, PTL DEF Spec

\* Process does what Delivery says: every step is a step of Delivery or moves
\* no payload into or out of a storage's sight.
THEOREM ImplementsDelivery == Spec => DeliverySpec
<1>1. Init => D!Init
  BY DEF Init, D!Init
<1>2. IInv /\ [Next]_vars => [D!Next]_D!vars
  <2> SUFFICES ASSUME DataOK, SetsOK, Chain, [Next]_vars
               PROVE  D!Next \/ UNCHANGED <<read, dropped, drained>>
    BY DEF IInv, TypeOK, D!vars
  <2>1. CASE SourceNext
    BY <2>1 DEF SourceNext, D!Next, D!Take, D!TakeAndDiscard, sinkVars
  <2>2. CASE SourceCheck \/ SourceSend
    BY <2>2 DEF SourceCheck, SourceSend, SourceToStage, SourceToSink, sinkVars
  <2>3. ASSUME NEW i \in Stages, StageProcess(i)
        PROVE  D!Next \/ UNCHANGED <<read, dropped, drained>>
    <3>1. cur[i] \in 1 .. read
      BY <2>3 DEF StageProcess, Chain, DroppedApart, Busy
    <3>2. \A s \in Sinks : \A k \in drained[s] : k < cur[i]
      <4> SUFFICES ASSUME NEW s \in Sinks, NEW k \in drained[s]
                   PROVE  k < cur[i]
        OBVIOUS
      <4>1. got[s] < cur[i]
        BY <2>3 DEF StageProcess, Chain, StagesAhead, Busy
      <4>2. k \in 1 .. got[s] /\ got[s] \in Nat /\ cur[i] \in Nat
        BY DEF Chain, SinksDrain, DataOK
      <4> QED BY <4>1, <4>2
    <3>3. /\ UNCHANGED <<read, drained>>
          /\ dropped' = dropped \/ dropped' = dropped \cup {cur[i]}
      BY <2>3 DEF StageProcess, srcVars, sinkVars
    <3> QED BY <3>1, <3>2, <3>3 DEF D!Next, D!Discard
  <2>4. ASSUME NEW s \in Sinks, SinkDrain(s)
        PROVE  D!Next \/ UNCHANGED <<read, dropped, drained>>
    <3>1. got[s] \in (1 .. read) \ (drained[s] \cup dropped)
      BY <2>4 DEF SinkDrain, Chain, SinksDrain, DroppedApart
    <3>2. \A k \in 1 .. (got[s] - 1) : k \in drained[s] \cup dropped
      BY DEF Chain, SinksDrain, DataOK
    <3>3. /\ UNCHANGED <<read, dropped>>
          /\ \/ drained' = drained
             \/ drained' = [drained EXCEPT ![s] = @ \cup {got[s]}]
      BY <2>4 DEF SinkDrain, srcVars
    <3> QED BY <3>1, <3>2, <3>3 DEF D!Next, D!Store
  <2>5. ASSUME NEW i \in Stages, Stage(i), ~StageProcess(i)
        PROVE  UNCHANGED <<read, dropped, drained>>
    BY <2>5 DEF Stage, StageFail, StageForward, StageStop, StageExit, srcVars,
                sinkVars
  <2>6. ASSUME NEW s \in Sinks, Sink(s), ~SinkDrain(s)
        PROVE  UNCHANGED <<read, dropped, drained>>
    BY <2>6 DEF Sink, SinkFail, SinkStop, SinkExit, StageBroadcast, srcVars
  <2>7. CASE \/ Collector \/ CloseErrCh \/ ConsumerError \/ ConsumerErrorPanics
             \/ ContextExpires \/ UNCHANGED vars
    BY <2>7 DEF Collector, CollectorStart, CollectorHandle, CollectorReturn,
                ConsumerErrorReceived, CloseErrCh, ConsumerError,
                ConsumerErrorPanics, ContextExpires, vars, srcVars, sinkVars
  <2> QED BY <2>1, <2>2, <2>3, <2>4, <2>5, <2>6, <2>7 DEF Next, Source
<1> QED BY <1>1, <1>2, Inductive, PTL DEF Spec, DeliverySpec, D!Spec

(***************************************************************************)
(* Panics.                                                                 *)
(***************************************************************************)

\* A worker that reports an error has not returned, so errCh is still open;
\* and a worker that has returned takes no step.
LEMMA PanicStep ==
  DataOK /\ ClosedLast /\ NoWorkerPanic /\ [Next]_vars
    => (ClosedLast /\ NoWorkerPanic)'
<1> SUFFICES ASSUME DataOK, ClosedLast, NoWorkerPanic, [Next]_vars
             PROVE  (ClosedLast /\ NoWorkerPanic)'
  OBVIOUS
<1> USE DEF ClosedLast, NoWorkerPanic, WorkersExited
<1>1. CASE UNCHANGED vars
  BY <1>1 DEF vars, srcVars, stgVars, sinkVars, errVars
<1>2. CASE ~crashed /\ Source
  <2>1. /\ src # "exited"
        /\ UNCHANGED <<errClosed, crashed>>
    BY <1>2 DEF Source, SourceCheck, SourceNext, SourceSend, SourceToStage,
                SourceToSink, errVars
  <2> QED BY <1>2, <2>1
<1>3. ASSUME ~crashed, NEW i \in Stages, Stage(i)
      PROVE  (ClosedLast /\ NoWorkerPanic)'
  <2>1. stage[i] # "exited"
    BY <1>3 DEF Stage, StageProcess, StageFail, StageForward, StageStop,
                StageExit
  <2>2. ~errClosed
    BY <2>1
  <2>3. errClosed' = errClosed /\ (crashed' = crashed \/ crashed' = errClosed)
    BY <1>3 DEF Stage, StageProcess, StageFail, StageForward, StageStop,
                StageExit, MaybeEmit, errVars
  <2> QED BY <1>3, <2>2, <2>3
<1>4. ASSUME ~crashed, NEW s \in Sinks, Sink(s)
      PROVE  (ClosedLast /\ NoWorkerPanic)'
  <2>1. sink[s] # "exited"
    BY <1>4 DEF Sink, SinkDrain, SinkFail, SinkStop, SinkExit, StageBroadcast
  <2>2. ~errClosed
    BY <2>1
  <2>3. errClosed' = errClosed /\ (crashed' = crashed \/ crashed' = errClosed)
    BY <1>4 DEF Sink, SinkDrain, SinkFail, SinkStop, SinkExit, StageBroadcast,
                MaybeEmit, errVars
  <2> QED BY <1>4, <2>2, <2>3
<1>5. CASE ~crashed /\ (Collector \/ ConsumerError \/ ContextExpires)
  <2>1. /\ UNCHANGED <<src, stage, sink, errClosed, crashed>>
    BY <1>5 DEF Collector, CollectorStart, CollectorHandle, CollectorReturn,
                ConsumerErrorReceived, ConsumerError, ContextExpires,
                srcVars, stgVars, sinkVars, errVars
  <2> QED BY <1>5, <2>1
<1>6. CASE ~crashed /\ CloseErrCh
  BY <1>6 DEF CloseErrCh, WaitGroupZero, srcVars, stgVars, sinkVars
<1>7. CASE ConsumerErrorPanics
  BY <1>7 DEF ConsumerErrorPanics, srcVars, stgVars, sinkVars, errVars
<1> QED BY <1>1, <1>2, <1>3, <1>4, <1>5, <1>6, <1>7 DEF Next

\* No worker of Process sends on the closed errCh, whatever fails and
\* whenever the collector starts: only an error of the consumer, which wg
\* does not count, can bring the process down.
THEOREM NoSendAfterClose == Spec => []NoWorkerPanic
<1>1. Init => ClosedLast /\ NoWorkerPanic
  BY DEF Init, ClosedLast, NoWorkerPanic
<1>2. TypeOK => DataOK
  BY DEF TypeOK
<1> QED BY <1>1, <1>2, PanicStep, TypeCorrect, PTL DEF Spec

(***************************************************************************)
(* Backpressure.                                                           *)
(***************************************************************************)

\* Two values are at most two.
LEMMA PairBound ==
  ASSUME NEW a, NEW b
  PROVE  IsFiniteSet({a, b}) /\ Cardinality({a, b}) <= 2
<1>1. /\ IsFiniteSet({a}) /\ Cardinality({a}) = 1
      /\ IsFiniteSet({b}) /\ Cardinality({b}) = 1
  BY FS_Singleton
<1>2. {a, b} = {a} \cup {b}
  OBVIOUS
<1> QED BY <1>1, <1>2, UnionBound

\* What storage s has and storage t has not is with t's sink worker or being
\* broadcast.
LEMMA SkewSet ==
  ASSUME DataOK, SetsOK, Chain, NStages # 0, NEW s \in Sinks, NEW t \in Sinks
  PROVE  drained[s] \ drained[t] \subseteq {got[t], cur[Last]}
<1> SUFFICES ASSUME NEW k \in drained[s], k \notin drained[t], k # got[t]
             PROVE  k = cur[Last]
  OBVIOUS
<1>1. Last \in Stages /\ cur[Last] \in Nat /\ got[s] \in Nat /\ got[t] \in Nat
  BY ParamAssumption DEF Stages, Last, DataOK
<1>2. k \in 1 .. got[s] /\ k \notin dropped
  BY DEF Chain, SinksDrain, DroppedApart
<1>3. k \in 1 .. cur[Last]
  BY <1>1, <1>2 DEF Chain, StagesAhead
<1>4. ~(k <= got[t])
  BY <1>1, <1>2 DEF Chain, SinksDrain
<1> QED BY <1>2, <1>3, <1>4 DEF Chain, StagesGive, Seen

LEMMA ChainFanoutSkew ==
  AllFed /\ DataOK /\ SetsOK /\ Chain => FanoutSkew
<1> SUFFICES ASSUME AllFed, DataOK, SetsOK, Chain, NEW s \in Sinks,
                    NEW t \in Sinks
             PROVE  Cardinality(drained[s] \ drained[t]) <= 2
  BY DEF FanoutSkew
<1>1. CASE s = t
  <2>1. drained[s] \ drained[t] = {}
    BY <1>1
  <2> QED BY <2>1, FS_EmptySet
<1>2. CASE s # t
  <2>1. NStages # 0
    BY <1>2, ParamAssumption DEF AllFed, Sinks
  <2>2. drained[s] \ drained[t] \subseteq {got[t], cur[Last]}
    BY <2>1, SkewSet
  <2>3. /\ IsFiniteSet({got[t], cur[Last]})
        /\ Cardinality({got[t], cur[Last]}) <= 2
    BY PairBound
  <2>4. /\ IsFiniteSet(drained[s] \ drained[t])
        /\ Cardinality(drained[s] \ drained[t])
             <= Cardinality({got[t], cur[Last]})
    BY <2>2, <2>3, FS_Subset
  <2> QED BY <2>3, <2>4, FS_CardinalityType
<1> QED BY <1>1, <1>2

\* A payload that was taken, was not discarded and is in no goroutine's hands
\* has gone past every stage: at the first stage it has not reached, the one
\* before it, or the source, would have it.
LEMMA PastStages ==
  ASSUME DataOK, Chain, NStages # 0, NEW k \in 1 .. read,
         k \notin dropped, k # read, \A i \in Stages : k # cur[i]
  PROVE  k <= cur[Last]
<1> DEFINE Behind == {i \in Stages : ~(k <= cur[i])}
<1> SUFFICES ASSUME Behind # {} PROVE FALSE
  BY ParamAssumption DEF Stages, Last
<1>1. Behind \subseteq Nat
  BY DEF Stages
<1>2. PICK i \in Behind : \A j \in Behind : i <= j
  BY <1>1, LeastNatural
<1>3. i # 0
  BY <1>2, ParamAssumption DEF Chain, SourceGives, Seen
<1>4. i \in 1 .. (NStages - 1)
  BY <1>2, <1>3, ParamAssumption DEF Stages
<1>5. i - 1 \in Stages /\ i - 1 # Last /\ i - 1 + 1 = i
  BY <1>4, ParamAssumption DEF Stages, Last
<1>6. k <= cur[i - 1]
  <2>1. ~(i <= i - 1)
    BY <1>4
  <2> QED BY <1>2, <1>5, <2>1
<1>7. k \in 1 .. cur[i - 1]
  BY <1>5, <1>6 DEF DataOK
<1>8. Seen(k, cur[i]) \/ k = cur[i - 1]
  BY <1>5, <1>7 DEF Chain, StagesGive
<1> QED BY <1>2, <1>5, <1>8 DEF Seen

\* What was taken and is neither discarded nor with storage s is in the hands
\* of the source worker, of a stage or of the sink worker.
LEMMA InFlightSet ==
  ASSUME AllFed, DataOK, SetsOK, Chain, NEW s \in Sinks
  PROVE  (1 .. read) \ (dropped \cup drained[s])
           \subseteq {read, got[s]} \cup {cur[i] : i \in Stages}
<1> SUFFICES ASSUME NEW k \in 1 .. read, k \notin dropped, k # read,
                    \A i \in Stages : k # cur[i], k # got[s]
             PROVE  k \in drained[s]
  OBVIOUS
<1>1. k <= got[s]
  <2>1. CASE NStages = 0
    <3>1. s = NSinks - 1
      BY <2>1, ParamAssumption DEF AllFed, Sinks
    <3> QED BY <2>1, <3>1 DEF Chain, SourceGives, Seen
  <2>2. CASE NStages # 0
    <3>1. k <= cur[Last]
      BY <2>2, PastStages
    <3>2. Last \in Stages
      BY <2>2, ParamAssumption DEF Stages, Last
    <3>3. k \in 1 .. cur[Last]
      BY <3>1, <3>2 DEF DataOK
    <3> QED BY <2>2, <3>2, <3>3 DEF Chain, StagesGive, Seen
  <2> QED BY <2>1, <2>2
<1>2. k \in 1 .. got[s]
  BY <1>1 DEF DataOK
<1> QED BY <1>2 DEF Chain, SinksDrain

LEMMA ChainInFlight ==
  AllFed /\ DataOK /\ SetsOK /\ Chain => InFlightBound
<1> SUFFICES ASSUME AllFed, DataOK, SetsOK, Chain, NEW s \in Sinks
             PROVE  Cardinality((1 .. read) \ (dropped \cup drained[s]))
                      <= NStages + 2
  BY DEF InFlightBound
<1> DEFINE Hands == {cur[i] : i \in Stages}
           Ends == {read, got[s]}
           Missing == (1 .. read) \ (dropped \cup drained[s])
<1>1. Missing \subseteq Ends \cup Hands
  BY InFlightSet
<1>2. IsFiniteSet(Ends) /\ Cardinality(Ends) <= 2
  BY PairBound
<1>3. IsFiniteSet(Stages) /\ Cardinality(Stages) = NStages
  BY ParamAssumption, FS_Interval DEF Stages
<1>4. IsFiniteSet(Hands) /\ Cardinality(Hands) <= NStages
  BY <1>3, ImageBound
<1> HIDE DEF Hands, Ends, Missing
<1>5. /\ IsFiniteSet(Ends \cup Hands)
      /\ Cardinality(Ends \cup Hands) <= Cardinality(Ends) + Cardinality(Hands)
  BY <1>2, <1>4, UnionBound
<1>6. /\ IsFiniteSet(Missing)
      /\ Cardinality(Missing) <= Cardinality(Ends \cup Hands)
  BY <1>1, <1>5, FS_Subset
<1>7. /\ Cardinality(Ends) \in Nat /\ Cardinality(Hands) \in Nat
      /\ Cardinality(Ends \cup Hands) \in Nat /\ Cardinality(Missing) \in Nat
  BY <1>2, <1>4, <1>5, <1>6, FS_CardinalityType
<1>8. Cardinality(Missing) <= NStages + 2
  BY <1>2, <1>4, <1>5, <1>6, <1>7, ParamAssumption
<1> QED BY <1>8 DEF Missing

\* When every sink worker's channel has a sender, one broadcast loop feeds
\* them all, and no storage gets more than two payloads ahead of another,
\* however many stages and storages there are.
THEOREM BoundedSkew == ASSUME AllFed PROVE Spec => []FanoutSkew
<1>1. IInv => FanoutSkew
  BY ChainFanoutSkew DEF IInv, TypeOK
<1> QED BY <1>1, Inductive, PTL

\* In the same pipelines at most NStages + 2 payloads that were taken are
\* still missing from a storage: what a crash or a cancellation can lose.
THEOREM BoundedInFlight == ASSUME AllFed PROVE Spec => []InFlightBound
<1>1. IInv => InFlightBound
  BY ChainInFlight DEF IInv, TypeOK
<1> QED BY <1>1, Inductive, PTL
=============================================================================
