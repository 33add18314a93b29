------------------------- MODULE PipelineRun_proofs --------------------------
(* What holds of PipelineRun for every pipeline: any number of elements,    *)
(* stages and workers, any buffer depth, batch size and policy.             *)
(*                                                                          *)
(*   types, channel discipline, the return and the verdict                  *)
(*   trails and fates     what becomes of an element from stage to stage    *)
(*   places               where elements are, and what every action does    *)
(*                        to that: carry, pass on, lose, split, nothing     *)
(*   FlowAlways           places never share anything   => EachOnce         *)
(*   ConservedAlways      nothing promised goes missing => NoneMissing      *)
(*   DrainAlways          goroutines leave in order                         *)
(*   PromiseHolds         the refinement of StreamRun                       *)
(*   OrderKept            one worker per stage, batches stay in line        *)
(*   BooksAlways          supplied = taken in + waiting => CountsAddUp      *)
EXTENDS PipelineRun, FiniteSetTheorems, WellFoundedInduction, TLAPS

USE DEF Offered, ToFlush, NewBatch, Enqueue, Cancelled, Stops, AllDone, Joined

(* What a stage makes of a batch of elements is a batch of elements, and    *)
(* its counters are natural numbers.                                        *)
LEMMA BatchCounts ==
    ASSUME NEW B \in SUBSET Elem
    PROVE  IsFiniteSet(B) /\ Cardinality(B) \in Nat
<1>1. IsFiniteSet(Elem)
  BY FS_Interval, SizesAssumption DEF Elem
<1>2. IsFiniteSet(B)
  BY <1>1, FS_Subset
<1> QED
  BY <1>2, FS_CardinalityType

LEMMA SafeProcessType ==
    ASSUME NEW s \in Stage, NEW B \in SUBSET Elem
    PROVE  /\ SafeProcess(s, B).out \in SUBSET Elem
           /\ SafeProcess(s, B).dropped \in Nat
<1>1. \A e \in B : Emit[s][e] \in SUBSET Elem
  BY StagesAssumption
<1>2. UNION {Emit[s][e] : e \in B} \in SUBSET Elem
  BY <1>1
<1>3. Cardinality(B) \in Nat
  BY BatchCounts
<1>4. Cardinality({e \in B : Emit[s][e] = {}}) \in Nat
  <2>1. {e \in B : Emit[s][e] = {}} \in SUBSET Elem
    OBVIOUS
  <2> QED BY <2>1, BatchCounts
<1> QED
  BY <1>2, <1>3, <1>4 DEF SafeProcess

LEMMA CountType ==
    ASSUME metrics \in [1..Sink -> [in: Nat, out: Nat, dropped: Nat, errs: Nat]],
           NEW s \in 1..Sink, NEW i \in Nat, NEW o \in Nat, NEW d \in Nat,
           NEW n \in Nat
    PROVE  /\ Count(s, i, o, d, n) \in
                  [1..Sink -> [in: Nat, out: Nat, dropped: Nat, errs: Nat]]
           /\ Count(s, i, o, d, n)[s].errs = metrics[s].errs + n
           /\ \A t \in 1..Sink : t # s => Count(s, i, o, d, n)[t] = metrics[t]
<1>1. metrics[s] \in [in: Nat, out: Nat, dropped: Nat, errs: Nat]
  OBVIOUS
<1>2. [in |-> metrics[s].in + i, out |-> metrics[s].out + o,
       dropped |-> metrics[s].dropped + d, errs |-> metrics[s].errs + n]
        \in [in: Nat, out: Nat, dropped: Nat, errs: Nat]
  BY <1>1
<1> QED
  BY <1>2 DEF Count

LEMMA SizesType ==
    /\ NStages \in Nat
    /\ Sink \in Nat
    /\ Sink \in 1..Sink
    /\ NStages \in 0..NStages
    /\ 0 \in 0..NStages
    /\ Stage \subseteq 1..Sink
    /\ \A s \in Stage : s \in 0..NStages /\ s - 1 \in 0..NStages
    /\ 1..NItems \subseteq Elem
  BY SizesAssumption DEF Sink, Stage, Elem

-----------------------------------------------------------------------------
(* Type correctness, one step per action.                                   *)

LEMMA InitType == Init => TypeOK
  BY SizesType, SizesAssumption, SMT DEF Init, TypeOK, NoCounts, Sink, Stage

LEMMA SourceTypeStep ==
    ASSUME TypeOK,
           CallerCancel \/ FeederExit \/ BatcherStep
    PROVE  TypeOK'
<1> USE SizesType
<1>1. CASE CallerCancel
  BY <1>1 DEF TypeOK, CallerCancel, sourceVars, chanVars, workerVars, mainVars
<1>2. CASE FeederExit
  BY <1>2 DEF TypeOK, FeederExit, chanVars, workerVars, mainVars
<1>3. CASE BatcherTake
  <2>1. next \in Elem /\ next' \in 1..(NItems + 1)
    BY <1>3, SizesAssumption DEF TypeOK, BatcherTake, Elem
  <2> QED BY <1>3, <2>1 DEF TypeOK, BatcherTake, chanVars, workerVars, mainVars
<1>4. CASE BatcherSourceClosed
  BY <1>4 DEF TypeOK, BatcherSourceClosed, workerVars, mainVars
<1>5. CASE BatcherTimeout
  BY <1>5 DEF TypeOK, BatcherTimeout, chanVars, workerVars, mainVars
<1>6. CASE BatcherFlush
  <2>1. Append(chan[0], batch) \in Seq(SUBSET Elem)
    BY DEF TypeOK
  <2> QED BY <1>6, <2>1 DEF TypeOK, BatcherFlush, workerVars, mainVars
<1>7. CASE BatcherCancelled
  BY <1>7 DEF TypeOK, BatcherCancelled, workerVars, mainVars
<1> QED
  BY <1>1, <1>2, <1>3, <1>4, <1>5, <1>6, <1>7 DEF BatcherStep

LEMMA FailType ==
    ASSUME TypeOK, NEW s \in 1..Sink, Fail(s)
    PROVE  err' \in 0..Sink /\ ctx' \in {"live", "derived", "caller"}
  BY SizesType DEF TypeOK, Fail

LEMMA FateType ==
    ASSUME NEW s \in 1..Sink, NEW B \in SUBSET Elem
    PROVE  Fate(s, B) \in SUBSET Elem
  BY DEF Fate

LEMMA WorkerTypeStep ==
    ASSUME TypeOK, NEW s \in Stage, NEW w \in Workers,
           StageClose(s) \/ WorkerStep(s, w)
    PROVE  TypeOK'
<1> USE SizesType
<1> DEFINE r == SafeProcess(s, held[s][w])
<1>0. /\ s \in 1..Sink /\ s \in 0..NStages /\ s - 1 \in 0..NStages
      /\ held[s][w] \in SUBSET Elem
      /\ r.out \in SUBSET Elem /\ r.dropped \in Nat
      /\ Cardinality(held[s][w]) \in Nat
      /\ Cardinality(r.out) \in Nat
  <2>1. held[s][w] \in SUBSET Elem
    BY DEF TypeOK
  <2>2. r.out \in SUBSET Elem /\ r.dropped \in Nat
    BY <2>1, SafeProcessType
  <2> QED BY <2>1, <2>2, BatchCounts
<1> HIDE DEF r
<1>1. CASE StageClose(s)
  BY <1>0, <1>1 DEF TypeOK, StageClose, sourceVars, workerVars, mainVars
<1>2. CASE WorkerRecv(s, w)
  <2>0. chan[s - 1] \in Seq(SUBSET Elem) /\ chan[s - 1] # <<>>
    BY <1>0, <1>2 DEF TypeOK, WorkerRecv
  <2>1. Head(chan[s - 1]) \in SUBSET Elem /\ Tail(chan[s - 1]) \in Seq(SUBSET Elem)
    BY <2>0
  <2> QED BY <1>0, <1>2, <2>1 DEF TypeOK, WorkerRecv, sourceVars, mainVars
<1>3. CASE WorkerRangeEnds(s, w)
  BY <1>0, <1>3 DEF TypeOK, WorkerRangeEnds, sourceVars, chanVars, mainVars
<1>4. CASE WorkerProcess(s, w)
  <2>1. metrics' \in [1..Sink -> [in: Nat, out: Nat, dropped: Nat, errs: Nat]]
    BY <1>0, <1>4, CountType DEF TypeOK, WorkerProcess, r
  <2> QED
    BY <1>0, <1>4, <2>1
    DEF TypeOK, WorkerProcess, sourceVars, chanVars, mainVars, r
<1>5. CASE WorkerFails(s, w)
  <2>1. metrics' \in [1..Sink -> [in: Nat, out: Nat, dropped: Nat, errs: Nat]]
    BY <1>0, <1>5, CountType DEF TypeOK, WorkerFails, r
  <2>2. discarded' \in SUBSET Elem
    BY <1>0, <1>5, FateType DEF TypeOK, WorkerFails
  <2>3. err' \in 0..Sink /\ ctx' \in {"live", "derived", "caller"}
    BY <1>0, <1>5, FailType DEF TypeOK, WorkerFails
  <2>4. /\ wpc' \in [Stage -> [Workers -> {"recv", "process", "send", "done"}]]
        /\ held' \in [Stage -> [Workers -> SUBSET Elem]]
    <3>1. held' = [held EXCEPT ![s][w] = {}]
      BY <1>5, Zenon DEF WorkerFails
    <3>2. PICK q \in {"recv", "done"} : wpc' = [wpc EXCEPT ![s][w] = q]
      BY <1>5, Zenon DEF WorkerFails
    <3>3. held' \in [Stage -> [Workers -> SUBSET Elem]]
      BY <3>1 DEF TypeOK
    <3>4. wpc' \in [Stage -> [Workers -> {"recv", "process", "send", "done"}]]
      BY <3>2 DEF TypeOK
    <3> QED BY <3>3, <3>4
  <2> QED
    BY <1>5, <2>1, <2>2, <2>3, <2>4
    DEF TypeOK, WorkerFails, sourceVars, chanVars, mainVars
<1>6. CASE WorkerSend(s, w)
  <2>0. chan[s] \in Seq(SUBSET Elem)
    BY <1>0 DEF TypeOK
  <2>1. Append(chan[s], held[s][w]) \in Seq(SUBSET Elem)
    BY <1>0, <2>0
  <2> QED BY <1>0, <1>6, <2>1 DEF TypeOK, WorkerSend, sourceVars, mainVars
<1>7. CASE WorkerCancelled(s, w)
  BY <1>0, <1>7 DEF TypeOK, WorkerCancelled, sourceVars, chanVars, mainVars
<1> QED
  BY <1>1, <1>2, <1>3, <1>4, <1>5, <1>6, <1>7 DEF WorkerStep

LEMMA ReachedType ==
    ASSUME NEW B \in SUBSET Elem, NEW seen \in Reached(B)
    PROVE  seen \in SUBSET B
  BY DEF Reached

LEMMA MainTypeStep ==
    ASSUME TypeOK, MainStep
    PROVE  TypeOK'
<1> USE SizesType
<1>1. CASE SinkRecv
  <2>1. /\ Head(chan[NStages]) \in SUBSET Elem
        /\ Tail(chan[NStages]) \in Seq(SUBSET Elem)
    BY <1>1 DEF TypeOK, SinkRecv
  <2> QED BY <1>1, <2>1 DEF TypeOK, SinkRecv, sourceVars, workerVars
<1>2. CASE SinkConsume
  <2>1. PICK seen \in Reached(sinkBatch) :
          LET shed == Cardinality(seen \intersect SinkSheds)
              size == Cardinality(sinkBatch)
              failed == seen # sinkBatch
          IN
          /\ delivered' = delivered \union (seen \ SinkSheds)
          /\ discarded' = discarded \union ((sinkBatch \ seen) \ SinkSheds)
          /\ metrics' = Count(Sink, size, size - shed, shed,
                              IF failed THEN 1 ELSE 0)
          /\ IF failed /\ FailFast THEN Fail(Sink) ELSE UNCHANGED <<err, ctx>>
    BY <1>2 DEF SinkConsume
  <2>2. seen \in SUBSET sinkBatch /\ sinkBatch \in SUBSET Elem
    BY ReachedType DEF TypeOK
  <2>3. /\ Cardinality(sinkBatch) \in Nat
        /\ Cardinality(seen \intersect SinkSheds) \in Nat
        /\ Cardinality(sinkBatch) - Cardinality(seen \intersect SinkSheds) \in Nat
    <3>1. IsFiniteSet(sinkBatch)
      BY <2>2, BatchCounts
    <3>2. seen \intersect SinkSheds \subseteq sinkBatch
      BY <2>2
    <3> QED
      BY <3>1, <3>2, FS_Subset, FS_CardinalityType
  <2>4. metrics' \in [1..Sink -> [in: Nat, out: Nat, dropped: Nat, errs: Nat]]
    BY <2>1, <2>3, CountType DEF TypeOK
  <2>5. err' \in 0..Sink /\ ctx' \in {"live", "derived", "caller"}
    BY <2>1, FailType DEF TypeOK
  <2>6. delivered' \in SUBSET Elem /\ discarded' \in SUBSET Elem
    BY <2>1, <2>2 DEF TypeOK
  <2> QED
    BY <1>2, <2>4, <2>5, <2>6
    DEF TypeOK, SinkConsume, sourceVars, chanVars, workerVars
<1>3. CASE SinkRangeEnds
  BY <1>3 DEF TypeOK, SinkRangeEnds, sourceVars, chanVars, workerVars
<1>4. CASE JoinStages
  BY <1>4 DEF TypeOK, JoinStages, sourceVars, chanVars, workerVars
<1>5. CASE Return
  BY <1>5 DEF TypeOK, Return, sourceVars, chanVars, workerVars
<1> QED
  BY <1>1, <1>2, <1>3, <1>4, <1>5 DEF MainStep

LEMMA IdleTypeStep ==
    ASSUME TypeOK, UNCHANGED vars
    PROVE  TypeOK'
  BY DEF TypeOK, vars

(* Every variable keeps its type, for every pipeline.                       *)
THEOREM TypeCorrect == Spec => []TypeOK
<1>1. Init => TypeOK
  BY InitType
<1>2. TypeOK /\ [Next]_vars => TypeOK'
  <2> SUFFICES ASSUME TypeOK, [Next]_vars PROVE TypeOK'
    OBVIOUS
  <2>1. CASE CallerCancel \/ FeederExit \/ BatcherStep
    BY <2>1, SourceTypeStep
  <2>2. CASE \E s \in Stage : StageClose(s) \/ \E w \in Workers : WorkerStep(s, w)
    BY <2>2, WorkerTypeStep, SizesAssumption
  <2>3. CASE MainStep
    BY <2>3, MainTypeStep
  <2>4. CASE Finished \/ UNCHANGED vars
    BY <2>4, IdleTypeStep DEF Finished
  <2> QED
    BY <2>1, <2>2, <2>3, <2>4 DEF Next
<1> QED
  BY <1>1, <1>2, PTL DEF Spec

-----------------------------------------------------------------------------
(* Channel discipline.  ClosedMeansWritersGone is inductive relative to the *)
(* types: a worker that is done never leaves that state, and only           *)
(* StageClose, which waits for all of them, closes a stage's channel.       *)

LEMMA DisciplineStep ==
    ASSUME TypeOK, ClosedMeansWritersGone, [Next]_vars
    PROVE  ClosedMeansWritersGone'
<1> USE SizesType DEF ClosedMeansWritersGone
<1>0. \A s \in Stage : s # 0 /\ s \in 0..NStages
  BY DEF Stage
<1>1. CASE CallerCancel \/ FeederExit
  BY <1>1
  DEF CallerCancel, FeederExit, sourceVars, chanVars, workerVars
<1>2. CASE BatcherStep
  <2>1. closed' \in [0..NStages -> BOOLEAN] /\ (closed'[0] <=> batcher' = "done")
    BY <1>2
    DEF TypeOK, BatcherStep, BatcherTake, BatcherSourceClosed, BatcherTimeout,
        BatcherFlush, BatcherCancelled, chanVars
  <2>2. \A s \in Stage : closed'[s] = closed[s]
    BY <1>0, <1>2
    DEF TypeOK, BatcherStep, BatcherTake, BatcherSourceClosed, BatcherTimeout,
        BatcherFlush, BatcherCancelled, chanVars
  <2>3. wpc' = wpc
    BY <1>2
    DEF BatcherStep, BatcherTake, BatcherSourceClosed, BatcherTimeout,
        BatcherFlush, BatcherCancelled, workerVars
  <2> QED BY <2>1, <2>2, <2>3
<1>3. ASSUME NEW s \in Stage, StageClose(s)
      PROVE  ClosedMeansWritersGone'
  BY <1>0, <1>3 DEF TypeOK, StageClose, sourceVars, workerVars
<1>4. ASSUME NEW s \in Stage, NEW w \in Workers, WorkerStep(s, w)
      PROVE  ClosedMeansWritersGone'
  <2>1. closed' = closed /\ batcher' = batcher
    BY <1>4
    DEF WorkerStep, WorkerRecv, WorkerRangeEnds, WorkerProcess, WorkerFails,
        WorkerSend, WorkerCancelled, sourceVars, chanVars
  <2>2. wpc[s][w] # "done"
    BY <1>4
    DEF WorkerStep, WorkerRecv, WorkerRangeEnds, WorkerProcess, WorkerFails,
        WorkerSend, WorkerCancelled
  <2>3. ~closed[s]
    BY <2>2
  <2>4. \A t \in Stage : t # s => wpc'[t] = wpc[t]
    <3>1. PICK q : wpc' = [wpc EXCEPT ![s][w] = q]
      BY <1>4, Zenon
      DEF WorkerStep, WorkerRecv, WorkerRangeEnds, WorkerProcess, WorkerFails,
          WorkerSend, WorkerCancelled
    <3> QED BY <3>1 DEF TypeOK
  <2> QED BY <2>1, <2>3, <2>4
<1>5. CASE MainStep
  BY <1>5
  DEF MainStep, SinkRecv, SinkConsume, SinkRangeEnds, JoinStages, Return,
      sourceVars, chanVars, workerVars
<1>6. CASE Finished \/ UNCHANGED vars
  BY <1>6 DEF Finished, vars
<1> QED
  BY <1>1, <1>2, <1>3, <1>4, <1>5, <1>6 DEF Next

(* No goroutine of any pipeline ever sends on a closed channel, or closes   *)
(* one a second time.                                                       *)
THEOREM ChannelDiscipline == Spec => []ClosedMeansWritersGone
<1>1. Init => ClosedMeansWritersGone
  BY SizesType DEF Init, ClosedMeansWritersGone, Stage
<1>2. TypeOK /\ ClosedMeansWritersGone /\ [Next]_vars => ClosedMeansWritersGone'
  BY DisciplineStep
<1> QED
  BY <1>1, <1>2, TypeCorrect, PTL DEF Spec

-----------------------------------------------------------------------------
(* The return of execute.  Once main has passed wg.Wait every stage channel *)
(* is closed, so by the channel discipline every worker is gone, and the    *)
(* only goroutines left, feeder and batcher, own none of the results.       *)

StagesJoined == main \in {"recorded", "returned"} => \A s \in Stage : closed[s]

LEMMA JoinedStep ==
    ASSUME TypeOK, StagesJoined, [Next]_vars
    PROVE  StagesJoined'
<1> USE SizesType DEF StagesJoined
<1>0. \A s \in Stage : s # 0 /\ s \in 0..NStages
  BY DEF Stage
<1>1. CASE CallerCancel \/ FeederExit
  BY <1>1 DEF CallerCancel, FeederExit, chanVars, mainVars
<1>2. CASE BatcherStep
  BY <1>0, <1>2
  DEF TypeOK, BatcherStep, BatcherTake, BatcherSourceClosed, BatcherTimeout,
      BatcherFlush, BatcherCancelled, chanVars, mainVars
<1>3. ASSUME NEW s \in Stage, StageClose(s)
      PROVE  StagesJoined'
  BY <1>0, <1>3 DEF TypeOK, StageClose, mainVars
<1>4. ASSUME NEW s \in Stage, NEW w \in Workers, WorkerStep(s, w)
      PROVE  StagesJoined'
  BY <1>4
  DEF WorkerStep, WorkerRecv, WorkerRangeEnds, WorkerProcess, WorkerFails,
      WorkerSend, WorkerCancelled, chanVars, mainVars
<1>5. CASE MainStep
  BY <1>5
  DEF MainStep, SinkRecv, SinkConsume, SinkRangeEnds, JoinStages, Return,
      chanVars
<1>6. CASE Finished \/ UNCHANGED vars
  BY <1>6 DEF Finished, vars
<1> QED
  BY <1>1, <1>2, <1>3, <1>4, <1>5, <1>6 DEF Next

LEMMA FinalStep ==
    ASSUME TypeOK, ClosedMeansWritersGone, StagesJoined, [Next]_vars,
           main = "returned"
    PROVE  UNCHANGED <<delivered, discarded, metrics, err, result, wpc>>
<1>0. \A s \in Stage : \A w \in Workers : wpc[s][w] = "done"
  BY DEF StagesJoined, ClosedMeansWritersGone
<1>1. CASE CallerCancel \/ FeederExit
  BY <1>1 DEF CallerCancel, FeederExit, workerVars, mainVars
<1>2. CASE BatcherStep
  BY <1>2
  DEF BatcherStep, BatcherTake, BatcherSourceClosed, BatcherTimeout,
      BatcherFlush, BatcherCancelled, workerVars, mainVars
<1>3. ASSUME NEW s \in Stage, StageClose(s)
      PROVE  UNCHANGED <<delivered, discarded, metrics, err, result, wpc>>
  BY <1>3 DEF StageClose, workerVars, mainVars
<1>4. ASSUME NEW s \in Stage, NEW w \in Workers, WorkerStep(s, w)
      PROVE  FALSE
  BY <1>0, <1>4
  DEF WorkerStep, WorkerRecv, WorkerRangeEnds, WorkerProcess, WorkerFails,
      WorkerSend, WorkerCancelled
<1>5. CASE MainStep
  BY <1>5
  DEF MainStep, SinkRecv, SinkConsume, SinkRangeEnds, JoinStages, Return
<1>6. CASE Finished \/ UNCHANGED vars
  BY <1>6 DEF Finished, vars
<1> QED
  BY <1>1, <1>2, <1>3, <1>4, <1>5, <1>6 DEF Next

(* execute publishes its metrics only once every stage has closed its       *)
(* output.                                                                  *)
THEOREM JoinedAlways == Spec => []StagesJoined
<1>1. Init => StagesJoined
  BY DEF Init, StagesJoined
<1>2. TypeOK /\ StagesJoined /\ [Next]_vars => StagesJoined'
  BY JoinedStep
<1> QED
  BY <1>1, <1>2, TypeCorrect, PTL DEF Spec

(* The metrics, the verdict and the sink's accumulator a caller gets back   *)
(* are never touched again, by whatever goroutine outlives the run.         *)
THEOREM ReturnFinality == Spec => ReturnIsFinal
<1>1. TypeOK /\ ClosedMeansWritersGone /\ StagesJoined /\ [Next]_vars
        => [main = "returned" =>
             UNCHANGED <<delivered, discarded, metrics, err, result, wpc>>]_vars
  BY FinalStep
<1> QED
  BY <1>1, TypeCorrect, JoinedAlways, ChannelDiscipline, PTL
  DEF Spec, ReturnIsFinal

-----------------------------------------------------------------------------
(* The error verdict.                                                       *)

LEMMA VerdictInit == Init => ErrorVerdict
  BY SizesType DEF Init, ErrorVerdict, NoCounts

LEMMA VerdictFrame ==
    ASSUME ErrorVerdict, err' = err, metrics' = metrics,
           ctx # "live" => ctx' # "live"
    PROVE  ErrorVerdict'
  BY DEF ErrorVerdict

(* The error counters of a counted step: only that of s moves, by n.        *)
LEMMA ErrsCounted ==
    ASSUME TypeOK, NEW s \in 1..Sink, NEW i \in Nat, NEW o \in Nat,
           NEW d \in Nat, NEW n \in Nat, metrics' = Count(s, i, o, d, n)
    PROVE  \A t \in 1..Sink :
             /\ metrics[t].errs \in Nat
             /\ metrics'[t].errs = IF t = s THEN metrics[t].errs + n
                                   ELSE metrics[t].errs
<1>1. metrics \in [1..Sink -> [in: Nat, out: Nat, dropped: Nat, errs: Nat]]
  BY DEF TypeOK
<1>2. /\ metrics'[s].errs = metrics[s].errs + n
      /\ \A t \in 1..Sink : t # s => metrics'[t] = metrics[t]
  <2>1. /\ Count(s, i, o, d, n)[s].errs = metrics[s].errs + n
        /\ \A t \in 1..Sink : t # s => Count(s, i, o, d, n)[t] = metrics[t]
    BY <1>1 DEF Count
  <2> QED BY <2>1
<1>3. ASSUME NEW t \in 1..Sink PROVE metrics[t].errs \in Nat
  <2>1. metrics[t] \in [in: Nat, out: Nat, dropped: Nat, errs: Nat]
    BY <1>1
  <2> QED BY <2>1
<1> QED
  BY <1>2, <1>3

(* A batch without an error adds nothing to errs.                           *)
LEMMA VerdictSound ==
    ASSUME TypeOK, ErrorVerdict, NEW s \in 1..Sink,
           NEW i \in Nat, NEW o \in Nat, NEW d \in Nat,
           metrics' = Count(s, i, o, d, 0), err' = err, ctx' = ctx
    PROVE  ErrorVerdict'
<1>1. \A t \in 1..Sink : metrics'[t].errs = metrics[t].errs
  BY ErrsCounted
<1>2. err # 0 => err \in 1..Sink
  BY SizesType DEF TypeOK
<1> QED
  BY <1>1, <1>2 DEF ErrorVerdict

(* A batch with an error counts it, and under FailFast sets runErr.         *)
LEMMA VerdictFailure ==
    ASSUME TypeOK, ErrorVerdict, NEW s \in 1..Sink,
           NEW i \in Nat, NEW o \in Nat, NEW d \in Nat,
           metrics' = Count(s, i, o, d, 1),
           IF FailFast THEN Fail(s) ELSE UNCHANGED <<err, ctx>>
    PROVE  ErrorVerdict'
<1>0. \A t \in 1..Sink :
        /\ metrics[t].errs \in Nat
        /\ metrics'[t].errs = IF t = s THEN metrics[t].errs + 1
                              ELSE metrics[t].errs
  BY ErrsCounted
<1>1. /\ \A t \in 1..Sink : metrics[t].errs > 0 => metrics'[t].errs > 0
      /\ metrics'[s].errs > 0
  BY <1>0
<1>2. err # 0 => err \in 1..Sink
  BY SizesType DEF TypeOK
<1>3. CASE FailFast
  <2>1. Fail(s)
    BY <1>3
  <2>2. /\ err' # 0
        /\ ctx' # "live"
        /\ err' = s \/ (err # 0 /\ err' = err)
    BY <2>1, SizesType DEF Fail
  <2>3. metrics'[err'].errs > 0
    BY <1>1, <1>2, <2>2 DEF ErrorVerdict
  <2> QED BY <1>1, <1>3, <2>2, <2>3 DEF ErrorVerdict
<1>4. CASE ~FailFast
  <2>1. err = 0 /\ err' = 0
    BY <1>4 DEF ErrorVerdict
  <2> QED BY <1>4, <2>1 DEF ErrorVerdict
<1> QED BY <1>3, <1>4

LEMMA VerdictStep ==
    ASSUME TypeOK, ErrorVerdict, [Next]_vars
    PROVE  ErrorVerdict'
<1> USE SizesType
<1>1. CASE CallerCancel \/ FeederExit \/ BatcherStep
  <2>1. err' = err /\ metrics' = metrics /\ (ctx # "live" => ctx' # "live")
    BY <1>1
    DEF CallerCancel, FeederExit, BatcherStep, BatcherTake, BatcherSourceClosed,
        BatcherTimeout, BatcherFlush, BatcherCancelled
  <2> QED BY <2>1, VerdictFrame
<1>2. ASSUME NEW s \in Stage, StageClose(s)
      PROVE  ErrorVerdict'
  BY <1>2, VerdictFrame DEF StageClose
<1>3. ASSUME NEW s \in Stage, NEW w \in Workers, WorkerStep(s, w)
      PROVE  ErrorVerdict'
  <2> DEFINE r == SafeProcess(s, held[s][w])
  <2>0. /\ s \in 1..Sink
        /\ r.dropped \in Nat
        /\ Cardinality(held[s][w]) \in Nat
        /\ Cardinality(r.out) \in Nat
    <3>1. held[s][w] \in SUBSET Elem
      BY DEF TypeOK
    <3>2. r.out \in SUBSET Elem /\ r.dropped \in Nat
      BY <3>1, SafeProcessType
    <3> QED BY <3>1, <3>2, BatchCounts
  <2> HIDE DEF r
  <2>1. CASE WorkerRecv(s, w) \/ WorkerRangeEnds(s, w) \/ WorkerSend(s, w)
               \/ WorkerCancelled(s, w)
    BY <2>1, VerdictFrame
    DEF WorkerRecv, WorkerRangeEnds, WorkerSend, WorkerCancelled
  <2>2. CASE WorkerProcess(s, w)
    BY <2>0, <2>2, VerdictSound DEF WorkerProcess, r
  <2>3. CASE WorkerFails(s, w)
    <3>1. metrics' = Count(s, Cardinality(held[s][w]), 0, r.dropped, 1)
      BY <2>3 DEF WorkerFails, r
    <3>2. IF FailFast THEN Fail(s) ELSE UNCHANGED <<err, ctx>>
      BY <2>3, Zenon DEF WorkerFails
    <3> QED BY <2>0, <3>1, <3>2, VerdictFailure
  <2> QED BY <1>3, <2>1, <2>2, <2>3 DEF WorkerStep
<1>4. CASE SinkConsume
  <2>1. PICK seen \in Reached(sinkBatch) :
          LET shed == Cardinality(seen \intersect SinkSheds)
              size == Cardinality(sinkBatch)
              failed == seen # sinkBatch
          IN
          /\ delivered' = delivered \union (seen \ SinkSheds)
          /\ discarded' = discarded \union ((sinkBatch \ seen) \ SinkSheds)
          /\ metrics' = Count(Sink, size, size - shed, shed,
                              IF failed THEN 1 ELSE 0)
          /\ IF failed /\ FailFast THEN Fail(Sink) ELSE UNCHANGED <<err, ctx>>
    BY <1>4 DEF SinkConsume
  <2> DEFINE shed == Cardinality(seen \intersect SinkSheds)
             size == Cardinality(sinkBatch)
  <2>2. seen \in SUBSET sinkBatch /\ sinkBatch \in SUBSET Elem
    BY ReachedType DEF TypeOK
  <2>3. size \in Nat /\ shed \in Nat /\ size - shed \in Nat
    <3>1. IsFiniteSet(sinkBatch)
      BY <2>2, BatchCounts
    <3>2. seen \intersect SinkSheds \subseteq sinkBatch
      BY <2>2
    <3> QED
      BY <3>1, <3>2, FS_Subset, FS_CardinalityType
  <2>4. CASE seen = sinkBatch
    <3>1. metrics' = Count(Sink, size, size - shed, shed, 0)
      BY <2>1, <2>4
    <3>2. err' = err /\ ctx' = ctx
      BY <2>1, <2>4
    <3> HIDE DEF size, shed
    <3> QED BY <2>3, <3>1, <3>2, VerdictSound
  <2>5. CASE seen # sinkBatch
    <3>1. metrics' = Count(Sink, size, size - shed, shed, 1)
      BY <2>1, <2>5
    <3>2. IF FailFast THEN Fail(Sink) ELSE UNCHANGED <<err, ctx>>
      BY <2>1, <2>5
    <3> HIDE DEF size, shed
    <3> QED BY <2>3, <3>1, <3>2, VerdictFailure
  <2> QED BY <2>4, <2>5
<1>5. CASE SinkRecv \/ SinkRangeEnds \/ JoinStages \/ Return
  <2>1. err' = err /\ metrics' = metrics /\ (ctx # "live" => ctx' # "live")
    BY <1>5 DEF SinkRecv, SinkRangeEnds, JoinStages, Return
  <2> QED BY <2>1, VerdictFrame
<1>6. CASE Finished \/ UNCHANGED vars
  BY <1>6, VerdictFrame DEF Finished, vars
<1> QED
  BY <1>1, <1>2, <1>3, <1>4, <1>5, <1>6 DEF Next, MainStep

(* FailFast reports an error exactly when a stage or the sink failed, and   *)
(* then has cancelled the run; SkipAndCount never reports one.              *)
THEOREM Verdict == Spec => []ErrorVerdict
<1>1. Init => ErrorVerdict
  BY VerdictInit
<1>2. TypeOK /\ ErrorVerdict /\ [Next]_vars => ErrorVerdict'
  BY VerdictStep
<1> QED
  BY <1>1, <1>2, TypeCorrect, PTL DEF Spec

-----------------------------------------------------------------------------
(* Elements on their way.  FateAt(k, s, B) is what the elements of B, which *)
(* await stage s, are when they await stage k.                              *)

Paths(s, k) ==
    {p \in [s..k -> Elem] : \A t \in s..(k - 1) : p[t + 1] \in Emit[t][p[t]]}
FateAt(k, s, B) ==
    {f \in Elem : s <= k /\ \E p \in Paths(s, k) : p[s] \in B /\ p[k] = f}

(* Two trails that end in the same element are the same: a first place at   *)
(* which they differ, counted from the end, would be an element that two    *)
(* others emit.                                                             *)
LEMMA SmallestOf ==
    ASSUME NEW T \in SUBSET Nat, T # {}
    PROVE  \E n \in T : \A m \in T : ~(m < n)
<1>1. IsWellFoundedOn(OpToRel(<, Nat), Nat)
  BY NatLessThanWellFounded
<1> DEFINE R == OpToRel(<, Nat)
<1>2. \A x, y \in Nat : x < y => <<x, y>> \in R
  BY DEF OpToRel
<1> HIDE DEF R
<1>3. \E x \in T : \A y \in T : ~(<<y, x>> \in R)
  BY <1>1, WFMin DEF R
<1> QED
  BY <1>2, <1>3

LEMMA OneTrail ==
    ASSUME NEW k \in 1..Sink, NEW s \in 1..k, NEW p \in Paths(s, k), NEW q \in Paths(s, k),
           p[k] = q[k]
    PROVE  p[s] = q[s]
<1> DEFINE T == {n \in Nat : k - n \in s..k /\ p[k - n] # q[k - n]}
<1> SUFFICES ASSUME p[s] # q[s] PROVE FALSE
  OBVIOUS
<1>1. k \in Nat /\ s \in Nat /\ Sink \in Nat /\ Sink = NStages + 1
  BY SizesType DEF Sink
<1>2. k - s \in T
  BY <1>1
<1>3. PICK n \in T : \A m \in T : ~(m < n)
  <2>1. T \in SUBSET Nat /\ T # {}
    BY <1>2
  <2> HIDE DEF T
  <2> QED
    BY <2>1, SmallestOf
<1> DEFINE t == k - n
<1>4. n \in Nat /\ t \in s..k /\ p[t] # q[t]
  OBVIOUS
<1>5. n # 0
  BY <1>1, <1>4
<1>6. n - 1 \in Nat /\ k - (n - 1) = t + 1 /\ t + 1 \in s..k /\ t \in s..(k - 1) /\ t \in Stage
  <2>1. t \in Nat /\ s <= t /\ t < k /\ k <= NStages + 1 /\ 1 <= s /\ NStages \in Nat
    BY <1>1, <1>4, <1>5, SizesAssumption
  <2> QED
    BY <1>1, <1>4, <1>5, <2>1 DEF Stage
<1>7. p[t + 1] = q[t + 1]
  <2>1. n - 1 \notin T
    BY <1>3, <1>6
  <2> QED
    BY <1>6, <2>1
<1>8. /\ p[t] \in Elem /\ q[t] \in Elem
      /\ p[t + 1] \in Emit[t][p[t]] /\ q[t + 1] \in Emit[t][q[t]]
  BY <1>4, <1>6 DEF Paths
<1> QED
  BY <1>4, <1>6, <1>7, <1>8, IdentityAssumption

(* What different elements turn into is different.                          *)
LEMMA FateApart ==
    ASSUME NEW k \in 1..Sink, NEW s \in 1..Sink, NEW A, NEW B, A \intersect B = {}
    PROVE  FateAt(k, s, A) \intersect FateAt(k, s, B) = {}
<1> SUFFICES ASSUME NEW f \in FateAt(k, s, A), f \in FateAt(k, s, B) PROVE FALSE
  OBVIOUS
<1>1. PICK p \in Paths(s, k) : p[s] \in A /\ p[k] = f
  BY DEF FateAt
<1>2. PICK q \in Paths(s, k) : q[s] \in B /\ q[k] = f
  BY DEF FateAt
<1>3. s \in 1..k
  BY SizesType DEF FateAt
<1> QED
  BY <1>1, <1>2, <1>3, OneTrail

LEMMA FateUnion ==
    ASSUME NEW k, NEW s, NEW A, NEW B
    PROVE  FateAt(k, s, A \union B) = FateAt(k, s, A) \union FateAt(k, s, B)
  BY DEF FateAt

LEMMA FateMonotone ==
    ASSUME NEW k, NEW s, NEW A, NEW B, A \subseteq B
    PROVE  FateAt(k, s, A) \subseteq FateAt(k, s, B)
  BY DEF FateAt

LEMMA FateEmpty == ASSUME NEW k, NEW s PROVE FateAt(k, s, {}) = {}
  BY DEF FateAt

(* At the stage itself elements are what they are, and past it nothing.     *)
LEMMA FateHere ==
    ASSUME NEW k \in 1..Sink, NEW B \in SUBSET Elem
    PROVE  FateAt(k, k, B) = B
<1>0. k \in Nat
  BY SizesType
<1>1. ASSUME NEW f \in B PROVE f \in FateAt(k, k, B)
  <2>1. [t \in k..k |-> f] \in Paths(k, k)
    BY <1>0 DEF Paths
  <2> QED
    BY <1>0, <2>1 DEF FateAt
<1> QED
  BY <1>1 DEF FateAt

LEMMA FatePast ==
    ASSUME NEW k \in 1..Sink, NEW s \in 1..Sink, k < s, NEW B
    PROVE  FateAt(k, s, B) = {}
  BY SizesType DEF FateAt

(* A stage's work does not change what will come of a batch.                *)
LEMMA FateStep ==
    ASSUME NEW k \in 1..Sink, NEW s \in Stage, s < k, NEW B \in SUBSET Elem
    PROVE  FateAt(k, s, B) = FateAt(k, s + 1, UNION {Emit[s][e] : e \in B})
<1> DEFINE C == UNION {Emit[s][e] : e \in B}
<1>0. k \in Nat /\ s \in Nat /\ s + 1 \in Nat /\ s <= k /\ s + 1 <= k
  BY SizesType DEF Stage
<1>1. ASSUME NEW f \in FateAt(k, s, B) PROVE f \in FateAt(k, s + 1, C)
  <2>1. PICK p \in Paths(s, k) : p[s] \in B /\ p[k] = f
    BY <1>1 DEF FateAt
  <2> DEFINE q == [t \in (s + 1)..k |-> p[t]]
  <2>2. q \in Paths(s + 1, k)
    <3>1. \A t \in (s + 1)..k : t \in s..k /\ p[t] \in Elem
      BY <1>0 DEF Paths
    <3>2. q \in [(s + 1)..k -> Elem]
      BY <3>1
    <3>3. \A t \in (s + 1)..(k - 1) : t \in s..(k - 1) /\ q[t + 1] = p[t + 1] /\ q[t] = p[t]
      BY <1>0
    <3> QED
      BY <3>2, <3>3 DEF Paths
  <2>3. q[s + 1] \in C
    <3>1. p[s + 1] \in Emit[s][p[s]]
      BY <1>0 DEF Paths
    <3> QED
      BY <1>0, <2>1, <3>1
  <2>4. q[k] = f /\ f \in Elem
    BY <1>0, <1>1, <2>1 DEF FateAt
  <2> HIDE DEF q, C
  <2> QED
    BY <1>0, <2>2, <2>3, <2>4 DEF FateAt
<1>2. ASSUME NEW f \in FateAt(k, s + 1, C) PROVE f \in FateAt(k, s, B)
  <2>1. PICK q \in Paths(s + 1, k) : q[s + 1] \in C /\ q[k] = f
    BY <1>2 DEF FateAt
  <2>2. PICK e \in B : q[s + 1] \in Emit[s][e]
    BY <2>1
  <2> DEFINE p == [t \in s..k |-> IF t = s THEN e ELSE q[t]]
  <2>3. p \in Paths(s, k)
    <3>1. \A t \in s..k : p[t] \in Elem
      <4>1. ASSUME NEW t \in s..k, t # s PROVE q[t] \in Elem
        <5>1. t \in (s + 1)..k
          BY <1>0, <4>1
        <5> QED
          BY <5>1 DEF Paths
      <4> QED
        BY <4>1
    <3>2. ASSUME NEW t \in s..(k - 1) PROVE p[t + 1] \in Emit[t][p[t]]
      <4>0. p[t + 1] = q[t + 1] /\ t + 1 \in (s + 1)..k
        BY <1>0
      <4>1. CASE t = s
        BY <1>0, <2>2, <4>0, <4>1
      <4>2. CASE t # s
        <5>1. t \in (s + 1)..(k - 1) /\ p[t] = q[t]
          BY <1>0, <4>2
        <5>2. q[t + 1] \in Emit[t][q[t]]
          BY <5>1 DEF Paths
        <5> QED
          BY <4>0, <5>1, <5>2
      <4> QED
        BY <4>1, <4>2
    <3> QED
      BY <3>1, <3>2 DEF Paths
  <2>4. p[s] = e /\ p[k] = f
    BY <1>0, <2>1
  <2> HIDE DEF p, C
  <2> QED
    BY <1>0, <1>2, <2>3, <2>4 DEF FateAt
<1> QED
  BY <1>1, <1>2

LEMMA FateIs ==
    ASSUME NEW s \in 1..Sink, NEW B \in SUBSET Elem
    PROVE  Fate(s, B) = FateAt(Sink, s, B) \ SinkSheds
<1>1. s <= Sink /\ s \in s..Sink /\ Sink \in s..Sink /\ NStages = Sink - 1
  BY SizesType DEF Sink
<1>2. Trails(s) = Paths(s, Sink)
  BY <1>1 DEF Trails, Paths
<1>3. \A p \in Paths(s, Sink) : p[s] \in Elem /\ p[Sink] \in Elem
  BY <1>1 DEF Paths
<1>4. \A e \in B : Descent[s][e] = {p[Sink] : p \in {q \in Paths(s, Sink) : q[s] = e}}
  BY <1>2 DEF Descent
<1> QED
  BY <1>1, <1>3, <1>4 DEF Fate, FateAt


-----------------------------------------------------------------------------
(* The places an element can be in, as a function of the state: At(k, p) is *)
(* what the content of place p is when it awaits stage k, if it has not yet *)
(* got past that stage.                                                     *)

Source == <<"source", 0, 0>>
Batcher == <<"batcher", 0, 0>>
InSink == <<"sink", 0, 0>>
Delivered == <<"delivered", 0, 0>>
Discarded == <<"discarded", 0, 0>>
Queue(c) == <<"queue", c, 0>>
Hand(s, w) == <<"held", s, w>>
Slots ==
    {Source, Batcher, InSink, Delivered, Discarded}
    \union {Queue(c) : c \in 0..NStages}
    \union {Hand(s, w) : s \in Stage, w \in Workers}

Level(s, w) == IF wpc[s][w] = "send" THEN s + 1 ELSE s
QFate(k, c, q) == {f \in Elem : \E i \in 1..Len(q) : f \in FateAt(k, c + 1, q[i])}
AtEnd(k, B) == IF k = Sink THEN B ELSE {}

At(k, p) ==
    IF p[1] = "source" THEN FateAt(k, 1, next..NItems)
    ELSE IF p[1] = "batcher" THEN FateAt(k, 1, batch)
    ELSE IF p[1] = "queue" THEN QFate(k, p[2], chan[p[2]])
    ELSE IF p[1] = "held" THEN FateAt(k, Level(p[2], p[3]), held[p[2]][p[3]])
    ELSE AtEnd(k, IF p[1] = "sink" THEN sinkBatch
                  ELSE IF p[1] = "delivered" THEN delivered ELSE discarded)

LEMMA AtIs ==
    ASSUME NEW k
    PROVE  /\ At(k, Source) = FateAt(k, 1, next..NItems)
           /\ At(k, Batcher) = FateAt(k, 1, batch)
           /\ At(k, InSink) = AtEnd(k, sinkBatch)
           /\ At(k, Delivered) = AtEnd(k, delivered)
           /\ At(k, Discarded) = AtEnd(k, discarded)
           /\ \A c \in 0..NStages : At(k, Queue(c)) = QFate(k, c, chan[c])
           /\ \A s \in Stage, w \in Workers :
                At(k, Hand(s, w)) = FateAt(k, Level(s, w), held[s][w])
  BY DEF At, Source, Batcher, InSink, Delivered, Discarded, Queue, Hand

LEMMA AtIsNext ==
    ASSUME NEW k
    PROVE  /\ At(k, Source)' = FateAt(k, 1, next'..NItems)
           /\ At(k, Batcher)' = FateAt(k, 1, batch')
           /\ At(k, InSink)' = AtEnd(k, sinkBatch')
           /\ At(k, Delivered)' = AtEnd(k, delivered')
           /\ At(k, Discarded)' = AtEnd(k, discarded')
           /\ \A c \in 0..NStages : At(k, Queue(c))' = QFate(k, c, chan'[c])
           /\ \A s \in Stage, w \in Workers :
                At(k, Hand(s, w))' = FateAt(k, Level(s, w)', held'[s][w])
  BY DEF At, Source, Batcher, InSink, Delivered, Discarded, Queue, Hand, AtEnd, QFate, FateAt

LEMMA SlotKinds ==
    /\ \A p \in Slots :
         \/ p \in {Source, Batcher, InSink, Delivered, Discarded}
         \/ \E c \in 0..NStages : p = Queue(c)
         \/ \E s \in Stage, w \in Workers : p = Hand(s, w)
    /\ {Source, Batcher, InSink, Delivered, Discarded} \subseteq Slots
    /\ Source # Batcher /\ Source # InSink /\ Source # Delivered /\ Source # Discarded
    /\ Batcher # InSink /\ Batcher # Delivered /\ Batcher # Discarded
    /\ InSink # Delivered /\ InSink # Discarded /\ Delivered # Discarded
    /\ \A c : Queue(c) \notin {Source, Batcher, InSink, Delivered, Discarded}
    /\ \A s, w : Hand(s, w) \notin {Source, Batcher, InSink, Delivered, Discarded}
    /\ \A c, s, w : Queue(c) # Hand(s, w)
    /\ \A c, d : Queue(c) = Queue(d) => c = d
    /\ \A s, w, t, v : Hand(s, w) = Hand(t, v) => s = t /\ w = v
    /\ \A c \in 0..NStages : Queue(c) \in Slots
    /\ \A s \in Stage, w \in Workers : Hand(s, w) \in Slots
  BY DEF Slots, Source, Batcher, InSink, Delivered, Discarded, Queue, Hand

(* A place is as it was if the variables behind it are.                     *)
SameHand(s, w) ==
    /\ held'[s][w] = held[s][w]
    /\ Level(s, w)' = Level(s, w)

LEMMA AtSame ==
    ASSUME NEW k, NEW p \in Slots,
           p = Source => next' = next,
           p = Batcher => batch' = batch,
           p = InSink => sinkBatch' = sinkBatch,
           p = Delivered => delivered' = delivered,
           p = Discarded => discarded' = discarded,
           \A c \in 0..NStages : p = Queue(c) => chan'[c] = chan[c],
           \A s \in Stage, w \in Workers : p = Hand(s, w) => SameHand(s, w)
    PROVE  At(k, p)' = At(k, p)
<1>1. CASE p \in {Source, Batcher, InSink, Delivered, Discarded}
  BY <1>1, AtIs, AtIsNext, SlotKinds
<1>2. CASE \E c \in 0..NStages : p = Queue(c)
  <2>1. PICK c \in 0..NStages : p = Queue(c)
    BY <1>2
  <2>2. At(k, Queue(c))' = At(k, Queue(c))
    <3>1. chan'[c] = chan[c]
      BY <2>1
    <3>2. At(k, Queue(c)) = QFate(k, c, chan[c])
      BY AtIs
    <3>3. At(k, Queue(c))' = QFate(k, c, chan'[c])
      BY AtIsNext
    <3> QED
      BY <3>1, <3>2, <3>3
  <2> QED
    BY <2>1, <2>2
<1>3. CASE \E s \in Stage, w \in Workers : p = Hand(s, w)
  <2>1. PICK s \in Stage, w \in Workers : p = Hand(s, w)
    BY <1>3
  <2>2. At(k, Hand(s, w))' = At(k, Hand(s, w))
    <3>1. held'[s][w] = held[s][w] /\ Level(s, w)' = Level(s, w)
      BY <2>1 DEF SameHand
    <3>2. At(k, Hand(s, w)) = FateAt(k, Level(s, w), held[s][w])
      BY AtIs
    <3>3. At(k, Hand(s, w))' = FateAt(k, Level(s, w)', held'[s][w])
      BY AtIsNext
    <3> QED
      BY <3>1, <3>2, <3>3
  <2> QED
    BY <2>1, <2>2
<1> QED
  BY <1>1, <1>2, <1>3, SlotKinds

-----------------------------------------------------------------------------
(* Queues.                                                                  *)

LEMMA QFateAppend ==
    ASSUME NEW k, NEW c, NEW q \in Seq(SUBSET Elem), NEW B \in SUBSET Elem
    PROVE  QFate(k, c, Append(q, B)) = QFate(k, c, q) \union FateAt(k, c + 1, B)
<1>1. /\ Len(Append(q, B)) = Len(q) + 1 /\ Len(q) \in Nat
      /\ \A i \in 1..Len(q) : Append(q, B)[i] = q[i]
      /\ Append(q, B)[Len(q) + 1] = B
  OBVIOUS
<1>2. \A i \in 1..(Len(q) + 1) : i \in 1..Len(q) \/ i = Len(q) + 1
  BY <1>1
<1>3. 1..Len(q) \subseteq 1..(Len(q) + 1) /\ Len(q) + 1 \in 1..(Len(q) + 1)
  BY <1>1
<1>4. FateAt(k, c + 1, B) \subseteq Elem
  BY DEF FateAt
<1> QED
  BY <1>1, <1>2, <1>3, <1>4 DEF QFate

LEMMA TailIs ==
    ASSUME NEW q \in Seq(SUBSET Elem), q # <<>>
    PROVE  /\ Len(Tail(q)) = Len(q) - 1 /\ Len(q) \in Nat /\ Len(q) >= 1
           /\ \A i \in 1..(Len(q) - 1) : Tail(q)[i] = q[i + 1] /\ i + 1 \in 1..Len(q)
           /\ Head(q) = q[1]
           /\ Head(q) \in SUBSET Elem /\ Tail(q) \in Seq(SUBSET Elem)
           /\ \A j \in 1..Len(q) : j = 1 \/ j - 1 \in 1..(Len(q) - 1)
  OBVIOUS

LEMMA QFateTail ==
    ASSUME NEW k, NEW c, NEW q \in Seq(SUBSET Elem), q # <<>>
    PROVE  QFate(k, c, q) = FateAt(k, c + 1, Head(q)) \union QFate(k, c, Tail(q))
<1>1. ASSUME NEW f \in QFate(k, c, q)
      PROVE  f \in FateAt(k, c + 1, Head(q)) \union QFate(k, c, Tail(q))
  <2>1. PICK j \in 1..Len(q) : f \in FateAt(k, c + 1, q[j])
    BY DEF QFate
  <2>2. CASE j = 1
    BY <2>1, <2>2, TailIs
  <2>3. CASE j # 1
    <3>1. j - 1 \in 1..Len(Tail(q)) /\ Tail(q)[j - 1] = q[j]
      BY <2>3, TailIs
    <3>2. f \in Elem
      BY DEF QFate
    <3> QED
      BY <2>1, <3>1, <3>2 DEF QFate
  <2> QED
    BY <2>2, <2>3
<1>2. ASSUME NEW f \in FateAt(k, c + 1, Head(q)) PROVE f \in QFate(k, c, q)
  <2>1. f \in Elem /\ 1 \in 1..Len(q) /\ Head(q) = q[1]
    BY TailIs DEF FateAt
  <2> QED
    BY <2>1, <1>2 DEF QFate
<1>3. ASSUME NEW f \in QFate(k, c, Tail(q)) PROVE f \in QFate(k, c, q)
  BY TailIs DEF QFate
<1> QED
  BY <1>1, <1>2, <1>3

(* No two batches of a queue have anything in common.                       *)
QApart(k, c, q) ==
    \A i, j \in 1..Len(q) :
        i # j => FateAt(k, c + 1, q[i]) \intersect FateAt(k, c + 1, q[j]) = {}

LEMMA QApartAppend ==
    ASSUME NEW k, NEW c, NEW q \in Seq(SUBSET Elem), NEW B \in SUBSET Elem,
           QApart(k, c, q), QFate(k, c, q) \intersect FateAt(k, c + 1, B) = {}
    PROVE  QApart(k, c, Append(q, B))
<1>1. /\ Len(Append(q, B)) = Len(q) + 1 /\ Len(q) \in Nat
      /\ \A i \in 1..Len(q) : Append(q, B)[i] = q[i]
      /\ Append(q, B)[Len(q) + 1] = B
  OBVIOUS
<1>2. \A i \in 1..(Len(q) + 1) : i \in 1..Len(q) \/ i = Len(q) + 1
  BY <1>1
<1>3. \A i \in 1..Len(q) : FateAt(k, c + 1, q[i]) \intersect FateAt(k, c + 1, B) = {}
  <2>1. \A i \in 1..Len(q) : FateAt(k, c + 1, q[i]) \subseteq QFate(k, c, q)
    BY DEF QFate, FateAt
  <2> QED
    BY <2>1
<1> QED
  BY <1>1, <1>2, <1>3 DEF QApart

LEMMA QApartTail ==
    ASSUME NEW k, NEW c, NEW q \in Seq(SUBSET Elem), q # <<>>, QApart(k, c, q)
    PROVE  /\ QApart(k, c, Tail(q))
           /\ FateAt(k, c + 1, Head(q)) \intersect QFate(k, c, Tail(q)) = {}
<1>1. QApart(k, c, Tail(q))
  <2>1. ASSUME NEW i \in 1..Len(Tail(q)), NEW j \in 1..Len(Tail(q)), i # j
        PROVE  FateAt(k, c + 1, Tail(q)[i]) \intersect FateAt(k, c + 1, Tail(q)[j]) = {}
    <3>1. /\ i + 1 # j + 1 /\ i + 1 \in 1..Len(q) /\ j + 1 \in 1..Len(q)
          /\ Tail(q)[i] = q[i + 1] /\ Tail(q)[j] = q[j + 1]
      BY <2>1, TailIs
    <3> QED
      BY <3>1 DEF QApart
  <2> QED
    BY <2>1 DEF QApart
<1>2. ASSUME NEW f \in FateAt(k, c + 1, Head(q)), f \in QFate(k, c, Tail(q)) PROVE FALSE
  <2>1. PICK i \in 1..Len(Tail(q)) : f \in FateAt(k, c + 1, Tail(q)[i])
    BY <1>2 DEF QFate
  <2>2. 1 \in 1..Len(q) /\ i + 1 \in 1..Len(q) /\ i + 1 # 1
    BY TailIs
  <2>3. f \in FateAt(k, c + 1, q[1]) /\ f \in FateAt(k, c + 1, q[i + 1])
    BY <1>2, <2>1, TailIs
  <2> QED
    BY <2>2, <2>3 DEF QApart
<1> QED
  BY <1>1, <1>2

-----------------------------------------------------------------------------
(* Whoever is not at work on a batch holds none.                            *)

HandsInv ==
    /\ \A s \in Stage, w \in Workers : wpc[s][w] \in {"recv", "done"} => held[s][w] = {}
    /\ main # "consume" => sinkBatch = {}
    /\ batcher = "done" => batch = {}

LEMMA WorkerFrame ==
    ASSUME TypeOK, NEW s \in Stage, NEW w \in Workers, WorkerStep(s, w)
    PROVE  /\ UNCHANGED <<sourceVars, closed, mainVars>>
           /\ \A t \in Stage, v \in Workers : t # s \/ v # w =>
                wpc'[t][v] = wpc[t][v] /\ held'[t][v] = held[t][v]
<1>1. UNCHANGED <<sourceVars, closed, mainVars>>
  BY DEF WorkerStep, WorkerRecv, WorkerRangeEnds, WorkerProcess, WorkerFails,
         WorkerSend, WorkerCancelled, chanVars
<1>2. \E q : wpc' = [wpc EXCEPT ![s][w] = q]
  BY Zenon DEF WorkerStep, WorkerRecv, WorkerRangeEnds, WorkerProcess, WorkerFails,
         WorkerSend, WorkerCancelled
<1>3. held' = held \/ \E B : held' = [held EXCEPT ![s][w] = B]
  BY Zenon DEF WorkerStep, WorkerRecv, WorkerRangeEnds, WorkerProcess, WorkerFails,
         WorkerSend, WorkerCancelled
<1>4. \A t \in Stage, v \in Workers : t # s \/ v # w => wpc'[t][v] = wpc[t][v]
  BY <1>2 DEF TypeOK
<1>5. \A t \in Stage, v \in Workers : t # s \/ v # w => held'[t][v] = held[t][v]
  BY <1>3 DEF TypeOK
<1> QED
  BY <1>1, <1>4, <1>5

LEMMA HandsWorker ==
    ASSUME TypeOK, HandsInv, NEW s \in Stage, NEW w \in Workers, WorkerStep(s, w)
    PROVE  wpc'[s][w] \in {"recv", "done"} => held'[s][w] = {}
<1>1. CASE WorkerRecv(s, w)
  BY <1>1 DEF WorkerRecv, TypeOK
<1>2. CASE WorkerRangeEnds(s, w)
  BY <1>2 DEF WorkerRangeEnds, TypeOK, HandsInv
<1>3. CASE WorkerProcess(s, w)
  <2> DEFINE o == SafeProcess(s, held[s][w]).out
  <2>1. /\ held' = [held EXCEPT ![s][w] = o]
        /\ wpc' = [wpc EXCEPT ![s][w] = IF o = {} THEN "recv" ELSE "send"]
    BY <1>3 DEF WorkerProcess
  <2> HIDE DEF o
  <2> QED
    BY <2>1 DEF TypeOK
<1>4. CASE WorkerFails(s, w) \/ WorkerSend(s, w) \/ WorkerCancelled(s, w)
  <2>1. held' = [held EXCEPT ![s][w] = {}]
    BY <1>4, Zenon DEF WorkerFails, WorkerSend, WorkerCancelled
  <2> QED
    BY <2>1 DEF TypeOK
<1> QED
  BY <1>1, <1>2, <1>3, <1>4 DEF WorkerStep

LEMMA HandsStep ==
    ASSUME TypeOK, HandsInv, [Next]_vars
    PROVE  HandsInv'
<1>1. CASE CallerCancel \/ FeederExit
  BY <1>1 DEF HandsInv, CallerCancel, FeederExit, sourceVars, workerVars, mainVars
<1>2. CASE BatcherStep
  BY <1>2 DEF HandsInv, BatcherStep, BatcherTake, BatcherSourceClosed, BatcherTimeout,
     BatcherFlush, NewBatch, BatcherCancelled, workerVars, mainVars
<1>3. ASSUME NEW s \in Stage, StageClose(s) PROVE HandsInv'
  BY <1>3 DEF HandsInv, StageClose, sourceVars, workerVars, mainVars
<1>4. ASSUME NEW s \in Stage, NEW w \in Workers, WorkerStep(s, w) PROVE HandsInv'
  <2>1. ASSUME NEW t \in Stage, NEW v \in Workers, wpc'[t][v] \in {"recv", "done"}
        PROVE  held'[t][v] = {}
    <3>1. CASE t = s /\ v = w
      BY <1>4, <2>1, <3>1, HandsWorker
    <3>2. CASE t # s \/ v # w
      <4>1. wpc'[t][v] = wpc[t][v] /\ held'[t][v] = held[t][v]
        BY <1>4, <3>2, WorkerFrame
      <4> QED
        BY <2>1, <4>1 DEF HandsInv
    <3> QED
      BY <3>1, <3>2
  <2>2. UNCHANGED <<main, sinkBatch, batcher, batch>>
    BY <1>4, WorkerFrame DEF sourceVars, mainVars
  <2> QED
    BY <2>1, <2>2 DEF HandsInv
<1>5. CASE MainStep
  <2>1. UNCHANGED <<batcher, batch, wpc, held>>
    BY <1>5 DEF MainStep, SinkRecv, SinkConsume, SinkRangeEnds, JoinStages, Return,
       sourceVars, workerVars
  <2>2. main' # "consume" => sinkBatch' = {}
    BY <1>5 DEF HandsInv, MainStep, SinkRecv, SinkConsume, SinkRangeEnds, JoinStages, Return
  <2> QED
    BY <2>1, <2>2 DEF HandsInv
<1>6. CASE Finished \/ UNCHANGED vars
  BY <1>6 DEF HandsInv, Finished, vars
<1> QED
  BY <1>1, <1>2, <1>3, <1>4, <1>5, <1>6 DEF Next

-----------------------------------------------------------------------------
(* What a step may do to the places: nothing; carry a part X of what is in  *)
(* p on to q; the same, but for shed elements, which may vanish; or take    *)
(* from p.                                                                  *)

Still(k) == \A p \in Slots : At(k, p)' = At(k, p)
Pass(k, p, q, X) ==
    /\ \A r \in Slots \ {p, q} : At(k, r)' = At(k, r)
    /\ At(k, p)' \union X \subseteq At(k, p)
    /\ At(k, p) \ SinkSheds \subseteq At(k, p)' \union X
    /\ At(k, p)' \intersect X = {}
    /\ At(k, q)' = At(k, q) \union X
Carry(k, p, q, X) ==
    /\ \A r \in Slots \ {p, q} : At(k, r)' = At(k, r)
    /\ At(k, p) = At(k, p)' \union X
    /\ At(k, p)' \intersect X = {}
    /\ At(k, q)' = At(k, q) \union X
Lose(k, p) ==
    /\ \A r \in Slots \ {p} : At(k, r)' = At(k, r)
    /\ At(k, p)' \subseteq At(k, p)

LEMMA CarryPasses ==
    ASSUME NEW k, NEW p, NEW q, NEW X, Carry(k, p, q, X)
    PROVE  Pass(k, p, q, X)
  BY DEF Carry, Pass

LEMMA TakeMoves ==
    ASSUME TypeOK, BatcherTake, NEW k \in 1..Sink
    PROVE  Carry(k, Source, Batcher, FateAt(k, 1, {next}))
<1>1. /\ next \in Nat /\ NItems \in Nat /\ next <= NItems
      /\ next' = next + 1 /\ batch' = batch \union {next}
  BY SizesAssumption DEF TypeOK, BatcherTake, Offered
<1>2. next..NItems = (next'..NItems) \union {next} /\ (next'..NItems) \intersect {next} = {}
  BY <1>1
<1>3. At(k, Source) = At(k, Source)' \union FateAt(k, 1, {next})
  <2>1. At(k, Source) = FateAt(k, 1, next..NItems)
    BY AtIs
  <2>2. At(k, Source)' = FateAt(k, 1, next'..NItems)
    BY AtIsNext
  <2>3. FateAt(k, 1, (next'..NItems) \union {next})
            = FateAt(k, 1, next'..NItems) \union FateAt(k, 1, {next})
    <3>1. PICK A : A = next'..NItems
      OBVIOUS
    <3>2. FateAt(k, 1, A \union {next}) = FateAt(k, 1, A) \union FateAt(k, 1, {next})
      BY FateUnion
    <3> QED
      BY <3>1, <3>2
  <2> QED
    BY <1>2, <2>1, <2>2, <2>3
<1>4. At(k, Batcher)' = At(k, Batcher) \union FateAt(k, 1, {next})
  <2>1. At(k, Batcher) = FateAt(k, 1, batch)
    BY AtIs
  <2>2. At(k, Batcher)' = FateAt(k, 1, batch')
    BY AtIsNext
  <2>3. FateAt(k, 1, batch \union {next}) = FateAt(k, 1, batch) \union FateAt(k, 1, {next})
    BY FateUnion
  <2> QED
    BY <1>1, <2>1, <2>2, <2>3
<1>5. At(k, Source)' \intersect FateAt(k, 1, {next}) = {}
  <2>1. 1 \in 1..Sink
    BY SizesType DEF Sink
  <2>2. FateAt(k, 1, next'..NItems) \intersect FateAt(k, 1, {next}) = {}
    BY <1>2, <2>1, FateApart
  <2>3. At(k, Source)' = FateAt(k, 1, next'..NItems)
    BY AtIsNext
  <2> QED
    BY <2>2, <2>3
<1>6. \A r \in Slots \ {Source, Batcher} : At(k, r)' = At(k, r)
  <2>1. UNCHANGED <<chan, held, wpc, sinkBatch, delivered, discarded>>
    BY DEF BatcherTake, chanVars, workerVars, mainVars
  <2> QED
    BY <2>1, AtSame DEF SameHand, Level
<1> QED
  BY <1>3, <1>4, <1>5, <1>6 DEF Carry

LEMMA FlushMoves ==
    ASSUME TypeOK, BatcherFlush, NEW k \in 1..Sink
    PROVE  Carry(k, Batcher, Queue(0), At(k, Batcher)) /\ At(k, Batcher)' = {}
<1>1. /\ batch' = {} /\ chan'[0] = Append(chan[0], batch)
      /\ \A c \in 0..NStages : c # 0 => chan'[c] = chan[c]
      /\ chan[0] \in Seq(SUBSET Elem) /\ batch \in SUBSET Elem
  <2>1. 0 \in 0..NStages
    BY SizesType
  <2> QED
    BY <2>1 DEF TypeOK, BatcherFlush, Enqueue, NewBatch
<1>2. At(k, Batcher)' = {}
  BY <1>1, AtIsNext, FateEmpty
<1>3. At(k, Queue(0))' = At(k, Queue(0)) \union At(k, Batcher)
  <2>1. At(k, Queue(0))' = QFate(k, 0, Append(chan[0], batch))
    BY <1>1, AtIsNext, SizesType
  <2>2. At(k, Queue(0)) = QFate(k, 0, chan[0]) /\ At(k, Batcher) = FateAt(k, 1, batch)
    BY AtIs, SizesType
  <2>3. QFate(k, 0, Append(chan[0], batch)) = QFate(k, 0, chan[0]) \union FateAt(k, 1, batch)
    <3>1. PICK c : c = 0
      OBVIOUS
    <3>2. QFate(k, c, Append(chan[0], batch)) = QFate(k, c, chan[0]) \union FateAt(k, c + 1, batch)
      <4>1. chan[0] \in Seq(SUBSET Elem) /\ batch \in SUBSET Elem
        BY <1>1
      <4> QED
        BY <4>1, QFateAppend
    <3>3. FateAt(k, c + 1, batch) = FateAt(k, 1, batch)
      <4>1. c + 1 = 1
        BY <3>1
      <4> QED
        BY <4>1, Zenon
    <3> QED
      BY <3>1, <3>2, <3>3, Zenon
  <2> QED
    BY <2>1, <2>2, <2>3
<1>4. \A r \in Slots \ {Batcher, Queue(0)} : At(k, r)' = At(k, r)
  <2>1. UNCHANGED <<next, sinkBatch, delivered, discarded, held, wpc>>
    BY DEF BatcherFlush, workerVars, mainVars
  <2> QED
    BY <1>1, <2>1, AtSame DEF SameHand, Level
<1> QED
  BY <1>2, <1>3, <1>4 DEF Carry

LEMMA AbandonMoves ==
    ASSUME TypeOK, BatcherCancelled, NEW k \in 1..Sink
    PROVE  Lose(k, Batcher)
<1>1. At(k, Batcher)' = {}
  BY AtIsNext, FateEmpty DEF BatcherCancelled
<1>2. \A r \in Slots \ {Batcher} : At(k, r)' = At(k, r)
  BY AtSame DEF BatcherCancelled, workerVars, mainVars, SameHand, Level
<1> QED
  BY <1>1, <1>2 DEF Lose

(* A worker's step touches its own hand, and the queue or the set named.    *)
LEMMA OthersStill ==
    ASSUME TypeOK, NEW s \in Stage, NEW w \in Workers, WorkerStep(s, w), NEW k,
           NEW r \in Slots, r # Hand(s, w),
           \A c \in 0..NStages : r = Queue(c) => chan'[c] = chan[c],
           r = Discarded => discarded' = discarded
    PROVE  At(k, r)' = At(k, r)
<1>1. UNCHANGED <<next, batch, sinkBatch, delivered>>
  BY WorkerFrame DEF sourceVars, mainVars
<1>2. ASSUME NEW t \in Stage, NEW v \in Workers, r = Hand(t, v) PROVE SameHand(t, v)
  <2>1. t # s \/ v # w
    BY <1>2
  <2>2. wpc'[t][v] = wpc[t][v] /\ held'[t][v] = held[t][v]
    BY <2>1, WorkerFrame
  <2> QED
    BY <2>2 DEF SameHand, Level
<1> QED
  BY <1>1, <1>2, AtSame

LEMMA RecvMoves ==
    ASSUME TypeOK, HandsInv, NEW s \in Stage, NEW w \in Workers, WorkerRecv(s, w),
           NEW k \in 1..Sink, QApart(k, s - 1, chan[s - 1])
    PROVE  Carry(k, Queue(s - 1), Hand(s, w), FateAt(k, s, Head(chan[s - 1])))
<1> DEFINE q == chan[s - 1]
           X == FateAt(k, s, Head(q))
<1>1. /\ s - 1 \in 0..NStages /\ (s - 1) + 1 = s /\ s \in Nat
      /\ q \in Seq(SUBSET Elem) /\ q # <<>>
      /\ chan'[s - 1] = Tail(q)
      /\ \A c \in 0..NStages : c # s - 1 => chan'[c] = chan[c]
      /\ held[s][w] = {} /\ held'[s][w] = Head(q)
      /\ wpc[s][w] = "recv" /\ wpc'[s][w] = "process"
      /\ UNCHANGED discarded
  <2>1. s \in Nat /\ s - 1 \in 0..NStages
    BY SizesType DEF Stage
  <2>2. /\ wpc[s][w] = "recv" /\ q # <<>> /\ UNCHANGED discarded
        /\ chan' = [chan EXCEPT ![s - 1] = Tail(@)]
        /\ held' = [held EXCEPT ![s][w] = Head(q)]
        /\ wpc' = [wpc EXCEPT ![s][w] = "process"]
    BY DEF WorkerRecv
  <2>3. /\ held[s][w] = {} /\ held'[s][w] = Head(q) /\ wpc'[s][w] = "process"
    BY <2>2 DEF TypeOK, HandsInv
  <2>4. /\ q \in Seq(SUBSET Elem) /\ chan'[s - 1] = Tail(q)
        /\ \A c \in 0..NStages : c # s - 1 => chan'[c] = chan[c]
    BY <2>1, <2>2 DEF TypeOK
  <2> QED
    BY <2>1, <2>2, <2>3, <2>4
<1>2. At(k, Queue(s - 1)) = QFate(k, s - 1, q) /\ At(k, Queue(s - 1))' = QFate(k, s - 1, Tail(q))
  BY <1>1, AtIs, AtIsNext
<1>3. /\ QFate(k, s - 1, q) = X \union QFate(k, s - 1, Tail(q))
      /\ X \intersect QFate(k, s - 1, Tail(q)) = {}
  <2> HIDE DEF q
  <2>1. /\ QFate(k, s - 1, q) = FateAt(k, (s - 1) + 1, Head(q)) \union QFate(k, s - 1, Tail(q))
    BY <1>1, QFateTail
  <2>2. FateAt(k, (s - 1) + 1, Head(q)) \intersect QFate(k, s - 1, Tail(q)) = {}
    <3>1. QApart(k, s - 1, q)
      BY DEF q
    <3> QED
      BY <1>1, <3>1, QApartTail
  <2>3. (s - 1) + 1 = s
    BY <1>1
  <2> QED
    BY <2>1, <2>2, <2>3
<1>4. At(k, Hand(s, w)) = {} /\ At(k, Hand(s, w))' = X
  <2>1. At(k, Hand(s, w)) = FateAt(k, Level(s, w), held[s][w])
    BY AtIs
  <2>2. At(k, Hand(s, w))' = FateAt(k, Level(s, w)', held'[s][w])
    BY AtIsNext
  <2>3. Level(s, w)' = s
    BY <1>1 DEF Level
  <2>4. FateAt(k, Level(s, w), {}) = {}
    BY FateEmpty
  <2> HIDE DEF q
  <2>5. At(k, Hand(s, w))' = FateAt(k, s, Head(q))
    BY <1>1, <2>2, <2>3
  <2> QED
    BY <1>1, <2>1, <2>4, <2>5
<1>5. \A r \in Slots \ {Queue(s - 1), Hand(s, w)} : At(k, r)' = At(k, r)
  <2>1. WorkerStep(s, w)
    BY DEF WorkerStep
  <2> QED
    BY <1>1, <2>1, OthersStill
<1> QED
  BY <1>2, <1>3, <1>4, <1>5 DEF Carry

(* What a stage makes of a batch, seen from stage k.                        *)
LEMMA ProcessMoves ==
    ASSUME TypeOK, NEW s \in Stage, NEW w \in Workers, WorkerProcess(s, w), NEW k \in 1..Sink
    PROVE  Lose(k, Hand(s, w)) /\ (s < k => Still(k))
<1> DEFINE B == held[s][w]
           o == SafeProcess(s, B).out
<1>1. B \in SUBSET Elem /\ o \in SUBSET Elem /\ s \in 1..Sink /\ s + 1 \in 1..Sink
      /\ s \in Nat /\ k \in Nat
  <2>1. B \in SUBSET Elem
    BY DEF TypeOK
  <2>2. s \in 1..Sink /\ s + 1 \in 1..Sink /\ s \in Nat /\ k \in Nat
    BY SizesType DEF Stage, Sink
  <2> QED
    BY <2>1, <2>2, SafeProcessType
<1>2. o = UNION {Emit[s][e] : e \in B}
  BY DEF WorkerProcess, SafeProcess
<1>3. /\ wpc[s][w] = "process" /\ held'[s][w] = o
      /\ wpc'[s][w] = IF o = {} THEN "recv" ELSE "send"
      /\ UNCHANGED <<chan, discarded>>
  <2>1. /\ wpc[s][w] = "process"
        /\ held' = [held EXCEPT ![s][w] = o]
        /\ wpc' = [wpc EXCEPT ![s][w] = IF o = {} THEN "recv" ELSE "send"]
        /\ UNCHANGED <<chan, discarded>>
    BY DEF WorkerProcess, chanVars
  <2> HIDE DEF o, B
  <2> QED
    BY <2>1 DEF TypeOK
<1>4. At(k, Hand(s, w)) = FateAt(k, s, B)
  BY <1>3, AtIs DEF Level
<1>5. At(k, Hand(s, w))' = FateAt(k, s + 1, o)
  <2>1. At(k, Hand(s, w))' = FateAt(k, Level(s, w)', held'[s][w])
    BY AtIsNext
  <2>2. CASE o = {}
    BY <1>3, <2>1, <2>2, FateEmpty
  <2>3. CASE o # {}
    <3>1. Level(s, w)' = s + 1
      BY <1>3, <2>3 DEF Level
    <3> QED
      BY <1>3, <2>1, <3>1
  <2> HIDE DEF o
  <2> QED
    BY <2>2, <2>3
<1>6. s < k => At(k, Hand(s, w))' = At(k, Hand(s, w))
  BY <1>1, <1>2, <1>4, <1>5, FateStep
<1>7. ~(s < k) => At(k, Hand(s, w))' = {}
  BY <1>1, <1>5, FatePast
<1>8. \A r \in Slots \ {Hand(s, w)} : At(k, r)' = At(k, r)
  <2>1. WorkerStep(s, w)
    BY DEF WorkerStep
  <2> QED
    BY <1>3, <2>1, OthersStill
<1> QED
  BY <1>6, <1>7, <1>8 DEF Lose, Still


LEMMA SendMoves ==
    ASSUME TypeOK, NEW s \in Stage, NEW w \in Workers, WorkerSend(s, w), NEW k \in 1..Sink
    PROVE  Carry(k, Hand(s, w), Queue(s), At(k, Hand(s, w)))
<1>1. /\ s \in 0..NStages
      /\ chan[s] \in Seq(SUBSET Elem) /\ held[s][w] \in SUBSET Elem
      /\ chan'[s] = Append(chan[s], held[s][w])
      /\ \A c \in 0..NStages : c # s => chan'[c] = chan[c]
      /\ held'[s][w] = {}
      /\ wpc[s][w] = "send" /\ wpc'[s][w] = "recv"
      /\ UNCHANGED discarded
  <2>1. s \in 0..NStages
    BY SizesType DEF Stage
  <2>2. /\ wpc[s][w] = "send" /\ UNCHANGED discarded
        /\ chan' = [chan EXCEPT ![s] = Append(@, held[s][w])]
        /\ held' = [held EXCEPT ![s][w] = {}]
        /\ wpc' = [wpc EXCEPT ![s][w] = "recv"]
    BY DEF WorkerSend, Enqueue
  <2>3. /\ held'[s][w] = {} /\ wpc'[s][w] = "recv"
    BY <2>2 DEF TypeOK
  <2>4. chan[s] \in Seq(SUBSET Elem) /\ held[s][w] \in SUBSET Elem
    BY <2>1 DEF TypeOK
  <2>5. /\ chan'[s] = Append(chan[s], held[s][w])
        /\ \A c \in 0..NStages : c # s => chan'[c] = chan[c]
    BY <2>1, <2>2 DEF TypeOK
  <2> QED
    BY <2>1, <2>2, <2>3, <2>4, <2>5
<1>2. At(k, Hand(s, w)) = FateAt(k, s + 1, held[s][w])
  <2>1. At(k, Hand(s, w)) = FateAt(k, Level(s, w), held[s][w])
    BY AtIs
  <2>2. Level(s, w) = s + 1
    BY <1>1 DEF Level
  <2> QED
    BY <2>1, <2>2
<1>3. At(k, Hand(s, w))' = {}
  <2>1. At(k, Hand(s, w))' = FateAt(k, Level(s, w)', held'[s][w])
    BY AtIsNext
  <2>2. held'[s][w] = {}
    BY <1>1
  <2> QED
    BY <2>1, <2>2, FateEmpty
<1>4. At(k, Queue(s))' = At(k, Queue(s)) \union At(k, Hand(s, w))
  <2>1. At(k, Queue(s))' = QFate(k, s, chan'[s])
    BY <1>1, AtIsNext
  <2>2. At(k, Queue(s)) = QFate(k, s, chan[s])
    BY <1>1, AtIs
  <2>3. chan[s] \in Seq(SUBSET Elem) /\ held[s][w] \in SUBSET Elem
    BY <1>1
  <2>4. QFate(k, s, Append(chan[s], held[s][w]))
            = QFate(k, s, chan[s]) \union FateAt(k, s + 1, held[s][w])
    BY <2>3, QFateAppend
  <2>5. chan'[s] = Append(chan[s], held[s][w])
    BY <1>1
  <2> QED
    BY <1>2, <2>1, <2>2, <2>4, <2>5
<1>5. \A r \in Slots \ {Hand(s, w), Queue(s)} : At(k, r)' = At(k, r)
  <2>1. WorkerStep(s, w)
    BY DEF WorkerStep
  <2> QED
    BY <1>1, <2>1, OthersStill
<1> QED
  BY <1>3, <1>4, <1>5 DEF Carry

LEMMA QuitMoves ==
    ASSUME TypeOK, NEW s \in Stage, NEW w \in Workers, WorkerCancelled(s, w), NEW k
    PROVE  Lose(k, Hand(s, w))
<1>1. held'[s][w] = {} /\ UNCHANGED <<chan, discarded>>
  BY DEF WorkerCancelled, TypeOK, chanVars
<1>2. At(k, Hand(s, w))' = {}
  <2>1. At(k, Hand(s, w))' = FateAt(k, Level(s, w)', held'[s][w])
    BY AtIsNext
  <2> QED
    BY <1>1, <2>1, FateEmpty
<1>3. \A r \in Slots \ {Hand(s, w)} : At(k, r)' = At(k, r)
  <2>1. WorkerStep(s, w)
    BY DEF WorkerStep
  <2> QED
    BY <1>1, <2>1, OthersStill
<1> QED
  BY <1>2, <1>3 DEF Lose

LEMMA EndMoves ==
    ASSUME TypeOK, NEW s \in Stage, NEW w \in Workers, WorkerRangeEnds(s, w), NEW k
    PROVE  Still(k)
<1>1. /\ UNCHANGED <<chan, discarded, held>>
      /\ wpc[s][w] = "recv" /\ wpc'[s][w] = "done"
  BY DEF WorkerRangeEnds, TypeOK, chanVars
<1>2. At(k, Hand(s, w))' = At(k, Hand(s, w))
  <2>1. At(k, Hand(s, w)) = FateAt(k, Level(s, w), held[s][w])
    BY AtIs
  <2>2. At(k, Hand(s, w))' = FateAt(k, Level(s, w)', held'[s][w])
    BY AtIsNext
  <2>3. Level(s, w)' = Level(s, w) /\ held'[s][w] = held[s][w]
    BY <1>1 DEF Level
  <2> QED
    BY <2>1, <2>2, <2>3
<1>3. \A r \in Slots \ {Hand(s, w)} : At(k, r)' = At(k, r)
  <2>1. WorkerStep(s, w)
    BY DEF WorkerStep
  <2> QED
    BY <1>1, <2>1, OthersStill
<1> QED
  BY <1>2, <1>3 DEF Still

LEMMA FailMoves ==
    ASSUME TypeOK, NEW s \in Stage, NEW w \in Workers, WorkerFails(s, w), NEW k \in 1..Sink
    PROVE  IF k = Sink THEN Pass(k, Hand(s, w), Discarded, Fate(s, held[s][w]))
                       ELSE Lose(k, Hand(s, w))
<1>1. /\ held'[s][w] = {} /\ wpc[s][w] = "process" /\ UNCHANGED chan
      /\ discarded' = discarded \union Fate(s, held[s][w])
      /\ held[s][w] \in SUBSET Elem /\ s \in 1..Sink
  <2>1. held' = [held EXCEPT ![s][w] = {}]
    BY Zenon DEF WorkerFails
  <2>2. /\ wpc[s][w] = "process" /\ UNCHANGED chan
        /\ discarded' = discarded \union Fate(s, held[s][w])
    BY DEF WorkerFails, chanVars
  <2>3. s \in 1..Sink
    BY SizesType DEF Stage, Sink
  <2> QED
    BY <2>1, <2>2, <2>3 DEF TypeOK
<1>2. At(k, Hand(s, w)) = FateAt(k, s, held[s][w])
  <2>1. At(k, Hand(s, w)) = FateAt(k, Level(s, w), held[s][w])
    BY AtIs
  <2>2. Level(s, w) = s
    BY <1>1 DEF Level
  <2> QED
    BY <2>1, <2>2
<1>3. At(k, Hand(s, w))' = {}
  <2>1. At(k, Hand(s, w))' = FateAt(k, Level(s, w)', held'[s][w])
    BY AtIsNext
  <2> QED
    BY <1>1, <2>1, FateEmpty
<1>4. \A r \in Slots \ {Hand(s, w), Discarded} : At(k, r)' = At(k, r)
  <2>1. WorkerStep(s, w)
    BY DEF WorkerStep
  <2> QED
    BY <1>1, <2>1, OthersStill
<1>5. /\ At(k, Discarded) = AtEnd(k, discarded)
      /\ At(k, Discarded)' = AtEnd(k, discarded')
  BY AtIs, AtIsNext
<1>6. CASE k = Sink
  <2>1. Fate(s, held[s][w]) = FateAt(k, s, held[s][w]) \ SinkSheds
    BY <1>1, <1>6, FateIs
  <2>2. At(k, Discarded)' = At(k, Discarded) \union Fate(s, held[s][w])
    BY <1>1, <1>5, <1>6 DEF AtEnd
  <2> QED
    BY <1>2, <1>3, <1>4, <1>6, <2>1, <2>2 DEF Pass
<1>7. CASE k # Sink
  BY <1>3, <1>4, <1>5, <1>7 DEF Lose, AtEnd
<1> QED
  BY <1>6, <1>7

LEMMA SinkTakes ==
    ASSUME TypeOK, HandsInv, SinkRecv, NEW k \in 1..Sink,
           QApart(k, NStages, chan[NStages])
    PROVE  Carry(k, Queue(NStages), InSink, FateAt(k, Sink, Head(chan[NStages])))
<1> DEFINE q == chan[NStages]
           X == FateAt(k, Sink, Head(q))
<1>1. /\ NStages \in 0..NStages /\ q \in Seq(SUBSET Elem) /\ q # <<>>
      /\ chan'[NStages] = Tail(q)
      /\ \A c \in 0..NStages : c # NStages => chan'[c] = chan[c]
      /\ sinkBatch = {} /\ sinkBatch' = Head(q)
      /\ UNCHANGED <<next, batch, held, wpc, delivered, discarded>>
  <2>1. NStages \in 0..NStages
    BY SizesType
  <2> QED
    BY <2>1 DEF SinkRecv, TypeOK, HandsInv, sourceVars, workerVars
<1>2. /\ At(k, Queue(NStages)) = QFate(k, NStages, q)
      /\ At(k, Queue(NStages))' = QFate(k, NStages, Tail(q))
  BY <1>1, AtIs, AtIsNext
<1>3. /\ QFate(k, NStages, q) = X \union QFate(k, NStages, Tail(q))
      /\ X \intersect QFate(k, NStages, Tail(q)) = {}
  <2> HIDE DEF q
  <2>1. QFate(k, NStages, q)
            = FateAt(k, NStages + 1, Head(q)) \union QFate(k, NStages, Tail(q))
    BY <1>1, QFateTail
  <2>2. FateAt(k, NStages + 1, Head(q)) \intersect QFate(k, NStages, Tail(q)) = {}
    <3>1. QApart(k, NStages, q)
      BY DEF q
    <3> QED
      BY <1>1, <3>1, QApartTail
  <2> QED
    BY <2>1, <2>2 DEF Sink
<1>4. At(k, InSink)' = At(k, InSink) \union X
  <2> HIDE DEF q
  <2>1. At(k, InSink) = AtEnd(k, sinkBatch) /\ At(k, InSink)' = AtEnd(k, sinkBatch')
    BY AtIs, AtIsNext
  <2>2. Sink \in 1..Sink /\ (k # Sink => k < Sink) /\ Head(q) \in SUBSET Elem
    BY <1>1, SizesType, TailIs DEF Sink
  <2>3. CASE k = Sink
    <3>1. X = Head(q)
      BY <2>2, <2>3, FateHere
    <3> QED
      BY <1>1, <2>1, <2>3, <3>1 DEF AtEnd
  <2>4. CASE k # Sink
    <3>1. X = {}
      BY <2>2, <2>4, FatePast
    <3> QED
      BY <2>1, <2>4, <3>1 DEF AtEnd
  <2> QED
    BY <2>3, <2>4
<1>5. \A r \in Slots \ {Queue(NStages), InSink} : At(k, r)' = At(k, r)
  BY <1>1, AtSame DEF SameHand, Level
<1> QED
  BY <1>2, <1>3, <1>4, <1>5 DEF Carry

(* The sink splits what it consumes.                                        *)
Split(Y, Z) ==
    /\ \A r \in Slots \ {InSink, Delivered, Discarded} : At(Sink, r)' = At(Sink, r)
    /\ At(Sink, InSink)' = {}
    /\ At(Sink, Delivered)' = At(Sink, Delivered) \union Y
    /\ At(Sink, Discarded)' = At(Sink, Discarded) \union Z
    /\ Y \intersect Z = {} /\ Y \union Z = At(Sink, InSink) \ SinkSheds

LEMMA ConsumeMoves ==
    ASSUME TypeOK, SinkConsume, NEW k
    PROVE  IF k = Sink THEN \E Y, Z : Split(Y, Z) ELSE Still(k)
<1>1. /\ sinkBatch' = {}
      /\ UNCHANGED <<next, batch, held, wpc, chan>>
  BY DEF SinkConsume, sourceVars, workerVars, chanVars
<1>2. PICK seen \in Reached(sinkBatch) :
        /\ delivered' = delivered \union (seen \ SinkSheds)
        /\ discarded' = discarded \union ((sinkBatch \ seen) \ SinkSheds)
  BY DEF SinkConsume
<1>3. seen \subseteq sinkBatch
  BY <1>2 DEF Reached
<1>4. \A r \in Slots \ {InSink, Delivered, Discarded} : At(k, r)' = At(k, r)
  BY <1>1, AtSame DEF SameHand, Level
<1>5. /\ At(k, InSink) = AtEnd(k, sinkBatch) /\ At(k, InSink)' = AtEnd(k, sinkBatch')
      /\ At(k, Delivered) = AtEnd(k, delivered) /\ At(k, Delivered)' = AtEnd(k, delivered')
      /\ At(k, Discarded) = AtEnd(k, discarded) /\ At(k, Discarded)' = AtEnd(k, discarded')
  BY AtIs, AtIsNext
<1>6. CASE k = Sink
  <2>1. Split(seen \ SinkSheds, (sinkBatch \ seen) \ SinkSheds)
    BY <1>1, <1>2, <1>3, <1>4, <1>5, <1>6 DEF Split, AtEnd
  <2> QED
    BY <1>6, <2>1
<1>7. CASE k # Sink
  BY <1>4, <1>5, <1>7 DEF Still, AtEnd
<1> QED
  BY <1>6, <1>7


-----------------------------------------------------------------------------
(* No two places share anything, seen from any stage.                       *)
Apart(k) == \A p, q \in Slots : p # q => At(k, p) \intersect At(k, q) = {}
QueuesApart(k) == \A c \in 0..NStages : QApart(k, c, chan[c])
FlowInv == \A k \in 1..Sink : Apart(k) /\ QueuesApart(k)

Moves(k) ==
    \/ Still(k)
    \/ \E p, q \in Slots : p # q /\ \E X : Pass(k, p, q, X)
    \/ (k = Sink => ctx # "live") /\ \E p \in Slots : Lose(k, p)
    \/ k = Sink /\ \E Y, Z : Split(Y, Z)

LEMMA StillMoves ==
    ASSUME UNCHANGED <<next, batch, sinkBatch, delivered, discarded, chan, held, wpc>>,
           NEW k
    PROVE  Still(k)
  BY AtSame DEF Still, SameHand, Level

LEMMA WorkerMoves ==
    ASSUME TypeOK, HandsInv, NEW k \in 1..Sink, QueuesApart(k),
           NEW s \in Stage, NEW w \in Workers, WorkerStep(s, w)
    PROVE  Moves(k)
<1>1. Hand(s, w) \in Slots /\ Queue(s) \in Slots /\ Discarded \in Slots
      /\ Queue(s - 1) \in Slots /\ s - 1 \in 0..NStages
      /\ Hand(s, w) # Queue(s) /\ Hand(s, w) # Queue(s - 1) /\ Hand(s, w) # Discarded
  <2>1. s \in 0..NStages /\ s - 1 \in 0..NStages
    BY SizesType DEF Stage
  <2> QED
    BY <2>1, SlotKinds
<1>2. CASE WorkerRecv(s, w)
  <2>1. QApart(k, s - 1, chan[s - 1])
    BY <1>1 DEF QueuesApart
  <2>2. \E X : Pass(k, Queue(s - 1), Hand(s, w), X)
    BY <1>2, <2>1, RecvMoves, CarryPasses
  <2> QED
    BY <1>1, <2>2 DEF Moves
<1>3. CASE WorkerRangeEnds(s, w)
  BY <1>3, EndMoves DEF Moves
<1>4. CASE WorkerProcess(s, w)
  <2>1. Lose(k, Hand(s, w)) /\ (s < k => Still(k))
    BY <1>4, ProcessMoves
  <2>2. k = Sink => s < k
    BY SizesType DEF Stage, Sink
  <2> QED
    BY <1>1, <2>1, <2>2 DEF Moves
<1>5. CASE WorkerFails(s, w)
  <2>1. IF k = Sink THEN Pass(k, Hand(s, w), Discarded, Fate(s, held[s][w]))
                    ELSE Lose(k, Hand(s, w))
    BY <1>5, FailMoves
  <2> QED
    BY <1>1, <2>1 DEF Moves
<1>6. CASE WorkerSend(s, w)
  <2>1. \E X : Pass(k, Hand(s, w), Queue(s), X)
    BY <1>6, SendMoves, CarryPasses
  <2> QED
    BY <1>1, <2>1 DEF Moves
<1>7. CASE WorkerCancelled(s, w)
  <2>1. Lose(k, Hand(s, w)) /\ ctx # "live"
    BY <1>7, QuitMoves DEF WorkerCancelled, Cancelled
  <2> QED
    BY <1>1, <2>1 DEF Moves
<1> QED
  BY <1>2, <1>3, <1>4, <1>5, <1>6, <1>7 DEF WorkerStep

LEMMA BatcherMoves ==
    ASSUME TypeOK, NEW k \in 1..Sink, BatcherStep
    PROVE  Moves(k)
<1>1. /\ {Source, Batcher, Queue(0)} \subseteq Slots
      /\ Source # Batcher /\ Batcher # Queue(0)
  <2>1. 0 \in 0..NStages
    BY SizesType
  <2> QED
    BY <2>1, SlotKinds
<1>2. CASE BatcherTake
  <2>1. \E X : Pass(k, Source, Batcher, X)
    BY <1>2, TakeMoves, CarryPasses
  <2> QED
    BY <1>1, <2>1 DEF Moves
<1>3. CASE BatcherFlush
  <2>1. \E X : Pass(k, Batcher, Queue(0), X)
    BY <1>3, FlushMoves, CarryPasses
  <2> QED
    BY <1>1, <2>1 DEF Moves
<1>4. CASE BatcherCancelled
  <2>1. Lose(k, Batcher) /\ ctx # "live"
    BY <1>4, AbandonMoves DEF BatcherCancelled, Cancelled
  <2> QED
    BY <1>1, <2>1 DEF Moves
<1>5. CASE BatcherSourceClosed \/ BatcherTimeout
  <2>1. UNCHANGED <<next, batch, sinkBatch, delivered, discarded, chan, held, wpc>>
    BY <1>5 DEF BatcherSourceClosed, BatcherTimeout, chanVars, workerVars, mainVars
  <2> QED
    BY <2>1, StillMoves DEF Moves
<1> QED
  BY <1>2, <1>3, <1>4, <1>5 DEF BatcherStep

LEMMA MainMoves ==
    ASSUME TypeOK, HandsInv, NEW k \in 1..Sink, QueuesApart(k), MainStep
    PROVE  Moves(k)
<1>1. CASE SinkRecv
  <2>1. NStages \in 0..NStages
    BY SizesType
  <2>2. /\ {Queue(NStages), InSink} \subseteq Slots /\ Queue(NStages) # InSink
    BY <2>1, SlotKinds
  <2>3. QApart(k, NStages, chan[NStages])
    BY <2>1 DEF QueuesApart
  <2>4. \E X : Pass(k, Queue(NStages), InSink, X)
    BY <1>1, <2>3, SinkTakes, CarryPasses
  <2> QED
    BY <2>2, <2>4 DEF Moves
<1>2. CASE SinkConsume
  BY <1>2, ConsumeMoves DEF Moves
<1>3. CASE SinkRangeEnds \/ JoinStages \/ Return
  <2>1. UNCHANGED <<next, batch, sinkBatch, delivered, discarded, chan, held, wpc>>
    BY <1>3 DEF SinkRangeEnds, JoinStages, Return, chanVars, workerVars, sourceVars
  <2> QED
    BY <2>1, StillMoves DEF Moves
<1> QED
  BY <1>1, <1>2, <1>3 DEF MainStep

LEMMA StepMoves ==
    ASSUME TypeOK, HandsInv, NEW k \in 1..Sink, QueuesApart(k), [Next]_vars
    PROVE  Moves(k)
<1>1. CASE CallerCancel \/ FeederExit \/ Finished \/ UNCHANGED vars
  <2>1. UNCHANGED <<next, batch, sinkBatch, delivered, discarded, chan, held, wpc>>
    BY <1>1 DEF CallerCancel, FeederExit, Finished, vars, chanVars, workerVars, sourceVars,
       mainVars
  <2> QED
    BY <2>1, StillMoves DEF Moves
<1>2. ASSUME NEW s \in Stage, StageClose(s) PROVE Moves(k)
  <2>1. UNCHANGED <<next, batch, sinkBatch, delivered, discarded, chan, held, wpc>>
    BY <1>2 DEF StageClose, workerVars, sourceVars, mainVars
  <2> QED
    BY <2>1, StillMoves DEF Moves
<1> QED
  BY <1>1, <1>2, WorkerMoves, BatcherMoves, MainMoves DEF Next

LEMMA ApartMoves ==
    ASSUME NEW k, Apart(k), Moves(k)
    PROVE  Apart(k)'
<1> SUFFICES ASSUME NEW r \in Slots, NEW t \in Slots, r # t,
                    NEW f \in At(k, r)', f \in At(k, t)'
             PROVE  FALSE
  BY DEF Apart
<1>0. At(k, r) \intersect At(k, t) = {}
  BY DEF Apart
<1>1. CASE Still(k)
  BY <1>0, <1>1 DEF Still
<1>2. ASSUME NEW p \in Slots, NEW q \in Slots, p # q, NEW X, Pass(k, p, q, X) PROVE FALSE
  <2>0. At(k, p) \intersect At(k, q) = {}
    BY <1>2 DEF Apart
  <2>1. ASSUME NEW a \in Slots, NEW b \in Slots, a # b, f \in At(k, a)', f \in At(k, b)', a = p
        PROVE  FALSE
    BY <1>2, <2>0, <2>1 DEF Pass, Apart
  <2>2. ASSUME NEW a \in Slots, NEW b \in Slots, a # b, f \in At(k, a)', f \in At(k, b)', a = q,
               b # p
        PROVE  FALSE
    <3>1. At(k, b)' = At(k, b) /\ At(k, a)' = At(k, q) \union X /\ X \subseteq At(k, p)
      BY <1>2, <2>2 DEF Pass
    <3> QED
      BY <2>2, <3>1 DEF Apart
  <2>3. CASE r \notin {p, q} /\ t \notin {p, q}
    BY <1>0, <1>2, <2>3 DEF Pass
  <2> QED
    BY <2>1, <2>2, <2>3
<1>3. ASSUME NEW p \in Slots, Lose(k, p) PROVE FALSE
  BY <1>0, <1>3 DEF Lose
<1>4. ASSUME NEW Y, NEW Z, Split(Y, Z), k = Sink PROVE FALSE
  <2> DEFINE C(a) == IF a = Delivered THEN Y ELSE IF a = Discarded THEN Z ELSE {}
  <2>0. InSink \in Slots /\ InSink # Delivered /\ InSink # Discarded /\ Delivered # Discarded
    BY SlotKinds
  <2>1. ASSUME NEW a \in Slots
        PROVE  f \in At(Sink, a)' => (f \in At(Sink, a) /\ a # InSink) \/ f \in C(a)
    BY <1>4, <2>0 DEF Split
  <2>2. \A a \in Slots : C(a) \subseteq At(Sink, InSink)
    BY <1>4 DEF Split
  <2>3. C(r) \intersect C(t) = {}
    BY <1>4 DEF Split
  <2> HIDE DEF C
  <2>4. ~(f \in At(Sink, r) /\ r # InSink /\ f \in At(Sink, InSink))
    BY <1>4, <2>0 DEF Apart
  <2>5. ~(f \in At(Sink, t) /\ t # InSink /\ f \in At(Sink, InSink))
    BY <1>4, <2>0 DEF Apart
  <2> QED
    BY <1>0, <1>4, <2>1, <2>2, <2>3, <2>4, <2>5
<1> QED
  BY <1>1, <1>2, <1>3, <1>4 DEF Moves


LEMMA QueuesApartNext ==
    ASSUME NEW k, \A c \in 0..NStages : QApart(k, c, chan'[c])
    PROVE  QueuesApart(k)'
  BY DEF QueuesApart, QApart, FateAt

LEMMA AppendApart ==
    ASSUME TypeOK, NEW k, NEW c \in 0..NStages, NEW p \in Slots, p # Queue(c), NEW B \in SUBSET Elem,
           Apart(k), QueuesApart(k), At(k, p) = FateAt(k, c + 1, B),
           chan' = [chan EXCEPT ![c] = Append(@, B)]
    PROVE  QueuesApart(k)'
<1>1. chan[c] \in Seq(SUBSET Elem)
  BY DEF TypeOK
<1>2. /\ chan'[c] = Append(chan[c], B)
      /\ \A d \in 0..NStages : d # c => chan'[d] = chan[d]
  BY DEF TypeOK
<1>3. QFate(k, c, chan[c]) \intersect FateAt(k, c + 1, B) = {}
  <2>1. Queue(c) \in Slots
    BY SlotKinds
  <2>2. At(k, Queue(c)) = QFate(k, c, chan[c])
    BY AtIs
  <2> QED
    BY <2>1, <2>2 DEF Apart
<1>4. QApart(k, c, chan[c])
  BY DEF QueuesApart
<1>5. QApart(k, c, Append(chan[c], B))
  BY <1>1, <1>3, <1>4, QApartAppend
<1>6. \A d \in 0..NStages : d # c => QApart(k, d, chan'[d])
  BY <1>2 DEF QueuesApart
<1> QED
  BY <1>2, <1>5, <1>6, QueuesApartNext

LEMMA TailApart ==
    ASSUME TypeOK, NEW k, NEW c \in 0..NStages, chan[c] # <<>>, QueuesApart(k),
           chan' = [chan EXCEPT ![c] = Tail(@)]
    PROVE  QueuesApart(k)'
<1>1. chan[c] \in Seq(SUBSET Elem)
  BY DEF TypeOK
<1>2. /\ chan'[c] = Tail(chan[c])
      /\ \A d \in 0..NStages : d # c => chan'[d] = chan[d]
  BY DEF TypeOK
<1>3. QApart(k, c, chan[c])
  BY DEF QueuesApart
<1>4. QApart(k, c, Tail(chan[c]))
  BY <1>1, <1>3, QApartTail
<1>5. \A d \in 0..NStages : d # c => QApart(k, d, chan'[d])
  BY <1>2 DEF QueuesApart
<1> QED
  BY <1>2, <1>4, <1>5, QueuesApartNext

(* Who sends and who receives.                                              *)
LEMMA ChannelSteps ==
    ASSUME [Next]_vars
    PROVE  \/ UNCHANGED chan \/ BatcherFlush \/ SinkRecv
           \/ \E s \in Stage, w \in Workers : WorkerSend(s, w) \/ WorkerRecv(s, w)
  BY Zenon DEF Next, vars, BatcherStep, WorkerStep, MainStep, CallerCancel, FeederExit, Finished,
         BatcherTake, BatcherSourceClosed, BatcherTimeout, BatcherCancelled, StageClose,
         WorkerRangeEnds, WorkerProcess, WorkerFails, WorkerCancelled,
         SinkConsume, SinkRangeEnds, JoinStages, Return, chanVars

LEMMA QueuesMove ==
    ASSUME TypeOK, NEW k \in 1..Sink, Apart(k), QueuesApart(k), [Next]_vars
    PROVE  QueuesApart(k)'
<1>1. CASE UNCHANGED chan
  BY <1>1 DEF QueuesApart, QApart, FateAt
<1>2. CASE BatcherFlush
  <2>1. PICK c : c = 0
    OBVIOUS
  <2>2. c \in 0..NStages /\ c + 1 = 1
    BY <2>1, SizesType
  <2>3. chan' = [chan EXCEPT ![c] = Append(@, batch)] /\ batch \in SUBSET Elem
    BY <1>2, <2>1 DEF BatcherFlush, Enqueue, TypeOK
  <2>4. At(k, Batcher) = FateAt(k, c + 1, batch)
    BY <2>2, AtIs
  <2>5. Batcher \in Slots /\ Batcher # Queue(c)
    BY SlotKinds
  <2> QED
    BY <2>2, <2>3, <2>4, <2>5, AppendApart
<1>3. ASSUME NEW s \in Stage, NEW w \in Workers, WorkerSend(s, w) PROVE QueuesApart(k)'
  <2>1. s \in 0..NStages
    BY SizesType DEF Stage
  <2>2. chan' = [chan EXCEPT ![s] = Append(@, held[s][w])] /\ held[s][w] \in SUBSET Elem
    BY <1>3 DEF WorkerSend, Enqueue, TypeOK
  <2>3. At(k, Hand(s, w)) = FateAt(k, s + 1, held[s][w])
    <3>1. Level(s, w) = s + 1
      BY <1>3 DEF WorkerSend, Level
    <3> QED
      BY <3>1, AtIs
  <2>4. Hand(s, w) \in Slots /\ Hand(s, w) # Queue(s)
    BY SlotKinds
  <2> QED
    BY <2>1, <2>2, <2>3, <2>4, AppendApart
<1>4. ASSUME NEW s \in Stage, NEW w \in Workers, WorkerRecv(s, w) PROVE QueuesApart(k)'
  <2>1. s - 1 \in 0..NStages
    BY SizesType DEF Stage
  <2>2. chan' = [chan EXCEPT ![s - 1] = Tail(@)] /\ chan[s - 1] # <<>>
    BY <1>4 DEF WorkerRecv
  <2> QED
    BY <2>1, <2>2, TailApart
<1>5. CASE SinkRecv
  <2>1. NStages \in 0..NStages
    BY SizesType
  <2>2. chan' = [chan EXCEPT ![NStages] = Tail(@)] /\ chan[NStages] # <<>>
    BY <1>5 DEF SinkRecv
  <2> QED
    BY <2>1, <2>2, TailApart
<1> QED
  BY <1>1, <1>2, <1>3, <1>4, <1>5, ChannelSteps

LEMMA FlowStep ==
    ASSUME TypeOK, HandsInv, FlowInv, [Next]_vars
    PROVE  FlowInv'
<1> SUFFICES ASSUME NEW k \in 1..Sink PROVE Apart(k)' /\ QueuesApart(k)'
  BY DEF FlowInv, Sink
<1>1. Apart(k) /\ QueuesApart(k)
  BY DEF FlowInv
<1>2. Moves(k)
  BY <1>1, StepMoves
<1> QED
  BY <1>1, <1>2, ApartMoves, QueuesMove

LEMMA InitEmpty ==
    ASSUME Init, NEW k \in 1..Sink, NEW p \in Slots, p # Source
    PROVE  At(k, p) = {}
<1>1. CASE p \in {Batcher, InSink, Delivered, Discarded}
  <2>1. At(k, Batcher) = {}
    BY AtIs, FateEmpty DEF Init
  <2>2. At(k, InSink) = {} /\ At(k, Delivered) = {} /\ At(k, Discarded) = {}
    BY AtIs DEF Init, AtEnd
  <2> QED
    BY <1>1, <2>1, <2>2
<1>2. ASSUME NEW c \in 0..NStages, p = Queue(c) PROVE At(k, p) = {}
  <2>1. chan[c] = <<>>
    BY DEF Init
  <2>2. At(k, p) = QFate(k, c, chan[c])
    BY <1>2, AtIs
  <2>3. 1..Len(chan[c]) = {}
    BY <2>1
  <2> QED
    BY <2>2, <2>3 DEF QFate
<1>3. ASSUME NEW s \in Stage, NEW w \in Workers, p = Hand(s, w) PROVE At(k, p) = {}
  <2>1. At(k, p) = FateAt(k, Level(s, w), held[s][w])
    BY <1>3, AtIs
  <2>2. held[s][w] = {}
    BY DEF Init
  <2> QED
    BY <2>1, <2>2, FateEmpty
<1> QED
  BY <1>1, <1>2, <1>3, SlotKinds

LEMMA FlowInit ==
    ASSUME Init
    PROVE  FlowInv /\ HandsInv
<1>1. HandsInv
  BY DEF Init, HandsInv
<1>2. ASSUME NEW k \in 1..Sink, NEW p \in Slots, p # Source PROVE At(k, p) = {}
  BY <1>2, InitEmpty
<1>3. ASSUME NEW k \in 1..Sink, NEW c \in 0..NStages PROVE QApart(k, c, chan[c])
  <2>1. chan[c] = <<>>
    BY DEF Init
  <2>2. 1..Len(chan[c]) = {}
    BY <2>1
  <2> QED
    BY <2>2 DEF QApart
<1>4. ASSUME NEW k \in 1..Sink PROVE Apart(k)
  BY <1>2 DEF Apart
<1> QED
  BY <1>1, <1>3, <1>4 DEF FlowInv, QueuesApart

(* A goroutine holds elements only where it is at work on them, and no two  *)
(* places hold anything in common, seen from whatever stage: the inductive  *)
(* invariant behind everything said here of where elements are.             *)
THEOREM FlowAlways == Spec => [](HandsInv /\ FlowInv)
<1>1. Init => HandsInv /\ FlowInv
  BY FlowInit
<1>2. TypeOK /\ HandsInv /\ FlowInv /\ [Next]_vars => HandsInv' /\ FlowInv'
  BY HandsStep, FlowStep
<1> QED
  BY <1>1, <1>2, TypeCorrect, PTL DEF Spec

-----------------------------------------------------------------------------
(* The places of the model, and where they are.                             *)
Slot(p) ==
    IF p[1] = "source" THEN Source
    ELSE IF p[1] = "batcher" THEN Batcher
    ELSE IF p[1] = "sink" THEN InSink
    ELSE IF p[1] = "delivered" THEN Delivered
    ELSE IF p[1] = "discarded" THEN Discarded
    ELSE IF p[1] = "queued" THEN Queue(p[2])
    ELSE Hand(p[2], p[3])

QueuedAt(c, i) == <<"queued", c, i, Fate(c + 1, chan[c][i])>>
HeldBy(s, w) == <<"held", s, w, Fate(Level(s, w), held[s][w])>>

LEMMA PlaceKinds ==
    ASSUME NEW p \in Places
    PROVE  \/ p \in {<<"source", Fate(1, next..NItems)>>, <<"batcher", Fate(1, batch)>>,
                     <<"sink", sinkBatch \ SinkSheds>>,
                     <<"delivered", delivered>>, <<"discarded", discarded>>}
           \/ \E c \in 0..NStages : \E i \in DOMAIN chan[c] : p = QueuedAt(c, i)
           \/ \E s \in Stage, w \in Workers : p = HeldBy(s, w)
<1> DEFINE F == {<<"source", Fate(1, next..NItems)>>, <<"batcher", Fate(1, batch)>>,
                 <<"sink", sinkBatch \ SinkSheds>>,
                 <<"delivered", delivered>>, <<"discarded", discarded>>}
           Q == UNION {{<<"queued", c, i, Fate(c + 1, chan[c][i])>> :
                           i \in DOMAIN chan[c]} : c \in 0..NStages}
           H == {<<"held", s, w,
                    Fate(IF wpc[s][w] = "send" THEN s + 1 ELSE s, held[s][w])>> :
                   s \in Stage, w \in Workers}
<1>1. Places = F \union Q \union H
  BY DEF Places
<1>2. p \in Q => \E c \in 0..NStages : \E i \in DOMAIN chan[c] : p = QueuedAt(c, i)
  BY DEF QueuedAt
<1>3. p \in H => \E s \in Stage, w \in Workers : p = HeldBy(s, w)
  BY DEF HeldBy, Level
<1> HIDE DEF F, Q, H
<1>4. p \in F \/ p \in Q \/ p \in H
  BY <1>1
<1> QED
  BY <1>2, <1>3, <1>4 DEF F

LEMMA PlaceSlot ==
    ASSUME TypeOK, NEW p \in Places
    PROVE  Slot(p) \in Slots /\ Content(p) \subseteq At(Sink, Slot(p))
<1>0. 1 \in 1..Sink /\ Sink \in 1..Sink
  BY SizesType DEF Sink
<1>1. CASE p \in {<<"source", Fate(1, next..NItems)>>, <<"batcher", Fate(1, batch)>>,
                  <<"sink", sinkBatch \ SinkSheds>>,
                  <<"delivered", delivered>>, <<"discarded", discarded>>}
  <2>1. /\ Fate(1, next..NItems) \subseteq At(Sink, Source)
        /\ Fate(1, batch) \subseteq At(Sink, Batcher)
    <3>1. next..NItems \in SUBSET Elem /\ batch \in SUBSET Elem
      BY SizesAssumption DEF TypeOK, Elem
    <3>2. /\ Fate(1, next..NItems) = FateAt(Sink, 1, next..NItems) \ SinkSheds
          /\ Fate(1, batch) = FateAt(Sink, 1, batch) \ SinkSheds
      BY <1>0, <3>1, FateIs
    <3> QED
      BY <3>2, AtIs
  <2>2. /\ sinkBatch = At(Sink, InSink) /\ delivered = At(Sink, Delivered)
        /\ discarded = At(Sink, Discarded)
    BY AtIs DEF AtEnd
  <2>3. /\ p[1] = "source" => p = <<"source", Fate(1, next..NItems)>>
        /\ p[1] = "batcher" => p = <<"batcher", Fate(1, batch)>>
        /\ p[1] = "sink" => p = <<"sink", sinkBatch \ SinkSheds>>
        /\ p[1] = "delivered" => p = <<"delivered", delivered>>
        /\ p[1] = "discarded" => p = <<"discarded", discarded>>
        /\ p[1] \in {"source", "batcher", "sink", "delivered", "discarded"}
        /\ Content(p) = p[2]
    BY <1>1 DEF Content
  <2> QED
    BY <2>1, <2>2, <2>3, SlotKinds DEF Slot
<1>2. ASSUME NEW c \in 0..NStages, NEW i \in DOMAIN chan[c], p = QueuedAt(c, i)
      PROVE  Slot(p) \in Slots /\ Content(p) \subseteq At(Sink, Slot(p))
  <2>1. Slot(p) = Queue(c) /\ Queue(c) \in Slots /\ Content(p) = Fate(c + 1, chan[c][i])
    BY <1>2, SlotKinds DEF Slot, Content, QueuedAt
  <2>2. c + 1 \in 1..Sink /\ chan[c] \in Seq(SUBSET Elem)
    BY SizesType DEF Sink, TypeOK
  <2>3. i \in 1..Len(chan[c]) /\ chan[c][i] \in SUBSET Elem
    BY <2>2
  <2>4. Fate(c + 1, chan[c][i]) \subseteq FateAt(Sink, c + 1, chan[c][i])
    BY <2>2, <2>3, FateIs
  <2>5. FateAt(Sink, c + 1, chan[c][i]) \subseteq QFate(Sink, c, chan[c])
    BY <2>3 DEF QFate, FateAt
  <2> QED
    BY <2>1, <2>4, <2>5, AtIs
<1>3. ASSUME NEW s \in Stage, NEW w \in Workers, p = HeldBy(s, w)
      PROVE  Slot(p) \in Slots /\ Content(p) \subseteq At(Sink, Slot(p))
  <2>1. /\ Slot(p) = Hand(s, w) /\ Hand(s, w) \in Slots
        /\ Content(p) = Fate(Level(s, w), held[s][w])
    BY <1>3, SlotKinds DEF Slot, Content, HeldBy
  <2>2. Level(s, w) \in 1..Sink /\ held[s][w] \in SUBSET Elem
    BY SizesType DEF Sink, TypeOK, Level, Stage
  <2>3. Fate(Level(s, w), held[s][w]) \subseteq FateAt(Sink, Level(s, w), held[s][w])
    BY <2>2, FateIs
  <2> QED
    BY <2>1, <2>3, AtIs
<1> QED
  BY <1>1, <1>2, <1>3, PlaceKinds

LEMMA SlotTells ==
    ASSUME NEW p \in Places, NEW q \in Places, p # q, Slot(p) = Slot(q)
    PROVE  \E c \in 0..NStages : \E i, j \in DOMAIN chan[c] :
              i # j /\ p = QueuedAt(c, i) /\ q = QueuedAt(c, j)
<1>1. ASSUME NEW r \in Places
      PROVE  /\ Slot(r) = Source => r = <<"source", Fate(1, next..NItems)>>
             /\ Slot(r) = Batcher => r = <<"batcher", Fate(1, batch)>>
             /\ Slot(r) = InSink => r = <<"sink", sinkBatch \ SinkSheds>>
             /\ Slot(r) = Delivered => r = <<"delivered", delivered>>
             /\ Slot(r) = Discarded => r = <<"discarded", discarded>>
             /\ \A c : Slot(r) = Queue(c) =>
                    c \in 0..NStages /\ \E i \in DOMAIN chan[c] : r = QueuedAt(c, i)
             /\ \A s, w : Slot(r) = Hand(s, w) =>
                    s \in Stage /\ w \in Workers /\ r = HeldBy(s, w)
             /\ \/ Slot(r) \in {Source, Batcher, InSink, Delivered, Discarded}
                \/ \E c : Slot(r) = Queue(c)
                \/ \E s, w : Slot(r) = Hand(s, w)
  <2>1. CASE r \in {<<"source", Fate(1, next..NItems)>>, <<"batcher", Fate(1, batch)>>,
                    <<"sink", sinkBatch \ SinkSheds>>,
                    <<"delivered", delivered>>, <<"discarded", discarded>>}
    <3>1. /\ r[1] = "source" => r = <<"source", Fate(1, next..NItems)>>
          /\ r[1] = "batcher" => r = <<"batcher", Fate(1, batch)>>
          /\ r[1] = "sink" => r = <<"sink", sinkBatch \ SinkSheds>>
          /\ r[1] = "delivered" => r = <<"delivered", delivered>>
          /\ r[1] = "discarded" => r = <<"discarded", discarded>>
          /\ r[1] \in {"source", "batcher", "sink", "delivered", "discarded"}
      BY <2>1
    <3> QED
      BY <3>1, SlotKinds DEF Slot
  <2>2. ASSUME NEW c \in 0..NStages, NEW i \in DOMAIN chan[c], r = QueuedAt(c, i)
        PROVE  Slot(r) = Queue(c)
    BY <2>2 DEF Slot, QueuedAt
  <2>3. ASSUME NEW s \in Stage, NEW w \in Workers, r = HeldBy(s, w)
        PROVE  Slot(r) = Hand(s, w)
    BY <2>3 DEF Slot, HeldBy
  <2>4. CASE \E c \in 0..NStages : \E i \in DOMAIN chan[c] : r = QueuedAt(c, i)
    BY <2>2, <2>4, SlotKinds
  <2>5. CASE \E s \in Stage, w \in Workers : r = HeldBy(s, w)
    BY <2>3, <2>5, SlotKinds
  <2> QED
    BY <2>1, <2>4, <2>5, PlaceKinds
<1>2. PICK c : Slot(p) = Queue(c)
  BY <1>1
<1>3. c \in 0..NStages
  BY <1>1, <1>2
<1>4. PICK i \in DOMAIN chan[c] : p = QueuedAt(c, i)
  BY <1>1, <1>2
<1>5. PICK j \in DOMAIN chan[c] : q = QueuedAt(c, j)
  BY <1>1, <1>2
<1> QED
  BY <1>3, <1>4, <1>5

LEMMA PlacesApart ==
    ASSUME TypeOK, FlowInv
    PROVE  NothingTwice
<1> SUFFICES ASSUME NEW p \in Places, NEW q \in Places, p # q
             PROVE  Content(p) \intersect Content(q) = {}
  BY DEF NothingTwice
<1>0. Sink \in 1..Sink
  BY SizesType DEF Sink
<1>1. /\ Slot(p) \in Slots /\ Content(p) \subseteq At(Sink, Slot(p))
      /\ Slot(q) \in Slots /\ Content(q) \subseteq At(Sink, Slot(q))
  BY PlaceSlot
<1>2. CASE Slot(p) # Slot(q)
  BY <1>0, <1>1, <1>2 DEF FlowInv, Apart
<1>3. CASE Slot(p) = Slot(q)
  <2>1. PICK c \in 0..NStages : \E i, j \in DOMAIN chan[c] :
              i # j /\ p = QueuedAt(c, i) /\ q = QueuedAt(c, j)
    BY <1>3, SlotTells
  <2>2. PICK i \in DOMAIN chan[c], j \in DOMAIN chan[c] :
              i # j /\ p = QueuedAt(c, i) /\ q = QueuedAt(c, j)
    BY <2>1
  <2>3. /\ Content(p) = Fate(c + 1, chan[c][i]) /\ Content(q) = Fate(c + 1, chan[c][j])
    BY <2>2 DEF Content, QueuedAt
  <2>4. c + 1 \in 1..Sink /\ chan[c] \in Seq(SUBSET Elem)
    BY SizesType DEF Sink, TypeOK
  <2>5. i \in 1..Len(chan[c]) /\ j \in 1..Len(chan[c])
    BY <2>4
  <2>6. chan[c][i] \in SUBSET Elem /\ chan[c][j] \in SUBSET Elem
    BY <2>4, <2>5
  <2>7. /\ Content(p) \subseteq FateAt(Sink, c + 1, chan[c][i])
        /\ Content(q) \subseteq FateAt(Sink, c + 1, chan[c][j])
    BY <2>3, <2>4, <2>6, FateIs
  <2>8. QApart(Sink, c, chan[c])
    BY <1>0 DEF FlowInv, QueuesApart
  <2> QED
    BY <2>2, <2>5, <2>7, <2>8 DEF QApart
<1> QED
  BY <1>2, <1>3

(* No element is ever in two places: the hand-over from slice to batcher,   *)
(* channels, workers and sink never leaves a batch with both parties, and   *)
(* whatever comes of an element is never both delivered and discarded.      *)
THEOREM EachOnce == Spec => []NothingTwice
<1> QED
  BY FlowAlways, TypeCorrect, PlacesApart, PTL


-----------------------------------------------------------------------------
(* Nothing comes in from outside, and as long as the run is live nothing is *)
(* lost.                                                                    *)
Unshed ==
    delivered \intersect SinkSheds = {} /\ discarded \intersect SinkSheds = {}
NothingNew == \A p \in Slots : At(Sink, p) \ SinkSheds \subseteq Promised
AllThere == \A f \in Promised : \E p \in Slots : f \in At(Sink, p)
Conserved == Unshed /\ NothingNew /\ (ctx = "live" => AllThere)

LEMMA PromisedIs ==
    Promised = FateAt(Sink, 1, 1..NItems) \ SinkSheds
<1>1. 1 \in 1..Sink /\ 1..NItems \in SUBSET Elem
  BY SizesType, SizesAssumption DEF Sink, Elem
<1> QED
  BY <1>1, FateIs DEF Promised

LEMMA UnshedStep ==
    ASSUME TypeOK, Unshed, [Next]_vars
    PROVE  Unshed'
<1>1. CASE UNCHANGED <<delivered, discarded>>
  BY <1>1 DEF Unshed
<1>2. ASSUME NEW s \in Stage, NEW w \in Workers, WorkerFails(s, w) PROVE Unshed'
  <2>1. UNCHANGED delivered /\ discarded' = discarded \union Fate(s, held[s][w])
    BY <1>2 DEF WorkerFails, mainVars
  <2>2. Fate(s, held[s][w]) \intersect SinkSheds = {}
    BY DEF Fate
  <2> QED
    BY <2>1, <2>2 DEF Unshed
<1>3. CASE SinkConsume
  BY <1>3 DEF SinkConsume, Unshed
<1>4. \/ UNCHANGED <<delivered, discarded>> \/ SinkConsume
      \/ \E s \in Stage, w \in Workers : WorkerFails(s, w)
  BY DEF Next, vars, BatcherStep, WorkerStep, MainStep, CallerCancel, FeederExit, Finished,
         BatcherTake, BatcherFlush, BatcherSourceClosed, BatcherTimeout, BatcherCancelled,
         StageClose, WorkerRecv, WorkerSend,
         WorkerRangeEnds, WorkerProcess, WorkerCancelled,
         SinkRecv, SinkRangeEnds, JoinStages, Return, mainVars
<1> QED
  BY <1>1, <1>2, <1>3, <1>4

LEMMA NewMoves ==
    ASSUME NothingNew, Moves(Sink)
    PROVE  NothingNew'
<1>1. CASE Still(Sink)
  BY <1>1 DEF NothingNew, Still
<1>2. ASSUME NEW p \in Slots, NEW q \in Slots, NEW X, Pass(Sink, p, q, X) PROVE NothingNew'
  <2>1. At(Sink, p)' \subseteq At(Sink, p) /\ X \subseteq At(Sink, p)
        /\ At(Sink, q)' = At(Sink, q) \union X
        /\ \A r \in Slots \ {p, q} : At(Sink, r)' = At(Sink, r)
    BY <1>2 DEF Pass
  <2>2. \A r \in Slots : At(Sink, r)' \subseteq At(Sink, r) \union At(Sink, p)
    BY <2>1
  <2> QED
    BY <2>2 DEF NothingNew
<1>3. ASSUME NEW p \in Slots, Lose(Sink, p) PROVE NothingNew'
  <2>1. \A r \in Slots : At(Sink, r)' \subseteq At(Sink, r)
    BY <1>3 DEF Lose
  <2> QED
    BY <2>1 DEF NothingNew
<1>4. ASSUME NEW Y, NEW Z, Split(Y, Z) PROVE NothingNew'
  <2>1. InSink \in Slots
    BY SlotKinds
  <2>2. \A r \in Slots : At(Sink, r)' \subseteq At(Sink, r) \union At(Sink, InSink)
    BY <1>4 DEF Split
  <2> QED
    BY <2>1, <2>2 DEF NothingNew
<1> QED
  BY <1>1, <1>2, <1>3, <1>4 DEF Moves

LEMMA ThereMoves ==
    ASSUME ctx = "live", AllThere, Moves(Sink)
    PROVE  AllThere'
<1> SUFFICES ASSUME NEW f \in Promised PROVE \E r \in Slots : f \in At(Sink, r)'
  BY DEF AllThere
<1>0. f \notin SinkSheds
  BY PromisedIs
<1>00. PICK r \in Slots : f \in At(Sink, r)
  BY DEF AllThere
<1>1. CASE Still(Sink)
  BY <1>00, <1>1 DEF Still
<1>2. ASSUME NEW p \in Slots, NEW q \in Slots, NEW X, Pass(Sink, p, q, X), p # q
      PROVE  \E t \in Slots : f \in At(Sink, t)'
  <2>1. CASE r = p
    BY <1>0, <1>00, <1>2, <2>1 DEF Pass
  <2>2. CASE r # p
    BY <1>00, <1>2, <2>2 DEF Pass
  <2> QED
    BY <2>1, <2>2
<1>4. ASSUME NEW Y, NEW Z, Split(Y, Z) PROVE \E t \in Slots : f \in At(Sink, t)'
  <2>1. {Delivered, Discarded} \subseteq Slots
    BY SlotKinds
  <2>2. CASE r = InSink
    <3>1. f \in Y \/ f \in Z
      BY <1>0, <1>00, <1>4, <2>2 DEF Split
    <3> QED
      BY <1>4, <2>1, <3>1 DEF Split
  <2>3. CASE r # InSink
    BY <1>00, <1>4, <2>1, <2>3 DEF Split
  <2> QED
    BY <2>2, <2>3
<1> QED
  BY <1>1, <1>2, <1>4 DEF Moves

(* No cancelled context comes back to life.                                 *)
LEMMA StaysCancelled ==
    ASSUME [Next]_vars, ctx # "live"
    PROVE  ctx' # "live"
<1>1. CASE CallerCancel \/ FeederExit \/ BatcherStep
  BY <1>1 DEF CallerCancel, FeederExit, BatcherStep, BatcherTake, BatcherFlush,
     BatcherSourceClosed, BatcherTimeout, BatcherCancelled
<1>2. ASSUME NEW s \in Stage, StageClose(s) PROVE ctx' # "live"
  BY <1>2 DEF StageClose
<1>3. ASSUME NEW s \in Stage, NEW w \in Workers, WorkerStep(s, w) PROVE ctx' # "live"
  <2>1. CASE WorkerFails(s, w)
    <3>1. Fail(s) \/ UNCHANGED ctx
      BY <2>1, Zenon DEF WorkerFails
    <3> QED
      BY <3>1 DEF Fail
  <2>2. CASE ~WorkerFails(s, w)
    BY <1>3, <2>2 DEF WorkerStep, WorkerRecv, WorkerRangeEnds, WorkerProcess, WorkerSend,
       WorkerCancelled
  <2> QED
    BY <2>1, <2>2
<1>4. CASE MainStep
  <2>1. CASE SinkConsume
    <3>1. Fail(Sink) \/ UNCHANGED ctx
      BY <2>1 DEF SinkConsume
    <3> QED
      BY <3>1 DEF Fail
  <2>2. CASE ~SinkConsume
    BY <1>4, <2>2 DEF MainStep, SinkRecv, SinkRangeEnds, JoinStages, Return
  <2> QED
    BY <2>1, <2>2
<1>5. CASE Finished \/ UNCHANGED vars
  BY <1>5 DEF Finished, vars
<1> QED
  BY <1>1, <1>2, <1>3, <1>4, <1>5 DEF Next

LEMMA ConservedStep ==
    ASSUME TypeOK, HandsInv, FlowInv, Conserved, [Next]_vars
    PROVE  Conserved'
<1>1. Moves(Sink)
  <2>1. Sink \in 1..Sink
    BY SizesType
  <2> QED
    BY <2>1, StepMoves DEF FlowInv
<1> QED
  BY <1>1, UnshedStep, NewMoves, ThereMoves, StaysCancelled DEF Conserved

LEMMA ConservedInit ==
    ASSUME Init
    PROVE  Conserved
<1>1. Unshed
  BY DEF Init, Unshed
<1>2. At(Sink, Source) = FateAt(Sink, 1, 1..NItems)
  BY AtIs DEF Init
<1>3. \A p \in Slots : p # Source => At(Sink, p) = {}
  BY SizesType, InitEmpty
<1>4. Source \in Slots
  BY SlotKinds
<1> QED
  BY <1>1, <1>2, <1>3, <1>4, PromisedIs DEF Conserved, NothingNew, AllThere

(* Nothing that was not promised ever turns up, what the sink sheds is      *)
(* neither delivered nor recorded as lost, and all that was promised is     *)
(* there while the run is live.                                             *)
THEOREM ConservedAlways == Spec => []Conserved
<1>1. Init => Conserved
  BY ConservedInit
<1>2. TypeOK /\ HandsInv /\ FlowInv /\ Conserved /\ [Next]_vars => Conserved'
  BY ConservedStep
<1> QED
  BY <1>1, <1>2, TypeCorrect, FlowAlways, PTL DEF Spec

(* Whatever is at a slot is the content of one of its places.               *)
LEMMA SlotHolds ==
    ASSUME TypeOK, Unshed, NEW r \in Slots, NEW f \in (At(Sink, r) \ SinkSheds)
    PROVE  \E p \in Places : f \in Content(p)
<1> DEFINE F == {<<"source", Fate(1, next..NItems)>>, <<"batcher", Fate(1, batch)>>,
                 <<"sink", sinkBatch \ SinkSheds>>,
                 <<"delivered", delivered>>, <<"discarded", discarded>>}
<1>0. 1 \in 1..Sink /\ Sink \in 1..Sink
  BY SizesType DEF Sink
<1>1. F \subseteq Places
  BY DEF Places
<1>2. \A c \in 0..NStages : \A i \in DOMAIN chan[c] : QueuedAt(c, i) \in Places
  BY DEF Places, QueuedAt
<1>3. \A s \in Stage, w \in Workers : HeldBy(s, w) \in Places
  BY DEF Places, HeldBy, Level
<1>4. CASE r \in {Source, Batcher, InSink, Delivered, Discarded}
  <2>1. next..NItems \in SUBSET Elem /\ batch \in SUBSET Elem
    BY SizesAssumption DEF TypeOK, Elem
  <2>2. /\ Fate(1, next..NItems) = FateAt(Sink, 1, next..NItems) \ SinkSheds
        /\ Fate(1, batch) = FateAt(Sink, 1, batch) \ SinkSheds
    BY <1>0, <2>1, FateIs
  <2>3. \E B : f \in B /\ \E n : <<n, B>> \in F
    BY <1>4, <2>2, AtIs DEF AtEnd
  <2>4. PICK B, n : f \in B /\ <<n, B>> \in F
    BY <2>3
  <2>5. Content(<<n, B>>) = B
    BY DEF Content
  <2> QED
    BY <1>1, <2>4, <2>5
<1>5. ASSUME NEW c \in 0..NStages, r = Queue(c) PROVE \E p \in Places : f \in Content(p)
  <2>1. f \in QFate(Sink, c, chan[c])
    BY <1>5, AtIs
  <2>2. PICK i \in 1..Len(chan[c]) : f \in FateAt(Sink, c + 1, chan[c][i])
    BY <2>1 DEF QFate
  <2>3. c + 1 \in 1..Sink /\ chan[c] \in Seq(SUBSET Elem)
    BY SizesType DEF Sink, TypeOK
  <2>4. chan[c][i] \in SUBSET Elem /\ i \in DOMAIN chan[c]
    BY <2>3
  <2>5. f \in Fate(c + 1, chan[c][i])
    BY <2>2, <2>3, <2>4, FateIs
  <2>6. Content(QueuedAt(c, i)) = Fate(c + 1, chan[c][i])
    BY DEF Content, QueuedAt
  <2> QED
    BY <1>2, <2>4, <2>5, <2>6
<1>6. ASSUME NEW s \in Stage, NEW w \in Workers, r = Hand(s, w)
      PROVE  \E p \in Places : f \in Content(p)
  <2>1. f \in FateAt(Sink, Level(s, w), held[s][w])
    BY <1>6, AtIs
  <2>2. Level(s, w) \in 1..Sink /\ held[s][w] \in SUBSET Elem
    BY SizesType DEF Sink, TypeOK, Level, Stage
  <2>3. f \in Fate(Level(s, w), held[s][w])
    BY <2>1, <2>2, FateIs
  <2>4. Content(HeldBy(s, w)) = Fate(Level(s, w), held[s][w])
    BY DEF Content, HeldBy
  <2> QED
    BY <1>3, <2>3, <2>4
<1> QED
  BY <1>4, <1>5, <1>6, SlotKinds

LEMMA PlaceUnshed ==
    ASSUME Unshed, NEW p \in Places
    PROVE  Content(p) \intersect SinkSheds = {}
<1>1. \A s, B : Fate(s, B) \intersect SinkSheds = {}
  BY DEF Fate
<1>2. CASE p \in {<<"source", Fate(1, next..NItems)>>, <<"batcher", Fate(1, batch)>>,
                  <<"sink", sinkBatch \ SinkSheds>>,
                  <<"delivered", delivered>>, <<"discarded", discarded>>}
  <2>1. p[2] \intersect SinkSheds = {} /\ Content(p) = p[2]
    BY <1>1, <1>2 DEF Unshed, Content
  <2> QED
    BY <2>1
<1>3. ASSUME NEW c, NEW i, p = QueuedAt(c, i) PROVE Content(p) \intersect SinkSheds = {}
  BY <1>1, <1>3 DEF Content, QueuedAt
<1>4. ASSUME NEW s, NEW w, p = HeldBy(s, w) PROVE Content(p) \intersect SinkSheds = {}
  BY <1>1, <1>4 DEF Content, HeldBy
<1> QED
  BY <1>2, <1>3, <1>4, PlaceKinds

LEMMA PlacesKeep ==
    ASSUME TypeOK, Conserved
    PROVE  NothingLost
<1> SUFFICES ASSUME ctx = "live" PROVE UNION {Content(p) : p \in Places} = Promised
  BY DEF NothingLost
<1>1. ASSUME NEW p \in Places, NEW f \in Content(p) PROVE f \in Promised
  <2>1. Slot(p) \in Slots /\ f \in At(Sink, Slot(p))
    BY PlaceSlot
  <2>2. f \notin SinkSheds
    BY PlaceUnshed DEF Conserved
  <2> QED
    BY <2>1, <2>2 DEF Conserved, NothingNew
<1>2. ASSUME NEW f \in Promised PROVE \E p \in Places : f \in Content(p)
  <2>1. PICK r \in Slots : f \in At(Sink, r)
    BY DEF Conserved, AllThere
  <2>2. f \notin SinkSheds
    BY PromisedIs
  <2> QED
    BY <2>1, <2>2, SlotHolds DEF Conserved
<1> QED
  BY <1>1, <1>2

(* While nobody has cancelled the run, every promised element is somewhere, *)
(* and nothing else is: no batch falls between two goroutines.              *)
THEOREM NoneMissing == Spec => []NothingLost
<1> QED
  BY ConservedAlways, TypeCorrect, PlacesKeep, PTL


-----------------------------------------------------------------------------
(* Draining.  A channel that is closed and empty stays so, whoever ranges   *)
(* over it to the end leaves it so, and so a run that nobody halted has     *)
(* nothing left anywhere when it joins its stages.                          *)
Shut(c) == closed[c] /\ chan[c] = <<>>

DrainInv ==
    /\ main \in {"wait", "recorded", "returned"} => Shut(NStages)
    /\ ctx = "live" =>
         /\ feeder = "done" => next > NItems
         /\ batcher \in {"flushLast", "done"} => feeder = "done"
         /\ \A s \in Stage, w \in Workers : wpc[s][w] = "done" => Shut(s - 1)

LEMMA ShutStays ==
    ASSUME TypeOK, ClosedMeansWritersGone, [Next]_vars, NEW c \in 0..NStages, Shut(c)
    PROVE  Shut(c)'
<1> USE SizesType DEF Shut
<1>1. CASE UNCHANGED <<chan, closed>>
  BY <1>1
<1>2. CASE BatcherStep
  <2>1. batcher # "done"
    BY <1>2
    DEF BatcherStep, BatcherTake, BatcherSourceClosed, BatcherTimeout,
        BatcherFlush, BatcherCancelled
  <2>2. c # 0
    BY <2>1 DEF ClosedMeansWritersGone
  <2>3. chan'[c] = chan[c] /\ closed'[c] = closed[c]
    BY <1>2, <2>2
    DEF TypeOK, BatcherStep, BatcherTake, BatcherSourceClosed, BatcherTimeout,
        BatcherFlush, BatcherCancelled, chanVars
  <2> QED
    BY <2>3
<1>3. ASSUME NEW s \in Stage, StageClose(s) PROVE Shut(c)'
  BY <1>3 DEF TypeOK, StageClose
<1>4. ASSUME NEW s \in Stage, NEW w \in Workers, WorkerSend(s, w) PROVE Shut(c)'
  <2>1. c # s
    BY <1>4 DEF WorkerSend, ClosedMeansWritersGone
  <2> QED
    BY <1>4, <2>1 DEF WorkerSend, TypeOK
<1>5. ASSUME NEW s \in Stage, NEW w \in Workers, WorkerRecv(s, w) PROVE Shut(c)'
  <2>1. c # s - 1
    BY <1>5 DEF WorkerRecv
  <2> QED
    BY <1>5, <2>1 DEF WorkerRecv, TypeOK
<1>6. CASE SinkRecv
  <2>1. c # NStages
    BY <1>6 DEF SinkRecv
  <2> QED
    BY <1>6, <2>1 DEF SinkRecv, TypeOK
<1>7. \/ UNCHANGED <<chan, closed>> \/ BatcherStep \/ SinkRecv
      \/ \E s \in Stage : StageClose(s) \/ \E w \in Workers : WorkerSend(s, w) \/ WorkerRecv(s, w)
  BY Zenon DEF Next, vars, WorkerStep, MainStep, CallerCancel, FeederExit, Finished,
         WorkerRangeEnds, WorkerProcess, WorkerFails, WorkerCancelled,
         SinkConsume, SinkRangeEnds, JoinStages, Return, chanVars
<1> QED
  BY <1>1, <1>2, <1>3, <1>4, <1>5, <1>6, <1>7

(* Under a live context a worker leaves only when its input has ended.      *)
LEMMA WorkerLeaves ==
    ASSUME TypeOK, ctx' = "live", NEW s \in Stage, NEW w \in Workers, WorkerStep(s, w),
           wpc'[s][w] = "done"
    PROVE  Shut(s - 1) /\ UNCHANGED chanVars
<1>1. CASE WorkerRangeEnds(s, w)
  BY <1>1 DEF WorkerRangeEnds, Shut
<1>2. CASE WorkerRecv(s, w) \/ WorkerSend(s, w) \/ WorkerProcess(s, w)
  <2>1. \E q \in {"recv", "process", "send"} : wpc' = [wpc EXCEPT ![s][w] = q]
    BY <1>2, Zenon DEF WorkerRecv, WorkerSend, WorkerProcess
  <2> QED
    BY <2>1 DEF TypeOK
<1>3. CASE WorkerFails(s, w)
  <2>1. \/ Fail(s)
        \/ wpc' = [wpc EXCEPT ![s][w] = "recv"]
    BY <1>3, Zenon DEF WorkerFails
  <2>2. ~Fail(s)
    BY DEF Fail
  <2> QED
    BY <2>1, <2>2 DEF TypeOK
<1>4. CASE WorkerCancelled(s, w)
  BY <1>4 DEF WorkerCancelled, Cancelled
<1> QED
  BY <1>1, <1>2, <1>3, <1>4 DEF WorkerStep

LEMMA DrainFeeder ==
    ASSUME TypeOK, [Next]_vars, ctx = "live", ctx' = "live",
           feeder = "done" => next > NItems
    PROVE  feeder' = "done" => next' > NItems
<1>1. CASE UNCHANGED <<feeder, next>>
  BY <1>1
<1>2. CASE FeederExit
  BY <1>2 DEF FeederExit
<1>3. CASE BatcherTake
  BY <1>3 DEF BatcherTake, Offered
<1>4. UNCHANGED <<feeder, next>> \/ FeederExit \/ BatcherTake
  BY DEF Next, vars, BatcherStep, WorkerStep, MainStep, CallerCancel, Finished,
         BatcherSourceClosed, BatcherTimeout, BatcherFlush, BatcherCancelled, StageClose,
         WorkerRecv, WorkerSend, WorkerRangeEnds, WorkerProcess, WorkerFails, WorkerCancelled,
         SinkRecv, SinkConsume, SinkRangeEnds, JoinStages, Return, sourceVars
<1> QED
  BY <1>1, <1>2, <1>3, <1>4

LEMMA DrainBatcher ==
    ASSUME TypeOK, [Next]_vars, ctx = "live",
           batcher \in {"flushLast", "done"} => feeder = "done"
    PROVE  batcher' \in {"flushLast", "done"} => feeder' = "done"
<1>1. CASE UNCHANGED <<feeder, batcher>>
  BY <1>1
<1>2. CASE FeederExit
  BY <1>2 DEF FeederExit
<1>3. CASE BatcherStep
  BY <1>3 DEF BatcherStep, BatcherTake, BatcherSourceClosed, BatcherTimeout, BatcherFlush,
     BatcherCancelled, Cancelled
<1>4. UNCHANGED <<feeder, batcher>> \/ FeederExit \/ BatcherStep
  BY DEF Next, vars, WorkerStep, MainStep, CallerCancel, Finished, StageClose,
         WorkerRecv, WorkerSend, WorkerRangeEnds, WorkerProcess, WorkerFails, WorkerCancelled,
         SinkRecv, SinkConsume, SinkRangeEnds, JoinStages, Return, sourceVars
<1> QED
  BY <1>1, <1>2, <1>3, <1>4

LEMMA DrainStep ==
    ASSUME TypeOK, ClosedMeansWritersGone, DrainInv, [Next]_vars
    PROVE  DrainInv'
<1> USE SizesType
<1>1. ASSUME main' \in {"wait", "recorded", "returned"} PROVE Shut(NStages)'
  <2>1. CASE main \in {"wait", "recorded", "returned"}
    BY <2>1, ShutStays DEF DrainInv
  <2>2. CASE main \notin {"wait", "recorded", "returned"}
    <3>1. MainStep
      BY <1>1, <2>2 DEF Next, vars, WorkerStep, CallerCancel, FeederExit, Finished, BatcherStep,
         BatcherTake, BatcherSourceClosed, BatcherTimeout, BatcherFlush, BatcherCancelled,
         StageClose, WorkerRecv, WorkerSend, WorkerRangeEnds, WorkerProcess, WorkerFails,
         WorkerCancelled, mainVars
    <3>2. SinkRangeEnds
      BY <1>1, <2>2, <3>1 DEF MainStep, SinkRecv, SinkConsume, JoinStages, Return
    <3> QED
      BY <3>2 DEF SinkRangeEnds, Shut, chanVars
  <2> QED
    BY <2>1, <2>2
<1>2. ASSUME ctx' = "live", NEW s \in Stage, NEW w \in Workers, wpc'[s][w] = "done"
      PROVE  Shut(s - 1)'
  <2>0. ctx = "live" /\ s - 1 \in 0..NStages
    BY <1>2, StaysCancelled DEF Stage
  <2>1. CASE wpc[s][w] = "done"
    BY <2>0, <2>1, ShutStays DEF DrainInv
  <2>2. CASE wpc[s][w] # "done"
    <3>1. PICK t \in Stage, v \in Workers : WorkerStep(t, v)
      BY <1>2, <2>2, Zenon DEF Next, vars, CallerCancel, FeederExit, Finished, BatcherStep,
         BatcherTake, BatcherSourceClosed, BatcherTimeout, BatcherFlush, BatcherCancelled,
         StageClose, MainStep, SinkRecv, SinkConsume, SinkRangeEnds, JoinStages, Return, workerVars
    <3>2. t = s /\ v = w
      BY <1>2, <2>2, <3>1, WorkerFrame
    <3> QED
      BY <1>2, <3>1, <3>2, WorkerLeaves DEF Shut, chanVars
  <2> QED
    BY <2>1, <2>2
<1>3. ctx' = "live" => ctx = "live"
  BY StaysCancelled
<1>4. ctx' = "live" =>
        /\ feeder' = "done" => next' > NItems
        /\ batcher' \in {"flushLast", "done"} => feeder' = "done"
  BY <1>3, DrainFeeder, DrainBatcher DEF DrainInv
<1> QED
  BY <1>1, <1>2, <1>4 DEF DrainInv

(* Goroutines leave in the order of the pipeline: under a live context each *)
(* one ends only when its input has ended, and ended empty.                 *)
THEOREM DrainAlways == Spec => []DrainInv
<1>1. Init => DrainInv
  BY DEF Init, DrainInv
<1>2. TypeOK /\ ClosedMeansWritersGone /\ DrainInv /\ [Next]_vars => DrainInv'
  BY DrainStep
<1> QED
  BY <1>1, <1>2, TypeCorrect, ChannelDiscipline, PTL DEF Spec

(* A live run that has joined its stages holds nothing back.                *)
LEMMA Drained ==
    ASSUME TypeOK, HandsInv, ClosedMeansWritersGone, StagesJoined, DrainInv,
           main = "recorded", ctx = "live", NEW k \in 1..Sink,
           NEW r \in Slots, r \notin {Delivered, Discarded}
    PROVE  /\ At(k, r) = {}
           /\ next > NItems
<1> USE SizesType
<1>1. \A c \in 0..NStages : Shut(c)
  <2>1. ASSUME NEW c \in 0..NStages, c # NStages PROVE Shut(c)
    <3>1. PICK s \in Stage : s - 1 = c
      <4>1. c + 1 \in Stage /\ (c + 1) - 1 = c
        BY <2>1 DEF Stage
      <4> QED
        BY <4>1
    <3>2. PICK w \in Workers : wpc[s][w] = "done"
      BY SizesAssumption DEF StagesJoined, ClosedMeansWritersGone
    <3> QED
      BY <3>1, <3>2 DEF DrainInv
  <2> QED
    BY <2>1 DEF DrainInv
<1>2. batcher = "done"
  BY <1>1 DEF Shut, ClosedMeansWritersGone
<1>3. next > NItems /\ batch = {} /\ sinkBatch = {}
  BY <1>2 DEF DrainInv, HandsInv
<1>4. \A s \in Stage, w \in Workers : held[s][w] = {}
  BY DEF StagesJoined, ClosedMeansWritersGone, HandsInv
<1>5. CASE r \in {Source, Batcher, InSink}
  <2>1. next..NItems = {}
    BY <1>3, SizesAssumption DEF TypeOK
  <2>2. At(k, Source) = {} /\ At(k, Batcher) = {}
    <3>1. At(k, Source) = FateAt(k, 1, next..NItems) /\ At(k, Batcher) = FateAt(k, 1, batch)
      BY AtIs
    <3> QED
      BY <1>3, <2>1, <3>1, FateEmpty
  <2>3. At(k, InSink) = {}
    BY <1>3, AtIs DEF AtEnd
  <2> QED
    BY <1>3, <1>5, <2>2, <2>3
<1>6. ASSUME NEW c \in 0..NStages, r = Queue(c) PROVE At(k, r) = {}
  <2>1. At(k, r) = QFate(k, c, chan[c])
    BY <1>6, AtIs
  <2>2. chan[c] = <<>>
    BY <1>1 DEF Shut
  <2>3. 1..Len(chan[c]) = {}
    BY <2>2
  <2> QED
    BY <2>1, <2>3 DEF QFate
<1>7. ASSUME NEW s \in Stage, NEW w \in Workers, r = Hand(s, w) PROVE At(k, r) = {}
  <2>1. At(k, r) = FateAt(k, Level(s, w), held[s][w])
    BY <1>7, AtIs
  <2> QED
    BY <1>4, <2>1, FateEmpty
<1>8. At(k, r) = {}
  BY <1>5, <1>6, <1>7, SlotKinds
<1> QED
  BY <1>3, <1>8


-----------------------------------------------------------------------------
(* The promise of StreamRun, step by step.                                  *)

Failed == \E s \in 1..Sink : metrics[s].errs > 0
Phase == IF main = "returned" THEN "returned" ELSE "running"

LEMMA PromiseInit == Init => Promise!Init
<1> SUFFICES ASSUME Init PROVE Promise!Init
  OBVIOUS
<1>1. ~Failed
  BY SizesType DEF Init, NoCounts, Failed
<1> QED
  BY <1>1 DEF Init, Promise!Init, Failed

(* A step that counts no error and settles nothing is a stutter, or the     *)
(* context's cancellation.                                                  *)
LEMMA PromiseIdle ==
    ASSUME UNCHANGED <<delivered, discarded, result>>, Phase' = Phase, Failed' = Failed,
           ctx' = ctx \/ ctx' # "live"
    PROVE  [Promise!Next]_Promise!vars
<1>1. CASE ctx' = ctx
  BY <1>1 DEF Promise!vars, Phase, Failed
<1>2. CASE ctx' # "live"
  <2>1. Promise!Cancel
    BY <1>2 DEF Promise!Cancel, Phase, Failed
  <2> QED
    BY <2>1 DEF Promise!Next
<1> QED
  BY <1>1, <1>2

LEMMA PromiseSettles ==
    ASSUME NEW D, NEW X, NEW error \in BOOLEAN,
           main # "returned", main' # "returned", UNCHANGED result,
           D \subseteq Promised \ (delivered \union discarded),
           X \subseteq Promised \ (delivered \union discarded \union D),
           X # {} => error,
           delivered' = delivered \union D, discarded' = discarded \union X,
           Failed' = (Failed \/ error),
           (ctx' # "live") = (ctx # "live" \/ (FailFast /\ error))
    PROVE  Promise!Next
<1>1. D \in SUBSET Promise!Unsettled /\ X \in SUBSET Promise!Unsettled
      /\ X \subseteq Promise!Unsettled \ D
  BY DEF Promise!Unsettled
<1>2. Promise!Settle(D, X, error)
  BY <1>1 DEF Promise!Settle, Failed, Phase
<1> QED
  BY <1>1, <1>2 DEF Promise!Next

LEMMA FailedCounted ==
    ASSUME TypeOK, NEW s \in 1..Sink, NEW i \in Nat, NEW o \in Nat,
           NEW d \in Nat, NEW n \in Nat, metrics' = Count(s, i, o, d, n)
    PROVE  (n = 0 => Failed' = Failed) /\ (n = 1 => Failed' = TRUE)
<1>1. \A t \in 1..Sink :
        /\ metrics[t].errs \in Nat
        /\ metrics'[t].errs = IF t = s THEN metrics[t].errs + n ELSE metrics[t].errs
  BY ErrsCounted
<1>2. Failed' = \E t \in 1..Sink : metrics'[t].errs > 0
  BY DEF Failed, Sink
<1>3. \A t \in 1..Sink : metrics'[t].errs > 0 <=> metrics[t].errs > 0 \/ (t = s /\ n > 0)
  BY <1>1
<1>4. n = 0 => Failed' = Failed
  BY <1>2, <1>3 DEF Failed
<1>5. n = 1 => Failed' = TRUE
  BY <1>2, <1>3
<1> QED
  BY <1>4, <1>5

(* What a place other than the end states holds can still be settled.       *)
LEMMA CanSettle ==
    ASSUME FlowInv, Conserved, NEW r \in Slots, r # Delivered, r # Discarded
    PROVE  At(Sink, r) \ SinkSheds \subseteq Promised \ (delivered \union discarded)
<1>1. Sink \in 1..Sink /\ Delivered \in Slots /\ Discarded \in Slots
  BY SizesType, SlotKinds
<1>2. At(Sink, Delivered) = delivered /\ At(Sink, Discarded) = discarded
  BY AtIs DEF AtEnd
<1>3. Apart(Sink)
  BY <1>1 DEF FlowInv
<1> QED
  BY <1>1, <1>2, <1>3 DEF Apart, Conserved, NothingNew

LEMMA PromiseWorker ==
    ASSUME TypeOK, FlowInv, Conserved, ClosedMeansWritersGone, StagesJoined,
           NEW s \in Stage, NEW w \in Workers, WorkerStep(s, w)
    PROVE  [Promise!Next]_Promise!vars
<1> DEFINE r == SafeProcess(s, held[s][w])
<1>0. /\ s \in 1..Sink
      /\ r.dropped \in Nat
      /\ Cardinality(held[s][w]) \in Nat
      /\ Cardinality(r.out) \in Nat
      /\ held[s][w] \in SUBSET Elem
  <2>1. held[s][w] \in SUBSET Elem
    BY DEF TypeOK
  <2>2. r.out \in SUBSET Elem /\ r.dropped \in Nat
    BY <2>1, SafeProcessType
  <2> QED BY <2>1, <2>2, BatchCounts, SizesType
<1> HIDE DEF r
<1>1. CASE WorkerRecv(s, w) \/ WorkerRangeEnds(s, w) \/ WorkerSend(s, w)
             \/ WorkerCancelled(s, w)
  <2>1. UNCHANGED <<delivered, discarded, result, main, metrics, ctx>>
    BY <1>1 DEF WorkerRecv, WorkerRangeEnds, WorkerSend, WorkerCancelled, mainVars
  <2>2. Phase' = Phase /\ Failed' = Failed
    BY <2>1 DEF Phase, Failed, Sink
  <2> QED
    BY <2>1, <2>2, PromiseIdle
<1>2. CASE WorkerProcess(s, w)
  <2>1. metrics' = Count(s, Cardinality(held[s][w]), Cardinality(r.out), r.dropped, 0)
        /\ UNCHANGED <<delivered, discarded, result, main, ctx>>
    BY <1>2 DEF WorkerProcess, r, mainVars
  <2>2. Phase' = Phase /\ Failed' = Failed
    <3>1. Failed' = Failed
      BY <1>0, <2>1, FailedCounted
    <3> QED
      BY <2>1, <3>1 DEF Phase
  <2> QED
    BY <2>1, <2>2, PromiseIdle
<1>3. CASE WorkerFails(s, w)
  <2>1. metrics' = Count(s, Cardinality(held[s][w]), 0, r.dropped, 1)
    BY <1>3 DEF WorkerFails, r
  <2>2. IF FailFast THEN Fail(s) ELSE UNCHANGED <<err, ctx>>
    BY <1>3, Zenon DEF WorkerFails, Stops
  <2>3. /\ wpc[s][w] = "process"
        /\ UNCHANGED <<main, result, delivered>>
        /\ discarded' = discarded \union Fate(s, held[s][w])
    BY <1>3 DEF WorkerFails, mainVars
  <2>4. main # "returned"
    BY <2>3 DEF StagesJoined, ClosedMeansWritersGone
  <2>5. Fate(s, held[s][w]) \subseteq Promised \ (delivered \union discarded)
    <3>1. Fate(s, held[s][w]) = FateAt(Sink, s, held[s][w]) \ SinkSheds
      BY <1>0, FateIs
    <3>2. At(Sink, Hand(s, w)) = FateAt(Sink, s, held[s][w])
      BY <2>3, AtIs DEF Level
    <3>3. Hand(s, w) \in Slots /\ Hand(s, w) # Delivered /\ Hand(s, w) # Discarded
      BY SlotKinds
    <3>4. At(Sink, Hand(s, w)) \ SinkSheds \subseteq Promised \ (delivered \union discarded)
      BY <3>3, CanSettle
    <3> QED
      BY <3>1, <3>2, <3>4
  <2>6. Failed' = (Failed \/ TRUE)
    <3>1. Failed' = TRUE
      BY <1>0, <2>1, FailedCounted
    <3> QED
      BY <3>1
  <2>7. (ctx' # "live") = (ctx # "live" \/ (FailFast /\ TRUE))
    BY <2>2 DEF Fail
  <2>8. Promise!Next
    <3> DEFINE X == Fate(s, held[s][w])
    <3>1. /\ X \subseteq Promised \ (delivered \union discarded \union {})
          /\ delivered' = delivered \union {} /\ discarded' = discarded \union X
          /\ main # "returned" /\ main' # "returned" /\ UNCHANGED result
          /\ {} \subseteq Promised \ (delivered \union discarded)
      BY <2>3, <2>4, <2>5
    <3> HIDE DEF X
    <3> QED
      BY <2>6, <2>7, <3>1, PromiseSettles
  <2> QED
    BY <2>8
<1> QED
  BY <1>1, <1>2, <1>3 DEF WorkerStep

LEMMA PromiseSink ==
    ASSUME TypeOK, FlowInv, Conserved, SinkConsume
    PROVE  [Promise!Next]_Promise!vars
<1>1. PICK seen \in Reached(sinkBatch) :
        LET shed == Cardinality(seen \intersect SinkSheds)
            size == Cardinality(sinkBatch)
            failed == seen # sinkBatch
        IN
        /\ delivered' = delivered \union (seen \ SinkSheds)
        /\ discarded' = discarded \union ((sinkBatch \ seen) \ SinkSheds)
        /\ metrics' = Count(Sink, size, size - shed, shed,
                            IF failed THEN 1 ELSE 0)
        /\ IF failed /\ FailFast THEN Fail(Sink) ELSE UNCHANGED <<err, ctx>>
  BY DEF SinkConsume, Stops
<1> DEFINE shed == Cardinality(seen \intersect SinkSheds)
           size == Cardinality(sinkBatch)
           D == seen \ SinkSheds
           X == (sinkBatch \ seen) \ SinkSheds
           error == seen # sinkBatch
<1>2. seen \in SUBSET sinkBatch /\ sinkBatch \in SUBSET Elem
  BY ReachedType DEF TypeOK
<1>3. size \in Nat /\ shed \in Nat /\ size - shed \in Nat
  <2>1. IsFiniteSet(sinkBatch)
    BY <1>2, BatchCounts
  <2>2. seen \intersect SinkSheds \subseteq sinkBatch
    BY <1>2
  <2> QED
    BY <2>1, <2>2, FS_Subset, FS_CardinalityType
<1>4. sinkBatch \ SinkSheds \subseteq Promised \ (delivered \union discarded)
  <2>1. At(Sink, InSink) = sinkBatch
    BY AtIs DEF AtEnd
  <2>2. InSink \in Slots /\ InSink # Delivered /\ InSink # Discarded
    BY SlotKinds
  <2> QED
    BY <2>1, <2>2, CanSettle
<1>5. main # "returned" /\ main' # "returned" /\ UNCHANGED result
  BY DEF SinkConsume
<1>6. Failed' = (Failed \/ error)
  <2>1. CASE error
    <3>1. metrics' = Count(Sink, size, size - shed, shed, 1)
      BY <1>1, <2>1
    <3> HIDE DEF size, shed, error
    <3>2. Failed' = TRUE
      BY <1>3, <3>1, FailedCounted, SizesType
    <3> QED
      BY <2>1, <3>2
  <2>2. CASE ~error
    <3>1. metrics' = Count(Sink, size, size - shed, shed, 0)
      BY <1>1, <2>2
    <3> HIDE DEF size, shed, error
    <3>2. Failed' = Failed
      BY <1>3, <3>1, FailedCounted, SizesType
    <3> QED
      BY <2>2, <3>2 DEF Failed
  <2> QED
    BY <2>1, <2>2
<1>7. (ctx' # "live") = (ctx # "live" \/ (FailFast /\ error))
  BY <1>1 DEF Fail
<1>8. /\ D \subseteq Promised \ (delivered \union discarded)
      /\ X \subseteq Promised \ (delivered \union discarded \union D)
      /\ X # {} => error
      /\ delivered' = delivered \union D /\ discarded' = discarded \union X
      /\ error \in BOOLEAN
  BY <1>1, <1>2, <1>4
<1>9. Promise!Next
  <2> HIDE DEF D, X, error
  <2> QED
    BY <1>5, <1>6, <1>7, <1>8, PromiseSettles
<1> QED
  BY <1>9

LEMMA PromiseReturn ==
    ASSUME TypeOK, HandsInv, Conserved, ClosedMeansWritersGone, StagesJoined, DrainInv,
           ErrorVerdict, Return
    PROVE  [Promise!Next]_Promise!vars
<1>1. main = "recorded" /\ main' = "returned"
      /\ UNCHANGED <<delivered, discarded, metrics>>
      /\ ctx' # "live"
      /\ result' = IF err # 0 \/ RecordFails THEN "error" ELSE "nil"
  BY DEF Return
<1>2. err # 0 <=> FailFast /\ Failed
  BY DEF ErrorVerdict, Failed
<1>3. ctx = "live" => Promised \subseteq delivered \union discarded
  <2> SUFFICES ASSUME ctx = "live", NEW f \in Promised
               PROVE  f \in delivered \union discarded
    OBVIOUS
  <2>1. PICK r \in Slots : f \in At(Sink, r)
    BY DEF Conserved, AllThere
  <2>2. r \in {Delivered, Discarded}
    BY <1>1, <2>1, Drained, SizesType
  <2> QED
    BY <2>1, <2>2, AtIs DEF AtEnd
<1>4. Failed' = Failed
  BY <1>1 DEF Failed, Sink
<1>5. Promise!Return
  BY <1>1, <1>2, <1>3, <1>4 DEF Promise!Return, Promise!Unsettled, Failed
<1> QED
  BY <1>5 DEF Promise!Next

LEMMA PromiseStep ==
    ASSUME TypeOK, HandsInv, FlowInv, Conserved, ClosedMeansWritersGone, StagesJoined,
           DrainInv, ErrorVerdict, [Next]_vars
    PROVE  [Promise!Next]_Promise!vars
<1>1. CASE SinkConsume
  BY <1>1, PromiseSink
<1>2. CASE Return
  BY <1>2, PromiseReturn
<1>3. CASE \E s \in Stage, w \in Workers : WorkerStep(s, w)
  BY <1>3, PromiseWorker
<1>4. CASE \/ CallerCancel \/ FeederExit \/ BatcherStep \/ SinkRecv \/ SinkRangeEnds \/ JoinStages
           \/ Finished \/ UNCHANGED vars \/ \E s \in Stage : StageClose(s)
  <2>1. /\ UNCHANGED <<delivered, discarded, result, metrics>>
        /\ ctx' = ctx \/ ctx' # "live"
    BY <1>4 DEF vars, CallerCancel, FeederExit, Finished, BatcherStep,
         BatcherTake, BatcherSourceClosed, BatcherTimeout, BatcherFlush, BatcherCancelled,
         StageClose, SinkRecv, SinkRangeEnds, JoinStages, mainVars
  <2>2. Phase' = Phase
    BY <1>4 DEF Phase, vars, CallerCancel, FeederExit, Finished, BatcherStep,
         BatcherTake, BatcherSourceClosed, BatcherTimeout, BatcherFlush, BatcherCancelled,
         StageClose, SinkRecv, SinkRangeEnds, JoinStages, mainVars
  <2>3. Failed' = Failed
    BY <2>1 DEF Failed, Sink
  <2> QED
    BY <2>1, <2>2, <2>3, PromiseIdle
<1> QED
  BY <1>1, <1>2, <1>3, <1>4 DEF Next, MainStep

(* execute keeps the promise of StreamRun, step by step: every step of the  *)
(* pipeline settles a batch, cancels or returns as StreamRun allows it, or  *)
(* changes nothing that its caller can see.                                 *)
THEOREM PromiseHolds == Spec => PromiseKept
<1>1. Init => Promise!Init
  BY PromiseInit
<1>2. TypeOK /\ HandsInv /\ FlowInv /\ Conserved /\ ClosedMeansWritersGone /\ StagesJoined
        /\ DrainInv /\ ErrorVerdict /\ [Next]_vars
      => [Promise!Next]_Promise!vars
  BY PromiseStep
<1> QED
  BY <1>1, <1>2, JoinedAlways, TypeCorrect, FlowAlways, ConservedAlways, ChannelDiscipline, DrainAlways,
     Verdict, PTL DEF Spec, PromiseKept, Promise!Spec


-----------------------------------------------------------------------------
(* Order.  Elements are numbered in the order in which they appear in a     *)
(* batch, so a stage, which maps a batch front to back, emits smaller       *)
(* numbers for smaller ones.                                                *)
StagesKeepOrder ==
    \A s \in Stage : \A e, f \in Elem :
        e < f => \A x \in Emit[s][e], y \in Emit[s][f] : x < y

Before(A, B) == \A e \in A, f \in B : e < f

LEMMA TrailsKeepOrder ==
    ASSUME StagesKeepOrder, NEW k \in 1..Sink, NEW s \in 1..k,
           NEW p \in Paths(s, k), NEW q \in Paths(s, k), p[s] < q[s]
    PROVE  p[k] < q[k]
<1> DEFINE T == {t \in Nat : t \in s..k /\ ~(p[t] < q[t])}
<1> SUFFICES ASSUME ~(p[k] < q[k]) PROVE FALSE
  OBVIOUS
<1>1. k \in Nat /\ s \in Nat /\ Sink \in Nat /\ Sink = NStages + 1
  BY SizesType DEF Sink
<1>2. k \in T
  BY <1>1
<1>3. PICK t \in T : \A m \in T : ~(m < t)
  <2>1. T \in SUBSET Nat /\ T # {}
    BY <1>2
  <2> HIDE DEF T
  <2> QED
    BY <2>1, SmallestOf
<1>4. t \in Nat /\ t \in s..k /\ ~(p[t] < q[t]) /\ t # s
  OBVIOUS
<1> DEFINE u == t - 1
<1>5. u \in Nat /\ u + 1 = t /\ u \in s..k /\ u \in s..(k - 1) /\ u \in Stage /\ u < t
  <2>1. t > s /\ t <= k /\ k <= NStages + 1 /\ 1 <= s /\ NStages \in Nat
    BY <1>1, <1>4, SizesAssumption
  <2> QED
    BY <1>1, <1>4, <2>1 DEF Stage
<1>6. p[u] < q[u]
  BY <1>3, <1>5
<1>7. /\ p[u] \in Elem /\ q[u] \in Elem
      /\ p[u + 1] \in Emit[u][p[u]] /\ q[u + 1] \in Emit[u][q[u]]
  BY <1>5 DEF Paths
<1>8. p[u + 1] < q[u + 1]
  BY <1>5, <1>6, <1>7 DEF StagesKeepOrder
<1> QED
  BY <1>4, <1>5, <1>8

LEMMA FatesKeepOrder ==
    ASSUME StagesKeepOrder, NEW k \in 1..Sink, NEW s \in 1..Sink, NEW A, NEW B, Before(A, B)
    PROVE  Before(FateAt(k, s, A), FateAt(k, s, B))
<1> SUFFICES ASSUME NEW e \in FateAt(k, s, A), NEW f \in FateAt(k, s, B) PROVE e < f
  BY DEF Before
<1>1. PICK p \in Paths(s, k) : p[s] \in A /\ p[k] = e
  BY DEF FateAt
<1>2. PICK q \in Paths(s, k) : q[s] \in B /\ q[k] = f
  BY DEF FateAt
<1>3. s \in 1..k
  BY SizesType DEF FateAt
<1>4. p[s] < q[s]
  BY <1>1, <1>2 DEF Before
<1> QED
  BY <1>1, <1>2, <1>3, <1>4, TrailsKeepOrder

(* How far downstream a place is.  With one worker per stage the places     *)
(* form a line, and what is downstream is before what is upstream.          *)
Rank(p) ==
    IF p[1] = "source" THEN 0
    ELSE IF p[1] = "batcher" THEN 1
    ELSE IF p[1] = "queue" THEN 2 * p[2] + 2
    ELSE IF p[1] = "held" THEN 2 * p[2] + 1
    ELSE IF p[1] = "sink" THEN 2 * NStages + 3
    ELSE 2 * NStages + 4

Line == Slots \ {Discarded}
QueueInLine(c, q) ==
    \A i, j \in 1..Len(q) :
        i < j => Before(FateAt(Sink, c + 1, q[i]), FateAt(Sink, c + 1, q[j]))
InLine ==
    \A p, q \in Line : Rank(q) < Rank(p) => Before(At(Sink, p), At(Sink, q))
QueuesInLine == \A c \in 0..NStages : QueueInLine(c, chan[c])

LEMMA RankIs ==
    /\ Rank(Source) = 0 /\ Rank(Batcher) = 1
    /\ Rank(InSink) = 2 * NStages + 3 /\ Rank(Delivered) = 2 * NStages + 4
    /\ \A c \in 0..NStages : Rank(Queue(c)) = 2 * c + 2
    /\ \A s \in Stage, w \in Workers : Rank(Hand(s, w)) = 2 * s + 1
  BY DEF Rank, Source, Batcher, InSink, Delivered, Queue, Hand

LEMMA RankType == \A p \in Line : Rank(p) \in Nat
<1>1. NStages \in Nat /\ 0..NStages \subseteq Nat /\ Stage \subseteq Nat
  BY SizesType DEF Stage
<1>2. ASSUME NEW p \in Line, p \in {Source, Batcher, InSink, Delivered} PROVE Rank(p) \in Nat
  BY <1>1, <1>2, RankIs
<1>3. ASSUME NEW c \in 0..NStages PROVE Rank(Queue(c)) \in Nat
  BY <1>1, RankIs
<1>4. ASSUME NEW s \in Stage, NEW w \in Workers PROVE Rank(Hand(s, w)) \in Nat
  BY <1>1, RankIs
<1> QED
  BY <1>2, <1>3, <1>4, SlotKinds DEF Line

LEMMA TopRanks ==
    ASSUME NEW r \in Line
    PROVE  /\ Rank(r) <= Rank(Delivered)
           /\ Rank(r) < Rank(Delivered) => r = InSink \/ Rank(r) < Rank(InSink)
<1>1. NStages \in Nat
  BY SizesType
<1>2. CASE r \in {Source, Batcher, InSink, Delivered}
  BY <1>1, <1>2, RankIs
<1>3. ASSUME NEW c \in 0..NStages, r = Queue(c) PROVE Rank(r) < Rank(InSink)
  BY <1>1, <1>3, RankIs
<1>4. ASSUME NEW s \in Stage, NEW w \in Workers, r = Hand(s, w) PROVE Rank(r) < Rank(InSink)
  <2>1. s \in 1..NStages
    BY DEF Stage
  <2> QED
    BY <1>1, <1>4, <2>1, RankIs
<1>5. Rank(InSink) < Rank(Delivered) /\ Rank(InSink) \in Nat /\ Rank(Delivered) \in Nat
  BY <1>1, RankIs
<1>6. Rank(r) \in Nat
  BY RankType
<1> QED
  BY <1>2, <1>3, <1>4, <1>5, <1>6, SlotKinds DEF Line

(* With one worker, no two places of the line have the same rank.           *)
LEMMA RankApart ==
    ASSUME NEW v, Workers = {v}
    PROVE  \A p, q \in Line : Rank(p) = Rank(q) => p = q
<1>1. NStages \in Nat /\ 0..NStages \subseteq Nat /\ Stage \subseteq Nat
  BY SizesType DEF Stage
<1>2. ASSUME NEW p \in Line
      PROVE  \/ p = Source /\ Rank(p) = 0
             \/ p = Batcher /\ Rank(p) = 1
             \/ p = InSink /\ Rank(p) = 2 * NStages + 3
             \/ p = Delivered /\ Rank(p) = 2 * NStages + 4
             \/ \E c \in 0..NStages : p = Queue(c) /\ Rank(p) = 2 * c + 2
             \/ \E s \in Stage : p = Hand(s, v) /\ Rank(p) = 2 * s + 1
  <2>1. CASE p \in {Source, Batcher, InSink, Delivered}
    <3>1. /\ Rank(Source) = 0 /\ Rank(Batcher) = 1
          /\ Rank(InSink) = 2 * NStages + 3 /\ Rank(Delivered) = 2 * NStages + 4
      BY RankIs
    <3> QED
      BY <2>1, <3>1
  <2>2. ASSUME NEW c \in 0..NStages, p = Queue(c) PROVE Rank(p) = 2 * c + 2
    BY <2>2, RankIs
  <2>3. ASSUME NEW s \in Stage, NEW w \in Workers, p = Hand(s, w)
        PROVE  p = Hand(s, v) /\ Rank(p) = 2 * s + 1
    BY <2>3, RankIs
  <2>4. \/ p \in {Source, Batcher, InSink, Delivered}
        \/ \E c \in 0..NStages : p = Queue(c)
        \/ \E s \in Stage, w \in Workers : p = Hand(s, w)
    BY SlotKinds DEF Line
  <2> QED
    BY <2>1, <2>2, <2>3, <2>4
<1> SUFFICES ASSUME NEW p \in Line, NEW q \in Line, Rank(p) = Rank(q) PROVE p = q
  OBVIOUS
<1>3. \A s \in Stage : s \in 1..NStages
  BY DEF Stage
<1>4. CASE p \in {Source, Batcher, InSink, Delivered}
  BY <1>1, <1>2, <1>3, <1>4, RankIs
<1>5. ASSUME NEW c \in 0..NStages, p = Queue(c), Rank(p) = 2 * c + 2 PROVE p = q
  <2>1. ~(q = Source /\ Rank(q) = 0) /\ ~(q = Batcher /\ Rank(q) = 1)
        /\ ~(q = InSink /\ Rank(q) = 2 * NStages + 3)
        /\ ~(q = Delivered /\ Rank(q) = 2 * NStages + 4)
    BY <1>1, <1>5
  <2>2. ASSUME NEW s \in Stage PROVE Rank(q) # 2 * s + 1
    BY <1>1, <1>5
  <2>3. PICK d \in 0..NStages : q = Queue(d) /\ Rank(q) = 2 * d + 2
    BY <1>2, <2>1, <2>2
  <2>4. c = d
    BY <1>1, <1>5, <2>3
  <2> QED
    BY <1>5, <2>3, <2>4
<1>6. ASSUME NEW s \in Stage, p = Hand(s, v), Rank(p) = 2 * s + 1 PROVE p = q
  <2>1. ~(q = Source /\ Rank(q) = 0) /\ ~(q = Batcher /\ Rank(q) = 1)
        /\ ~(q = InSink /\ Rank(q) = 2 * NStages + 3)
        /\ ~(q = Delivered /\ Rank(q) = 2 * NStages + 4)
    BY <1>1, <1>3, <1>6
  <2>2. ASSUME NEW c \in 0..NStages PROVE Rank(q) # 2 * c + 2
    BY <1>1, <1>6
  <2>3. PICK t \in Stage : q = Hand(t, v) /\ Rank(q) = 2 * t + 1
    BY <1>2, <2>1, <2>2
  <2>4. s = t
    BY <1>1, <1>6, <2>3
  <2> QED
    BY <1>6, <2>3, <2>4
<1> QED
  BY <1>2, <1>4, <1>5, <1>6

(* Handing X on to the next place keeps the line, if X is before what stays *)
(* behind.                                                                  *)
LEMMA CarryInLine ==
    ASSUME NEW v, Workers = {v}, InLine, NEW p \in Line, NEW q \in Line, NEW X, p # q,
           Rank(q) = Rank(p) + 1, Carry(Sink, p, q, X), Before(X, At(Sink, p)')
    PROVE  InLine'
<1>1. /\ \A r \in Line \ {p, q} : At(Sink, r)' = At(Sink, r)
      /\ At(Sink, p) = At(Sink, p)' \union X
      /\ At(Sink, q)' = At(Sink, q) \union X
  BY DEF Carry, Line
<1>2. \A a, b \in Line : Rank(b) < Rank(a) => Before(At(Sink, a), At(Sink, b))
  BY DEF InLine
<1>3. \A r \in Line : /\ Rank(r) \in Nat
                      /\ Rank(r) < Rank(q) => r = p \/ Rank(r) < Rank(p)
  BY RankType, RankApart
<1>4. ASSUME NEW a \in Line, NEW b \in Line, Rank(b) < Rank(a)
      PROVE  Before(At(Sink, a)', At(Sink, b)')
  <2>1. CASE a = q /\ b = p
    <3>1. Before(At(Sink, q), At(Sink, p))
      BY <1>2, <1>4, <2>1
    <3> QED
      BY <1>1, <2>1, <3>1 DEF Before
  <2>2. CASE a = q /\ b # p
    <3>1. Rank(b) < Rank(p) /\ b # q
      BY <1>3, <1>4, <2>2
    <3>2. Before(At(Sink, p), At(Sink, b)) /\ Before(At(Sink, q), At(Sink, b))
      BY <1>2, <1>4, <2>2, <3>1
    <3> QED
      BY <1>1, <2>2, <3>1, <3>2 DEF Before
  <2>3. CASE a # q /\ b = q
    <3>1. Rank(p) < Rank(a) /\ a # p
      BY <1>3, <1>4, <2>3
    <3>2. Before(At(Sink, a), At(Sink, p)) /\ Before(At(Sink, a), At(Sink, q))
      BY <1>2, <1>4, <2>3, <3>1
    <3> QED
      BY <1>1, <2>3, <3>1, <3>2 DEF Before
  <2>4. CASE a # q /\ b # q
    <3>1. At(Sink, a)' \subseteq At(Sink, a) /\ At(Sink, b)' \subseteq At(Sink, b)
      BY <1>1, <2>4
    <3>2. Before(At(Sink, a), At(Sink, b))
      BY <1>2, <1>4
    <3> QED
      BY <3>1, <3>2 DEF Before
  <2> QED
    BY <2>1, <2>2, <2>3, <2>4
<1> QED
  BY <1>4 DEF InLine, Line, Before, Rank

LEMMA ShrinkInLine ==
    ASSUME InLine, \A r \in Line : At(Sink, r)' \subseteq At(Sink, r)
    PROVE  InLine'
<1>1. ASSUME NEW a \in Line, NEW b \in Line, Rank(b) < Rank(a)
      PROVE  Before(At(Sink, a)', At(Sink, b)')
  <2>1. Before(At(Sink, a), At(Sink, b))
    BY <1>1 DEF InLine
  <2> QED
    BY <2>1 DEF Before
<1> QED
  BY <1>1 DEF InLine, Line, Before, Rank

LEMMA SplitInLine ==
    ASSUME InLine, NEW Y, NEW Z, Split(Y, Z)
    PROVE  InLine'
<1>0. /\ InSink \in Line /\ Delivered \in Line /\ InSink # Delivered
      /\ \A r \in Line : Rank(r) \in Nat /\ (Rank(r) < Rank(Delivered) => r = InSink \/ Rank(r) < Rank(InSink))
  BY SlotKinds, RankType, RankIs, TopRanks DEF Line
<1>1. ASSUME NEW a \in Line, NEW b \in Line, Rank(b) < Rank(a)
      PROVE  Before(At(Sink, a)', At(Sink, b)')
  <2>1. /\ \A r \in Line : r # Delivered => At(Sink, r)' \subseteq At(Sink, r)
        /\ At(Sink, Delivered)' \subseteq At(Sink, Delivered) \union At(Sink, InSink)
        /\ At(Sink, InSink)' = {}
    BY DEF Split, Line
  <2>2. Before(At(Sink, a), At(Sink, b))
    BY <1>1 DEF InLine
  <2>3. CASE a # Delivered /\ b # Delivered
    BY <2>1, <2>2, <2>3 DEF Before
  <2>4. CASE a = Delivered
    <3>1. CASE b = InSink
      BY <2>1, <3>1 DEF Before
    <3>2. CASE b # InSink
      <4>1. Rank(b) < Rank(InSink) /\ b # Delivered
        BY <1>0, <1>1, <2>4, <3>2
      <4>2. Before(At(Sink, InSink), At(Sink, b))
        BY <1>0, <4>1 DEF InLine
      <4> QED
        BY <2>1, <2>2, <2>4, <4>1, <4>2 DEF Before
    <3> QED
      BY <3>1, <3>2
  <2>5. CASE b = Delivered
    BY <1>0, <1>1, <2>5, TopRanks
  <2> QED
    BY <2>3, <2>4, <2>5
<1> QED
  BY <1>1 DEF InLine, Line, Before, Rank


LEMMA BeforeParts ==
    ASSUME NEW A, NEW B, NEW C, NEW D, Before(A, B), C \subseteq A, D \subseteq B
    PROVE  Before(C, D)
  BY DEF Before

LEMMA QueueInLineHead ==
    ASSUME NEW c, NEW q \in Seq(SUBSET Elem), q # <<>>, QueueInLine(c, q)
    PROVE  /\ QueueInLine(c, Tail(q))
           /\ Before(FateAt(Sink, c + 1, Head(q)), QFate(Sink, c, Tail(q)))
<1>1. QueueInLine(c, Tail(q))
  <2>1. ASSUME NEW i \in 1..Len(Tail(q)), NEW j \in 1..Len(Tail(q)), i < j
        PROVE  Before(FateAt(Sink, c + 1, Tail(q)[i]), FateAt(Sink, c + 1, Tail(q)[j]))
    <3>1. /\ i + 1 < j + 1 /\ i + 1 \in 1..Len(q) /\ j + 1 \in 1..Len(q)
          /\ Tail(q)[i] = q[i + 1] /\ Tail(q)[j] = q[j + 1]
      BY <2>1, TailIs
    <3> QED
      BY <3>1 DEF QueueInLine
  <2> QED
    BY <2>1 DEF QueueInLine
<1>2. ASSUME NEW e \in FateAt(Sink, c + 1, Head(q)), NEW f \in QFate(Sink, c, Tail(q))
      PROVE  e < f
  <2>1. PICK i \in 1..Len(Tail(q)) : f \in FateAt(Sink, c + 1, Tail(q)[i])
    BY <1>2 DEF QFate
  <2>2. 1 \in 1..Len(q) /\ i + 1 \in 1..Len(q) /\ 1 < i + 1
    BY TailIs
  <2>3. e \in FateAt(Sink, c + 1, q[1]) /\ f \in FateAt(Sink, c + 1, q[i + 1])
    BY <1>2, <2>1, TailIs
  <2> QED
    BY <2>2, <2>3 DEF QueueInLine, Before
<1> QED
  BY <1>1, <1>2 DEF Before

LEMMA QueueInLineAppend ==
    ASSUME NEW c, NEW q \in Seq(SUBSET Elem), NEW B \in SUBSET Elem,
           QueueInLine(c, q), Before(QFate(Sink, c, q), FateAt(Sink, c + 1, B))
    PROVE  QueueInLine(c, Append(q, B))
<1>1. /\ Len(Append(q, B)) = Len(q) + 1 /\ Len(q) \in Nat
      /\ \A i \in 1..Len(q) : Append(q, B)[i] = q[i]
      /\ Append(q, B)[Len(q) + 1] = B
  OBVIOUS
<1>2. \A i, j \in 1..(Len(q) + 1) :
        i < j => i \in 1..Len(q) /\ (j \in 1..Len(q) \/ j = Len(q) + 1)
  BY <1>1
<1>3. \A i \in 1..Len(q) : Before(FateAt(Sink, c + 1, q[i]), FateAt(Sink, c + 1, B))
  <2>1. \A i \in 1..Len(q) : FateAt(Sink, c + 1, q[i]) \subseteq QFate(Sink, c, q)
    BY DEF QFate, FateAt
  <2> QED
    BY <2>1 DEF Before
<1>4. ASSUME NEW i \in 1..(Len(q) + 1), NEW j \in 1..(Len(q) + 1), i < j
      PROVE  Before(FateAt(Sink, c + 1, Append(q, B)[i]), FateAt(Sink, c + 1, Append(q, B)[j]))
  <2>1. i \in 1..Len(q) /\ Append(q, B)[i] = q[i]
    BY <1>1, <1>2, <1>4
  <2>2. CASE j \in 1..Len(q)
    BY <1>1, <1>4, <2>1, <2>2 DEF QueueInLine
  <2>3. CASE j = Len(q) + 1
    BY <1>1, <1>3, <2>1, <2>3
  <2> QED
    BY <1>2, <1>4, <2>2, <2>3
<1> QED
  BY <1>1, <1>4 DEF QueueInLine

(* Where in the line X goes, and what it leaves behind.                     *)
LineStep ==
    \/ \A r \in Line : At(Sink, r)' \subseteq At(Sink, r)
    \/ \E p, q \in Line : /\ p # q /\ Rank(q) = Rank(p) + 1
                          /\ \E X : Carry(Sink, p, q, X) /\ Before(X, At(Sink, p)')
    \/ \E Y, Z : Split(Y, Z)

LEMMA QueueLine ==
    ASSUME TypeOK, QueuesInLine, NEW c \in 0..NStages, chan[c] # <<>>,
           chan'[c] = Tail(chan[c])
    PROVE  Before(FateAt(Sink, c + 1, Head(chan[c])), At(Sink, Queue(c))')
<1>1. chan[c] \in Seq(SUBSET Elem)
  BY DEF TypeOK
<1>2. QueueInLine(c, chan[c])
  BY DEF QueuesInLine
<1>3. At(Sink, Queue(c))' = QFate(Sink, c, chan'[c])
  BY AtIsNext
<1> QED
  BY <1>1, <1>2, <1>3, QueueInLineHead

LEMMA LineWorker ==
    ASSUME TypeOK, HandsInv, FlowInv, QueuesInLine,
           NEW s \in Stage, NEW w \in Workers, WorkerStep(s, w)
    PROVE  LineStep
<1>1. /\ s - 1 \in 0..NStages /\ s \in 0..NStages /\ s \in Nat /\ (s - 1) + 1 = s
      /\ s < Sink /\ Sink \in 1..Sink
  BY SizesType DEF Stage, Sink
<1>2. /\ Hand(s, w) \in Line /\ Queue(s) \in Line /\ Queue(s - 1) \in Line
      /\ Hand(s, w) # Queue(s) /\ Hand(s, w) # Queue(s - 1)
  BY <1>1, SlotKinds DEF Line
<1>3. CASE WorkerRecv(s, w)
  <2> DEFINE X == FateAt(Sink, s, Head(chan[s - 1]))
  <2>1. QApart(Sink, s - 1, chan[s - 1])
    BY <1>1 DEF FlowInv, QueuesApart
  <2>2. Carry(Sink, Queue(s - 1), Hand(s, w), X)
    BY <1>1, <1>3, <2>1, RecvMoves
  <2>3. Rank(Hand(s, w)) = Rank(Queue(s - 1)) + 1
    <3>1. Rank(Hand(s, w)) = 2 * s + 1
      BY RankIs
    <3>2. Rank(Queue(s - 1)) = 2 * (s - 1) + 2
      BY <1>1, RankIs
    <3> QED
      BY <1>1, <3>1, <3>2
  <2>4. chan[s - 1] # <<>> /\ chan'[s - 1] = Tail(chan[s - 1])
    BY <1>1, <1>3 DEF WorkerRecv, TypeOK
  <2>5. Before(X, At(Sink, Queue(s - 1))')
    <3>1. PICK c \in 0..NStages : c = s - 1
      BY <1>1
    <3>2. Before(FateAt(Sink, c + 1, Head(chan[c])), At(Sink, Queue(c))')
      BY <2>4, <3>1, QueueLine
    <3>3. c + 1 = s
      BY <1>1, <3>1
    <3> QED
      BY <3>1, <3>2, <3>3
  <2> QED
    BY <1>2, <2>2, <2>3, <2>5 DEF LineStep
<1>4. CASE WorkerSend(s, w)
  <2> DEFINE X == At(Sink, Hand(s, w))
  <2>1. Carry(Sink, Hand(s, w), Queue(s), X)
    BY <1>1, <1>4, SendMoves
  <2>2. Rank(Queue(s)) = Rank(Hand(s, w)) + 1
    <3>1. Rank(Hand(s, w)) = 2 * s + 1
      BY RankIs
    <3>2. Rank(Queue(s)) = 2 * s + 2
      BY <1>1, RankIs
    <3> QED
      BY <1>1, <3>1, <3>2
  <2>3. Before(X, At(Sink, Hand(s, w))')
    BY <2>1 DEF Carry, Before
  <2> QED
    BY <1>2, <2>1, <2>2, <2>3 DEF LineStep
<1>5. CASE WorkerFails(s, w)
  <2>1. Pass(Sink, Hand(s, w), Discarded, Fate(s, held[s][w]))
    BY <1>1, <1>5, FailMoves
  <2>2. \A r \in Line : At(Sink, r)' \subseteq At(Sink, r)
    BY <2>1 DEF Pass, Line
  <2> QED
    BY <2>2 DEF LineStep
<1>6. CASE WorkerCancelled(s, w)
  <2>1. Lose(Sink, Hand(s, w))
    BY <1>6, QuitMoves
  <2> QED
    BY <2>1 DEF Lose, Line, LineStep
<1>7. CASE WorkerRangeEnds(s, w) \/ WorkerProcess(s, w)
  <2>1. Still(Sink)
    BY <1>1, <1>7, EndMoves, ProcessMoves
  <2> QED
    BY <2>1 DEF Still, Line, LineStep
<1> QED
  BY <1>3, <1>4, <1>5, <1>6, <1>7 DEF WorkerStep

LEMMA LineBatcher ==
    ASSUME StagesKeepOrder, TypeOK, BatcherStep
    PROVE  LineStep
<1>1. /\ {Source, Batcher, Queue(0)} \subseteq Line
      /\ Source # Batcher /\ Batcher # Queue(0)
      /\ Sink \in 1..Sink /\ 1 \in 1..Sink
  <2>1. 0 \in 0..NStages
    BY SizesType
  <2> QED
    BY <2>1, SlotKinds, SizesType DEF Line, Sink
<1>2. CASE BatcherTake
  <2> DEFINE X == FateAt(Sink, 1, {next})
  <2>1. Carry(Sink, Source, Batcher, X)
    BY <1>1, <1>2, TakeMoves
  <2>2. Before({next}, next'..NItems)
    BY <1>2, SizesAssumption DEF BatcherTake, TypeOK, Before
  <2>3. Before(X, FateAt(Sink, 1, next'..NItems))
    BY <1>1, <2>2, FatesKeepOrder
  <2>4. At(Sink, Source)' = FateAt(Sink, 1, next'..NItems)
    BY AtIsNext
  <2>5. Rank(Batcher) = Rank(Source) + 1
    BY RankIs
  <2> QED
    BY <1>1, <2>1, <2>3, <2>4, <2>5 DEF LineStep
<1>3. CASE BatcherFlush
  <2>1. Carry(Sink, Batcher, Queue(0), At(Sink, Batcher)) /\ At(Sink, Batcher)' = {}
    BY <1>1, <1>3, FlushMoves
  <2>2. Rank(Queue(0)) = Rank(Batcher) + 1
    <3>1. Rank(Queue(0)) = 2 * 0 + 2
      BY RankIs, SizesType
    <3> QED
      BY <3>1, RankIs
  <2> QED
    BY <1>1, <2>1, <2>2 DEF LineStep, Before
<1>4. CASE BatcherCancelled
  <2>1. Lose(Sink, Batcher)
    BY <1>1, <1>4, AbandonMoves
  <2> QED
    BY <2>1 DEF Lose, Line, LineStep
<1>5. CASE BatcherSourceClosed \/ BatcherTimeout
  <2>1. UNCHANGED <<next, batch, sinkBatch, delivered, discarded, chan, held, wpc>>
    BY <1>5 DEF BatcherSourceClosed, BatcherTimeout, chanVars, workerVars, mainVars
  <2> QED
    BY <2>1, StillMoves DEF Still, Line, LineStep
<1> QED
  BY <1>2, <1>3, <1>4, <1>5 DEF BatcherStep

LEMMA LineMain ==
    ASSUME TypeOK, HandsInv, FlowInv, QueuesInLine, MainStep
    PROVE  LineStep
<1>1. /\ NStages \in 0..NStages /\ NStages \in Nat /\ Sink \in 1..Sink
      /\ {Queue(NStages), InSink} \subseteq Line /\ Queue(NStages) # InSink
  <2>1. NStages \in 0..NStages
    BY SizesType
  <2> QED
    BY <2>1, SlotKinds, SizesType DEF Line
<1>2. CASE SinkRecv
  <2> DEFINE X == FateAt(Sink, Sink, Head(chan[NStages]))
  <2>1. QApart(Sink, NStages, chan[NStages])
    BY <1>1 DEF FlowInv, QueuesApart
  <2>2. Carry(Sink, Queue(NStages), InSink, X)
    BY <1>1, <1>2, <2>1, SinkTakes
  <2>3. Rank(InSink) = Rank(Queue(NStages)) + 1
    <3>1. Rank(Queue(NStages)) = 2 * NStages + 2
      BY <1>1, RankIs
    <3>2. Rank(InSink) = 2 * NStages + 3
      BY RankIs
    <3> QED
      BY <1>1, <3>1, <3>2
  <2>4. chan[NStages] # <<>> /\ chan'[NStages] = Tail(chan[NStages])
    BY <1>1, <1>2 DEF SinkRecv, TypeOK
  <2>5. Before(X, At(Sink, Queue(NStages))')
    BY <1>1, <2>4, QueueLine DEF Sink
  <2> QED
    BY <1>1, <2>2, <2>3, <2>5 DEF LineStep
<1>3. CASE SinkConsume
  BY <1>3, ConsumeMoves DEF LineStep
<1>4. CASE SinkRangeEnds \/ JoinStages \/ Return
  <2>1. UNCHANGED <<next, batch, sinkBatch, delivered, discarded, chan, held, wpc>>
    BY <1>4 DEF SinkRangeEnds, JoinStages, Return, chanVars, workerVars, sourceVars
  <2> QED
    BY <2>1, StillMoves DEF Still, Line, LineStep
<1> QED
  BY <1>2, <1>3, <1>4 DEF MainStep

LEMMA LineSteps ==
    ASSUME StagesKeepOrder, TypeOK, HandsInv, FlowInv, QueuesInLine, [Next]_vars
    PROVE  LineStep
<1>1. CASE CallerCancel \/ FeederExit \/ Finished \/ UNCHANGED vars
  <2>1. UNCHANGED <<next, batch, sinkBatch, delivered, discarded, chan, held, wpc>>
    BY <1>1 DEF CallerCancel, FeederExit, Finished, vars, chanVars, workerVars, sourceVars,
       mainVars
  <2> QED
    BY <2>1, StillMoves DEF Still, Line, LineStep
<1>2. ASSUME NEW s \in Stage, StageClose(s) PROVE LineStep
  <2>1. UNCHANGED <<next, batch, sinkBatch, delivered, discarded, chan, held, wpc>>
    BY <1>2 DEF StageClose, workerVars, sourceVars, mainVars
  <2> QED
    BY <2>1, StillMoves DEF Still, Line, LineStep
<1> QED
  BY <1>1, <1>2, LineWorker, LineBatcher, LineMain DEF Next

LEMMA QueuesInLineNext ==
    ASSUME \A c \in 0..NStages : QueueInLine(c, chan'[c])
    PROVE  QueuesInLine'
  BY DEF QueuesInLine, QueueInLine, Before, FateAt, Sink

LEMMA QueueLineAppend ==
    ASSUME TypeOK, InLine, QueuesInLine, NEW c \in 0..NStages, NEW p \in Line,
           Rank(p) < Rank(Queue(c)), NEW B \in SUBSET Elem,
           At(Sink, p) = FateAt(Sink, c + 1, B), chan' = [chan EXCEPT ![c] = Append(@, B)]
    PROVE  QueuesInLine'
<1>1. /\ chan[c] \in Seq(SUBSET Elem) /\ QueueInLine(c, chan[c])
      /\ chan'[c] = Append(chan[c], B)
      /\ \A d \in 0..NStages : d # c => chan'[d] = chan[d]
  BY DEF TypeOK, QueuesInLine
<1>2. Queue(c) \in Line
  BY SlotKinds DEF Line
<1>3. Before(At(Sink, Queue(c)), At(Sink, p))
  BY <1>2 DEF InLine
<1>4. At(Sink, Queue(c)) = QFate(Sink, c, chan[c])
  BY AtIs
<1>5. QueueInLine(c, Append(chan[c], B))
  BY <1>1, <1>3, <1>4, QueueInLineAppend
<1>6. \A d \in 0..NStages : d # c => QueueInLine(d, chan'[d])
  BY <1>1 DEF QueuesInLine
<1> QED
  BY <1>1, <1>5, <1>6, QueuesInLineNext

LEMMA QueueLineTail ==
    ASSUME TypeOK, QueuesInLine, NEW c \in 0..NStages, chan[c] # <<>>,
           chan' = [chan EXCEPT ![c] = Tail(@)]
    PROVE  QueuesInLine'
<1>1. /\ chan[c] \in Seq(SUBSET Elem) /\ QueueInLine(c, chan[c])
      /\ chan'[c] = Tail(chan[c])
      /\ \A d \in 0..NStages : d # c => chan'[d] = chan[d]
  BY DEF TypeOK, QueuesInLine
<1>2. QueueInLine(c, Tail(chan[c]))
  BY <1>1, QueueInLineHead
<1>3. \A d \in 0..NStages : d # c => QueueInLine(d, chan'[d])
  BY <1>1 DEF QueuesInLine
<1> QED
  BY <1>1, <1>2, <1>3, QueuesInLineNext

LEMMA QueuesLineStep ==
    ASSUME TypeOK, InLine, QueuesInLine, [Next]_vars
    PROVE  QueuesInLine'
<1>1. CASE UNCHANGED chan
  BY <1>1, QueuesInLineNext DEF QueuesInLine
<1>2. CASE BatcherFlush
  <2>1. PICK c : c = 0
    OBVIOUS
  <2>2. c \in 0..NStages /\ c + 1 = 1
    BY <2>1, SizesType
  <2>3. chan' = [chan EXCEPT ![c] = Append(@, batch)] /\ batch \in SUBSET Elem
    BY <1>2, <2>1 DEF BatcherFlush, Enqueue, TypeOK
  <2>4. At(Sink, Batcher) = FateAt(Sink, c + 1, batch)
    BY <2>2, AtIs
  <2>5. Batcher \in Line /\ Rank(Batcher) < Rank(Queue(c))
    <3>1. Rank(Batcher) = 1 /\ Rank(Queue(c)) = 2 * c + 2
      BY <2>2, RankIs
    <3> QED
      BY <2>1, <3>1, SlotKinds DEF Line
  <2> QED
    BY <2>2, <2>3, <2>4, <2>5, QueueLineAppend
<1>3. ASSUME NEW s \in Stage, NEW w \in Workers, WorkerSend(s, w) PROVE QueuesInLine'
  <2>1. s \in 0..NStages /\ s \in Nat
    BY SizesType DEF Stage
  <2>2. chan' = [chan EXCEPT ![s] = Append(@, held[s][w])] /\ held[s][w] \in SUBSET Elem
    BY <1>3 DEF WorkerSend, Enqueue, TypeOK
  <2>3. At(Sink, Hand(s, w)) = FateAt(Sink, s + 1, held[s][w])
    <3>1. Level(s, w) = s + 1
      BY <1>3 DEF WorkerSend, Level
    <3> QED
      BY <3>1, AtIs
  <2>4. Hand(s, w) \in Line /\ Rank(Hand(s, w)) < Rank(Queue(s))
    <3>1. Rank(Hand(s, w)) = 2 * s + 1
      BY RankIs
    <3>2. Rank(Queue(s)) = 2 * s + 2
      BY <2>1, RankIs
    <3>3. Hand(s, w) \in Line
      BY SlotKinds DEF Line
    <3> QED
      BY <2>1, <3>1, <3>2, <3>3
  <2> QED
    BY <2>1, <2>2, <2>3, <2>4, QueueLineAppend
<1>4. ASSUME NEW s \in Stage, NEW w \in Workers, WorkerRecv(s, w) PROVE QueuesInLine'
  <2>1. s - 1 \in 0..NStages
    BY SizesType DEF Stage
  <2>2. chan' = [chan EXCEPT ![s - 1] = Tail(@)] /\ chan[s - 1] # <<>>
    BY <1>4 DEF WorkerRecv
  <2> QED
    BY <2>1, <2>2, QueueLineTail
<1>5. CASE SinkRecv
  <2>1. NStages \in 0..NStages
    BY SizesType
  <2>2. chan' = [chan EXCEPT ![NStages] = Tail(@)] /\ chan[NStages] # <<>>
    BY <1>5 DEF SinkRecv
  <2> QED
    BY <2>1, <2>2, QueueLineTail
<1> QED
  BY <1>1, <1>2, <1>3, <1>4, <1>5, ChannelSteps

LEMMA InLineInit == Init => InLine /\ QueuesInLine
<1> SUFFICES ASSUME Init PROVE InLine /\ QueuesInLine
  OBVIOUS
<1>1. InLine
  <2>1. \A p \in Slots : p # Source => At(Sink, p) = {}
    BY SizesType, InitEmpty
  <2>2. ASSUME NEW p \in Line, NEW q \in Line, Rank(q) < Rank(p)
        PROVE  Before(At(Sink, p), At(Sink, q))
    <3>1. p # Source
      BY <2>2, RankIs, RankType
    <3> QED
      BY <2>1, <3>1 DEF Before, Line
  <2> QED
    BY <2>2 DEF InLine
<1>2. ASSUME NEW c \in 0..NStages PROVE QueueInLine(c, chan[c])
  <2>1. chan[c] = <<>>
    BY DEF Init
  <2>2. 1..Len(chan[c]) = {}
    BY <2>1
  <2> QED
    BY <2>2 DEF QueueInLine
<1> QED
  BY <1>1, <1>2 DEF QueuesInLine

LEMMA InLineStep ==
    ASSUME StagesKeepOrder, NEW v, Workers = {v},
           TypeOK, HandsInv, FlowInv, InLine, QueuesInLine, [Next]_vars
    PROVE  InLine' /\ QueuesInLine'
<1>1. LineStep
  BY LineSteps
<1>2. InLine'
  BY <1>1, ShrinkInLine, CarryInLine, SplitInLine DEF LineStep
<1> QED
  BY <1>2, QueuesLineStep

(* What the sink takes comes after everything it has.                       *)
LEMMA DeliversInLine ==
    ASSUME TypeOK, InLine, [Next]_vars,
           NEW e \in delivered' \ delivered, NEW f \in delivered
    PROVE  f < e
<1>1. e \in sinkBatch
  <2>1. CASE SinkConsume
    <3>1. PICK seen \in Reached(sinkBatch) : delivered' = delivered \union (seen \ SinkSheds)
      BY <2>1 DEF SinkConsume
    <3>2. seen \subseteq sinkBatch
      BY <3>1 DEF Reached
    <3> QED
      BY <3>1, <3>2
  <2>2. CASE ~SinkConsume
    <3>1. UNCHANGED delivered
      BY <2>2 DEF Next, vars, BatcherStep, WorkerStep, MainStep, CallerCancel, FeederExit,
         Finished, BatcherTake, BatcherFlush, BatcherSourceClosed, BatcherTimeout,
         BatcherCancelled, StageClose, WorkerRecv, WorkerSend, WorkerRangeEnds, WorkerProcess,
         WorkerFails, WorkerCancelled, SinkRecv, SinkRangeEnds, JoinStages, Return, mainVars
    <3> QED
      BY <3>1
  <2> QED
    BY <2>1, <2>2
<1>2. At(Sink, InSink) = sinkBatch /\ At(Sink, Delivered) = delivered
  BY AtIs DEF AtEnd
<1>3. InSink \in Line /\ Delivered \in Line /\ Rank(InSink) < Rank(Delivered)
  BY SlotKinds, RankIs, SizesType DEF Line
<1> QED
  BY <1>1, <1>2, <1>3 DEF InLine, Before

(* With one worker per stage batches arrive in the source's order, for any  *)
(* stages that keep the order inside a batch.                               *)
THEOREM OrderKept ==
    ASSUME StagesKeepOrder
    PROVE  Spec => InOrder
<1>1. CASE Cardinality(Workers) = 1
  <2>1. PICK v : Workers = {v}
    BY <1>1, FS_Singleton, SizesAssumption
  <2>2. Init => InLine /\ QueuesInLine
    BY InLineInit
  <2>3. TypeOK /\ HandsInv /\ FlowInv /\ InLine /\ QueuesInLine /\ [Next]_vars
          => InLine' /\ QueuesInLine'
    BY <2>1, InLineStep
  <2>4. TypeOK /\ InLine /\ [Next]_vars
          => [Cardinality(Workers) = 1 =>
                \A e \in delivered' \ delivered : \A f \in delivered : f < e]_vars
    BY DeliversInLine
  <2> QED
    BY <2>2, <2>3, <2>4, TypeCorrect, FlowAlways, PTL DEF Spec, InOrder
<1>2. CASE Cardinality(Workers) # 1
  <2>1. [Next]_vars
          => [Cardinality(Workers) = 1 =>
                \A e \in delivered' \ delivered : \A f \in delivered : f < e]_vars
    BY <1>2
  <2> QED
    BY <2>1, PTL DEF Spec, InOrder
<1> QED
  BY <1>1, <1>2

-----------------------------------------------------------------------------
(* Counters.  Lv(p) is the stage the content of p awaits, W(k) all that     *)
(* awaits stage k between being counted out and being counted in.           *)

Lv(p) ==
    IF p[1] = "source" THEN 0
    ELSE IF p[1] = "batcher" THEN 1
    ELSE IF p[1] = "queue" THEN p[2] + 1
    ELSE IF p[1] = "held" THEN Level(p[2], p[3])
    ELSE IF p[1] = "sink" THEN Sink
    ELSE Sink + 1

V(k, h) == {f \in Elem : \E p \in Slots \ {h} : Lv(p) = k /\ f \in At(k, p)}
W(k) == {f \in Elem : \E p \in Slots : Lv(p) = k /\ f \in At(k, p)}

LEMMA LvIs ==
    /\ Lv(Source) = 0 /\ Lv(Batcher) = 1 /\ Lv(InSink) = Sink
    /\ Lv(Delivered) = Sink + 1 /\ Lv(Discarded) = Sink + 1
    /\ \A c \in 0..NStages : Lv(Queue(c)) = c + 1
    /\ \A s \in Stage, w \in Workers : Lv(Hand(s, w)) = Level(s, w)
  BY DEF Lv, Source, Batcher, InSink, Delivered, Discarded, Queue, Hand

LEMMA LvIsNext ==
    /\ Lv(Source)' = 0 /\ Lv(Batcher)' = 1 /\ Lv(InSink)' = Sink
    /\ Lv(Delivered)' = Sink + 1 /\ Lv(Discarded)' = Sink + 1
    /\ \A c \in 0..NStages : Lv(Queue(c))' = c + 1
    /\ \A s \in Stage, w \in Workers : Lv(Hand(s, w))' = Level(s, w)'
  BY DEF Lv, Source, Batcher, InSink, Delivered, Discarded, Queue, Hand, Level, Sink

LEMMA LvSame ==
    ASSUME NEW p \in Slots,
           \A s \in Stage, w \in Workers : p = Hand(s, w) => Level(s, w)' = Level(s, w)
    PROVE  Lv(p)' = Lv(p)
<1>1. CASE p \in {Source, Batcher, InSink, Delivered, Discarded}
  BY <1>1, LvIs, LvIsNext
<1>2. ASSUME NEW c \in 0..NStages, p = Queue(c) PROVE Lv(p)' = Lv(p)
  BY <1>2, LvIs, LvIsNext
<1>3. ASSUME NEW s \in Stage, NEW w \in Workers, p = Hand(s, w) PROVE Lv(p)' = Lv(p)
  BY <1>3, LvIs, LvIsNext
<1> QED
  BY <1>1, <1>2, <1>3, SlotKinds

LEMMA AtType ==
    ASSUME TypeOK, NEW k \in 1..Sink, NEW p \in Slots
    PROVE  At(k, p) \subseteq Elem
<1>1. CASE p \in {Source, Batcher, InSink, Delivered, Discarded}
  <2>1. /\ At(k, Source) = FateAt(k, 1, next..NItems)
        /\ At(k, Batcher) = FateAt(k, 1, batch)
        /\ At(k, InSink) = AtEnd(k, sinkBatch)
        /\ At(k, Delivered) = AtEnd(k, delivered)
        /\ At(k, Discarded) = AtEnd(k, discarded)
    BY AtIs
  <2>2. \A B : FateAt(k, 1, B) \subseteq Elem
    BY DEF FateAt
  <2>3. \A B \in SUBSET Elem : AtEnd(k, B) \subseteq Elem
    BY DEF AtEnd
  <2> QED
    BY <1>1, <2>1, <2>2, <2>3 DEF TypeOK
<1>2. ASSUME NEW c \in 0..NStages, p = Queue(c) PROVE At(k, p) \subseteq Elem
  <2>1. At(k, p) = QFate(k, c, chan[c])
    BY <1>2, AtIs
  <2> QED
    BY <2>1 DEF QFate
<1>3. ASSUME NEW s \in Stage, NEW w \in Workers, p = Hand(s, w) PROVE At(k, p) \subseteq Elem
  <2>1. At(k, p) = FateAt(k, Level(s, w), held[s][w])
    BY <1>3, AtIs
  <2> QED
    BY <2>1 DEF FateAt
<1> QED
  BY <1>1, <1>2, <1>3, SlotKinds

(* What awaits k is what h holds for it, and the rest.                      *)
LEMMA WaitSplit ==
    ASSUME TypeOK, NEW k \in 1..Sink, Apart(k), NEW h \in Slots
    PROVE  /\ Lv(h) = k => W(k) = V(k, h) \union At(k, h)
           /\ Lv(h) # k => W(k) = V(k, h)
           /\ V(k, h) \intersect At(k, h) = {}
<1>1. At(k, h) \subseteq Elem
  BY AtType
<1>2. \A p \in Slots \ {h} : At(k, p) \intersect At(k, h) = {}
  BY DEF Apart
<1> QED
  BY <1>1, <1>2 DEF W, V

WaitNext(k) == {f \in Elem : \E p \in Slots : Lv(p)' = k /\ f \in At(k, p)'}

LEMMA WaitIsNext == ASSUME NEW k PROVE W(k)' = WaitNext(k)
  BY DEF W, WaitNext, Slots, Elem, Stage

LEMMA WaitSplitNext ==
    ASSUME NEW k \in 1..Sink, NEW h \in Slots, At(k, h)' \subseteq Elem,
           \A r \in Slots \ {h} : Lv(r)' = Lv(r) /\ (Lv(r) = k => At(k, r)' = At(k, r))
    PROVE  /\ Lv(h)' = k => W(k)' = V(k, h) \union At(k, h)'
           /\ (Lv(h)' # k \/ At(k, h)' = {}) => W(k)' = V(k, h)
<1>1. W(k)' = WaitNext(k)
  BY WaitIsNext
<1> QED
  BY <1>1 DEF WaitNext, V

LEMMA CarryWaits ==
    ASSUME NEW k \in 1..Sink, NEW p \in Slots, NEW q \in Slots, p # q, NEW X,
           Carry(k, p, q, X), \A r \in Slots \ {p} : Lv(r)' = Lv(r),
           Lv(p) = k <=> Lv(q) = k, Lv(p)' = Lv(p) \/ At(k, p)' = {}
    PROVE  W(k)' = W(k)
<1>1. W(k)' = WaitNext(k)
  BY WaitIsNext
<1>2. /\ \A r \in Slots \ {p, q} : At(k, r)' = At(k, r)
      /\ At(k, p) = At(k, p)' \union X
      /\ At(k, q)' = At(k, q) \union X
  BY DEF Carry
<1>3. ASSUME NEW f \in W(k) PROVE f \in WaitNext(k)
  <2>1. f \in Elem
    BY DEF W
  <2>2. PICK r \in Slots : Lv(r) = k /\ f \in At(k, r)
    BY <1>3 DEF W
  <2>3. CASE r = p
    <3>1. Lv(q) = k /\ Lv(q)' = k
      BY <2>2, <2>3
    <3>2. f \in At(k, p)' \/ f \in At(k, q)'
      BY <1>2, <2>2, <2>3
    <3>3. f \in At(k, p)' => Lv(p)' = k
      BY <2>2, <2>3
    <3> QED
      BY <2>1, <3>1, <3>2, <3>3 DEF WaitNext
  <2>4. CASE r # p
    <3>1. Lv(r)' = k /\ f \in At(k, r)'
      BY <1>2, <2>2, <2>4
    <3> QED
      BY <2>1, <3>1 DEF WaitNext
  <2> QED
    BY <2>3, <2>4
<1>4. ASSUME NEW f \in WaitNext(k) PROVE f \in W(k)
  <2>1. f \in Elem
    BY DEF WaitNext
  <2>2. PICK r \in Slots : Lv(r)' = k /\ f \in At(k, r)'
    BY <1>4 DEF WaitNext
  <2>3. CASE r = p
    <3>1. Lv(p) = k /\ f \in At(k, p)
      BY <1>2, <2>2, <2>3
    <3> QED
      BY <2>1, <3>1 DEF W
  <2>4. CASE r = q
    <3>1. Lv(q) = k /\ Lv(p) = k
      BY <2>2, <2>4
    <3>2. f \in At(k, q) \/ f \in At(k, p)
      BY <1>2, <2>2, <2>4
    <3> QED
      BY <2>1, <3>1, <3>2 DEF W
  <2>5. CASE r \notin {p, q}
    <3>1. Lv(r) = k /\ f \in At(k, r)
      BY <1>2, <2>2, <2>5
    <3> QED
      BY <2>1, <3>1 DEF W
  <2> QED
    BY <2>3, <2>4, <2>5
<1> QED
  BY <1>1, <1>3, <1>4

LEMMA StillWaits ==
    ASSUME NEW k, Still(k), \A r \in Slots : Lv(r)' = Lv(r)
    PROVE  W(k)' = W(k)
<1>1. W(k)' = WaitNext(k)
  BY WaitIsNext
<1> QED
  BY <1>1 DEF WaitNext, W, Still

(* What a step counts in the counters of each stage.                        *)
LEMMA CountIs ==
    ASSUME TypeOK, NEW s \in 1..Sink, NEW i, NEW o, NEW d, NEW n,
           metrics' = Count(s, i, o, d, n)
    PROVE  /\ metrics'[s].in = metrics[s].in + i
           /\ metrics'[s].out = metrics[s].out + o
           /\ metrics'[s].dropped = metrics[s].dropped + d
           /\ metrics'[s].errs = metrics[s].errs + n
           /\ \A t \in 1..Sink : t # s => metrics'[t] = metrics[t]
<1>1. metrics \in [1..Sink -> [in: Nat, out: Nat, dropped: Nat, errs: Nat]]
  BY DEF TypeOK
<1>2. metrics' = [metrics EXCEPT ![s] = [in |-> @.in + i, out |-> @.out + o,
                            dropped |-> @.dropped + d, errs |-> @.errs + n]]
  BY DEF Count
<1> QED
  BY <1>1, <1>2

LEMMA MetricsType ==
    ASSUME TypeOK, NEW s \in 1..Sink
    PROVE  /\ metrics[s].in \in Nat /\ metrics[s].out \in Nat
           /\ metrics[s].dropped \in Nat /\ metrics[s].errs \in Nat
<1>1. metrics[s] \in [in: Nat, out: Nat, dropped: Nat, errs: Nat]
  BY DEF TypeOK
<1> QED
  BY <1>1

(* The books: what was supplied to stage k is what it took in, and what     *)
(* awaits it.                                                               *)
Supply(k) == IF k = 1 THEN next - 1 ELSE metrics[k - 1].out
Ledger(k) ==
    \E A, B \in SUBSET Elem :
        /\ A \intersect W(k) = {} /\ B \subseteq W(k)
        /\ W(k)' = (W(k) \ B) \union A
        /\ Supply(k)' = Supply(k) + Cardinality(A)
        /\ metrics'[k].in = metrics[k].in + Cardinality(B)
Booked(k) == Supply(k) = metrics[k].in + Cardinality(W(k))

LEMMA SupplyType == ASSUME TypeOK, NEW k \in 1..Sink PROVE Supply(k) \in Int
<1>1. k # 1 => k - 1 \in 1..Sink
  BY SizesType
<1> QED
  BY <1>1, MetricsType DEF Supply, TypeOK

LEMMA LedgerBooks ==
    ASSUME TypeOK, NEW k \in 1..Sink, Ledger(k), Booked(k)
    PROVE  Booked(k)'
<1>1. PICK A \in SUBSET Elem, B \in SUBSET Elem :
        /\ A \intersect W(k) = {} /\ B \subseteq W(k)
        /\ W(k)' = (W(k) \ B) \union A
        /\ Supply(k)' = Supply(k) + Cardinality(A)
        /\ metrics'[k].in = metrics[k].in + Cardinality(B)
  BY DEF Ledger
<1>2. W(k) \in SUBSET Elem /\ W(k) \ B \in SUBSET Elem
  BY DEF W
<1>3. /\ IsFiniteSet(W(k)) /\ IsFiniteSet(A) /\ IsFiniteSet(W(k) \ B)
      /\ Cardinality(W(k)) \in Nat /\ Cardinality(A) \in Nat /\ Cardinality(B) \in Nat
      /\ Cardinality(W(k) \ B) \in Nat
  BY <1>2, BatchCounts
<1>4. Cardinality(W(k) \ B) = Cardinality(W(k)) - Cardinality(B)
  <2>1. Cardinality(W(k) \ B) = Cardinality(W(k)) - Cardinality(W(k) \intersect B)
    BY <1>3, FS_Difference
  <2>2. W(k) \intersect B = B
    BY <1>1
  <2> QED
    BY <2>1, <2>2
<1>5. Cardinality((W(k) \ B) \union A) = Cardinality(W(k) \ B) + Cardinality(A)
  <2>1. Cardinality((W(k) \ B) \union A)
          = Cardinality(W(k) \ B) + Cardinality(A) - Cardinality((W(k) \ B) \intersect A)
    BY <1>3, FS_Union
  <2>2. (W(k) \ B) \intersect A = {}
    BY <1>1
  <2>3. Cardinality((W(k) \ B) \intersect A) = 0
    BY <2>2, FS_EmptySet
  <2>4. Cardinality(W(k) \ B) \in Nat /\ Cardinality(A) \in Nat
    BY <1>3
  <2> QED
    BY <2>1, <2>3, <2>4
<1>6. Booked(k)' <=> (Supply(k)' = metrics'[k].in + Cardinality(W(k)'))
  BY DEF Booked
<1>7. metrics[k].in \in Nat
  BY MetricsType
<1> QED
  BY <1>1, <1>3, <1>4, <1>5, <1>6, <1>7 DEF Booked

(* Nothing moves between the books.                                         *)
LEMMA LedgerIdle ==
    ASSUME NEW k \in 1..Sink, TypeOK, W(k)' = W(k), Supply(k)' = Supply(k),
           metrics'[k].in = metrics[k].in
    PROVE  Ledger(k)
<1>1. Cardinality({}) = 0
  BY FS_EmptySet
<1>2. metrics[k].in \in Nat /\ Supply(k) + 0 = Supply(k)
  <2>1. metrics[k].in \in Nat
    BY MetricsType
  <2>2. Supply(k) \in Int
    BY SupplyType
  <2> QED
    BY <2>1, <2>2
<1>3. W(k)' = (W(k) \ {}) \union {}
  OBVIOUS
<1> QED
  BY <1>1, <1>2, <1>3 DEF Ledger


-----------------------------------------------------------------------------
(* Each step of a live run keeps the books of every stage.                  *)

LEMMA SupplyNext ==
    ASSUME NEW k
    PROVE  Supply(k)' = IF k = 1 THEN next' - 1 ELSE metrics'[k - 1].out
  BY DEF Supply

(* What a worker or the sink does to the books of a stage it does not touch.*)
LEMMA OtherBooks ==
    ASSUME TypeOK, NEW s \in 1..Sink, NEW i, NEW o, NEW d, NEW n,
           metrics' = Count(s, i, o, d, n), next' = next, NEW k \in 1..Sink
    PROVE  /\ k # s => metrics'[k].in = metrics[k].in
           /\ k # s + 1 => Supply(k)' = Supply(k)
           /\ k = s + 1 => Supply(k)' = Supply(k) + o
<1>1. k # s => metrics'[k] = metrics[k]
  BY CountIs
<1>2. k # 1 => k - 1 \in 1..Sink /\ k \in Nat /\ (k - 1 = s <=> k = s + 1)
  BY SizesType
<1>3. CASE k = 1
  <2>1. k # s + 1
    BY <1>3, SizesType
  <2> QED
    BY <1>1, <1>3, <2>1, SupplyNext DEF Supply
<1>4. CASE k # 1 /\ k # s + 1
  <2>1. metrics'[k - 1] = metrics[k - 1]
    BY <1>2, <1>4, CountIs
  <2> QED
    BY <1>1, <1>4, <2>1, SupplyNext DEF Supply
<1>5. CASE k # 1 /\ k = s + 1
  <2>1. metrics'[k - 1].out = metrics[k - 1].out + o
    BY <1>2, <1>5, CountIs
  <2> QED
    BY <1>1, <1>5, <2>1, SupplyNext DEF Supply
<1> QED
  BY <1>3, <1>4, <1>5

(* A slot hands what awaits k on, and the stage counts it in.               *)
LEMMA LedgerOut ==
    ASSUME TypeOK, NEW k \in 1..Sink, Apart(k), NEW h \in Slots, Lv(h) = k,
           \A r \in Slots \ {h} : Lv(r)' = Lv(r) /\ (Lv(r) = k => At(k, r)' = At(k, r)),
           At(k, h)' = {}, Supply(k)' = Supply(k),
           metrics'[k].in = metrics[k].in + Cardinality(At(k, h))
    PROVE  Ledger(k)
<1>1. At(k, h) \subseteq Elem /\ At(k, h)' \subseteq Elem
  BY AtType
<1>2. W(k) = V(k, h) \union At(k, h) /\ V(k, h) \intersect At(k, h) = {}
  BY WaitSplit
<1>3. W(k)' = V(k, h)
  BY <1>1, WaitSplitNext
<1>4. Supply(k)' = Supply(k) + Cardinality({})
  <2>1. Supply(k) \in Int
    BY SupplyType
  <2> QED
    BY <2>1, FS_EmptySet
<1>5. {} \intersect W(k) = {} /\ At(k, h) \subseteq W(k)
      /\ W(k)' = (W(k) \ At(k, h)) \union {}
  BY <1>2, <1>3
<1> QED
  BY <1>1, <1>4, <1>5 DEF Ledger

(* A slot that held nothing for k comes to hold A.                          *)
LEMMA LedgerIn ==
    ASSUME TypeOK, NEW k \in 1..Sink, Apart(k), NEW h \in Slots, Lv(h) # k,
           \A r \in Slots \ {h} : Lv(r)' = Lv(r) /\ (Lv(r) = k => At(k, r)' = At(k, r)),
           At(k, h)' = At(k, h), At(k, h) = {} \/ Lv(h)' = k,
           Supply(k)' = Supply(k) + Cardinality(At(k, h)),
           metrics'[k].in = metrics[k].in
    PROVE  Ledger(k)
<1>1. At(k, h) \subseteq Elem
  BY AtType
<1>2. W(k) = V(k, h) /\ V(k, h) \intersect At(k, h) = {}
  BY WaitSplit
<1>3. W(k)' = V(k, h) \union At(k, h)
  BY <1>1, WaitSplitNext
<1>4. metrics'[k].in = metrics[k].in + Cardinality({})
  BY FS_EmptySet, MetricsType
<1>5. At(k, h) \intersect W(k) = {} /\ {} \subseteq W(k)
      /\ W(k)' = (W(k) \ {}) \union At(k, h)
  BY <1>2, <1>3
<1> QED
  BY <1>1, <1>4, <1>5 DEF Ledger

(* A slot holds nothing for k, before or after.                             *)
LEMMA LedgerElse ==
    ASSUME TypeOK, NEW k \in 1..Sink, Apart(k), NEW h \in Slots, Lv(h) # k,
           \A r \in Slots \ {h} : Lv(r)' = Lv(r) /\ (Lv(r) = k => At(k, r)' = At(k, r)),
           At(k, h)' \subseteq Elem, At(k, h)' = {} \/ Lv(h)' # k,
           Supply(k)' = Supply(k), metrics'[k].in = metrics[k].in
    PROVE  Ledger(k)
<1>1. W(k) = V(k, h)
  BY WaitSplit
<1>2. W(k)' = V(k, h)
  BY WaitSplitNext
<1> QED
  BY <1>1, <1>2, LedgerIdle

LEMMA TakeBooks ==
    ASSUME TypeOK, NEW k \in 1..Sink, Apart(k), BatcherTake
    PROVE  Ledger(k)
<1>1. /\ next \in Nat /\ next \in next..NItems /\ next \in Elem
      /\ next' = next + 1 /\ batch' = batch \union {next} /\ metrics' = metrics
      /\ UNCHANGED <<wpc>>
  BY SizesAssumption DEF BatcherTake, Offered, TypeOK, workerVars, Elem
<1>2. Carry(k, Source, Batcher, FateAt(k, 1, {next}))
  BY TakeMoves
<1>3. \A r \in Slots : Lv(r)' = Lv(r)
  BY <1>1, LvSame DEF Level
<1>4. {Source, Batcher} \subseteq Slots /\ Source # Batcher
  BY SlotKinds
<1>5. CASE k = 1
  <2>1. FateAt(k, 1, {next}) = {next}
    BY <1>1, <1>5, FateHere
  <2>2. At(k, Batcher)' = At(k, Batcher) \union {next} /\ next \in At(k, Source)
        /\ \A r \in Slots \ {Source, Batcher} : At(k, r)' = At(k, r)
    BY <1>2, <2>1 DEF Carry
  <2>3. \A r \in Slots \ {Source} : next \notin At(k, r)
    BY <1>4, <2>2 DEF Apart
  <2>4. Lv(Source) # k /\ Lv(Batcher) = k
    BY <1>5, LvIs
  <2>5. next \notin W(k)
    BY <2>3, <2>4 DEF W
  <2>6. At(k, Batcher) \subseteq Elem
    BY <1>4, AtType
  <2>7. W(k) = V(k, Batcher) \union At(k, Batcher)
    BY <1>4, <2>4, WaitSplit
  <2>8. W(k)' = V(k, Batcher) \union At(k, Batcher)'
    <3>1. \A r \in Slots \ {Batcher} : Lv(r)' = Lv(r) /\ (Lv(r) = k => At(k, r)' = At(k, r))
      BY <1>3, <2>2, <2>4
    <3>2. At(k, Batcher)' \subseteq Elem /\ Lv(Batcher)' = k
      BY <1>1, <1>3, <1>4, <2>2, <2>4, <2>6
    <3> QED
      BY <1>4, <3>1, <3>2, WaitSplitNext
  <2>9. W(k)' = (W(k) \ {}) \union {next} /\ {next} \intersect W(k) = {}
    BY <2>2, <2>5, <2>7, <2>8
  <2>10. Supply(k)' = Supply(k) + Cardinality({next})
    <3>1. Supply(k)' = next' - 1 /\ Supply(k) = next - 1
      BY <1>5, SupplyNext DEF Supply
    <3>2. Cardinality({next}) = 1
      BY FS_Singleton
    <3> QED
      BY <1>1, <3>1, <3>2
  <2>11. metrics'[k].in = metrics[k].in + Cardinality({})
    BY <1>1, FS_EmptySet, MetricsType
  <2> QED
    BY <1>1, <2>9, <2>10, <2>11 DEF Ledger
<1>6. CASE k # 1
  <2>1. W(k)' = W(k)
    BY <1>2, <1>3, <1>4, <1>6, CarryWaits, LvIs
  <2>2. Supply(k)' = Supply(k) /\ metrics'[k].in = metrics[k].in
    BY <1>1, <1>6, SupplyNext DEF Supply
  <2> QED
    BY <2>1, <2>2, LedgerIdle
<1> QED
  BY <1>5, <1>6

(* A step that carries a batch between two places where it awaits the same  *)
(* stage.                                                                   *)
LEMMA CarryBooks ==
    ASSUME TypeOK, NEW k \in 1..Sink, NEW p \in Slots, NEW q \in Slots, p # q, NEW X,
           Carry(k, p, q, X), \A r \in Slots \ {p} : Lv(r)' = Lv(r),
           Lv(p) = k <=> Lv(q) = k, Lv(p)' = Lv(p) \/ At(k, p)' = {},
           metrics' = metrics, next' = next
    PROVE  Ledger(k)
<1>1. W(k)' = W(k)
  BY CarryWaits
<1>2. Supply(k)' = Supply(k)
  BY SupplyNext DEF Supply
<1> QED
  BY <1>1, <1>2, LedgerIdle

LEMMA FlushBooks ==
    ASSUME TypeOK, NEW k \in 1..Sink, BatcherFlush
    PROVE  Ledger(k)
<1>1. UNCHANGED <<wpc, next, metrics>>
  BY DEF BatcherFlush, workerVars
<1>2. \A r \in Slots : Lv(r)' = Lv(r)
  BY <1>1, LvSame DEF Level
<1>3. 0 \in 0..NStages
  BY SizesType
<1>4. {Batcher, Queue(0)} \subseteq Slots /\ Batcher # Queue(0)
  BY <1>3, SlotKinds
<1>5. Lv(Batcher) = 1 /\ Lv(Queue(0)) = 1
  BY <1>3, LvIs
<1> QED
  BY <1>1, <1>2, <1>4, <1>5, FlushMoves, CarryBooks

LEMMA RecvBooks ==
    ASSUME TypeOK, HandsInv, NEW k \in 1..Sink, QueuesApart(k),
           NEW s \in Stage, NEW w \in Workers, WorkerRecv(s, w)
    PROVE  Ledger(k)
<1>1. s - 1 \in 0..NStages /\ s \in Nat
  BY SizesType DEF Stage
<1>2. {Queue(s - 1), Hand(s, w)} \subseteq Slots /\ Queue(s - 1) # Hand(s, w)
  BY <1>1, SlotKinds
<1>3. UNCHANGED <<next, metrics>> /\ wpc[s][w] = "recv"
      /\ wpc' = [wpc EXCEPT ![s][w] = "process"]
  BY DEF WorkerRecv, sourceVars
<1>4. \A t \in Stage, v \in Workers : Level(t, v)' = Level(t, v)
  BY <1>3 DEF Level, TypeOK
<1>5. \A r \in Slots : Lv(r)' = Lv(r)
  BY <1>4, LvSame
<1>6. Lv(Queue(s - 1)) = s /\ Lv(Hand(s, w)) = s
  <2>1. Lv(Queue(s - 1)) = (s - 1) + 1 /\ Lv(Hand(s, w)) = Level(s, w)
    BY <1>1, LvIs
  <2> QED
    BY <1>1, <1>3, <2>1 DEF Level
<1>7. Carry(k, Queue(s - 1), Hand(s, w), FateAt(k, s, Head(chan[s - 1])))
  BY <1>1, RecvMoves DEF QueuesApart
<1> QED
  BY <1>2, <1>3, <1>5, <1>6, <1>7, CarryBooks

LEMMA SendBooks ==
    ASSUME TypeOK, NEW k \in 1..Sink,
           NEW s \in Stage, NEW w \in Workers, WorkerSend(s, w)
    PROVE  Ledger(k)
<1>1. s \in 0..NStages /\ s \in Nat
  BY SizesType DEF Stage
<1>2. {Queue(s), Hand(s, w)} \subseteq Slots /\ Queue(s) # Hand(s, w)
  BY <1>1, SlotKinds
<1>3. UNCHANGED <<next, metrics>> /\ wpc[s][w] = "send"
      /\ wpc' = [wpc EXCEPT ![s][w] = "recv"]
  BY DEF WorkerSend, sourceVars
<1>4. \A t \in Stage, v \in Workers : t # s \/ v # w => Level(t, v)' = Level(t, v)
  BY <1>3 DEF Level, TypeOK
<1>5. \A r \in Slots \ {Hand(s, w)} : Lv(r)' = Lv(r)
  <2>1. \A t \in Stage, v \in Workers : Hand(t, v) # Hand(s, w) => t # s \/ v # w
    OBVIOUS
  <2> QED
    BY <1>4, <2>1, LvSame
<1>6. Lv(Queue(s)) = s + 1 /\ Lv(Hand(s, w)) = s + 1
  BY <1>1, <1>3, LvIs DEF Level
<1>7. Carry(k, Hand(s, w), Queue(s), At(k, Hand(s, w)))
  BY SendMoves
<1>8. At(k, Hand(s, w))' = {}
  BY <1>7 DEF Carry
<1> QED
  BY <1>2, <1>3, <1>5, <1>6, <1>7, <1>8, CarryBooks

LEMMA SinkRecvBooks ==
    ASSUME TypeOK, HandsInv, NEW k \in 1..Sink, QueuesApart(k), SinkRecv
    PROVE  Ledger(k)
<1>1. NStages \in 0..NStages /\ NStages + 1 = Sink
  BY SizesType DEF Sink
<1>2. {Queue(NStages), InSink} \subseteq Slots /\ Queue(NStages) # InSink
  BY <1>1, SlotKinds
<1>3. UNCHANGED <<next, metrics, wpc>>
  BY DEF SinkRecv, sourceVars, workerVars
<1>4. \A r \in Slots : Lv(r)' = Lv(r)
  BY <1>3, LvSame DEF Level
<1>5. Lv(Queue(NStages)) = Sink /\ Lv(InSink) = Sink
  BY <1>1, LvIs
<1>6. Carry(k, Queue(NStages), InSink, FateAt(k, Sink, Head(chan[NStages])))
  BY <1>1, SinkTakes DEF QueuesApart
<1> QED
  BY <1>2, <1>3, <1>4, <1>5, <1>6, CarryBooks


-----------------------------------------------------------------------------
LEMMA WorkerLevels ==
    ASSUME TypeOK, NEW s \in Stage, NEW w \in Workers, WorkerStep(s, w)
    PROVE  \A r \in Slots \ {Hand(s, w)} : Lv(r)' = Lv(r)
<1>1. \A t \in Stage, v \in Workers : t # s \/ v # w => Level(t, v)' = Level(t, v)
  BY WorkerFrame DEF Level
<1>2. \A t \in Stage, v \in Workers : Hand(t, v) # Hand(s, w) => t # s \/ v # w
  OBVIOUS
<1> QED
  BY <1>1, <1>2, LvSame

LEMMA ProcessBooks ==
    ASSUME TypeOK, NEW k \in 1..Sink, Apart(k),
           NEW s \in Stage, NEW w \in Workers, WorkerProcess(s, w)
    PROVE  Ledger(k)
<1> DEFINE B == held[s][w]
           h == Hand(s, w)
           r == SafeProcess(s, B)
<1>0. s \in Nat /\ s \in 1..Sink /\ s + 1 \in 1..Sink /\ k \in Nat
  BY SizesType DEF Stage, Sink
<1>1. B \in SUBSET Elem /\ r.out \in SUBSET Elem
  <2>1. B \in SUBSET Elem
    BY DEF TypeOK
  <2> HIDE DEF B
  <2> QED
    BY <2>1, SafeProcessType
<1>2. /\ wpc[s][w] = "process" /\ next' = next
      /\ metrics' = Count(s, Cardinality(B), Cardinality(r.out), r.dropped, 0)
      /\ held' = [held EXCEPT ![s][w] = r.out]
      /\ wpc' = [wpc EXCEPT ![s][w] = IF r.out = {} THEN "recv" ELSE "send"]
  BY DEF WorkerProcess, sourceVars
<1> HIDE DEF r
<1>3. /\ held'[s][w] = r.out
      /\ wpc'[s][w] = IF r.out = {} THEN "recv" ELSE "send"
  BY <1>2 DEF TypeOK
<1>4. h \in Slots
  BY SlotKinds
<1>5. Lv(h) = s
  BY <1>2, LvIs DEF Level
<1>6. At(k, h) = FateAt(k, s, B) /\ At(k, h)' = FateAt(k, Level(s, w)', r.out)
  <2>1. At(k, h)' = FateAt(k, Level(s, w)', held'[s][w])
    BY AtIsNext
  <2>2. At(k, h) = FateAt(k, Level(s, w), B) /\ Level(s, w) = s
    BY <1>2, AtIs DEF Level
  <2> QED
    BY <1>3, <2>1, <2>2
<1>7. Lv(h)' = Level(s, w)'
  BY LvIsNext
<1>8. r.out # {} => Level(s, w)' = s + 1
  BY <1>3 DEF Level
<1>9. r.out = {} => At(k, h)' = {}
  BY <1>6, FateEmpty
<1>10. \A t \in Slots \ {h} : At(k, t)' = At(k, t) /\ Lv(t)' = Lv(t)
  <2>1. Lose(k, h)
    BY ProcessMoves
  <2>2. \A t \in Slots \ {h} : Lv(t)' = Lv(t)
    BY WorkerLevels DEF WorkerStep
  <2> QED
    BY <2>1, <2>2 DEF Lose
<1>11. /\ metrics'[s].in = metrics[s].in + Cardinality(B)
       /\ k # s => metrics'[k].in = metrics[k].in
       /\ k # s + 1 => Supply(k)' = Supply(k)
       /\ k = s + 1 => Supply(k)' = Supply(k) + Cardinality(r.out)
  BY <1>0, <1>2, CountIs, OtherBooks
<1> HIDE DEF h, B
<1>12. CASE k = s
  <2>1. At(k, h) = B
    BY <1>1, <1>6, <1>12, FateHere
  <2>2. At(k, h)' = {}
    <3>1. CASE r.out = {}
      BY <1>9, <3>1
    <3>2. CASE r.out # {}
      BY <1>0, <1>6, <1>8, <1>12, <3>2, FatePast
    <3> QED
      BY <3>1, <3>2
  <2> QED
    BY <1>0, <1>4, <1>5, <1>10, <1>11, <1>12, <2>1, <2>2, LedgerOut
<1>13. CASE k = s + 1
  <2>1. s < k
    BY <1>0, <1>13
  <2>2. At(k, h)' = At(k, h)
    BY <1>4, <2>1, ProcessMoves DEF Still
  <2>3. r.out = {} \/ At(k, h) = r.out
    BY <1>1, <1>6, <1>8, <1>13, <2>2, FateHere
  <2>4. At(k, h) = r.out
    BY <1>9, <2>2, <2>3
  <2>5. r.out = {} \/ Lv(h)' = k
    BY <1>7, <1>8, <1>13
  <2>6. Lv(h) # k /\ k # s
    BY <1>0, <1>5, <1>13
  <2>7. metrics'[k].in = metrics[k].in /\ Supply(k)' = Supply(k) + Cardinality(At(k, h))
    BY <1>11, <1>13, <2>4, <2>6
  <2> QED
    BY <1>4, <1>10, <2>2, <2>4, <2>5, <2>6, <2>7, LedgerIn
<1>14. CASE k # s /\ k # s + 1
  <2>1. At(k, h)' = {} \/ Lv(h)' # k
    BY <1>7, <1>8, <1>9, <1>14
  <2>2. At(k, h)' \subseteq Elem
    BY <1>6 DEF FateAt
  <2>3. metrics'[k].in = metrics[k].in /\ Supply(k)' = Supply(k) /\ Lv(h) # k
    BY <1>5, <1>11, <1>14
  <2> QED
    BY <1>4, <1>10, <2>1, <2>2, <2>3, LedgerElse
<1> QED
  BY <1>12, <1>13, <1>14

LEMMA FailBooks ==
    ASSUME TypeOK, NEW k \in 1..Sink, Apart(k),
           NEW s \in Stage, NEW w \in Workers, WorkerFails(s, w)
    PROVE  Ledger(k)
<1> DEFINE B == held[s][w]
           h == Hand(s, w)
<1>0. s \in Nat /\ s \in 1..Sink /\ s + 1 \in 1..Sink /\ k \in Nat
  BY SizesType DEF Stage, Sink
<1>1. B \in SUBSET Elem
  BY DEF TypeOK
<1>2. /\ wpc[s][w] = "process" /\ next' = next
      /\ metrics' = Count(s, Cardinality(B), 0, SafeProcess(s, B).dropped, 1)
      /\ held' = [held EXCEPT ![s][w] = {}]
  <2>1. next' = next
    BY DEF WorkerFails, sourceVars
  <2> QED
    BY <2>1, Zenon DEF WorkerFails
<1>3. held'[s][w] = {}
  BY <1>2 DEF TypeOK
<1>4. h \in Slots /\ h # Discarded
  BY SlotKinds
<1>5. Lv(h) = s
  BY <1>2, LvIs DEF Level
<1>6. At(k, h) = FateAt(k, s, B) /\ At(k, h)' = {}
  <2>1. At(k, h)' = FateAt(k, Level(s, w)', held'[s][w])
    BY AtIsNext
  <2> QED
    BY <1>2, <1>3, <2>1, AtIs, FateEmpty DEF Level
<1>7. \A t \in Slots \ {h} : Lv(t)' = Lv(t) /\ (Lv(t) = k => At(k, t)' = At(k, t))
  <2>1. \A t \in Slots \ {h} : Lv(t)' = Lv(t)
    BY WorkerLevels DEF WorkerStep
  <2>2. CASE k = Sink
    <3>1. Lv(Discarded) # k
      BY <1>0, <2>2, LvIs
    <3>2. \A t \in Slots \ {h, Discarded} : At(k, t)' = At(k, t)
      BY <2>2, FailMoves DEF Pass
    <3> QED
      BY <2>1, <3>1, <3>2
  <2>3. CASE k # Sink
    BY <2>1, <2>3, FailMoves DEF Lose
  <2> QED
    BY <2>2, <2>3
<1>8. /\ metrics'[s].in = metrics[s].in + Cardinality(B)
      /\ k # s => metrics'[k].in = metrics[k].in
      /\ k # s + 1 => Supply(k)' = Supply(k)
      /\ k = s + 1 => Supply(k)' = Supply(k) + 0
  BY <1>0, <1>2, CountIs, OtherBooks
<1>9. Supply(k)' = Supply(k)
  <2>1. Supply(k) \in Int
    BY SupplyType
  <2> QED
    BY <1>8, <2>1
<1> HIDE DEF h, B
<1>10. CASE k = s
  <2>1. At(k, h) = B
    BY <1>1, <1>6, <1>10, FateHere
  <2> QED
    BY <1>4, <1>5, <1>6, <1>7, <1>8, <1>9, <1>10, <2>1, LedgerOut
<1>11. CASE k # s
  BY <1>4, <1>5, <1>6, <1>7, <1>8, <1>9, <1>11, LedgerElse
<1> QED
  BY <1>10, <1>11

LEMMA ConsumeBooks ==
    ASSUME TypeOK, NEW k \in 1..Sink, Apart(k), SinkConsume
    PROVE  Ledger(k)
<1>1. /\ sinkBatch' = {} /\ UNCHANGED <<next, wpc>> /\ sinkBatch \in SUBSET Elem
      /\ Sink \in 1..Sink
  BY SizesType DEF SinkConsume, sourceVars, workerVars, TypeOK
<1>2. PICK o, d, n : metrics' = Count(Sink, Cardinality(sinkBatch), o, d, n)
  BY DEF SinkConsume
<1>3. \A r \in Slots : Lv(r)' = Lv(r)
  BY <1>1, LvSame DEF Level
<1>4. /\ metrics'[Sink].in = metrics[Sink].in + Cardinality(sinkBatch)
      /\ k # Sink => metrics'[k].in = metrics[k].in
      /\ Supply(k)' = Supply(k)
  <2>1. k # Sink + 1
    BY SizesType
  <2> QED
    BY <1>1, <1>2, <2>1, CountIs, OtherBooks
<1>5. CASE k = Sink
  <2>1. PICK Y, Z : Split(Y, Z)
    BY <1>5, ConsumeMoves
  <2>2. InSink \in Slots /\ Lv(InSink) = k
    BY <1>5, SlotKinds, LvIs
  <2>3. At(k, InSink)' = {} /\ At(k, InSink) = sinkBatch
    BY <1>5, <2>1, AtIs DEF Split, AtEnd
  <2>4. Lv(Delivered) # k /\ Lv(Discarded) # k
    BY <1>5, LvIs, SizesType
  <2>5. \A r \in Slots \ {InSink} : Lv(r)' = Lv(r) /\ (Lv(r) = k => At(k, r)' = At(k, r))
    BY <1>3, <1>5, <2>1, <2>4 DEF Split
  <2> QED
    BY <1>4, <1>5, <2>2, <2>3, <2>5, LedgerOut
<1>6. CASE k # Sink
  <2>1. Still(k)
    BY <1>6, ConsumeMoves
  <2>2. W(k)' = W(k)
    BY <1>3, <2>1, StillWaits
  <2> QED
    BY <1>4, <1>6, <2>2, LedgerIdle
<1> QED
  BY <1>5, <1>6

(* A step that touches neither elements nor counters.                       *)
LEMMA IdleBooks ==
    ASSUME TypeOK, NEW k \in 1..Sink,
           UNCHANGED <<next, batch, sinkBatch, delivered, discarded, chan, held, wpc, metrics>>
    PROVE  Ledger(k)
<1>1. Still(k)
  BY StillMoves
<1>2. \A r \in Slots : Lv(r)' = Lv(r)
  BY LvSame DEF Level
<1>3. W(k)' = W(k)
  BY <1>1, <1>2, StillWaits
<1>4. Supply(k)' = Supply(k)
  BY SupplyNext DEF Supply
<1> QED
  BY <1>3, <1>4, LedgerIdle

LEMMA EndBooks ==
    ASSUME TypeOK, NEW k \in 1..Sink, NEW s \in Stage, NEW w \in Workers, WorkerRangeEnds(s, w)
    PROVE  Ledger(k)
<1>1. Still(k)
  BY EndMoves
<1>2. /\ UNCHANGED <<next, metrics>> /\ wpc[s][w] = "recv"
      /\ wpc' = [wpc EXCEPT ![s][w] = "done"]
  BY DEF WorkerRangeEnds, sourceVars
<1>3. \A t \in Stage, v \in Workers : Level(t, v)' = Level(t, v)
  BY <1>2 DEF Level, TypeOK
<1>4. \A r \in Slots : Lv(r)' = Lv(r)
  BY <1>3, LvSame
<1>5. W(k)' = W(k)
  BY <1>1, <1>4, StillWaits
<1>6. Supply(k)' = Supply(k)
  BY <1>2, SupplyNext DEF Supply
<1> QED
  BY <1>2, <1>5, <1>6, LedgerIdle

LEMMA LiveStepBooks ==
    ASSUME TypeOK, HandsInv, FlowInv, ctx = "live", [Next]_vars, NEW k \in 1..Sink
    PROVE  Ledger(k)
<1>0. Apart(k) /\ QueuesApart(k)
  BY DEF FlowInv
<1>1. CASE CallerCancel \/ FeederExit \/ Finished \/ UNCHANGED vars
  BY <1>1, IdleBooks DEF CallerCancel, FeederExit, Finished, vars, sourceVars, chanVars,
     workerVars, mainVars
<1>2. CASE BatcherStep
  <2>1. CASE BatcherTake
    BY <1>0, <2>1, TakeBooks
  <2>2. CASE BatcherFlush
    BY <2>2, FlushBooks
  <2>3. CASE BatcherSourceClosed \/ BatcherTimeout
    BY <2>3, IdleBooks DEF BatcherSourceClosed, BatcherTimeout, chanVars, workerVars, mainVars
  <2>4. ~BatcherCancelled
    BY DEF BatcherCancelled, Cancelled
  <2> QED
    BY <1>2, <2>1, <2>2, <2>3, <2>4 DEF BatcherStep
<1>3. ASSUME NEW s \in Stage, StageClose(s) PROVE Ledger(k)
  BY <1>3, IdleBooks DEF StageClose, sourceVars, workerVars, mainVars
<1>4. ASSUME NEW s \in Stage, NEW w \in Workers, WorkerStep(s, w) PROVE Ledger(k)
  <2>1. ~WorkerCancelled(s, w)
    BY DEF WorkerCancelled, Cancelled
  <2> QED
    BY <1>0, <1>4, <2>1, RecvBooks, EndBooks, ProcessBooks, FailBooks, SendBooks DEF WorkerStep
<1>5. CASE MainStep
  <2>1. CASE SinkRecv
    BY <1>0, <2>1, SinkRecvBooks
  <2>2. CASE SinkConsume
    BY <1>0, <2>2, ConsumeBooks
  <2>3. CASE SinkRangeEnds \/ JoinStages \/ Return
    BY <2>3, IdleBooks DEF SinkRangeEnds, JoinStages, Return, sourceVars, chanVars, workerVars
  <2> QED
    BY <1>5, <2>1, <2>2, <2>3 DEF MainStep
<1> QED
  BY <1>1, <1>2, <1>3, <1>4, <1>5 DEF Next


-----------------------------------------------------------------------------
(* While a run is live its books are kept; a Filter always emits or drops   *)
(* what it took in, and a sink that never failed delivered what it counts.  *)
BooksKept == ctx = "live" => \A k \in 1..Sink : Booked(k)
FilterBooks == \A s \in Filters : metrics[s].in = metrics[s].out + metrics[s].dropped
SinkBooks == metrics[Sink].errs = 0 => metrics[Sink].out = Cardinality(delivered)
CountInv == BooksKept /\ FilterBooks /\ SinkBooks

LEMMA FilterCounts ==
    ASSUME NEW s \in Filters, NEW B \in SUBSET Elem
    PROVE  Cardinality(B) = Cardinality(UNION {Emit[s][e] : e \in B})
                              + Cardinality({e \in B : Emit[s][e] = {}})
<1> DEFINE D == {e \in B : Emit[s][e] = {}}
           o == UNION {Emit[s][e] : e \in B}
<1>1. o = B \ D /\ D = B \intersect D /\ D \in SUBSET Elem /\ o \in SUBSET Elem
  BY FilterAssumption
<1>2. Cardinality(B \ D) = Cardinality(B) - Cardinality(B \intersect D)
  BY BatchCounts, FS_Difference
<1>3. Cardinality(B) \in Nat /\ Cardinality(D) \in Nat
  BY <1>1, BatchCounts
<1> HIDE DEF D, o
<1>4. Cardinality(o) = Cardinality(B) - Cardinality(D)
  BY <1>1, <1>2
<1>5. Cardinality(B) = Cardinality(o) + Cardinality(D)
  BY <1>3, <1>4
<1> QED
  BY <1>5 DEF o, D

LEMMA FilterStep ==
    ASSUME TypeOK, FilterBooks, [Next]_vars
    PROVE  FilterBooks'
<1> SUFFICES ASSUME NEW f \in Filters
             PROVE  metrics'[f].in = metrics'[f].out + metrics'[f].dropped
  BY DEF FilterBooks
<1>0. /\ f \in Stage /\ f \in 1..Sink /\ f # Sink
      /\ metrics[f].in = metrics[f].out + metrics[f].dropped
  BY FilterAssumption, SizesType DEF FilterBooks, Stage, Sink
<1>1. CASE metrics' = metrics
  BY <1>0, <1>1
<1>2. ASSUME NEW s \in 1..Sink, NEW i \in Nat, NEW o \in Nat, NEW d \in Nat, NEW n,
             metrics' = Count(s, i, o, d, n), f = s => i = o + d
      PROVE  metrics'[f].in = metrics'[f].out + metrics'[f].dropped
  <2>1. metrics[f].in \in Nat /\ metrics[f].out \in Nat /\ metrics[f].dropped \in Nat
    BY <1>0, MetricsType
  <2>2. CASE f = s
    <3>1. /\ metrics'[f].in = metrics[f].in + i /\ metrics'[f].out = metrics[f].out + o
          /\ metrics'[f].dropped = metrics[f].dropped + d
      BY <1>0, <1>2, <2>2, CountIs
    <3> QED
      BY <1>0, <1>2, <2>1, <2>2, <3>1
  <2>3. CASE f # s
    <3>1. metrics'[f] = metrics[f]
      BY <1>0, <1>2, <2>3, CountIs
    <3> QED
      BY <1>0, <3>1
  <2> QED
    BY <2>2, <2>3
<1>3. ASSUME NEW s \in Stage, NEW w \in Workers, WorkerProcess(s, w) \/ WorkerFails(s, w)
      PROVE  metrics'[f].in = metrics'[f].out + metrics'[f].dropped
  <2> DEFINE B == held[s][w]
             r == SafeProcess(s, B)
  <2>0. s \in 1..Sink
    BY SizesType DEF Stage, Sink
  <2>1. B \in SUBSET Elem
    BY DEF TypeOK
  <2> HIDE DEF B
  <2>2. r.out \in SUBSET Elem /\ r.dropped \in Nat
    BY <2>1, SafeProcessType
  <2>3. /\ Cardinality(B) \in Nat /\ Cardinality(r.out) \in Nat /\ 0 \in Nat
        /\ Cardinality(B) = 0 + Cardinality(B)
    BY <2>1, <2>2, BatchCounts
  <2>4. CASE WorkerProcess(s, w)
    <3>1. /\ metrics' = Count(s, Cardinality(B), Cardinality(r.out), r.dropped, 0)
          /\ ~r.err
      BY <2>4 DEF WorkerProcess, B
    <3>2. ASSUME f = s PROVE Cardinality(B) = Cardinality(r.out) + r.dropped
      <4>1. /\ r.out = UNION {Emit[s][e] : e \in B}
            /\ r.dropped = Cardinality({e \in B : Emit[s][e] = {}})
        BY <3>1, <3>2 DEF SafeProcess
      <4> QED
        BY <2>1, <3>2, <4>1, FilterCounts
    <3> HIDE DEF r
    <3> QED
      BY <1>2, <2>0, <2>2, <2>3, <3>1, <3>2
  <2>5. CASE WorkerFails(s, w)
    <3>1. /\ metrics' = Count(s, Cardinality(B), 0, r.dropped, 1)
          /\ r.err
      BY <2>5, Zenon DEF WorkerFails, B, r
    <3>2. r.dropped = Cardinality(B)
      BY <3>1 DEF SafeProcess
    <3> HIDE DEF r
    <3>3. metrics' = Count(s, Cardinality(B), 0, Cardinality(B), 1)
      BY <3>1, <3>2
    <3> QED
      BY <1>2, <2>0, <2>3, <3>3
  <2> QED
    BY <1>3, <2>4, <2>5
<1>4. CASE SinkConsume
  <2>1. \E i, o, d, n : metrics' = Count(Sink, i, o, d, n)
    BY <1>4 DEF SinkConsume
  <2>2. metrics'[f] = metrics[f]
    BY <1>0, <2>1, CountIs, SizesType
  <2> QED
    BY <1>0, <2>2
<1>5. \/ metrics' = metrics \/ SinkConsume
      \/ \E s \in Stage, w \in Workers : WorkerProcess(s, w) \/ WorkerFails(s, w)
  BY DEF Next, vars, BatcherStep, WorkerStep, MainStep, CallerCancel, FeederExit, Finished,
         BatcherTake, BatcherFlush, BatcherSourceClosed, BatcherTimeout, BatcherCancelled,
         StageClose, WorkerRecv, WorkerSend, WorkerRangeEnds, WorkerCancelled,
         SinkRecv, SinkRangeEnds, JoinStages, Return
<1> QED
  BY <1>1, <1>3, <1>4, <1>5

LEMMA SinkStep ==
    ASSUME TypeOK, FlowInv, SinkBooks, [Next]_vars
    PROVE  SinkBooks'
<1>0. Sink \in 1..Sink
  BY SizesType
<1>1. CASE metrics'[Sink] = metrics[Sink] /\ delivered' = delivered
  BY <1>1 DEF SinkBooks
<1>2. ASSUME NEW s \in Stage, NEW w \in Workers, WorkerProcess(s, w) \/ WorkerFails(s, w)
      PROVE  metrics'[Sink] = metrics[Sink] /\ delivered' = delivered
  <2>1. s \in 1..Sink /\ s # Sink
    BY SizesType DEF Stage, Sink
  <2>2. \E i, o, d, n : metrics' = Count(s, i, o, d, n)
    BY <1>2, Zenon DEF WorkerProcess, WorkerFails
  <2>3. delivered' = delivered
    BY <1>2 DEF WorkerProcess, WorkerFails, mainVars
  <2> QED
    BY <1>0, <2>1, <2>2, <2>3, CountIs
<1>3. CASE SinkConsume
  <2>1. PICK seen \in Reached(sinkBatch) :
          /\ delivered' = delivered \union (seen \ SinkSheds)
          /\ metrics' = Count(Sink, Cardinality(sinkBatch),
                              Cardinality(sinkBatch) - Cardinality(seen \intersect SinkSheds),
                              Cardinality(seen \intersect SinkSheds),
                              IF seen # sinkBatch THEN 1 ELSE 0)
    BY <1>3 DEF SinkConsume
  <2>2. /\ metrics'[Sink].out = metrics[Sink].out
             + (Cardinality(sinkBatch) - Cardinality(seen \intersect SinkSheds))
        /\ metrics'[Sink].errs = metrics[Sink].errs + (IF seen # sinkBatch THEN 1 ELSE 0)
    <3>1. ASSUME NEW i, NEW o, NEW d, NEW n, metrics' = Count(Sink, i, o, d, n)
          PROVE  /\ metrics'[Sink].out = metrics[Sink].out + o
                 /\ metrics'[Sink].errs = metrics[Sink].errs + n
      BY <1>0, <3>1, CountIs
    <3> DEFINE i == Cardinality(sinkBatch)
               d == Cardinality(seen \intersect SinkSheds)
               n == IF seen # sinkBatch THEN 1 ELSE 0
               o == i - d
    <3>2. metrics' = Count(Sink, i, o, d, n)
      BY <2>1
    <3> HIDE DEF i, o, d, n
    <3>3. metrics'[Sink].out = metrics[Sink].out + o /\ metrics'[Sink].errs = metrics[Sink].errs + n
      BY <3>1, <3>2
    <3> QED
      BY <3>3 DEF i, o, d, n
  <2>3. sinkBatch \in SUBSET Elem /\ delivered \in SUBSET Elem
    BY DEF TypeOK
  <2>4. metrics[Sink].errs \in Nat /\ metrics[Sink].out \in Nat
    BY <1>0, MetricsType
  <2>5. delivered \intersect sinkBatch = {}
    <3>1. At(Sink, Delivered) = delivered /\ At(Sink, InSink) = sinkBatch
      BY AtIs DEF AtEnd
    <3> QED
      BY <1>0, <3>1, SlotKinds DEF FlowInv, Apart
  <2>6. ASSUME metrics'[Sink].errs = 0
        PROVE  metrics'[Sink].out = Cardinality(delivered')
    <3>1. metrics[Sink].errs = 0 /\ seen = sinkBatch
      BY <2>2, <2>4, <2>6
    <3>2. metrics[Sink].out = Cardinality(delivered)
      BY <3>1 DEF SinkBooks
    <3> DEFINE A == sinkBatch \ SinkSheds
    <3>3. A \in SUBSET Elem /\ delivered \intersect A = {}
      BY <2>3, <2>5
    <3>4. Cardinality(A) = Cardinality(sinkBatch) - Cardinality(sinkBatch \intersect SinkSheds)
      BY <2>3, BatchCounts, FS_Difference
    <3>5. Cardinality(delivered \union A)
            = Cardinality(delivered) + Cardinality(A) - Cardinality(delivered \intersect A)
      BY <2>3, <3>3, BatchCounts, FS_Union
    <3>6. Cardinality(delivered \intersect A) = 0
      BY <3>3, FS_EmptySet
    <3>7. Cardinality(delivered) \in Nat /\ Cardinality(A) \in Nat
      BY <2>3, <3>3, BatchCounts
    <3>8. delivered' = delivered \union A
      BY <2>1, <3>1
    <3>9. metrics'[Sink].out = Cardinality(delivered) + Cardinality(A)
      BY <2>2, <3>1, <3>2, <3>4
    <3> HIDE DEF A
    <3> QED
      BY <3>5, <3>6, <3>7, <3>8, <3>9
  <2> QED
    BY <2>6 DEF SinkBooks
<1>4. \/ metrics' = metrics /\ delivered' = delivered
      \/ SinkConsume
      \/ \E s \in Stage, w \in Workers : WorkerProcess(s, w) \/ WorkerFails(s, w)
  BY DEF Next, vars, BatcherStep, WorkerStep, MainStep, CallerCancel, FeederExit, Finished,
         BatcherTake, BatcherFlush, BatcherSourceClosed, BatcherTimeout, BatcherCancelled,
         StageClose, WorkerRecv, WorkerSend, WorkerRangeEnds, WorkerCancelled,
         SinkRecv, SinkRangeEnds, JoinStages, Return, mainVars
<1> QED
  BY <1>1, <1>2, <1>3, <1>4

LEMMA BooksStep ==
    ASSUME TypeOK, HandsInv, FlowInv, BooksKept, [Next]_vars
    PROVE  BooksKept'
<1> SUFFICES ASSUME ctx' = "live", NEW k \in 1..Sink PROVE Booked(k)'
  BY DEF BooksKept, Sink
<1>1. ctx = "live"
  BY StaysCancelled
<1>2. Ledger(k)
  BY <1>1, LiveStepBooks
<1> QED
  BY <1>1, <1>2, LedgerBooks DEF BooksKept

LEMMA CountInit ==
    ASSUME Init
    PROVE  CountInv
<1>0. TypeOK
  BY InitType
<1>1. \A s \in 1..Sink : /\ metrics[s].in = 0 /\ metrics[s].out = 0
                         /\ metrics[s].dropped = 0 /\ metrics[s].errs = 0
  BY DEF Init, NoCounts
<1>2. ASSUME NEW k \in 1..Sink PROVE Booked(k)
  <2>1. Supply(k) = 0
    <3>1. k # 1 => k - 1 \in 1..Sink
      BY SizesType
    <3> QED
      BY <1>1, <3>1 DEF Supply, Init
  <2>2. \A p \in Slots : p # Source => At(k, p) = {}
    BY InitEmpty
  <2>3. Lv(Source) # k
    BY LvIs
  <2>4. W(k) = {}
    BY <2>2, <2>3 DEF W
  <2>5. Cardinality(W(k)) = 0
    BY <2>4, FS_EmptySet
  <2> QED
    BY <1>1, <2>1, <2>5 DEF Booked
<1>3. FilterBooks
  <2>1. \A s \in Filters : s \in 1..Sink
    BY FilterAssumption, SizesType DEF Stage, Sink
  <2> QED
    BY <1>1, <2>1 DEF FilterBooks
<1>4. SinkBooks
  <2>1. Cardinality(delivered) = 0
    BY FS_EmptySet DEF Init
  <2> QED
    BY <1>1, <2>1, SizesType DEF SinkBooks
<1> QED
  BY <1>2, <1>3, <1>4 DEF CountInv, BooksKept

(* The books are kept from start to end, for any pipeline and any policy.   *)
THEOREM BooksAlways == Spec => []CountInv
<1>1. Init => CountInv
  BY CountInit
<1>2. TypeOK /\ HandsInv /\ FlowInv /\ CountInv /\ [Next]_vars => CountInv'
  BY BooksStep, FilterStep, SinkStep DEF CountInv
<1> QED
  BY <1>1, <1>2, TypeCorrect, FlowAlways, PTL DEF Spec

LEMMA BooksAddUp ==
    ASSUME TypeOK, HandsInv, ClosedMeansWritersGone, StagesJoined, DrainInv, CountInv
    PROVE  MetricsAddUp
<1> SUFFICES ASSUME main = "recorded", ctx = "live"
             PROVE  /\ metrics[1].in = NItems
                    /\ \A s \in Stage : metrics[s].out = metrics[s + 1].in
                    /\ \A s \in Stage \intersect Filters :
                         metrics[s].in = metrics[s].out + metrics[s].dropped
                    /\ metrics[Sink].errs = 0 => metrics[Sink].out = Cardinality(delivered)
  BY DEF MetricsAddUp
<1>1. ASSUME NEW k \in 1..Sink PROVE Supply(k) = metrics[k].in
  <2>1. \A r \in Slots : Lv(r) = k => At(k, r) = {}
    <3>1. Lv(Delivered) # k /\ Lv(Discarded) # k
      BY LvIs, SizesType
    <3> QED
      BY <3>1, Drained
  <2>2. W(k) = {}
    BY <2>1 DEF W
  <2>3. Cardinality(W(k)) = 0
    BY <2>2, FS_EmptySet
  <2>4. Booked(k)
    BY DEF CountInv, BooksKept
  <2> QED
    BY <2>3, <2>4, MetricsType DEF Booked
<1>2. 1 \in 1..Sink /\ \A s \in Stage : s + 1 \in 1..Sink /\ s + 1 # 1 /\ (s + 1) - 1 = s
  BY SizesType DEF Sink, Stage
<1>3. metrics[1].in = NItems
  <2>1. next > NItems
    BY <1>2, Drained, SlotKinds
  <2>2. next - 1 = NItems
    BY <2>1, SizesAssumption DEF TypeOK
  <2> QED
    BY <1>1, <1>2, <2>2 DEF Supply
<1>4. \A s \in Stage : metrics[s].out = metrics[s + 1].in
  BY <1>1, <1>2 DEF Supply
<1> QED
  BY <1>3, <1>4 DEF CountInv, FilterBooks, SinkBooks

(* What execute publishes adds up.                                          *)
THEOREM CountsAddUp == Spec => []MetricsAddUp
<1> QED
  BY BooksAlways, TypeCorrect, FlowAlways, DrainAlways, ChannelDiscipline, JoinedAlways,
     BooksAddUp, PTL
=============================================================================
