----------------------------- MODULE PipelineRun -----------------------------
(***************************************************************************)
(* One run of pipeline.execute: the FromSlice feeder, the batcher, a pool  *)
(* of workers per stage, the sink drained by the calling goroutine, and    *)
(* the channels between them.  One action is what a goroutine does between *)
(* two points at which another goroutine can observe it.                   *)
(*                                                                         *)
(* chan[0] is the batcher's output, chan[s] the output of stage s; the     *)
(* sink reads chan[NStages].  A batch is the set of its elements; elements *)
(* are numbers, and the order of a batch is their numeric order.           *)
(***************************************************************************)
EXTENDS Naturals, Sequences, FiniteSets

CONSTANTS
    NItems,        \* the source slice holds the elements 1..NItems
    MaxElem,       \* ids above NItems are elements a Generate stage makes
    NStages,       \* linear stages of the pipeline
    Workers,       \* the goroutines of one stage's pool
    BatchSize,     \* Config.BatchSize after normalize
    Depth,         \* Config.ChannelBufferDepth; 0 = rendezvous channels
    Timer,         \* Config.BatchTimeout > 0
    FailFast,      \* Config.OnError = FailFast
    RecordFails,   \* Config.MetricsSink.Record returns an error
    Emit,          \* Emit[s][e]: what stage s emits for element e
    Filters,       \* the Filter stages: they report what they do not emit
    Poison,        \* Poison[s]: elements on which stage s panics
    SinkSheds,     \* elements for which the sink's Push returns ErrDropped
    SinkPoison,    \* elements for which Push returns another error
    CtxSink,       \* the sink's Push gives up when the context is cancelled
    CallerCancels  \* the caller's context may be cancelled during the run

Stage == 1..NStages
Elem == 1..MaxElem

ASSUME SizesAssumption ==
    /\ NItems \in Nat /\ MaxElem \in Nat /\ NItems <= MaxElem
    /\ NStages \in Nat
    /\ BatchSize \in Nat \ {0}
    /\ Depth \in Nat
    /\ IsFiniteSet(Workers) /\ Workers # {}
ASSUME PolicyAssumption ==
    {Timer, FailFast, RecordFails, CtxSink, CallerCancels} \subseteq BOOLEAN
ASSUME StagesAssumption ==
    /\ Emit \in [Stage -> [Elem -> SUBSET Elem]]
    /\ Poison \in [Stage -> SUBSET Elem]
    /\ SinkSheds \subseteq Elem
    /\ SinkPoison \subseteq Elem
(* A Filter emits the element it was given, or nothing.                     *)
ASSUME FilterAssumption ==
    /\ Filters \subseteq Stage
    /\ \A s \in Filters : \A e \in Elem : Emit[s][e] \subseteq {e}
(* Two elements of a stage's input never stand for the same output element. *)
ASSUME IdentityAssumption ==
    \A s \in Stage : \A e, f \in Elem :
        e # f => Emit[s][e] \intersect Emit[s][f] = {}

VARIABLES
    next,          \* the next element the feeder sends
    feeder,        \* "sending" or "done" (source closed)
    ctx,           \* "live"; "derived" or "caller": which context is cancelled
    batcher,       \* "select", "flush", "flushLast" or "done" (head closed)
    batch,         \* the elements the batcher has accumulated
    chan,          \* chan[c]: the batches queued in channel c
    closed,        \* closed[c]: channel c is closed
    wpc,           \* wpc[s][w]: "recv", "process", "send" or "done"
    held,          \* held[s][w]: the batch the worker holds
    main,          \* "recv", "consume", "wait", "recorded" or "returned"
    sinkBatch,     \* the batch the sink is consuming
    delivered,     \* elements the sink took
    err,           \* runErr: 0 = nil, else the stage that set it first
    result,        \* "none" until execute returns, then "nil" or "error"
    metrics,       \* metrics[s]: the merged counters of stage s, the sink last
    discarded      \* history: promised elements lost with a failed batch

chanVars == <<chan, closed>>
sourceVars == <<next, feeder, batcher, batch>>
workerVars == <<wpc, held>>
mainVars == <<main, sinkBatch, delivered, result>>
vars == <<next, feeder, ctx, batcher, batch, chan, closed, wpc, held, main,
          sinkBatch, delivered, err, result, metrics, discarded>>

Sink == NStages + 1
NoCounts == [in |-> 0, out |-> 0, dropped |-> 0, errs |-> 0]

-----------------------------------------------------------------------------
(* A trail through stages s..NStages: what each stage emits for the element *)
(* the one before it emitted.                                               *)
Trails(s) ==
    {p \in [s..Sink -> Elem] : \A t \in s..NStages : p[t + 1] \in Emit[t][p[t]]}

(* The elements that element e entering stage s finally turns into, and the *)
(* part of them the sink does not shed.                                     *)
Descent ==
    [s \in 1..Sink |->
        [e \in Elem |-> {p[Sink] : p \in {q \in Trails(s) : q[s] = e}}]]

Fate(s, B) ==
    {f \in Elem \ SinkSheds : \E e \in B : f \in Descent[s][e]}
Promised == Fate(1, 1..NItems)

(* safeProcess: what a stage makes of a batch.  A panic makes the whole     *)
(* batch worthless: it counts as dropped.  Map and Generate drop nothing.   *)
SafeProcess(s, B) ==
    IF B \intersect Poison[s] # {}
    THEN [out |-> {}, dropped |-> Cardinality(B), err |-> TRUE]
    ELSE [out |-> UNION {Emit[s][e] : e \in B},
          dropped |-> IF s \in Filters
                      THEN Cardinality({e \in B : Emit[s][e] = {}}) ELSE 0,
          err |-> FALSE]

(* A send on channel c succeeds while the buffer has room or a receiver     *)
(* waits: every receiver of these channels blocks in a plain range loop, so *)
(* a batch queued beyond the buffer is one a waiting receiver already has.  *)
Waiting(c) ==
    IF c = NStages
    THEN IF main = "recv" THEN 1 ELSE 0
    ELSE Cardinality({w \in Workers : wpc[c + 1][w] = "recv"})
CanSend(c) == Len(chan[c]) < Depth + Waiting(c)

(* Faults: a batch overwrites, or overtakes, those already queued.          *)
EnqueueOver(q, B) == <<B>>
EnqueueFirst(q, B) == <<B>> \o q
Enqueue(q, B) == Append(q, B)

(* Faults: a goroutine watches the caller's context only, or the run's      *)
(* failures only.                                                           *)
CancelledByCaller == ctx = "caller"
CancelledByRun == ctx = "derived"
Cancelled == ctx # "live"

(* Fault: an error stops the run whatever the policy.                       *)
StopsAlways == TRUE
Stops == FailFast

(* Fault: FailFast remembers the error but does not cancel.                 *)
FailWithoutCancel(s) ==
    /\ err' = IF err = 0 THEN s ELSE err
    /\ UNCHANGED ctx

(* setErr and cancel, as runStage and drainSink call them under FailFast.   *)
Fail(s) ==
    /\ err' = IF err = 0 THEN s ELSE err
    /\ ctx' = IF ctx = "live" THEN "derived" ELSE ctx

(* Fault: out is counted before the stage has filtered the batch.           *)
CountInput(s, in, out, dropped, errs) ==
    [metrics EXCEPT ![s] = [in |-> @.in + in, out |-> @.out + in,
                            dropped |-> @.dropped + dropped,
                            errs |-> @.errs + errs]]
Count(s, in, out, dropped, errs) ==
    [metrics EXCEPT ![s] = [in |-> @.in + in, out |-> @.out + out,
                            dropped |-> @.dropped + dropped,
                            errs |-> @.errs + errs]]

Init ==
    /\ next = 1
    /\ feeder = "sending"
    /\ ctx = "live"
    /\ batcher = "select"
    /\ batch = {}
    /\ chan = [c \in 0..NStages |-> <<>>]
    /\ closed = [c \in 0..NStages |-> FALSE]
    /\ wpc = [s \in Stage |-> [w \in Workers |-> "recv"]]
    /\ held = [s \in Stage |-> [w \in Workers |-> {}]]
    /\ main = "recv"
    /\ sinkBatch = {}
    /\ delivered = {}
    /\ err = 0
    /\ result = "none"
    /\ metrics = [s \in 1..Sink |-> NoCounts]
    /\ discarded = {}

-----------------------------------------------------------------------------
(* The caller, and the feeder it started with FromSlice(ctx, items).        *)

CallerCancel ==
    /\ CallerCancels
    /\ ctx # "caller"
    /\ main # "returned"
    /\ ctx' = "caller"
    /\ UNCHANGED <<sourceVars, chanVars, workerVars, mainVars, err, metrics,
                   discarded>>

(* The feeder closes source after its last element, or gives up when the    *)
(* context it was given, the caller's, is cancelled.                        *)
FeederExit ==
    /\ feeder = "sending"
    /\ next > NItems \/ ctx = "caller"
    /\ feeder' = "done"
    /\ UNCHANGED <<next, ctx, batcher, batch, chanVars, workerVars, mainVars,
                   err, metrics, discarded>>

-----------------------------------------------------------------------------
(* The batcher.                                                             *)

(* Fault: the feeder's loop runs past the end of the slice.                 *)
OfferedAlways == feeder = "sending"
Offered == feeder = "sending" /\ next <= NItems

(* case v := <-source: the rendezvous with the feeder.                      *)
BatcherTake ==
    /\ batcher = "select"
    /\ Offered
    /\ next' = next + 1
    /\ batch' = batch \union {next}
    /\ batcher' = IF Cardinality(batch') >= BatchSize THEN "flush" ELSE "select"
    /\ UNCHANGED <<feeder, ctx, chanVars, workerVars, mainVars, err, metrics,
                   discarded>>

(* case <-source when it is closed: a last flush, then the head closes.     *)
BatcherSourceClosed ==
    /\ batcher = "select"
    /\ feeder = "done"
    /\ batcher' = IF batch = {} THEN "done" ELSE "flushLast"
    /\ closed' = [closed EXCEPT ![0] = (batch = {})]
    /\ UNCHANGED <<next, feeder, ctx, batch, chan, workerVars, mainVars, err,
                   metrics, discarded>>

(* Fault: the timer is never reset after it was stopped by the first flush. *)
ToFlushOnce == 1 \in batch
ToFlush == batch # {}

(* case <-timerCh: with an empty batch only the timer is reset.             *)
BatcherTimeout ==
    /\ Timer
    /\ batcher = "select"
    /\ ToFlush
    /\ batcher' = "flush"
    /\ UNCHANGED <<next, feeder, ctx, batch, chanVars, workerVars, mainVars,
                   err, metrics, discarded>>

(* Fault: flush does not start a new batch.                                 *)
SameBatch == batch
NewBatch == {}

BatcherFlush ==
    /\ batcher \in {"flush", "flushLast"}
    /\ CanSend(0)
    /\ chan' = [chan EXCEPT ![0] = Enqueue(@, batch)]
    /\ batch' = NewBatch
    /\ batcher' = IF batcher = "flush" THEN "select" ELSE "done"
    /\ closed' = [closed EXCEPT ![0] = (batcher = "flushLast")]
    /\ UNCHANGED <<next, feeder, ctx, workerVars, mainVars, err, metrics,
                   discarded>>

(* case <-ctx.Done(), in the loop and in flush: the batch is abandoned.     *)
BatcherCancelled ==
    /\ batcher # "done"
    /\ Cancelled
    /\ batcher' = "done"
    /\ batch' = {}
    /\ closed' = [closed EXCEPT ![0] = TRUE]
    /\ UNCHANGED <<next, feeder, ctx, chan, workerVars, mainVars, err, metrics,
                   discarded>>

-----------------------------------------------------------------------------
(* The workers of stage s.                                                  *)

WorkerRecv(s, w) ==
    /\ wpc[s][w] = "recv"
    /\ chan[s - 1] # <<>>
    /\ held' = [held EXCEPT ![s][w] = Head(chan[s - 1])]
    /\ chan' = [chan EXCEPT ![s - 1] = Tail(@)]
    /\ wpc' = [wpc EXCEPT ![s][w] = "process"]
    /\ UNCHANGED <<sourceVars, ctx, closed, mainVars, err, metrics, discarded>>

WorkerRangeEnds(s, w) ==
    /\ wpc[s][w] = "recv"
    /\ chan[s - 1] = <<>>
    /\ closed[s - 1]
    /\ wpc' = [wpc EXCEPT ![s][w] = "done"]
    /\ UNCHANGED <<sourceVars, ctx, chanVars, held, mainVars, err, metrics,
                   discarded>>

(* A batch that comes through: out is counted before the send is tried.     *)
WorkerProcess(s, w) ==
    LET r == SafeProcess(s, held[s][w]) IN
    /\ wpc[s][w] = "process"
    /\ ~r.err
    /\ metrics' = Count(s, Cardinality(held[s][w]), Cardinality(r.out),
                        r.dropped, 0)
    /\ held' = [held EXCEPT ![s][w] = r.out]
    /\ wpc' = [wpc EXCEPT ![s][w] = IF r.out = {} THEN "recv" ELSE "send"]
    /\ UNCHANGED <<sourceVars, ctx, chanVars, mainVars, err, discarded>>

(* A failed batch: SkipAndCount goes on without it, FailFast cancels the    *)
(* run and the worker leaves.                                               *)
WorkerFails(s, w) ==
    LET r == SafeProcess(s, held[s][w]) IN
    /\ wpc[s][w] = "process"
    /\ r.err
    /\ metrics' = Count(s, Cardinality(held[s][w]), 0, r.dropped, 1)
    /\ discarded' = discarded \union Fate(s, held[s][w])
    /\ held' = [held EXCEPT ![s][w] = {}]
    /\ IF Stops
       THEN wpc' = [wpc EXCEPT ![s][w] = "done"] /\ Fail(s)
       ELSE wpc' = [wpc EXCEPT ![s][w] = "recv"] /\ UNCHANGED <<err, ctx>>
    /\ UNCHANGED <<sourceVars, chanVars, mainVars>>

WorkerSend(s, w) ==
    /\ wpc[s][w] = "send"
    /\ CanSend(s)
    /\ chan' = [chan EXCEPT ![s] = Enqueue(@, held[s][w])]
    /\ held' = [held EXCEPT ![s][w] = {}]
    /\ wpc' = [wpc EXCEPT ![s][w] = "recv"]
    /\ UNCHANGED <<sourceVars, ctx, closed, mainVars, err, metrics, discarded>>

WorkerCancelled(s, w) ==
    /\ wpc[s][w] = "send"
    /\ Cancelled
    /\ held' = [held EXCEPT ![s][w] = {}]
    /\ wpc' = [wpc EXCEPT ![s][w] = "done"]
    /\ UNCHANGED <<sourceVars, ctx, chanVars, mainVars, err, metrics, discarded>>

(* Fault: out is closed as soon as one worker is done.                      *)
AnyDone(s) == \E w \in Workers : wpc[s][w] = "done"
AllDone(s) == \A w \in Workers : wpc[s][w] = "done"

(* wg.Wait in runStage, then the deferred close(out).                       *)
StageClose(s) ==
    /\ ~closed[s]
    /\ AllDone(s)
    /\ closed' = [closed EXCEPT ![s] = TRUE]
    /\ UNCHANGED <<sourceVars, ctx, chan, workerVars, mainVars, err, metrics,
                   discarded>>

-----------------------------------------------------------------------------
(* The calling goroutine: drainSink, then the end of execute.               *)

SinkRecv ==
    /\ main = "recv"
    /\ chan[NStages] # <<>>
    /\ sinkBatch' = Head(chan[NStages])
    /\ chan' = [chan EXCEPT ![NStages] = Tail(@)]
    /\ main' = "consume"
    /\ UNCHANGED <<sourceVars, ctx, closed, workerVars, delivered, err, result,
                   metrics, discarded>>

(* How far Consume may get through a batch: up to the first element whose   *)
(* Push errs, or, once the context is cancelled, up to any earlier one.     *)
Reached(B) ==
    LET sound == {e \in B : \A p \in B \intersect SinkPoison : e < p} IN
    {sound} \union
      (IF CtxSink /\ ctx # "live"
       THEN {{e \in sound : e < cut} : cut \in sound} ELSE {})

(* Elements after an error are neither delivered nor counted as dropped;    *)
(* out is computed from the batch and so counts them.  The sink goes on     *)
(* draining after an error whatever the policy.                             *)
SinkConsume ==
    /\ main = "consume"
    /\ \E seen \in Reached(sinkBatch) :
         LET shed == Cardinality(seen \intersect SinkSheds)
             size == Cardinality(sinkBatch)
             failed == seen # sinkBatch
         IN
         /\ delivered' = delivered \union (seen \ SinkSheds)
         /\ discarded' = discarded \union ((sinkBatch \ seen) \ SinkSheds)
         /\ metrics' = Count(Sink, size, size - shed, shed,
                             IF failed THEN 1 ELSE 0)
         /\ IF failed /\ Stops THEN Fail(Sink) ELSE UNCHANGED <<err, ctx>>
    /\ sinkBatch' = {}
    /\ main' = "recv"
    /\ UNCHANGED <<sourceVars, chanVars, workerVars, result>>

SinkRangeEnds ==
    /\ main = "recv"
    /\ chan[NStages] = <<>>
    /\ closed[NStages]
    /\ main' = "wait"
    /\ UNCHANGED <<sourceVars, ctx, chanVars, workerVars, sinkBatch, delivered,
                   err, result, metrics, discarded>>

(* Fault: execute does not wait for the stages.                             *)
JoinedNone == TRUE
Joined == \A s \in Stage : closed[s]

(* wg.Wait, then p.metrics is published.                                    *)
JoinStages ==
    /\ main = "wait"
    /\ Joined
    /\ main' = "recorded"
    /\ UNCHANGED <<sourceVars, ctx, chanVars, workerVars, sinkBatch, delivered,
                   err, result, metrics, discarded>>

(* MetricsSink.Record, the return of runErr and the deferred cancel.        *)
Return ==
    /\ main = "recorded"
    /\ main' = "returned"
    /\ result' = IF err # 0 \/ RecordFails THEN "error" ELSE "nil"
    /\ ctx' = IF ctx = "live" THEN "derived" ELSE ctx
    /\ UNCHANGED <<sourceVars, chanVars, workerVars, sinkBatch, delivered, err,
                   metrics, discarded>>

-----------------------------------------------------------------------------
BatcherStep ==
    \/ BatcherTake \/ BatcherSourceClosed \/ BatcherTimeout
    \/ BatcherFlush \/ BatcherCancelled
WorkerStep(s, w) ==
    \/ WorkerRecv(s, w) \/ WorkerRangeEnds(s, w) \/ WorkerProcess(s, w)
    \/ WorkerFails(s, w) \/ WorkerSend(s, w) \/ WorkerCancelled(s, w)
MainStep ==
    \/ SinkRecv \/ SinkConsume \/ SinkRangeEnds \/ JoinStages \/ Return

AllExited ==
    /\ feeder = "done"
    /\ batcher = "done"
    /\ main = "returned"

Finished == AllExited /\ UNCHANGED vars

Next ==
    \/ CallerCancel
    \/ FeederExit
    \/ BatcherStep
    \/ \E s \in Stage : StageClose(s) \/ \E w \in Workers : WorkerStep(s, w)
    \/ MainStep
    \/ Finished

Spec == Init /\ [][Next]_vars

(* The Go scheduler runs every goroutine that can take a step, and an armed *)
(* timer fires.  Nothing obliges the caller to cancel.                      *)
GoroutineFairness ==
    /\ WF_vars(BatcherStep)
    /\ \A s \in Stage :
         /\ WF_vars(StageClose(s))
         /\ \A w \in Workers : WF_vars(WorkerStep(s, w))
    /\ WF_vars(MainStep)

FairSpec == Spec /\ GoroutineFairness /\ WF_vars(FeederExit)

(* A source that may stall for ever: only the timer still flushes the       *)
(* batcher.  (FairSpec's WF on BatcherStep would count taking an element as *)
(* progress of the batcher, and oblige the source to offer one.)            *)
StallingSpec ==
    /\ Spec
    /\ WF_vars(BatcherTimeout) /\ WF_vars(BatcherFlush)
    /\ WF_vars(BatcherCancelled)
    /\ \A s \in Stage :
         /\ WF_vars(StageClose(s))
         /\ \A w \in Workers : WF_vars(WorkerStep(s, w))
    /\ WF_vars(MainStep)

-----------------------------------------------------------------------------
(* Properties.                                                              *)

TypeOK ==
    /\ next \in 1..(NItems + 1)
    /\ feeder \in {"sending", "done"}
    /\ ctx \in {"live", "derived", "caller"}
    /\ batcher \in {"select", "flush", "flushLast", "done"}
    /\ batch \in SUBSET Elem
    /\ chan \in [0..NStages -> Seq(SUBSET Elem)]
    /\ closed \in [0..NStages -> BOOLEAN]
    /\ wpc \in [Stage -> [Workers -> {"recv", "process", "send", "done"}]]
    /\ held \in [Stage -> [Workers -> SUBSET Elem]]
    /\ main \in {"recv", "consume", "wait", "recorded", "returned"}
    /\ sinkBatch \in SUBSET Elem
    /\ delivered \in SUBSET Elem
    /\ err \in 0..Sink
    /\ result \in {"none", "nil", "error"}
    /\ metrics \in [1..Sink -> [in: Nat, out: Nat, dropped: Nat, errs: Nat]]
    /\ discarded \in SUBSET Elem

(* No goroutine sends on a closed channel, and none closes one twice, which *)
(* would panic: a channel is closed only once everyone who writes to it is  *)
(* done for good (batcher's defer close, runStage's wg.Wait before its own).*)
ClosedMeansWritersGone ==
    /\ closed[0] <=> batcher = "done"
    /\ \A s \in Stage : closed[s] => \A w \in Workers : wpc[s][w] = "done"

(* The places an element can be in, each with the promised elements that    *)
(* will come of what it holds.                                              *)
Places ==
    {<<"source", Fate(1, next..NItems)>>, <<"batcher", Fate(1, batch)>>,
     <<"sink", sinkBatch \ SinkSheds>>,
     <<"delivered", delivered>>, <<"discarded", discarded>>}
    \union (UNION {{<<"queued", c, i, Fate(c + 1, chan[c][i])>> :
                      i \in DOMAIN chan[c]} : c \in 0..NStages})
    \union {<<"held", s, w, Fate(IF wpc[s][w] = "send" THEN s + 1 ELSE s, held[s][w])>> :
               s \in Stage, w \in Workers}
Content(p) == p[Len(p)]

(* No element is ever in two places: whatever the interleaving, the sink    *)
(* sees an element at most once, and never one that was discarded.          *)
NothingTwice ==
    \A p, q \in Places : p # q => Content(p) \intersect Content(q) = {}

(* While nobody has cancelled the run, every promised element is somewhere: *)
(* none falls between the batcher, the channels, the workers and the sink.  *)
NothingLost ==
    ctx = "live" => UNION {Content(p) : p \in Places} = Promised

(* With one worker per stage, batches reach the sink in the source's order. *)
InOrder ==
    [][Cardinality(Workers) = 1 =>
         \A e \in delivered' \ delivered : \A f \in delivered : f < e]_vars

(* When a run that was not cut short publishes its metrics, ItemsOut of a   *)
(* stage is ItemsIn of the next one, the first stage saw the whole source,  *)
(* a Filter emitted or dropped all it took in, panics included, and the     *)
(* sink's ItemsOut is what it delivered if no Push failed.                  *)
MetricsAddUp ==
    (main = "recorded" /\ ctx = "live") =>
        /\ metrics[1].in = NItems
        /\ \A s \in Stage : metrics[s].out = metrics[s + 1].in
        /\ \A s \in Stage \intersect Filters :
             metrics[s].in = metrics[s].out + metrics[s].dropped
        /\ metrics[Sink].errs = 0 => metrics[Sink].out = Cardinality(delivered)

(* An error is reported, and the run halted, exactly when a stage or the    *)
(* sink failed under FailFast; SkipAndCount only counts.                    *)
ErrorVerdict ==
    /\ (err # 0) <=> (FailFast /\ \E s \in 1..Sink : metrics[s].errs > 0)
    /\ err # 0 => ctx # "live"
    /\ err # 0 => metrics[err].errs > 0

(* What execute hands to its caller is final: once it has returned, no      *)
(* goroutine of the run touches the accumulator, the metrics or runErr.     *)
ReturnIsFinal ==
    [][main = "returned" =>
         UNCHANGED <<delivered, discarded, metrics, err, result, wpc>>]_vars

(* execute keeps the promise of StreamRun.                                  *)
Promise == INSTANCE StreamRun WITH
    phase <- IF main = "returned" THEN "returned" ELSE "running",
    failed <- (\E s \in 1..Sink : metrics[s].errs > 0),
    halted <- (ctx # "live")
PromiseKept == Promise!Spec

(* execute returns, and nothing of the run outlives it: neither a full      *)
(* channel nor an early exit of a worker leaves a goroutine blocked.  Only  *)
(* the feeder, which watches the caller's context, may be left behind by a  *)
(* run that failed.                                                         *)
RunEnds ==
    <>[](main = "returned" /\ batcher = "done" /\ (err = 0 => feeder = "done"))

(* A cancelled call returns, even from a source that has fallen silent.     *)
CancelEnds == (ctx = "caller") ~> (main = "returned" /\ batcher = "done")

(* A partial batch does not stall with a low-volume source: the batcher     *)
(* hands it over, or abandons it to a cancelled context (batcher's comment).*)
PartialBatchMoves == (batch # {}) ~> (batch = {})
=============================================================================
