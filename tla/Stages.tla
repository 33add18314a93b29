------------------------------- MODULE Stages --------------------------------
(***************************************************************************)
(* The built-in stages at work: a pool of workers that share one If stage, *)
(* whose then-branch is Filter and Deduplicate and whose else-branch is    *)
(* Map and Generate, and a terminal sink, which is Reduce or Collect into  *)
(* a ChannelSink that somebody reads.                                      *)
(*                                                                         *)
(* An element is a number.  The channel between the pool and the sink is   *)
(* unbounded here; PipelineRun models how full and cancelled channels      *)
(* treat the workers.                                                      *)
(***************************************************************************)
EXTENDS Naturals, Sequences, FiniteSets, SequencesExt

CONSTANTS
    Elems,         \* the element type of the pipeline
    Batches,       \* Batches[b]: the sequence of elements of batch b
    Workers,       \* the pool
    ThenElems,     \* elements the predicate of If sends to the then-branch
    Rejected,      \* elements the predicate of Filter refuses
    Key,           \* Key[e]: the key of element e
    Unkeyed,       \* elements on which the key function panics
    Poison,        \* elements on which the function of Map panics
    Generated,     \* Generated[e]: what the function of Generate makes of e
    Caps,          \* capacities Deduplicate may be built with; 0 = unbounded
    Sinks,         \* sinks the run may end in: "reduce", "block", "drop"
    OutCap         \* capacity of ChannelSink.Out

ASSUME CapsAssumption == Caps \subseteq Nat /\ OutCap \in Nat \ {0}
ASSUME ElemsAssumption ==
    /\ Batches \in Seq(Seq(Elems))
    /\ \A e \in Elems : Generated[e] \in Seq(Elems)

VARIABLES
    cap,           \* dedupStage.cap
    sink,          \* the kind of the sink
    waiting,       \* batches no worker has received yet
    work,          \* work[w]: what worker w is doing
    mu,            \* the worker that holds dedupStage.mu, as a set
    order,         \* dedupStage.order: the keys seen, the latest first
    stat,          \* the merged counters of the If stage
    pending,       \* batches on their way to the sink
    push,          \* elements of the sink's batch not yet pushed
    out,           \* ChannelSink.Out
    read,          \* what its reader has received
    acc,           \* Reduce: the elements folded so far, all under one key
    sinkStat,      \* the counters of the sink
    shed,          \* ChannelSink.dropped
    cancelled,     \* the context is
    took,          \* history: the elements Consume was given, in order
    shedAt,        \* history: the positions in took of those that were shed,
    gaveUp,        \* history: and of those given up to the cancelled context
    log,           \* history: the keys looked at, oldest first
    passed         \* history: what the then-branch let through, of the batches
                   \* that came through

poolVars == <<waiting, work, mu, order, stat, log, passed>>
sinkHistory == <<took, shedAt, gaveUp>>
sinkVars == <<push, out, read, acc, sinkStat, shed, sinkHistory>>
vars == <<cap, sink, poolVars, pending, sinkVars, cancelled>>

Idle == [at |-> "idle"]
Gone == [at |-> "gone"]
NoCounts == [in |-> 0, out |-> 0, dropped |-> 0, errs |-> 0]

Init ==
    /\ cap \in Caps
    /\ sink \in Sinks
    /\ waiting = DOMAIN Batches
    /\ work = [w \in Workers |-> Idle]
    /\ mu = {}
    /\ order = <<>>
    /\ stat = NoCounts
    /\ pending = <<>>
    /\ push = <<>>
    /\ out = <<>>
    /\ read = <<>>
    /\ acc = <<>>
    /\ sinkStat = NoCounts
    /\ shed = 0
    /\ cancelled = FALSE
    /\ took = <<>>
    /\ shedAt = {}
    /\ gaveUp = {}
    /\ log = <<>>
    /\ passed = [b \in {} |-> <<>>]

-----------------------------------------------------------------------------
(* What Process returns.                                                    *)

Returned(o, dropped) == [out |-> o, dropped |-> dropped, err |-> FALSE]

(* safeProcess: a panic costs the batch, all of which counts as dropped.    *)
Panic(in) == [out |-> <<>>, dropped |-> Len(in), err |-> TRUE]

(* The elements a loop with append keeps: those of the set chosen.          *)
Kept(in, chosen) ==
    LET kept[i \in 0..Len(in)] ==
          IF i = 0 THEN <<>>
          ELSE IF in[i] \in chosen THEN Append(kept[i - 1], in[i]) ELSE kept[i - 1]
    IN kept[Len(in)]

Filter(in) ==
    LET kept == Kept(in, Elems \ Rejected)
    IN Returned(kept, Len(in) - Len(kept))

Map(in) == IF ToSet(in) \intersect Poison # {} THEN Panic(in) ELSE Returned(in, 0)

Generate(in) ==
    LET made[i \in 0..Len(in)] ==
          IF i = 0 THEN <<>> ELSE made[i - 1] \o Generated[in[i]]
    IN Returned(made[Len(in)], 0)

(* applyStages: the output of one stage is the input of the next, and the   *)
(* drops add up, as long as nothing fails.                                  *)
Threaded(r, next) ==
    IF r.err THEN r ELSE [next EXCEPT !.dropped = @ + r.dropped]

(* MoveToFront of a key that the list holds                                 *)
MovedToFront(ord, k) ==
    <<k>> \o RemoveAt(ord, CHOOSE i \in DOMAIN ord : ord[i] = k)

(* Faults: a repeat does not refresh its key; capacity 0 is not unbounded.  *)
LookedFIFO(ord, k) ==
    IF k \in ToSet(ord) THEN ord
    ELSE LET grown == <<k>> \o ord
         IN IF cap > 0 /\ Len(grown) > cap THEN Front(grown) ELSE grown
LookedBounded(ord, k) ==
    IF k \in ToSet(ord) THEN MovedToFront(ord, k)
    ELSE LET grown == <<k>> \o ord
         IN IF Len(grown) > cap THEN Front(grown) ELSE grown

(* The LRU after a look at key k: it comes first, and the last one goes if  *)
(* that makes one too many.                                                 *)
Looked(ord, k) ==
    IF k \in ToSet(ord) THEN MovedToFront(ord, k)
    ELSE LET grown == <<k>> \o ord
         IN IF cap > 0 /\ Len(grown) > cap THEN Front(grown) ELSE grown

(* The elements Deduplicate gets to before a panic, and the LRU, and what   *)
(* has been let through, after each of them.                                *)
Reached(in) ==
    {i \in DOMAIN in : \A j \in 1..i : in[j] \notin Unkeyed}
After(in) ==
    LET step[i \in 0..Cardinality(Reached(in))] ==
          IF i = 0 THEN [order |-> order, kept |-> <<>>]
          ELSE LET k == Key[in[i]]
               IN [order |-> Looked(step[i - 1].order, k),
                   kept |-> IF k \in ToSet(step[i - 1].order) THEN step[i - 1].kept
                            ELSE Append(step[i - 1].kept, in[i])]
    IN step[Cardinality(Reached(in))]
Deduplicate(in) ==
    IF Cardinality(Reached(in)) < Len(in) THEN Panic(in)
    ELSE Returned(After(in).kept, Len(in) - Len(After(in).kept))

-----------------------------------------------------------------------------
(* runStage's workers in ifStage.Process.                                   *)

(* The batch is split, and the then-branch gets as far as the mutex.        *)
Receive(w) ==
    /\ work[w].at = "idle"
    /\ \E b \in waiting :
         LET then == Kept(Batches[b], ThenElems)
             els == Kept(Batches[b], Elems \ ThenElems)
         IN /\ waiting' = waiting \ {b}
            /\ work' = [work EXCEPT ![w] =
                 [at |-> "lock", batch |-> b, then |-> Filter(then), els |-> els]]
    /\ UNCHANGED <<cap, sink, mu, order, stat, log, passed, pending, sinkVars, cancelled>>

Lock(w) ==
    /\ work[w].at = "lock"
    /\ mu = {}
    /\ mu' = {w}
    /\ work' = [work EXCEPT ![w].at = "then"]
    /\ UNCHANGED <<cap, sink, waiting, order, stat, log, passed, pending, sinkVars,
                   cancelled>>

Count(b, o, dropped, errs) ==
    stat' = [in |-> stat.in + Len(Batches[b]), out |-> stat.out + Len(o),
             dropped |-> stat.dropped + dropped, errs |-> stat.errs + errs]

(* Fault: a panic leaves the mutex locked (no defer).                       *)
UnlockedUnlessPanic(err) == IF err THEN mu ELSE {}
Unlocked(err) == {}

(* The then-branch ends, and with it the batch if it failed.                *)
Then(w) ==
    LET in == work[w].then.out
        b == work[w].batch
        r == Threaded(work[w].then, Deduplicate(in))
    IN
    /\ work[w].at = "then"
    /\ order' = After(in).order
    /\ log' = log \o [i \in Reached(in) |-> Key[in[i]]]
    /\ mu' = Unlocked(r.err)
    /\ IF r.err
       THEN work' = [work EXCEPT ![w] = Idle] /\ Count(b, <<>>, r.dropped, 1)
       ELSE work' = [work EXCEPT ![w].at = "else", ![w].then = r] /\ UNCHANGED stat
    /\ UNCHANGED <<cap, sink, waiting, passed, pending, sinkVars, cancelled>>

(* Fault: the drops of the then-branch are forgotten.                       *)
DroppedElse(then, els) == els.dropped
Dropped(then, els) == then.dropped + els.dropped

(* The else-branch, and the end of Process: the outputs are merged; if the  *)
(* else-branch failed, that of the then-branch is lost with it.  In a       *)
(* cancelled run the send to the sink may lose against ctx.Done: the batch  *)
(* is gone, though counted as put out, and the worker leaves the pool.      *)
Else(w) ==
    LET b == work[w].batch
        then == work[w].then
        els == LET m == Map(work[w].els) IN Threaded(m, Generate(m.out))
        o == IF els.err THEN <<>> ELSE then.out \o els.out
    IN
    /\ work[w].at = "else"
    /\ Count(b, o, Dropped(then, els), IF els.err THEN 1 ELSE 0)
    /\ \/ /\ pending' = IF o = <<>> THEN pending ELSE Append(pending, o)
          /\ work' = [work EXCEPT ![w] = Idle]
       \/ /\ cancelled
          /\ o # <<>>
          /\ work' = [work EXCEPT ![w] = Gone]
          /\ UNCHANGED pending
    /\ passed' = IF els.err THEN passed
                 ELSE [c \in DOMAIN passed \union {b} |-> IF c = b THEN then.out ELSE passed[c]]
    /\ UNCHANGED <<cap, sink, waiting, mu, order, log, sinkVars, cancelled>>

-----------------------------------------------------------------------------
(* drainSink, Consume and Push.                                             *)

Busy(w) == work[w].at \notin {"idle", "gone"}
PoolDone == waiting = {} /\ \A w \in Workers : ~Busy(w)

(* The context of the run is cancelled, at any time.                        *)
Cancel ==
    /\ ~cancelled
    /\ cancelled' = TRUE
    /\ UNCHANGED <<cap, sink, poolVars, pending, sinkVars>>

Tally(in, o, dropped, errs) ==
    sinkStat' = [in |-> sinkStat.in + in, out |-> sinkStat.out + o,
                 dropped |-> sinkStat.dropped + dropped, errs |-> sinkStat.errs + errs]

(* Reduce folds a whole batch, and never fails.                             *)
Fold ==
    /\ sink = "reduce"
    /\ pending # <<>>
    /\ acc' = acc \o Head(pending)
    /\ pending' = Tail(pending)
    /\ took' = took \o Head(pending)
    /\ Tally(Len(Head(pending)), Len(Head(pending)), 0, 0)
    /\ UNCHANGED <<cap, sink, poolVars, push, out, read, shed, shedAt, gaveUp,
                   cancelled>>

(* Collect takes the next batch; out is counted as if nothing were dropped, *)
(* and corrected by PushSheds.                                              *)
Collect ==
    /\ sink # "reduce"
    /\ push = <<>>
    /\ pending # <<>>
    /\ push' = Head(pending)
    /\ pending' = Tail(pending)
    /\ took' = took \o Head(pending)
    /\ Tally(Len(Head(pending)), Len(Head(pending)), 0, 0)
    /\ UNCHANGED <<cap, sink, poolVars, out, read, acc, shed, shedAt, gaveUp,
                   cancelled>>

(* The elements the sink is done with: push holds the last ones it took.    *)
Handled == Len(took) - Len(push)

PushSends ==
    /\ push # <<>>
    /\ Len(out) < OutCap
    /\ out' = Append(out, Head(push))
    /\ push' = Tail(push)
    /\ UNCHANGED <<cap, sink, poolVars, pending, read, acc, sinkStat, shed,
                   sinkHistory, cancelled>>

(* Fault: an element shed ends the batch (a return for the continue).       *)
NothingLeft == <<>>
PushLeft == Tail(push)

(* default: ErrDropped, counted by the sink and by Consume.                 *)
PushSheds ==
    /\ push # <<>>
    /\ sink = "drop"
    /\ Len(out) = OutCap
    /\ ~cancelled
    /\ shed' = shed + 1
    /\ sinkStat' = [sinkStat EXCEPT !.out = @ - 1, !.dropped = @ + 1]
    /\ push' = PushLeft
    /\ shedAt' = shedAt \union {Handled + 1}
    /\ UNCHANGED <<cap, sink, poolVars, pending, out, read, acc, took, gaveUp,
                   cancelled>>

(* case <-ctx.Done(): Consume gives the rest of the batch up.               *)
PushCancelled ==
    /\ push # <<>>
    /\ cancelled
    /\ Tally(0, 0, 0, 1)
    /\ push' = <<>>
    /\ gaveUp' = gaveUp \union (Handled + 1 .. Len(took))
    /\ UNCHANGED <<cap, sink, poolVars, pending, out, read, acc, shed, took, shedAt,
                   cancelled>>

(* The owner of Out drains it.                                              *)
Read ==
    /\ out # <<>>
    /\ read' = Append(read, Head(out))
    /\ out' = Tail(out)
    /\ UNCHANGED <<cap, sink, poolVars, pending, push, acc, sinkStat, shed,
                   sinkHistory, cancelled>>

-----------------------------------------------------------------------------
WorkerStep(w) == Receive(w) \/ Lock(w) \/ Then(w) \/ Else(w)
SinkStep == Fold \/ Collect \/ PushSends \/ PushSheds \/ PushCancelled

(* Nobody has anything left to do; after a cancel, batches that no worker   *)
(* has received may stay where they are.                                    *)
Ended ==
    /\ waiting = {} \/ cancelled
    /\ \A w \in Workers : ~Busy(w)
    /\ pending = <<>>
    /\ push = <<>>
Finished == Ended /\ out = <<>> /\ UNCHANGED vars

Next ==
    \/ \E w \in Workers : WorkerStep(w)
    \/ SinkStep \/ Cancel \/ Read \/ Finished

Spec == Init /\ [][Next]_vars

Obliged(w) == (~cancelled /\ Receive(w)) \/ Lock(w) \/ Then(w) \/ Else(w)

(* Goroutines run, and the reader of Out reads: with a blocking ChannelSink *)
(* it has to (comment of ChannelSink).  Batches need not keep coming once   *)
(* the run is cancelled.                                                    *)
FairSpec ==
    /\ Spec
    /\ \A w \in Workers : WF_vars(Obliged(w))
    /\ WF_vars(SinkStep)
    /\ WF_vars(Read)

-----------------------------------------------------------------------------
(* Properties.                                                              *)

(* The reference for Deduplicate: in a history, the keys looked at since    *)
(* the last look at k decide whether k is still remembered, and where.      *)
LastLook(k) ==
    CHOOSE i \in DOMAIN log : log[i] = k /\ \A j \in DOMAIN log : log[j] = k => j <= i
Since(k) == {log[j] : j \in LastLook(k)..Len(log)}

(* The stage remembers exactly the keys an LRU may, the most recent first:  *)
(* a look found k at place n of the list if n - 1 other keys came since.    *)
RemembersLikeLRU ==
    \A k \in ToSet(log) :
        LET n == Cardinality(Since(k))
        IN IF cap = 0 \/ n <= cap THEN n \in DOMAIN order /\ order[n] = k
           ELSE k \notin ToSet(order)

Looks(b) == {e \in ToSet(Batches[b]) : e \in ThenElems \ (Rejected \union Unkeyed)}
Passes(k) ==
    UNION {{<<b, i>> : i \in {j \in DOMAIN passed[b] : Key[passed[b][j]] = k}}
             : b \in DOMAIN passed}

(* With an unbounded set, and across all workers and batch orders, exactly  *)
(* one element of every key passes (the "exactness" of Process's comment).  *)
(* A key none of whose elements passes was learnt from a batch that failed, *)
(* there or in the other branch: what it has taught the stage stays.        *)
ExactlyOne ==
    (cap = 0 /\ PoolDone) =>
        \A b \in DOMAIN Batches : \A e \in Looks(b) :
            \/ Cardinality(Passes(Key[e])) = 1
            \/ /\ Passes(Key[e]) = {}
               /\ \E c \in DOMAIN Batches \ DOMAIN passed :
                    \E d \in Looks(c) : Key[d] = Key[e]

(* The counters of If add up over all batches and both branches: what came  *)
(* in, with what Generate made in the place of what it was given, went out  *)
(* or was dropped, except that a batch that failed in one branch may leave  *)
(* out what it had in the other; and every batch that has not come through  *)
(* is one error.                                                            *)
Given(b) == Kept(Batches[b], Elems \ ThenElems)
Made(b) == Generate(Given(b)).out
Total(seqs) == Cardinality(UNION {{b} \X DOMAIN seqs[b] : b \in DOMAIN seqs})
IfAccounts ==
    LET given == Total([b \in DOMAIN passed |-> Given(b)])
        made == Total([b \in DOMAIN passed |-> Made(b)])
    IN /\ stat.out + stat.dropped + given <= stat.in + made
       /\ stat.errs = 0 => stat.out + stat.dropped + given = stat.in + made
       /\ PoolDone => stat.errs = Cardinality(DOMAIN Batches \ DOMAIN passed)

(* The positions in took of what neither was shed nor given up nor waits to *)
(* be pushed, and the rank of one of them.                                  *)
Forwarded == {i \in 1..Handled : i \notin shedAt \union gaveUp}
Rank(i) == Cardinality({k \in Forwarded : k <= i})

(* The sink accounts for every element of every batch it took, in order:    *)
(* what was folded into the one accumulator, or was read or can be, is      *)
(* exactly what it took, one for one and in the same order, without the     *)
(* elements that were shed, were given up, or wait to be pushed; no element *)
(* has two of these fates; only a full DropOnFull sink sheds, once counted  *)
(* by itself and once by Consume; and only a cancelled context makes it     *)
(* give up the rest of a batch, as an error.                                *)
SinkAccounts ==
    LET there == acc \o read \o out
    IN /\ Len(there) = Cardinality(Forwarded)
       /\ \A i \in Forwarded : there[Rank(i)] = took[i]
       /\ Handled >= 0
       /\ \A j \in DOMAIN push : push[j] = took[Handled + j]
       /\ shedAt \union gaveUp \subseteq 1..Handled
       /\ shedAt \intersect gaveUp = {}
       /\ sinkStat.in = Len(took)
       /\ sinkStat.out = Len(took) - Cardinality(shedAt)
       /\ sinkStat.dropped = Cardinality(shedAt)
       /\ shed = Cardinality(shedAt)
       /\ shedAt # {} => sink = "drop"
       /\ gaveUp # {} => cancelled /\ sinkStat.errs > 0

(* No panic leaves the stage locked, and a sink that is read holds nobody   *)
(* up: the pool and the sink come to rest, with every batch that was taken, *)
(* all of them unless the run is cancelled, at its end.                     *)
EveryBatchEnds == <>[]Ended
=============================================================================
