------------------------ MODULE IngestWorker_proofs --------------------------
(* What holds of the ingest path for any number of requests, events and     *)
(* windows, any queue depth, and however the process is stopped.            *)
EXTENDS IngestWorker, SequenceTheorems, FiniteSetTheorems, TLAPS

-----------------------------------------------------------------------------
(* Types.                                                                   *)

(* Every action keeps a record's fields in Nat when it bumps one of them.   *)
CountersType == [submitted: Nat, accepted: Nat, dropped: Nat, persisted: Nat, windows: Nat]

LEMMA BumpType ==
    ASSUME counters \in CountersType,
           NEW c \in {"submitted", "accepted", "dropped", "persisted", "windows"},
           Bump(c)
    PROVE  counters' \in CountersType
  BY DEF CountersType, Bump

LEMMA CardinalityType ==
    ASSUME NEW S \in SUBSET Events
    PROVE  IsFiniteSet(S) /\ Cardinality(S) \in Nat
<1>1. IsFiniteSet(Events)
  BY EventsAssumption
<1>2. IsFiniteSet(S)
  BY <1>1, FS_Subset
<1> QED
  BY <1>2, FS_CardinalityType

LEMMA InitType == Init => TypeOK
<1> SUFFICES ASSUME Init PROVE TypeOK
  OBVIOUS
<1>1. /\ hpc \in [Handlers -> HandlerPc]
      /\ todo \in [Handlers -> SUBSET Events]
      /\ cur \in [Handlers -> SUBSET Events]
      /\ taken \in [Handlers -> SUBSET Events]
  BY RequestAssumption DEF Init, HandlerPc
<1>2. queue \in Seq(Events)
  BY DEF Init
<1>3. counters \in [submitted: Nat, accepted: Nat, dropped: Nat,
                     persisted: Nat, windows: Nat]
  BY DEF Init
<1> QED
  BY <1>1, <1>2, <1>3 DEF Init, TypeOK

LEMMA HandlerType ==
    ASSUME TypeOK, NEW h \in Handlers, Arrive(h) \/ HandlerStep(h)
    PROVE  TypeOK'
<1> USE DEF TypeOK, HandlerPc, queueVars, workerVars, tables, mainVars
<1> counters \in CountersType
  BY DEF CountersType
<1>1. CASE Arrive(h)
  BY <1>1 DEF Arrive
<1>2. CASE SubmitBegin(h)
  <2>1. counters' \in CountersType
    BY <1>2, BumpType DEF SubmitBegin
  <2> QED BY <1>2, <2>1 DEF SubmitBegin, CountersType
<1>3. CASE SubmitSend(h)
  BY <1>3 DEF SubmitSend
<1>4. CASE SubmitFull(h)
  BY <1>4 DEF SubmitFull
<1>5. CASE SubmitPanics(h)
  BY <1>5 DEF SubmitPanics
<1>6. CASE SubmitCount(h)
  <2>1. counters' \in CountersType
    BY <1>6, BumpType DEF SubmitCount
  <2> QED BY <1>6, <2>1 DEF SubmitCount, CountersType
<1>7. CASE Answer(h)
  BY <1>7 DEF Answer
<1> QED
  BY <1>1, <1>2, <1>3, <1>4, <1>5, <1>6, <1>7 DEF HandlerStep

LEMMA WorkerType ==
    ASSUME TypeOK, WorkerStep
    PROVE  TypeOK'
<1> USE DEF TypeOK, handlerVars, queueVars, tables, mainVars
<1> counters \in CountersType
  BY DEF CountersType
<1>1. CASE WorkerTake
  BY <1>1 DEF WorkerTake
<1>2. CASE WorkerForward
  BY <1>2 DEF WorkerForward, Fed
<1>3. CASE WindowTimeout \/ WorkerClosed \/ WorkerCancelled
  BY <1>3 DEF WindowTimeout, WorkerClosed, WorkerCancelled
<1>4. CASE RunReturnsEmpty
  BY <1>4 DEF RunReturnsEmpty, NextWindow
<1>5. CASE RunReturns
  BY <1>5 DEF RunReturns, Outcomes
<1>6. CASE InsertEvents
  <2>1. PICK ok \in {TRUE, ~WriteFails} :
          /\ events' = IF ok THEN events \union recs ELSE events
          /\ lost' = IF ok THEN lost ELSE lost \union recs
          /\ wkr' = AfterCommit(ok)
    BY <1>6 DEF InsertEvents
  <2> QED BY <1>6, <2>1 DEF InsertEvents, AfterCommit
<1>8. CASE CountPersisted
  <2>1. Cardinality(recs) \in Nat
    BY CardinalityType
  <2>2. counters' \in CountersType
    BY <1>8, <2>1 DEF CountPersisted, CountersType
  <2> QED BY <1>8, <2>2 DEF CountPersisted, CountersType
<1>7. CASE InsertStageMetrics
  <2>1. counters' \in CountersType
    BY <1>7, BumpType DEF InsertStageMetrics
  <2> QED BY <1>7, <2>1 DEF InsertStageMetrics, NextWindow, CountersType
<1> QED
  BY <1>1, <1>2, <1>3, <1>4, <1>5, <1>6, <1>7, <1>8 DEF WorkerStep

Stopping == MainStep \/ Signal \/ CloseAlone \/ ServerError \/ Exited

LEMMA StoppingType ==
    ASSUME TypeOK, Stopping
    PROVE  TypeOK'
  BY DEF TypeOK, Stopping, MainStep, Signal, CloseAlone, ServerError, Exited,
         ShutdownBegins, ShutdownReturns, ShutdownGivesUp, WaitReturns,
         handlerVars, queueVars, workerVars, tables, mainVars, vars

LEMMA TypeStep == TypeOK /\ [Next]_vars => TypeOK'
<1> SUFFICES ASSUME TypeOK, [Next]_vars PROVE TypeOK'
  OBVIOUS
<1>1. CASE UNCHANGED vars
  BY <1>1 DEF TypeOK, vars
<1>2. CASE Next
  BY <1>2, HandlerType, WorkerType, StoppingType DEF Next, Stopping
<1> QED
  BY <1>1, <1>2

(* Every reachable state is well typed: in particular, what a window writes *)
(* is a part of what it was fed.                                            *)
THEOREM TypeCorrect == Spec => []TypeOK
  BY InitType, TypeStep, PTL DEF Spec

-----------------------------------------------------------------------------
(* Close and the handlers.                                                  *)

(* Close comes when main has left the serving phase, which admits no new    *)
(* request; and with no handler at work unless Shutdown gave up.            *)
CloseInv ==
    /\ main = "serving" => ~qclosed
    /\ qclosed /\ ~expired => \A h \in Handlers : ~Busy(h)
    /\ ~expired => \A h \in Handlers : hpc[h] # "panicked"

LEMMA CloseHandler ==
    ASSUME TypeOK, CloseInv, NEW h \in Handlers, Arrive(h) \/ HandlerStep(h)
    PROVE  CloseInv'
<1> USE DEF TypeOK, HandlerPc, CloseInv, Busy, queueVars, mainVars
<1>1. CASE Arrive(h)
  BY <1>1 DEF Arrive
<1>2. CASE SubmitBegin(h)
  BY <1>2 DEF SubmitBegin
<1>3. CASE SubmitSend(h) \/ SubmitFull(h)
  BY <1>3 DEF SubmitSend, SubmitFull
<1>4. CASE SubmitPanics(h)
  BY <1>4 DEF SubmitPanics
<1>5. CASE SubmitCount(h) \/ Answer(h)
  BY <1>5 DEF SubmitCount, Answer
<1> QED
  BY <1>1, <1>2, <1>3, <1>4, <1>5 DEF HandlerStep

LEMMA WorkerFrame ==
    WorkerStep => UNCHANGED <<handlerVars, qclosed, entered, mainVars>>
<1> USE DEF queueVars
<1>1. InsertEvents => UNCHANGED <<handlerVars, qclosed, entered, mainVars>>
  BY DEF InsertEvents
<1>2. InsertStageMetrics => UNCHANGED <<handlerVars, qclosed, entered, mainVars>>
  BY DEF InsertStageMetrics
<1>3. CountPersisted => UNCHANGED <<handlerVars, qclosed, entered, mainVars>>
  BY DEF CountPersisted
<1> QED
  BY <1>1, <1>2, <1>3 DEF WorkerStep, WorkerTake, WorkerForward, WindowTimeout, WorkerClosed,
     WorkerCancelled, RunReturnsEmpty, RunReturns

LEMMA CloseStep == TypeOK /\ CloseInv /\ [Next]_vars => CloseInv'
<1> SUFFICES ASSUME TypeOK, CloseInv, [Next]_vars PROVE CloseInv'
  OBVIOUS
<1>1. CASE UNCHANGED vars
  BY <1>1 DEF CloseInv, Busy, vars
<1>2. CASE WorkerStep
  BY <1>2, WorkerFrame DEF CloseInv, Busy, handlerVars, mainVars
<1>3. CASE Stopping
  BY <1>3 DEF CloseInv, Busy, Stopping, MainStep, Signal, CloseAlone, ServerError,
              Exited, ShutdownBegins, ShutdownReturns, ShutdownGivesUp,
              WaitReturns, HandlersDone, handlerVars, queueVars, vars
<1> QED
  BY <1>1, <1>2, <1>3, CloseHandler DEF Next, Stopping

LEMMA CloseHolds == Spec => [](TypeOK /\ CloseInv)
<1>1. Init => CloseInv
  BY DEF Init, CloseInv, Busy
<1> QED
  BY <1>1, InitType, TypeStep, CloseStep, PTL DEF Spec

(* Close comes after the last Submit, unless Shutdown's time was up         *)
(* (main.go: "no more events submitted").                                   *)
THEOREM CloseAfterSubmit == Spec => []NoSubmitAfterClose
<1>1. CloseInv => NoSubmitAfterClose
  BY DEF CloseInv, NoSubmitAfterClose
<1> QED
  BY <1>1, CloseHolds, PTL

-----------------------------------------------------------------------------
(* Where an event is.                                                       *)

(* An event is submitted once: it is still to come, or has entered the      *)
(* channel, and what the worker has got has entered.                        *)
PlaceInv ==
    /\ \A h \in Handlers : /\ todo[h] \subseteq Request[h]
                           /\ cur[h] \subseteq Request[h]
                           /\ todo[h] \intersect cur[h] = {}
                           /\ todo[h] \intersect entered = {}
                           /\ \A e, f \in cur[h] : e = f
                           /\ hpc[h] = "offer" => cur[h] \intersect entered = {}
    /\ Queued \union moving \union inRun \union events \union lost \subseteq entered
    /\ wkr # "forward" => moving = {}
    /\ WrittenOnce

LEMMA QueuedAppend ==
    ASSUME TypeOK, NEW e \in Events, queue' = Append(queue, e)
    PROVE  /\ Queued' = Queued \union {e}
           /\ e \notin Queued /\ (\A i, j \in DOMAIN queue : queue[i] = queue[j] => i = j)
                => \A i, j \in DOMAIN queue' : queue'[i] = queue'[j] => i = j
<1>1. /\ queue \in Seq(Events)
      /\ DOMAIN queue = 1..Len(queue) /\ DOMAIN queue' = 1..(Len(queue) + 1)
      /\ Len(queue) \in Nat
      /\ \A i \in 1..Len(queue) : queue'[i] = queue[i]
      /\ queue'[Len(queue) + 1] = e
  BY DEF TypeOK
<1> QED
  BY <1>1 DEF Queued

LEMMA QueuedTail ==
    ASSUME TypeOK, queue # <<>>, queue' = Tail(queue)
    PROVE  /\ Head(queue) \in Queued
           /\ Queued' \subseteq Queued
           /\ Queued \subseteq Queued' \union {Head(queue)}
           /\ (\A i, j \in DOMAIN queue : queue[i] = queue[j] => i = j)
                => /\ \A i, j \in DOMAIN queue' : queue'[i] = queue'[j] => i = j
                   /\ Head(queue) \notin Queued'
<1>1. /\ Len(queue) \in Nat \ {0}
      /\ DOMAIN queue = 1..Len(queue) /\ DOMAIN queue' = 1..(Len(queue) - 1)
      /\ \A i \in 1..(Len(queue) - 1) : queue'[i] = queue[i + 1]
      /\ Head(queue) = queue[1]
  BY DEF TypeOK
<1>2. \A i \in 2..Len(queue) : i - 1 \in 1..(Len(queue) - 1) /\ queue[i] = queue'[i - 1]
  BY <1>1
<1>3. Queued' \subseteq Queued
  BY <1>1 DEF Queued
<1>4. \A i \in 1..Len(queue) : i = 1 \/ i \in 2..Len(queue)
  BY <1>1
<1>5. Queued \subseteq Queued' \union {Head(queue)}
  <2> SUFFICES ASSUME NEW i \in 1..Len(queue), queue[i] # Head(queue)
               PROVE  \E j \in DOMAIN queue' : queue[i] = queue'[j]
    BY <1>1 DEF Queued
  <2>1. i \in 2..Len(queue)
    BY <1>1, <1>4
  <2>2. i - 1 \in DOMAIN queue' /\ queue[i] = queue'[i - 1]
    BY <1>1, <1>2, <2>1
  <2> QED
    BY <2>2
<1>6. ASSUME \A i, j \in DOMAIN queue : queue[i] = queue[j] => i = j
      PROVE  /\ \A i, j \in DOMAIN queue' : queue'[i] = queue'[j] => i = j
             /\ Head(queue) \notin Queued'
  <2>1. \A i \in 1..(Len(queue) - 1) : i + 1 \in 1..Len(queue) /\ i + 1 # 1
    BY <1>1
  <2>2. \A i, j \in 1..(Len(queue) - 1) : queue'[i] = queue'[j] => i + 1 = j + 1
    BY <1>1, <1>6, <2>1
  <2>3. \A i \in 1..(Len(queue) - 1) : queue'[i] # Head(queue)
    BY <1>1, <1>6, <2>1
  <2> QED
    BY <1>1, <2>2, <2>3 DEF Queued
<1>7. Head(queue) \in Queued
  BY <1>1 DEF Queued
<1> QED
  BY <1>3, <1>5, <1>6, <1>7

LEMMA PlaceInit == Init => PlaceInv
<1> SUFFICES ASSUME Init PROVE PlaceInv
  OBVIOUS
<1>1. Queued = {}
  BY DEF Init, Queued
<1> QED
  BY <1>1, RequestAssumption DEF Init, PlaceInv, WrittenOnce

LEMMA PlaceSend ==
    ASSUME TypeOK, PlaceInv, NEW h \in Handlers, SubmitSend(h)
    PROVE  PlaceInv'
<1>1. PICK e \in cur[h] : queue' = Append(queue, e)
  BY DEF SubmitSend
<1>2. e \in Events /\ cur[h] = {e} /\ e \notin entered /\ hpc[h] = "offer"
  BY DEF SubmitSend, TypeOK, PlaceInv
<1>3. e \notin Queued \union moving \union inRun \union events \union lost
  BY <1>2 DEF PlaceInv
<1>4. /\ Queued' = Queued \union {e}
      /\ \A i, j \in DOMAIN queue' : queue'[i] = queue'[j] => i = j
  BY <1>1, <1>2, <1>3, QueuedAppend DEF PlaceInv, WrittenOnce
<1>5. UNCHANGED <<todo, cur, wkr, moving, inRun, events, lost>>
      /\ entered' = entered \union {e}
  BY <1>2 DEF SubmitSend, workerVars, tables
<1>6. WrittenOnce'
  BY <1>3, <1>4, <1>5 DEF WrittenOnce, PlaceInv
<1>7. \A g \in Handlers : e \notin todo[g] /\ (g # h => e \notin cur[g])
  BY <1>2, RequestAssumption DEF PlaceInv
<1>8. hpc' = [hpc EXCEPT ![h] = "accepted"]
  BY DEF SubmitSend
<1>9. \A g \in Handlers : hpc'[g] = "offer" => g # h /\ hpc[g] = "offer"
  BY <1>8 DEF TypeOK
<1>10. Queued' \union moving' \union inRun' \union events' \union lost' \subseteq entered'
  BY <1>4, <1>5 DEF PlaceInv
<1> QED
  BY <1>5, <1>6, <1>7, <1>9, <1>10 DEF PlaceInv

LEMMA PlaceHandler ==
    ASSUME TypeOK, PlaceInv, NEW h \in Handlers, Arrive(h) \/ HandlerStep(h)
    PROVE  PlaceInv'
<1>1. CASE SubmitSend(h)
  BY <1>1, PlaceSend
<1>2. CASE SubmitBegin(h)
  <2>1. PICK e \in todo[h] : /\ cur' = [cur EXCEPT ![h] = {e}]
                             /\ todo' = [todo EXCEPT ![h] = @ \ {e}]
    BY <1>2 DEF SubmitBegin
  <2>2. UNCHANGED <<queue, entered, moving, inRun, events, lost, wkr>>
    BY <1>2 DEF SubmitBegin, queueVars, workerVars, tables
  <2>3. hpc' = [hpc EXCEPT ![h] = "offer"]
    BY <1>2 DEF SubmitBegin
  <2> QED
    BY <2>1, <2>2, <2>3 DEF PlaceInv, WrittenOnce, Queued, TypeOK
<1>3. CASE Arrive(h)
  BY <1>3 DEF Arrive, PlaceInv, WrittenOnce, Queued, TypeOK, queueVars, workerVars,
              tables
<1>4. CASE SubmitFull(h) \/ SubmitPanics(h)
  BY <1>4 DEF SubmitFull, SubmitPanics, PlaceInv, WrittenOnce, Queued, TypeOK,
              queueVars, workerVars, tables
<1>5. CASE SubmitCount(h)
  BY <1>5 DEF SubmitCount, PlaceInv, WrittenOnce, Queued, TypeOK, queueVars,
              workerVars, tables
<1>6. CASE Answer(h)
  BY <1>6 DEF Answer, PlaceInv, WrittenOnce, Queued, TypeOK, queueVars, workerVars,
              tables
<1> QED
  BY <1>1, <1>2, <1>3, <1>4, <1>5, <1>6 DEF HandlerStep

(* What the worker does to the channel, its window and the tables is enough *)
(* for PlaceInv: it never touches the handlers' part of it.                 *)
LEMMA PlaceWorker ==
    ASSUME TypeOK, PlaceInv, WorkerStep
    PROVE  PlaceInv'
<1>1. UNCHANGED <<hpc, todo, cur, entered>>
  BY WorkerFrame DEF handlerVars
<1> USE <1>1 DEF PlaceInv, WrittenOnce, queueVars, tables
<1>2. CASE WorkerTake
  <2>1. /\ Head(queue) \in Queued
        /\ Queued' \subseteq Queued
        /\ Head(queue) \notin Queued'
        /\ \A i, j \in DOMAIN queue' : queue'[i] = queue'[j] => i = j
    BY <1>2, QueuedTail DEF WorkerTake
  <2>2. moving = {} /\ moving' = {Head(queue)} /\ wkr = "feed" /\ wkr' = "forward"
        /\ UNCHANGED <<inRun, events, lost>>
    BY <1>2 DEF WorkerTake
  <2> QED
    BY <2>1, <2>2
<1>3. CASE WorkerForward
  BY <1>3 DEF WorkerForward, Fed, Queued
<1>4. CASE WindowTimeout \/ WorkerClosed
  BY <1>4 DEF WindowTimeout, WorkerClosed, Queued
<1>5. CASE WorkerCancelled
  BY <1>5 DEF WorkerCancelled, Queued
<1>6. CASE RunReturnsEmpty
  BY <1>6 DEF RunReturnsEmpty, NextWindow, Queued
<1>7. CASE RunReturns
  BY <1>7 DEF RunReturns, Queued
<1>8. CASE InsertEvents
  <2>1. /\ wkr = "insert" /\ wkr' \in {"count", "metrics"}
        /\ UNCHANGED <<queue, moving, inRun>>
        /\ events' \subseteq events \union recs
        /\ lost' \subseteq lost \union recs
    BY <1>8 DEF InsertEvents, AfterCommit
  <2>2. recs \subseteq inRun
    BY DEF TypeOK
  <2> QED
    BY <2>1, <2>2 DEF Queued
<1>9. CASE InsertStageMetrics
  BY <1>9 DEF InsertStageMetrics, NextWindow, Queued
<1>10. CASE CountPersisted
  BY <1>10 DEF CountPersisted, Queued
<1> QED
  BY <1>2, <1>3, <1>4, <1>5, <1>6, <1>7, <1>8, <1>9, <1>10 DEF WorkerStep

LEMMA StoppingFrame ==
    Stopping => UNCHANGED <<handlerVars, queue, entered, counters, workerVars, tables>>
  BY DEF Stopping, MainStep, Signal, CloseAlone, ServerError, Exited, ShutdownBegins,
         ShutdownReturns, ShutdownGivesUp, WaitReturns, queueVars, handlerVars,
         workerVars, tables, vars

LEMMA PlaceStep == TypeOK /\ PlaceInv /\ [Next]_vars => PlaceInv'
<1> SUFFICES ASSUME TypeOK, PlaceInv, [Next]_vars PROVE PlaceInv'
  OBVIOUS
<1>1. CASE UNCHANGED vars
  BY <1>1 DEF PlaceInv, WrittenOnce, Queued, vars
<1>2. CASE Stopping
  BY <1>2, StoppingFrame DEF PlaceInv, WrittenOnce, Queued, handlerVars, workerVars,
                             tables
<1> QED
  BY <1>1, <1>2, PlaceHandler, PlaceWorker DEF Next, Stopping

LEMMA PlaceHolds == Spec => [](TypeOK /\ PlaceInv)
  BY PlaceInit, InitType, TypeStep, PlaceStep, PTL DEF Spec

(* No event is queued twice, or queued again after its window, and no       *)
(* window is flushed twice: whatever the interleaving of requests, worker   *)
(* and shutdown, a row is written once.                                     *)
THEOREM RowsWrittenOnce == Spec => []WrittenOnce
<1>1. PlaceInv => WrittenOnce
  BY DEF PlaceInv
<1> QED
  BY <1>1, PlaceHolds, PTL

-----------------------------------------------------------------------------
(* Nothing is lost, and Close drains.                                       *)

Kept(e, R) == \E r \in R : Key[r] = Key[e]

(* While the context is live: an admitted event that entered is on its way  *)
(* or settled; a returned run kept a record of each admitted event of its   *)
(* window; those records are in a table by the time the window ends; and    *)
(* the stream is finished only when the closed channel is empty.            *)
FlowInv ==
    /\ NothingLost
    /\ wkr \in {"insert", "count", "metrics"} /\ ~stop =>
         \A e \in inRun \intersect Admitted : Kept(e, recs)
    /\ wkr \in {"count", "metrics"} => recs \subseteq events \union lost
    /\ finished /\ ~stop => qclosed /\ queue = <<>>
    /\ wkr = "exited" => finished /\ inRun = {}

LEMMA FlowInit == Init => FlowInv
  BY DEF Init, FlowInv, NothingLost

LEMMA FlowHandler ==
    ASSUME TypeOK, PlaceInv, FlowInv, NEW h \in Handlers, Arrive(h) \/ HandlerStep(h)
    PROVE  FlowInv'
<1>1. UNCHANGED <<qclosed, wkr, moving, inRun, recs, finished, events, lost, stop>>
  BY DEF Arrive, HandlerStep, SubmitBegin, SubmitSend, SubmitFull, SubmitPanics,
         SubmitCount, Answer, queueVars, workerVars, tables, mainVars
<1>2. CASE SubmitSend(h)
  <2>1. PICK e \in cur[h] : queue' = Append(queue, e)
    BY <1>2 DEF SubmitSend
  <2>2. Queued' = Queued \union {e}
    BY <2>1, QueuedAppend DEF TypeOK
  <2>3. ~qclosed /\ entered' = entered \union {e}
    BY <1>2 DEF SubmitSend, PlaceInv
  <2>4. ~stop => \A f \in entered' \intersect Admitted : f \in OnTheWay' \/ Settled(f)'
    BY <1>1, <2>2, <2>3 DEF FlowInv, NothingLost, OnTheWay, Settled
  <2> QED
    BY <1>1, <2>3, <2>4 DEF FlowInv, NothingLost, Kept
<1>3. CASE ~SubmitSend(h)
  <2>1. UNCHANGED <<queue, entered>>
    BY <1>3 DEF Arrive, HandlerStep, SubmitBegin, SubmitFull, SubmitPanics,
                SubmitCount, Answer, queueVars
  <2> QED
    BY <1>1, <2>1 DEF FlowInv, NothingLost, OnTheWay, Settled, Kept, Queued
<1> QED
  BY <1>2, <1>3

LEMMA FlowWorker ==
    ASSUME TypeOK, PlaceInv, FlowInv, WorkerStep
    PROVE  FlowInv'
<1>1. UNCHANGED <<entered, qclosed, stop>>
  BY WorkerFrame DEF mainVars
<1> USE <1>1 DEF FlowInv, NothingLost, OnTheWay, Settled, Kept
<1>2. CASE WorkerTake
  <2>1. Queued \subseteq Queued' \union {Head(queue)}
    BY <1>2, QueuedTail DEF WorkerTake
  <2>2. /\ wkr = "feed" /\ wkr' = "forward" /\ moving' = {Head(queue)}
        /\ queue # <<>>
        /\ UNCHANGED <<inRun, recs, finished, events, lost>>
    BY <1>2 DEF WorkerTake, tables
  <2>3. moving = {}
    BY <2>2 DEF PlaceInv
  <2> QED
    BY <2>1, <2>2, <2>3
<1>3. CASE WorkerForward
  <2>1. /\ wkr = "forward" /\ wkr' \in {"feed", "join"}
        /\ inRun' = inRun \union moving
        /\ UNCHANGED <<queue, finished, events, lost>>
    BY <1>3 DEF WorkerForward, Fed, queueVars, tables
  <2> QED
    BY <2>1 DEF Queued
<1>4. CASE WindowTimeout
  BY <1>4 DEF WindowTimeout, Queued, queueVars, tables
<1>5. CASE WorkerClosed
  BY <1>5 DEF WorkerClosed, Drained, Queued, queueVars, tables
<1>6. CASE WorkerCancelled
  BY <1>6 DEF WorkerCancelled
<1>7. CASE RunReturnsEmpty
  <2>1. stop \/ inRun \intersect Admitted = {}
    BY <1>7 DEF RunReturnsEmpty, Outcomes
  <2>2. /\ wkr' = IF finished THEN "exited" ELSE "feed"
        /\ inRun' = {}
        /\ UNCHANGED <<queue, moving, finished, events, lost>>
    BY <1>7 DEF RunReturnsEmpty, NextWindow, queueVars, tables
  <2> QED
    BY <2>1, <2>2 DEF Queued
<1>8. CASE RunReturns
  <2>1. /\ wkr = "join" /\ wkr' = "insert"
        /\ recs' \in Outcomes(inRun)
        /\ UNCHANGED <<queue, moving, inRun, finished, events, lost>>
    BY <1>8 DEF RunReturns, queueVars, tables
  <2>2. stop \/ \A e \in inRun \intersect Admitted : \E r \in recs' : Key[r] = Key[e]
    BY <2>1 DEF Outcomes
  <2> QED
    BY <2>1, <2>2 DEF Queued
<1>9. CASE InsertEvents
  <2>1. /\ wkr = "insert" /\ wkr' \in {"count", "metrics"}
        /\ UNCHANGED <<queue, moving, inRun, recs, finished>>
    BY <1>9 DEF InsertEvents, AfterCommit, queueVars
  <2>2. PICK ok \in {TRUE, ~WriteFails} :
          /\ events' = IF ok THEN events \union recs ELSE events
          /\ lost' = IF ok THEN lost ELSE lost \union recs
    BY <1>9 DEF InsertEvents
  <2>3. events' \union lost' = events \union lost \union recs
    <3>1. ok \in BOOLEAN
      BY ModeAssumption
    <3> QED
      BY <2>2, <3>1
  <2> QED
    BY <2>1, <2>3 DEF Queued
<1>10. CASE InsertStageMetrics
  <2>1. /\ wkr = "metrics"
        /\ wkr' = IF finished THEN "exited" ELSE "feed"
        /\ inRun' = {}
        /\ UNCHANGED <<queue, moving, finished, events, lost>>
    BY <1>10 DEF InsertStageMetrics, NextWindow, queueVars, tables
  <2>2. ~stop => \A e \in inRun \intersect Admitted : Settled(e)
    BY <2>1
  <2> QED
    BY <2>1, <2>2 DEF Queued
<1>11. CASE CountPersisted
  <2>1. /\ wkr = "count" /\ wkr' = "metrics"
        /\ UNCHANGED <<queue, moving, inRun, recs, finished, events, lost>>
    BY <1>11 DEF CountPersisted, queueVars, tables
  <2> QED
    BY <2>1 DEF Queued
<1> QED
  BY <1>2, <1>3, <1>4, <1>5, <1>6, <1>7, <1>8, <1>9, <1>10, <1>11 DEF WorkerStep

LEMMA FlowStep == TypeOK /\ PlaceInv /\ FlowInv /\ [Next]_vars => FlowInv'
<1> SUFFICES ASSUME TypeOK, PlaceInv, FlowInv, [Next]_vars PROVE FlowInv'
  OBVIOUS
<1> USE DEF FlowInv, NothingLost, OnTheWay, Settled, Kept, Queued
<1>1. CASE UNCHANGED vars
  BY <1>1 DEF vars
<1>2. CASE Stopping
  <2>1. (stop => stop') /\ (qclosed => qclosed')
    BY <1>2 DEF Stopping, MainStep, Signal, CloseAlone, ServerError, Exited,
                ShutdownBegins, ShutdownReturns, ShutdownGivesUp, WaitReturns,
                queueVars, vars, TypeOK
  <2> QED
    BY <1>2, <2>1, StoppingFrame DEF workerVars, tables, TypeOK
<1> QED
  BY <1>1, <1>2, FlowHandler, FlowWorker DEF Next, Stopping

LEMMA FlowHolds == Spec => [](TypeOK /\ PlaceInv /\ FlowInv)
  BY FlowInit, PlaceInit, InitType, TypeStep, PlaceStep, FlowStep, PTL DEF Spec

(* Until the root context is cancelled, no admitted event is lost between   *)
(* the channel, the windows and the flushes.                                *)
THEOREM NoEventLost == Spec => []NothingLost
<1>1. FlowInv => NothingLost
  BY DEF FlowInv
<1> QED
  BY <1>1, FlowHolds, PTL

(* A worker stopped by Close alone, whose context nobody has cancelled, has *)
(* flushed everything the channel ever took when Run returns.               *)
THEOREM CloseDrains == Spec => []DrainedByClose
<1>1. TypeOK /\ PlaceInv /\ FlowInv => DrainedByClose
  <2> SUFFICES ASSUME TypeOK, PlaceInv, FlowInv, ~stop, wkr = "exited"
               PROVE  \A e \in entered \intersect Admitted : Settled(e)
    BY DEF DrainedByClose
  <2>1. Queued = {} /\ moving = {} /\ inRun = {}
    BY DEF PlaceInv, FlowInv, Queued
  <2> QED
    BY <2>1 DEF FlowInv, NothingLost, OnTheWay
<1> QED
  BY <1>1, FlowHolds, PTL

-----------------------------------------------------------------------------
(* The counters.                                                            *)

Submitting == {h \in Handlers : hpc[h] \in {"offer", "accepted", "refused", "panicked"}}
Sent == {h \in Handlers : hpc[h] = "accepted"}

LEMMA CountSets ==
    ASSUME TypeOK
    PROVE  /\ IsFiniteSet(Submitting) /\ Cardinality(Submitting) \in Nat
           /\ IsFiniteSet(Sent) /\ Cardinality(Sent) \in Nat
           /\ IsFiniteSet(entered) /\ Cardinality(entered) \in Nat
           /\ IsFiniteSet(events) /\ Cardinality(events) \in Nat
<1>1. IsFiniteSet(Handlers) /\ Submitting \in SUBSET Handlers /\ Sent \in SUBSET Handlers
  BY RequestAssumption DEF Submitting, Sent
<1>2. IsFiniteSet(Submitting) /\ IsFiniteSet(Sent)
  BY <1>1, FS_Subset
<1>3. entered \in SUBSET Events /\ events \in SUBSET Events
  BY DEF TypeOK
<1> QED
  BY <1>2, <1>3, FS_CardinalityType, CardinalityType

LEMMA CountHandler ==
    ASSUME TypeOK, PlaceInv, CountersAddUp,
           NEW h \in Handlers, Arrive(h) \/ HandlerStep(h)
    PROVE  CountersAddUp'
<1> USE DEF TypeOK, HandlerPc
<1>0. /\ counters.submitted = counters.accepted + counters.dropped + Cardinality(Submitting)
      /\ Cardinality(entered) = counters.accepted + Cardinality(Sent)
      /\ counters.persisted + Uncounted = Cardinality(events)
  BY DEF CountersAddUp, Submitting, Sent
<1>1. SUFFICES
        /\ counters'.submitted = counters'.accepted + counters'.dropped + Cardinality(Submitting')
        /\ Cardinality(entered') = counters'.accepted + Cardinality(Sent')
        /\ counters'.persisted + Uncounted' = Cardinality(events')
  BY DEF CountersAddUp, Submitting, Sent
<1>2. UNCHANGED <<events, Uncounted>>
  BY DEF Arrive, HandlerStep, SubmitBegin, SubmitSend, SubmitFull, SubmitPanics,
         SubmitCount, Answer, tables, workerVars, Uncounted
<1>3. CASE Arrive(h) \/ Answer(h)
  <2>1. UNCHANGED <<counters, entered>>
    BY <1>3 DEF Arrive, Answer, queueVars
  <2>2. Submitting' = Submitting /\ Sent' = Sent
    BY <1>3 DEF Arrive, Answer, Submitting, Sent
  <2> QED
    BY <1>0, <1>2, <2>1, <2>2
<1>4. CASE SubmitBegin(h)
  <2>1. hpc[h] = "next" /\ hpc' = [hpc EXCEPT ![h] = "offer"] /\ UNCHANGED entered
        /\ counters' = [counters EXCEPT !.submitted = @ + 1]
    BY <1>4 DEF SubmitBegin, queueVars, Bump
  <2>2. Submitting' = Submitting \union {h} /\ h \notin Submitting /\ Sent' = Sent
    BY <2>1 DEF Submitting, Sent
  <2>3. Cardinality(Submitting') = Cardinality(Submitting) + 1
    BY <2>2, CountSets, FS_AddElement
  <2> QED
    BY <1>0, <1>2, <2>1, <2>2, <2>3, CountSets
<1>5. CASE SubmitSend(h)
  <2>1. PICK e \in cur[h] : queue' = Append(queue, e)
    BY <1>5 DEF SubmitSend
  <2>2. entered' = entered \union {e} /\ e \notin entered
    BY <1>5, <2>1 DEF SubmitSend, PlaceInv
  <2>3. hpc[h] = "offer" /\ hpc' = [hpc EXCEPT ![h] = "accepted"] /\ UNCHANGED counters
    BY <1>5 DEF SubmitSend
  <2>4. Submitting' = Submitting /\ Sent' = Sent \union {h} /\ h \notin Sent
    BY <2>3 DEF Submitting, Sent
  <2>5. /\ Cardinality(Sent') = Cardinality(Sent) + 1
        /\ Cardinality(entered') = Cardinality(entered) + 1
    BY <2>2, <2>4, CountSets, FS_AddElement
  <2> QED
    BY <1>0, <1>2, <2>3, <2>4, <2>5, CountSets
<1>6. CASE SubmitFull(h) \/ SubmitPanics(h)
  <2>1. UNCHANGED <<counters, entered>>
    BY <1>6 DEF SubmitFull, SubmitPanics, queueVars
  <2>2. Submitting' = Submitting /\ Sent' = Sent
    BY <1>6 DEF SubmitFull, SubmitPanics, Submitting, Sent
  <2> QED
    BY <1>0, <1>2, <2>1, <2>2
<1>7. CASE SubmitCount(h)
  <2>1. /\ hpc[h] \in {"accepted", "refused"} /\ hpc' = [hpc EXCEPT ![h] = "next"]
        /\ UNCHANGED entered
    BY <1>7 DEF SubmitCount, queueVars
  <2>2. Submitting' = Submitting \ {h} /\ h \in Submitting /\ Sent' = Sent \ {h}
    BY <2>1 DEF Submitting, Sent
  <2>3. Cardinality(Submitting') = Cardinality(Submitting) - 1
    BY <2>2, CountSets, FS_RemoveElement
  <2>4. CASE hpc[h] = "accepted"
    <3>1. h \in Sent
      BY <2>4 DEF Sent
    <3>2. Cardinality(Sent') = Cardinality(Sent) - 1
      BY <2>2, <3>1, CountSets, FS_RemoveElement
    <3>3. counters' = [counters EXCEPT !.accepted = @ + 1]
      BY <1>7, <2>4 DEF SubmitCount, Bump
    <3>4. counters'.persisted + Uncounted' = Cardinality(events')
      BY <1>0, <1>2, <3>3
    <3>5. /\ counters'.submitted = counters.submitted
          /\ counters'.accepted = counters.accepted + 1
          /\ counters'.dropped = counters.dropped
      BY <3>3
    <3>6. counters'.submitted = counters'.accepted + counters'.dropped + Cardinality(Submitting')
      BY <1>0, <2>3, <3>5, CountSets
    <3>7. Cardinality(entered') = counters'.accepted + Cardinality(Sent')
      BY <1>0, <2>1, <3>2, <3>5, CountSets
    <3> QED
      BY <3>4, <3>6, <3>7
  <2>5. CASE hpc[h] = "refused"
    <3>1. Sent' = Sent
      BY <2>2, <2>5 DEF Sent
    <3>2. counters' = [counters EXCEPT !.dropped = @ + 1]
      BY <1>7, <2>5 DEF SubmitCount, Bump
    <3> QED
      BY <1>0, <1>2, <2>1, <2>3, <3>1, <3>2, CountSets
  <2> QED
    BY <2>1, <2>4, <2>5
<1> QED
  BY <1>3, <1>4, <1>5, <1>6, <1>7 DEF HandlerStep

LEMMA CountWorker ==
    ASSUME TypeOK, PlaceInv, CountersAddUp, WorkerStep
    PROVE  CountersAddUp'
<1> USE DEF CountersAddUp, TypeOK
<1>1. UNCHANGED <<hpc, entered>>
  BY WorkerFrame DEF handlerVars
<1>2. CASE InsertEvents
  <2>1. PICK ok \in {TRUE, ~WriteFails} :
          /\ events' = IF ok THEN events \union recs ELSE events
          /\ wkr' = AfterCommit(ok)
    BY <1>2 DEF InsertEvents
  <2>2. wkr = "insert" /\ UNCHANGED <<counters, recs>>
    BY <1>2 DEF InsertEvents
  <2>3. recs \in SUBSET Events /\ recs \intersect events = {}
    BY <2>2 DEF PlaceInv, WrittenOnce
  <2>4. /\ IsFiniteSet(recs) /\ Cardinality(recs) \in Nat
        /\ IsFiniteSet(events) /\ Cardinality(events) \in Nat
    BY <2>3, CountSets, CardinalityType
  <2>5. Cardinality(events \union recs) = Cardinality(events) + Cardinality(recs)
    <3>1. Cardinality(events \intersect recs) = 0
      <4>1. events \intersect recs = {}
        BY <2>3
      <4> QED
        BY <4>1, FS_EmptySet
    <3>2. Cardinality(events \union recs)
            = Cardinality(events) + Cardinality(recs) - Cardinality(events \intersect recs)
      BY <2>4, FS_Union
    <3> QED
      BY <2>4, <3>1, <3>2
  <2>6. counters.persisted = Cardinality(events)
    BY <2>2 DEF Uncounted
  <2>7. counters'.persisted + Uncounted' = Cardinality(events')
    <3>1. CASE ok
      <4>1. Uncounted' = Cardinality(recs) /\ events' = events \union recs
        BY <2>1, <2>2, <3>1 DEF AfterCommit, Uncounted
      <4> QED
        BY <2>2, <2>4, <2>5, <2>6, <4>1
    <3>2. CASE ~ok
      <4>1. Uncounted' = 0 /\ events' = events
        BY <2>1, <3>2 DEF AfterCommit, Uncounted
      <4> QED
        BY <2>2, <2>4, <2>6, <4>1
    <3> QED
      BY <3>1, <3>2
  <2> QED
    BY <1>1, <2>2, <2>7
<1>3. CASE CountPersisted
  <2>1. /\ wkr = "count" /\ wkr' = "metrics"
        /\ counters' = [counters EXCEPT !.persisted = @ + Cardinality(recs)]
        /\ UNCHANGED events
    BY <1>3 DEF CountPersisted, tables
  <2>2. Uncounted = Cardinality(recs) /\ Uncounted' = 0
    BY <2>1 DEF Uncounted
  <2>3. Cardinality(recs) \in Nat
    BY CardinalityType
  <2>4. counters'.persisted + Uncounted' = Cardinality(events')
    BY <2>1, <2>2, <2>3
  <2>5. /\ counters'.submitted = counters.submitted /\ counters'.accepted = counters.accepted
        /\ counters'.dropped = counters.dropped
    BY <2>1
  <2> QED
    BY <1>1, <2>4, <2>5
<1>4. CASE InsertStageMetrics
  <2>1. /\ counters' = [counters EXCEPT !.windows = @ + 1]
        /\ UNCHANGED events /\ Uncounted = 0 /\ Uncounted' = 0
    BY <1>4 DEF InsertStageMetrics, NextWindow, Bump, tables, Uncounted
  <2> QED
    BY <1>1, <2>1
<1>5. CASE ~InsertEvents /\ ~CountPersisted /\ ~InsertStageMetrics
  <2>1. UNCHANGED <<counters, events>>
    BY <1>5 DEF WorkerStep, WorkerTake, WorkerForward, WindowTimeout, WorkerClosed,
                WorkerCancelled, RunReturnsEmpty, RunReturns, tables
  <2>2. Uncounted = 0 /\ Uncounted' = 0
    BY <1>5 DEF WorkerStep, WorkerTake, WorkerForward, WindowTimeout, WorkerClosed,
                WorkerCancelled, RunReturnsEmpty, RunReturns, NextWindow, Uncounted
  <2> QED
    BY <1>1, <2>1, <2>2
<1> QED
  BY <1>2, <1>3, <1>4, <1>5

(* The counters of /metrics agree with each other up to the Submit calls    *)
(* that are between two Adds, and persisted with the events table up to the *)
(* one window that is between its commit and its Add: a commit and an Add   *)
(* are two steps, and a scrape may come between them.                       *)
THEOREM CountersAgree == Spec => []CountersAddUp
<1>1. Init => CountersAddUp
  <2> SUFFICES ASSUME Init PROVE CountersAddUp
    OBVIOUS
  <2>1. /\ {h \in Handlers : hpc[h] \in {"offer", "accepted", "refused", "panicked"}} = {}
        /\ {h \in Handlers : hpc[h] = "accepted"} = {}
    BY DEF Init
  <2>2. Cardinality({}) = 0
    BY FS_EmptySet
  <2>3. entered = {} /\ events = {} /\ Uncounted = 0
    BY DEF Init, Uncounted
  <2>4. /\ counters.submitted = 0 /\ counters.accepted = 0
        /\ counters.dropped = 0 /\ counters.persisted = 0
    BY DEF Init
  <2> QED
    BY <2>1, <2>2, <2>3, <2>4 DEF CountersAddUp
<1>2. TypeOK /\ PlaceInv /\ CountersAddUp /\ [Next]_vars => CountersAddUp'
  <2> SUFFICES ASSUME TypeOK, PlaceInv, CountersAddUp, [Next]_vars PROVE CountersAddUp'
    OBVIOUS
  <2>1. CASE Stopping \/ UNCHANGED vars
    <3>1. UNCHANGED <<hpc, entered, counters, events, Uncounted>>
      BY <2>1, StoppingFrame DEF vars, handlerVars, workerVars, tables, Uncounted
    <3> QED
      BY <3>1 DEF CountersAddUp
  <2> QED
    BY <2>1, CountHandler, CountWorker DEF Next, Stopping
<1> QED
  BY <1>1, <1>2, PlaceHolds, PTL DEF Spec

=============================================================================
