---------------------------- MODULE IngestWorker -----------------------------
(***************************************************************************)
(* The ingest path of the API process: HTTP handlers that Submit events    *)
(* without blocking, the bounded ingest channel, the worker that turns it  *)
(* into windows, one pipeline run and one flush per window, the counters   *)
(* behind /metrics, and main's shutdown sequence.                          *)
(*                                                                         *)
(* A window's pipeline run appears here by what StreamRun promises of it:  *)
(* all of its admitted, de-duplicated events while the context is live,    *)
(* any part of them once it is cancelled.                                  *)
(***************************************************************************)
EXTENDS Naturals, Sequences, FiniteSets

CONSTANTS
    Events,        \* submissions, each a distinct delivery of some event
    Handlers,      \* one goroutine per POST /api/events request
    Request,       \* Request[h]: the events in the body of h's request, if any
    Admitted,      \* events the consent and whitelist filters let through
    Key,           \* Key[e]: the event's dedupKey
    QueueDepth,    \* INGEST_BUFFER_DEPTH
    WindowMax,     \* WINDOW_MAX_EVENTS
    StopBy,        \* ways to stop: "signal" (main), "close" (Close alone)
    MayTimeOut,    \* srv.Shutdown may give up on slow handlers
    ServerFails,   \* ListenAndServe may return an error
    WriteFails     \* a transaction may fail

ASSUME SizesAssumption ==
    /\ QueueDepth \in Nat \ {0}
    /\ WindowMax \in Nat \ {0}
ASSUME EventsAssumption ==
    /\ IsFiniteSet(Events)
    /\ Admitted \subseteq Events
    /\ DOMAIN Key = Events
ASSUME RequestAssumption ==
    /\ IsFiniteSet(Handlers)
    /\ Request \in [Handlers -> SUBSET Events]
    /\ \A g, h \in Handlers : g # h => Request[g] \intersect Request[h] = {}
ASSUME ModeAssumption ==
    /\ StopBy \subseteq {"signal", "close"}
    /\ {MayTimeOut, ServerFails, WriteFails} \subseteq BOOLEAN

VARIABLES
    hpc,           \* hpc[h]: where the handler of request h is
    todo,          \* todo[h]: events of the request not yet submitted
    cur,           \* cur[h]: the event being submitted, as a set
    taken,         \* taken[h]: events of the request Submit accepted
    told,          \* events a client was told (202) are accepted
    queue,         \* the ingest channel w.ch
    qclosed,       \* w.ch is closed
    entered,       \* history: events ever received by the channel
    counters,      \* submitted, accepted, dropped, persisted, windows
    wkr,           \* where Run is
    moving,        \* the event between w.ch and the window's source, as a set
    inRun,         \* events fed to the current window's run
    recs,          \* the records its sink collected
    finished,      \* feedWindow said the stream is finished
    events,        \* the events table
    lost,          \* history: records whose transaction failed
    main,          \* where main's run() is
    stop,          \* the root context is cancelled
    expired        \* shutdownCtx is: srv.Shutdown did not wait to the end

handlerVars == <<hpc, todo, cur, taken, told>>
queueVars == <<queue, qclosed, entered>>
workerVars == <<wkr, moving, inRun, recs, finished>>
tables == <<events, lost>>
mainVars == <<main, stop, expired>>
vars == <<hpc, todo, cur, taken, told, queue, qclosed, entered, counters, wkr,
          moving, inRun, recs, finished, events, lost, main, stop, expired>>

HandlerPc == {"idle", "next", "offer", "accepted", "refused", "answered",
              "rejected", "panicked"}
Busy(h) == hpc[h] \in {"next", "offer", "accepted", "refused"}

Init ==
    /\ hpc = [h \in Handlers |-> "idle"]
    /\ todo = Request
    /\ cur = [h \in Handlers |-> {}]
    /\ taken = [h \in Handlers |-> {}]
    /\ told = {}
    /\ queue = <<>>
    /\ qclosed = FALSE
    /\ entered = {}
    /\ counters = [submitted |-> 0, accepted |-> 0, dropped |-> 0,
                   persisted |-> 0, windows |-> 0]
    /\ wkr = "feed"
    /\ moving = {}
    /\ inRun = {}
    /\ recs = {}
    /\ finished = FALSE
    /\ events = {}
    /\ lost = {}
    /\ main = "serving"
    /\ stop = FALSE
    /\ expired = FALSE

Running == main # "exited"
Bump(c) == counters' = [counters EXCEPT ![c] = @ + 1]

-----------------------------------------------------------------------------
(* Handler.Ingest and Worker.Submit.                                        *)

(* The listener accepts until srv.Shutdown closes it.  A body that is too   *)
(* large, does not parse or holds no event is rejected at once (413, 400).  *)
Arrive(h) ==
    /\ main = "serving"
    /\ hpc[h] = "idle"
    /\ hpc' = [hpc EXCEPT ![h] = IF Request[h] = {} THEN "rejected" ELSE "next"]
    /\ UNCHANGED <<todo, cur, taken, told, queueVars, counters, workerVars,
                   tables, mainVars>>

(* w.submitted.Add(1)                                                       *)
SubmitBegin(h) ==
    /\ Running
    /\ hpc[h] = "next"
    /\ \E e \in todo[h] :
         /\ cur' = [cur EXCEPT ![h] = {e}]
         /\ todo' = [todo EXCEPT ![h] = @ \ {e}]
    /\ hpc' = [hpc EXCEPT ![h] = "offer"]
    /\ Bump("submitted")
    /\ UNCHANGED <<taken, told, queueVars, workerVars, tables, mainVars>>

(* case w.ch <- e                                                           *)
SubmitSend(h) ==
    /\ Running
    /\ hpc[h] = "offer"
    /\ ~qclosed
    /\ Len(queue) < QueueDepth
    /\ \E e \in cur[h] : queue' = Append(queue, e)
    /\ entered' = entered \union cur[h]
    /\ hpc' = [hpc EXCEPT ![h] = "accepted"]
    /\ UNCHANGED <<todo, cur, taken, told, qclosed, counters, workerVars,
                   tables, mainVars>>

(* default: the channel is full                                             *)
SubmitFull(h) ==
    /\ Running
    /\ hpc[h] = "offer"
    /\ ~qclosed
    /\ Len(queue) >= QueueDepth
    /\ hpc' = [hpc EXCEPT ![h] = "refused"]
    /\ UNCHANGED <<todo, cur, taken, told, queueVars, counters, workerVars,
                   tables, mainVars>>

(* A send on the closed channel panics; gin's Recovery answers 500.         *)
SubmitPanics(h) ==
    /\ Running
    /\ hpc[h] = "offer"
    /\ qclosed
    /\ hpc' = [hpc EXCEPT ![h] = "panicked"]
    /\ UNCHANGED <<todo, cur, taken, told, queueVars, counters, workerVars,
                   tables, mainVars>>

(* w.accepted.Add(1) or w.dropped.Add(1), after the select                  *)
SubmitCount(h) ==
    /\ Running
    /\ hpc[h] \in {"accepted", "refused"}
    /\ Bump(IF hpc[h] = "accepted" THEN "accepted" ELSE "dropped")
    /\ taken' = [taken EXCEPT ![h] =
                   IF hpc[h] = "accepted" THEN @ \union cur[h] ELSE @]
    /\ cur' = [cur EXCEPT ![h] = {}]
    /\ hpc' = [hpc EXCEPT ![h] = "next"]
    /\ UNCHANGED <<todo, told, queueVars, workerVars, tables, mainVars>>

(* c.JSON(http.StatusAccepted, ...)                                         *)
Answer(h) ==
    /\ Running
    /\ hpc[h] = "next"
    /\ todo[h] = {}
    /\ told' = told \union taken[h]
    /\ hpc' = [hpc EXCEPT ![h] = "answered"]
    /\ UNCHANGED <<todo, cur, taken, queueVars, counters, workerVars, tables,
                   mainVars>>

-----------------------------------------------------------------------------
(* Worker.Run: feedWindow.                                                  *)

(* case e := <-w.ch                                                         *)
WorkerTake ==
    /\ Running
    /\ wkr = "feed"
    /\ queue # <<>>
    /\ moving' = {Head(queue)}
    /\ queue' = Tail(queue)
    /\ wkr' = "forward"
    /\ UNCHANGED <<handlerVars, qclosed, entered, counters, inRun, recs,
                   finished, tables, mainVars>>

Full == Cardinality(inRun \union moving) >= WindowMax

(* Fault: the bound is checked before the event is forwarded, which then    *)
(* falls between two windows.                                               *)
FedUnlessFull == IF Full THEN inRun ELSE inRun \union moving
Fed == inRun \union moving

(* source <- e, then the window's size bound                                *)
WorkerForward ==
    /\ Running
    /\ wkr = "forward"
    /\ inRun' = Fed
    /\ moving' = {}
    /\ wkr' = IF Full THEN "join" ELSE "feed"
    /\ UNCHANGED <<handlerVars, queueVars, counters, recs, finished, tables,
                   mainVars>>

(* case <-timer.C                                                           *)
WindowTimeout ==
    /\ Running
    /\ wkr = "feed"
    /\ wkr' = "join"
    /\ UNCHANGED <<handlerVars, queueVars, counters, moving, inRun, recs,
                   finished, tables, mainVars>>

(* Fault: Close is noticed before the channel is drained.                   *)
DrainedAtOnce == qclosed
Drained == qclosed /\ queue = <<>>

(* e, ok := <-w.ch with ok = false                                          *)
WorkerClosed ==
    /\ Running
    /\ wkr = "feed"
    /\ Drained
    /\ finished' = TRUE
    /\ wkr' = "join"
    /\ UNCHANGED <<handlerVars, queueVars, counters, moving, inRun, recs,
                   tables, mainVars>>

(* case <-ctx.Done(), in either select: the event in hand is gone.          *)
WorkerCancelled ==
    /\ Running
    /\ wkr \in {"feed", "forward"}
    /\ stop
    /\ moving' = {}
    /\ finished' = TRUE
    /\ wkr' = "join"
    /\ UNCHANGED <<handlerVars, queueVars, counters, inRun, recs, tables,
                   mainVars>>

-----------------------------------------------------------------------------
(* Worker.Run: the end of runWindow.                                        *)

(* The records one run leaves in its sink: one per dedup key among the      *)
(* admitted events; any part of that once the context is cancelled.         *)
Distinct(R) == \A e, f \in R : Key[e] = Key[f] => e = f
Outcomes(E) ==
    {R \in SUBSET (E \intersect Admitted) :
        /\ Distinct(R)
        /\ stop \/ \A e \in E \intersect Admitted : \E r \in R : Key[r] = Key[e]}

(* Faults: the sink, or the whole window, is not a fresh one; Run does not  *)
(* look at what runWindow returned; it stops after the first window.        *)
NextWindowSameSink ==
    wkr' = (IF finished THEN "exited" ELSE "feed") /\ inRun' = {} /\ UNCHANGED recs
NextWindowSame ==
    wkr' = (IF finished THEN "exited" ELSE "feed") /\ UNCHANGED <<inRun, recs>>
NextWindowForever == wkr' = "feed" /\ inRun' = {} /\ recs' = {}
NextWindowNever == wkr' = "exited" /\ inRun' = {} /\ recs' = {}

NextWindow ==
    /\ wkr' = IF finished THEN "exited" ELSE "feed"
    /\ inRun' = {}
    /\ recs' = {}

(* <-runDone, and flush's early return for a window without records         *)
RunReturnsEmpty ==
    /\ Running
    /\ wkr = "join"
    /\ {} \in Outcomes(inRun)
    /\ NextWindow
    /\ UNCHANGED <<handlerVars, queueVars, counters, moving, finished, tables,
                   mainVars>>

RunReturns ==
    /\ Running
    /\ wkr = "join"
    /\ \E R \in Outcomes(inRun) : R # {} /\ recs' = R
    /\ wkr' = "insert"
    /\ UNCHANGED <<handlerVars, queueVars, counters, moving, inRun, finished,
                   tables, mainVars>>

(* Fault: a failed transaction counts as persisted.                         *)
AfterCommitAlways(ok) == "count"
AfterCommit(ok) == IF ok THEN "count" ELSE "metrics"

(* store.InsertEvents: one transaction, whose rows are visible from its     *)
(* Commit on.  A failed one is rolled back, and its window not retried.     *)
InsertEvents ==
    /\ Running
    /\ wkr = "insert"
    /\ \E ok \in {TRUE, ~WriteFails} :
         /\ events' = IF ok THEN events \union recs ELSE events
         /\ lost' = IF ok THEN lost ELSE lost \union recs
         /\ wkr' = AfterCommit(ok)
    /\ UNCHANGED <<handlerVars, queueVars, counters, moving, inRun, recs,
                   finished, mainVars>>

(* w.persisted.Add(int64(len(sink.recs))), after InsertEvents has returned  *)
CountPersisted ==
    /\ Running
    /\ wkr = "count"
    /\ counters' = [counters EXCEPT !.persisted = @ + Cardinality(recs)]
    /\ wkr' = "metrics"
    /\ UNCHANGED <<handlerVars, queueVars, moving, inRun, recs, finished, tables,
                   mainVars>>

(* store.InsertStageMetrics, whose result changes nothing here, and         *)
(* windows.Add                                                              *)
InsertStageMetrics ==
    /\ Running
    /\ wkr = "metrics"
    /\ Bump("windows")
    /\ NextWindow
    /\ UNCHANGED <<handlerVars, queueVars, moving, finished, tables, mainVars>>

-----------------------------------------------------------------------------
(* main's run().                                                            *)

Signal ==
    /\ "signal" \in StopBy
    /\ main = "serving"
    /\ ~stop
    /\ stop' = TRUE
    /\ UNCHANGED <<handlerVars, queueVars, counters, workerVars, tables, main,
                   expired>>

(* srv.Shutdown closes the listener and starts to wait for the handlers.    *)
ShutdownBegins ==
    /\ main = "serving"
    /\ stop
    /\ main' = "shutdown"
    /\ UNCHANGED <<handlerVars, queueVars, counters, workerVars, tables, stop,
                   expired>>

(* Fault: Close does not wait for srv.Shutdown.                             *)
HandlersIgnored == TRUE
HandlersDone == \A h \in Handlers : ~Busy(h)

(* srv.Shutdown returns once no handler is active; and then worker.Close.   *)
ShutdownReturns ==
    /\ main = "shutdown"
    /\ HandlersDone
    /\ qclosed' = TRUE
    /\ main' = "wait"
    /\ UNCHANGED <<handlerVars, queue, entered, counters, workerVars, tables,
                   stop, expired>>

(* srv.Shutdown gives up after 15 seconds, and worker.Close follows as well.*)
ShutdownGivesUp ==
    /\ MayTimeOut
    /\ main = "shutdown"
    /\ \E h \in Handlers : Busy(h)
    /\ expired' = TRUE
    /\ qclosed' = TRUE
    /\ main' = "wait"
    /\ UNCHANGED <<handlerVars, queue, entered, counters, workerVars, tables,
                   stop>>

(* Close by a caller who never cancels the context of Run, after the last   *)
(* Submit: the other way Run's contract says a worker may be stopped.       *)
CloseAlone ==
    /\ "close" \in StopBy
    /\ main = "serving"
    /\ ~stop
    /\ HandlersDone
    /\ qclosed' = TRUE
    /\ main' = "wait"
    /\ UNCHANGED <<handlerVars, queue, entered, counters, workerVars, tables,
                   stop, expired>>

(* worker.Wait, the deferred st.Close, and the end of the process           *)
WaitReturns ==
    /\ main = "wait"
    /\ wkr = "exited"
    /\ main' = "exited"
    /\ UNCHANGED <<handlerVars, queueVars, counters, workerVars, tables, stop,
                   expired>>

(* case err := <-serverErr: return without Close and Wait                   *)
ServerError ==
    /\ ServerFails
    /\ main = "serving"
    /\ main' = "exited"
    /\ UNCHANGED <<handlerVars, queueVars, counters, workerVars, tables, stop,
                   expired>>

-----------------------------------------------------------------------------
HandlerStep(h) ==
    \/ SubmitBegin(h) \/ SubmitSend(h) \/ SubmitFull(h) \/ SubmitPanics(h)
    \/ SubmitCount(h) \/ Answer(h)
WorkerStep ==
    \/ WorkerTake \/ WorkerForward \/ WindowTimeout \/ WorkerClosed
    \/ WorkerCancelled \/ RunReturnsEmpty \/ RunReturns \/ InsertEvents
    \/ CountPersisted \/ InsertStageMetrics
MainStep ==
    \/ ShutdownBegins \/ ShutdownReturns \/ ShutdownGivesUp \/ WaitReturns

Exited == main = "exited" /\ UNCHANGED vars

Next ==
    \/ \E h \in Handlers : Arrive(h) \/ HandlerStep(h)
    \/ WorkerStep
    \/ MainStep \/ Signal \/ CloseAlone \/ ServerError
    \/ Exited

Spec == Init /\ [][Next]_vars

(* Every goroutine that can take a step does; armed timers fire.  A select  *)
(* picks among its ready cases at random, so a case that is ready again and *)
(* again is taken: that is SF for receiving from the channel, and for the   *)
(* cancelled context, against the window's timer.  Clients and signals are  *)
(* not obliged to come.                                                     *)
Fairness ==
    /\ \A h \in Handlers : WF_vars(HandlerStep(h))
    /\ WF_vars(WorkerStep)
    /\ SF_vars(WorkerTake)
    /\ SF_vars(WorkerCancelled)
    /\ WF_vars(WindowTimeout)
    /\ WF_vars(MainStep)

FairSpec == Spec /\ Fairness

-----------------------------------------------------------------------------
(* Properties.                                                              *)

Queued == {queue[i] : i \in DOMAIN queue}

TypeOK ==
    /\ hpc \in [Handlers -> HandlerPc]
    /\ todo \in [Handlers -> SUBSET Events]
    /\ cur \in [Handlers -> SUBSET Events]
    /\ taken \in [Handlers -> SUBSET Events]
    /\ told \in SUBSET Events
    /\ queue \in Seq(Events)
    /\ qclosed \in BOOLEAN
    /\ entered \in SUBSET Events
    /\ counters \in [submitted: Nat, accepted: Nat, dropped: Nat,
                     persisted: Nat, windows: Nat]
    /\ wkr \in {"feed", "forward", "join", "insert", "count", "metrics", "exited"}
    /\ moving \in SUBSET Events
    /\ inRun \in SUBSET Events
    /\ recs \in SUBSET inRun
    /\ finished \in BOOLEAN
    /\ events \in SUBSET Events
    /\ lost \in SUBSET Events
    /\ main \in {"serving", "shutdown", "wait", "exited"}
    /\ stop \in BOOLEAN
    /\ expired \in BOOLEAN

(* The event, or the twin of it that the run of its window kept, is in the  *)
(* table; or it was in a transaction that failed.                           *)
Stored(e) == \E r \in events : Key[r] = Key[e]
Settled(e) == \E r \in events \union lost : Key[r] = Key[e]
OnTheWay == Queued \union moving \union inRun

(* Until somebody cancels the root context, an admitted event the channel   *)
(* took is on its way, or its window has been written: none is lost between *)
(* the channel, the windows and the flushes.                                *)
NothingLost ==
    ~stop => \A e \in entered \intersect Admitted : e \in OnTheWay \/ Settled(e)

(* A row is written once: no event is queued twice or queued again after    *)
(* its window, and a flushed window is not flushed again.                   *)
WrittenOnce ==
    /\ \A i, j \in DOMAIN queue : queue[i] = queue[j] => i = j
    /\ Queued \intersect (moving \union inRun \union events \union lost) = {}
    /\ moving \intersect (inRun \union events \union lost) = {}
    /\ wkr \notin {"count", "metrics"} => inRun \intersect (events \union lost) = {}

(* The rows a commit has made visible and persisted does not count yet.     *)
Uncounted == IF wkr = "count" THEN Cardinality(recs) ELSE 0

(* The counters of /metrics agree with each other and with the store: every *)
(* submission is counted as accepted or dropped, except by the Submit calls *)
(* that are between two Adds, and persisted counts the rows of the table,   *)
(* except those of the one window whose commit has returned and whose Add   *)
(* has not; rows of a window that failed are never counted.                 *)
CountersAddUp ==
    /\ counters.submitted =
         counters.accepted + counters.dropped
           + Cardinality({h \in Handlers :
               hpc[h] \in {"offer", "accepted", "refused", "panicked"}})
    /\ Cardinality(entered) =
         counters.accepted + Cardinality({h \in Handlers : hpc[h] = "accepted"})
    /\ counters.persisted + Uncounted = Cardinality(events)

(* While srv.Shutdown waits for them as it should, no handler submits to    *)
(* the closed channel: Close comes after the last Submit (main.go: "no more *)
(* events submitted").  Only the 15 seconds' limit can break that.          *)
NoSubmitAfterClose ==
    qclosed /\ ~expired => \A h \in Handlers : hpc[h] # "panicked" /\ ~Busy(h)

(* worker.go, comment on Run: when it returns, all accepted events have     *)
(* been flushed.                                                            *)
AllAcceptedFlushed ==
    wkr = "exited" => \A e \in told \intersect Admitted : Settled(e)

(* The same, for a worker whose context nobody has cancelled: everything    *)
(* the channel ever took has been flushed.                                  *)
DrainedByClose ==
    (~stop /\ wkr = "exited") =>
        \A e \in entered \intersect Admitted : Settled(e)

(* An event the client was told is accepted reaches the table, or a         *)
(* transaction that fails, while nobody stops the process and its listener  *)
(* does not fail: not even Close comes in its way.                          *)
AcceptedIsStored ==
    \A e \in Admitted :
        e \in told ~> (Settled(e) \/ stop \/ (main = "exited" /\ ~qclosed))

(* A signal ends the process: Wait does not hang on a worker that is        *)
(* feeding, forwarding or flushing, nor on handlers at work.                *)
ShutdownEnds == stop ~> (main = "exited")
=============================================================================
