----------------------------- MODULE Analytics -------------------------------
(***************************************************************************)
(* The events and stage_metrics tables between the worker, which writes    *)
(* each window in two transactions, and the requests for statistics, each  *)
(* of which reads in five queries.  All of them take turns on the store's  *)
(* one connection (SetMaxOpenConns(1)).                                    *)
(***************************************************************************)
EXTENDS Intake, Sequences, SequencesExt

CONSTANTS
    Posts,         \* Posts[i]: an event that reaches the worker
    Requests,      \* GET /api/stats requests
    Queries,       \* the parameters they may carry
    Windows,       \* the sets of posts a window may take
    NWindows       \* bound on windows

ASSUME PostsAssumption ==
    \A i \in DOMAIN Posts :
        /\ Posts[i].consent \in BOOLEAN
        /\ {Posts[i].ts, Posts[i].received, Posts[i].amount, Posts[i].base} \subseteq Int
        /\ IsFiniteSet(DOMAIN Posts[i].props)
ASSUME WindowsAssumption ==
    /\ NWindows \in Nat
    /\ \A P \in Windows : P \subseteq DOMAIN Posts /\ IsFiniteSet(P)
(* A parameter that is not given is <<>>, one that is given <<its value>>.  *)
ASSUME QueriesAssumption ==
    \A q \in Queries : q.since \in Seq(Int) /\ q.until \in Seq(Int)

VARIABLES
    ran,           \* ran[w]: what the run of window w put out; its last element
                   \* is being flushed
    flushing,      \* "idle", or the table the worker writes next
    conn,          \* who holds the connection: "free", "worker" or a request
    events,        \* the events table
    stage_metrics, \* the stage_metrics table
    failed,        \* history: <<window, table>> of transactions that failed
    req            \* the requests

workerVars == <<ran, flushing, events, stage_metrics, failed>>
vars == <<ran, flushing, conn, events, stage_metrics, failed, req>>

win == Len(ran)  \* the clock, in minutes: the window_ts of the last window

Init ==
    /\ ran = <<>>
    /\ flushing = "idle"
    /\ conn = "free"
    /\ events = {}
    /\ stage_metrics = {}
    /\ failed = {}
    /\ req = [r \in Requests |->
                [at |-> "idle", since |-> 0, until |-> 0, width |-> 60, seen |-> <<>>]]

-----------------------------------------------------------------------------
(* The worker.                                                              *)

StageNames == <<"consent", "normalize", "tracked", "enrich_geo", "churn_enrich",
                "dedup", "collect">>

(* One run's []StageMetric, from the number of events before every stage    *)
(* and after the last one.                                                  *)
StageMetrics(w, n) ==
    [i \in DOMAIN StageNames |->
        [win |-> w, stage |-> i, in |-> n[i], out |-> n[i + 1],
         dropped |-> n[i] - n[i + 1]]]

(* What the run of window w may collect from the posts in P: of those that  *)
(* get as far as Deduplicate, one of every key.                             *)
Runs(w, P) ==
    LET Alive == {i \in P : Enriched(Posts[i], w) # {}}
        Consented == {i \in P : HasConsent(ToEvent(Posts[i]))}
        Outcomes == {f \in [Alive -> UNION {Enriched(Posts[i], w) : i \in Alive}] :
                       \A i \in Alive : f[i] \in Enriched(Posts[i], w)}
        Key(f, i) == DedupKey(f[i])
        Firsts(f) == {F \in SUBSET Alive :
                        /\ \A i \in Alive : \E j \in F : Key(f, j) = Key(f, i)
                        /\ \A i, j \in F : Key(f, j) = Key(f, i) => i = j}
        Made(f, F) ==
          LET p == Cardinality(P)  c == Cardinality(Consented)
              a == Cardinality(Alive)  d == Cardinality(F)
          IN [rows |-> SetToSeq({Row(<<w, i>>, f[i], w) : i \in F}),
              metrics |-> StageMetrics(w, <<p, c, c, a, a, a, d, d>>)]
    IN UNION {{Made(f, F) : F \in Firsts(f)} : f \in Outcomes}

Outcome == [w \in 1..NWindows |-> UNION {Runs(w, P) : P \in Windows}]

(* A window ends; one that collected nothing is skipped entirely.           *)
RunWindow ==
    /\ flushing = "idle"
    /\ win < NWindows
    /\ \E out \in Outcome[win + 1] :
         /\ ran' = Append(ran, out)
         /\ flushing' = IF out.rows = <<>> THEN "idle" ELSE "events"
    /\ UNCHANGED <<conn, events, stage_metrics, failed, req>>

(* BeginTx takes the connection.                                            *)
Begin ==
    /\ flushing # "idle"
    /\ conn = "free"
    /\ conn' = "worker"
    /\ UNCHANGED <<ran, flushing, events, stage_metrics, failed, req>>

Rows == IF flushing = "events" THEN ran[win].rows ELSE ran[win].metrics

Stored(table, rows, inserted) ==
    IF flushing = table THEN rows \union inserted ELSE rows

(* Fault: InsertEvents has no transaction, so what it had inserted before   *)
(* the error stays.                                                         *)
RolledBackNot(table, rows, inserted) ==
    IF table = "events" THEN Stored(table, rows, inserted) ELSE rows
RolledBack(table, rows, inserted) == rows

(* Fault: after a failed window of events its metrics are left out.         *)
AfterGivingUp(ok) == IF ok /\ flushing = "events" THEN "metrics" ELSE "idle"
After(ok) == IF flushing = "events" THEN "metrics" ELSE "idle"

EndTx(ok) ==
    /\ conn = "worker"
    /\ conn' = "free"
    /\ flushing' = After(ok)
    /\ failed' = IF ok THEN failed ELSE failed \union {<<win, flushing>>}
    /\ UNCHANGED <<ran, req>>

Commit ==
    /\ EndTx(TRUE)
    /\ events' = Stored("events", events, ToSet(Rows))
    /\ stage_metrics' = Stored("metrics", stage_metrics, ToSet(Rows))

(* A statement fails after n rows, and the deferred Rollback runs.          *)
Fail ==
    /\ EndTx(FALSE)
    /\ \E n \in {0, Len(Rows) \div 2, Len(Rows)} :
         LET inserted == ToSet(SubSeq(Rows, 1, n))
         IN /\ events' = RolledBack("events", events, inserted)
            /\ stage_metrics' = RolledBack("metrics", stage_metrics, inserted)

-----------------------------------------------------------------------------
(* Handler.Stats and Store.Stats.                                           *)

Given(v, def) == IF v = <<>> THEN def ELSE v[1]
Width(granularity) ==
    CASE granularity = "minute" -> 1
      [] granularity = "day" -> 1440
      [] OTHER -> 60

(* A parameter that does not parse, or a range the wrong way round, is 400. *)
Ask(r, q) ==
    /\ req[r].at = "idle"
    /\ LET since == Given(q.since, win - 1440)
           until == Given(q.until, win)
       IN req' = [req EXCEPT ![r] =
                    [at |-> IF q.bad \/ until < since THEN "refused" ELSE "waiting",
                     since |-> since, until |-> until,
                     width |-> Width(q.granularity), seen |-> <<>>]]
    /\ UNCHANGED <<workerVars, conn>>

InRange(r, time) == req[r].since <= time /\ time <= req[r].until

(* Fault: the query for the totals forgets the upper end of the range.      *)
ResultUnbounded(r) ==
    IF Len(req[r].seen) = 0 THEN {e \in events : req[r].since <= e.ts}
    ELSE IF Len(req[r].seen) < 4 THEN {e \in events : InRange(r, e.ts)}
    ELSE {m \in stage_metrics : InRange(r, m.win)}

(* What query n of the request sees: four times the events, then metrics.   *)
Result(r) ==
    IF Len(req[r].seen) < 4 THEN {e \in events : InRange(r, e.ts)}
    ELSE {m \in stage_metrics : InRange(r, m.win)}

QueryStart(r) ==
    /\ req[r].at = "waiting"
    /\ conn = "free"
    /\ conn' = r
    /\ req' = [req EXCEPT ![r].at = "reading", ![r].seen = Append(@, Result(r))]
    /\ UNCHANGED workerVars

(* Fault: the rows of the last query are not closed.                        *)
FreedNever(r) == conn
Freed(r) == "free"

(* rows.Close, deferred, gives the connection back before the next query.   *)
QueryEnd(r) ==
    /\ req[r].at = "reading"
    /\ conn' = Freed(r)
    /\ req' = [req EXCEPT ![r].at = IF Len(req[r].seen) = 5 THEN "answered" ELSE "waiting"]
    /\ UNCHANGED workerVars

QueryFails(r) ==
    /\ req[r].at \in {"waiting", "reading"}
    /\ conn' = IF req[r].at = "reading" THEN Freed(r) ELSE conn
    /\ req' = [req EXCEPT ![r].at = "failed"]
    /\ UNCHANGED workerVars

-----------------------------------------------------------------------------
WorkerStep == RunWindow \/ Begin \/ Commit \/ Fail
Query(r) == QueryStart(r) \/ QueryEnd(r) \/ QueryFails(r)

Next ==
    \/ WorkerStep
    \/ \E r \in Requests : (\E q \in Queries : Ask(r, q)) \/ Query(r)

Spec == Init /\ [][Next]_vars

(* Both goroutines run; database/sql serves those who wait for the          *)
(* connection in turn.                                                      *)
FairSpec ==
    /\ Spec
    /\ WF_vars(WorkerStep)
    /\ \A r \in Requests : SF_vars(QueryStart(r)) /\ WF_vars(QueryEnd(r))

-----------------------------------------------------------------------------
(* Properties.                                                              *)

(* A row comes from an event whose consent flag was set, whatever other     *)
(* properties the client sent; its type is tracked, none of its properties  *)
(* is a control key, no more are kept than the clamp and the enrichment     *)
(* allow, and no row of its window has its session, type and minute         *)
(* (hasConsent, normalize, clampProps, propsJSON, dedupKey).                *)
RowsClean ==
    \A e \in events :
        /\ Posts[e.id[2]].consent
        /\ e.type \in TrackedTypes
        /\ e.keys \intersect Control = {}
        /\ Cardinality(e.keys) <= MaxPropsKeys + Cardinality(GeoKeys)
        /\ e.captureMs >= 0 /\ e.churn \in 0..999
        /\ \A f \in events : f.id[1] = e.id[1] /\ DedupKey(f) = DedupKey(e) => f = e

(* A query sees a window's rows and a window's stage metrics all or not at  *)
(* all, even when a transaction failed half way (InsertEvents,              *)
(* InsertStageMetrics).                                                     *)
WholeWindows ==
    \A r \in Requests : \A n \in DOMAIN req[r].seen : \A w \in DOMAIN ran :
        LET all == IF n < 5 THEN {e \in ToSet(ran[w].rows) : InRange(r, e.ts)}
                   ELSE {m \in ToSet(ran[w].metrics) : InRange(r, m.win)}
            some == all \intersect req[r].seen[n]
        IN some = {} \/ some = all

(* The five queries of an answer are not one snapshot, but they can differ  *)
(* in one direction only: the total is at most the sum over the buckets,    *)
(* every type's count at most its sum over the buckets, and every bucket's  *)
(* count at most its sum over the types (Stats).                            *)
Count(S) == Cardinality(S)
AnswersOrdered ==
    \A r \in Requests :
        LET seen == req[r].seen
            bucket(e) == e.ts \div req[r].width
        IN Len(seen) >= 4 =>
             /\ Count(seen[1]) <= Count(seen[2])
             /\ Count(seen[2]) <= Count(seen[3])
             /\ \A t \in TrackedTypes :
                  Count({e \in seen[3] : e.type = t}) <= Count({e \in seen[4] : e.type = t})
             /\ \A b \in {bucket(e) : e \in seen[2]} :
                  Count({e \in seen[2] : bucket(e) = b})
                    <= Count({e \in seen[4] : bucket(e) = b})

(* Between flushes the rollups cover exactly the windows that collected     *)
(* something, except those whose metrics failed: a window whose events      *)
(* failed is rolled up all the same (flush).                                *)
RollupsCover ==
    flushing = "idle" =>
        {m.win : m \in stage_metrics}
          = {w \in DOMAIN ran : ran[w].rows # <<>> /\ <<w, "metrics">> \notin failed}

(* Nobody keeps the only connection: a request that was accepted is         *)
(* answered, or fails.                                                      *)
StatsAnswered ==
    \A r \in Requests :
        req[r].at = "waiting" ~> req[r].at \in {"answered", "failed"}
=============================================================================
