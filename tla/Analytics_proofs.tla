-------------------------- MODULE Analytics_proofs ---------------------------
(***************************************************************************)
(* What holds of the tables and of the statistics read from them, for any  *)
(* posts, windows, requests and query parameters.  One inductive invariant,*)
(* Inv, carries the four theorems at the end.                              *)
(***************************************************************************)
EXTENDS Analytics, FiniteSetTheorems, TLAPS

-----------------------------------------------------------------------------
(* One event through the stages.                                            *)

(* clampProps keeps at most MaxPropsKeys properties that are not control    *)
(* keys.                                                                    *)
LEMMA KeptProps ==
    ASSUME NEW q, IsFiniteSet(DOMAIN q), NEW p \in ClampProps(q)
    PROVE  /\ IsFiniteSet(DOMAIN p \ Control)
           /\ Cardinality(DOMAIN p \ Control) <= MaxPropsKeys
<1> DEFINE public == DOMAIN q \ Control
<1>1. PICK K \in SUBSET public : /\ p = Restrict(q, K \union (DOMAIN q \intersect Control))
                                 /\ K = public \/ Cardinality(K) = MaxPropsKeys
                                 /\ K = public => Cardinality(public) <= MaxPropsKeys
                                                  \/ Cardinality(K) = MaxPropsKeys
  BY DEF ClampProps
<1>2. DOMAIN p \ Control = K
  BY <1>1 DEF Restrict
<1>3. IsFiniteSet(public)
  BY FS_Subset
<1>4. IsFiniteSet(K)
  BY <1>3, FS_Subset
<1>5. Cardinality(K) <= MaxPropsKeys
  BY <1>1, KeysAssumption
<1> QED
  BY <1>2, <1>4, <1>5

(* The keys the enrichment may add are finitely many.                       *)
LEMMA GeoFinite == IsFiniteSet(GeoKeys) /\ Cardinality(GeoKeys) \in Nat
<1>1. GeoKeys = (({"geo_region"} \union {"timezone"}) \union {"device"}) \union {"browser"}
  BY DEF GeoKeys
<1>2. IsFiniteSet({"geo_region"})
  BY FS_Singleton
<1>3. IsFiniteSet(GeoKeys)
  BY <1>1, <1>2, FS_AddElement
<1> QED
  BY <1>3, FS_CardinalityType

(* An event that survives had consent, whatever else it carried; its type   *)
(* is tracked, and it keeps no more keys than it may.                       *)
LEMMA SurvivorClean ==
    ASSUME NEW i \in DOMAIN Posts, NEW now, NEW g \in Enriched(Posts[i], now)
    PROVE  /\ Posts[i].consent
           /\ g.type \in TrackedTypes
           /\ g.received \in Int
           /\ g.churn \in 0..999
           /\ Cardinality(PropsJSON(g.props)) <= MaxPropsKeys + Cardinality(GeoKeys)
<1> DEFINE w == Posts[i]
           t == ToEvent(w)
<1>0. /\ w.consent \in BOOLEAN /\ w.received \in Int /\ w.amount \in Int /\ w.base \in Int
      /\ IsFiniteSet(DOMAIN w.props)
  BY PostsAssumption
<1>1. HasConsent(t)
  BY DEF Enriched
<1>2. w.consent
  BY <1>0, <1>1 DEF HasConsent, ToEvent, Over, ServerProps
<1>3. PICK n \in Normalize(t, now) : Tracked(n) /\ g = ChurnEnrich(EnrichGeo(n))
  BY <1>1 DEF Enriched
<1>4. PICK p \in ClampProps(t.props) :
        n = [t EXCEPT !.type = IF @ \in DOMAIN CanonicalType THEN CanonicalType[@] ELSE @,
                      !.ts = IF @ = 0 THEN now ELSE @,
                      !.amount = IF @ < 0 THEN 0 ELSE @,
                      !.props = p]
  BY DEF Normalize
<1>5. /\ t.received = w.received /\ t.base = w.base /\ t.amount = w.amount /\ t.churn = 0
      /\ t.props = Over(ServerProps(w), w.props)
      /\ DOMAIN t = {"type", "sess", "ts", "amount", "base", "received", "churn", "props"}
  BY DEF ToEvent
<1>6. IsFiniteSet(DOMAIN t.props)
  <2>1. DOMAIN t.props = (DOMAIN w.props \union {"_consent"}) \union {"_received_at"}
    BY <1>5 DEF Over, ServerProps
  <2>2. IsFiniteSet(DOMAIN w.props \union {"_consent"})
    BY <1>0, FS_AddElement
  <2>3. IsFiniteSet((DOMAIN w.props \union {"_consent"}) \union {"_received_at"})
    BY <2>2, FS_AddElement
  <2> QED
    BY <2>1, <2>3
<1> HIDE DEF t, w
<1>7. /\ n.received = t.received /\ n.base = t.base /\ n.churn = 0 /\ n.props = p
      /\ n.amount \in Int /\ DOMAIN n = DOMAIN t
  BY <1>0, <1>4, <1>5
<1> DEFINE x == EnrichGeo(n)
<1>8. /\ x.received = n.received /\ x.base = n.base /\ x.churn = 0 /\ x.type = n.type
      /\ x.amount = n.amount /\ x.props = Over([k \in GeoKeys |-> TRUE], p)
      /\ DOMAIN x = DOMAIN n
  BY <1>5, <1>7 DEF EnrichGeo
<1>9. /\ g.type = x.type /\ g.received = x.received /\ g.props = x.props
      /\ g.churn = 0 \/ g.churn = ChurnScore(x)
  <2>1. g = x \/ g = [x EXCEPT !.churn = ChurnScore(x)]
    BY <1>3 DEF ChurnEnrich
  <2> HIDE DEF x
  <2> QED
    BY <1>5, <1>7, <1>8, <2>1
<1>10. ChurnScore(x) \in 0..999
  <2>1. x.base - x.amount \in Int
    BY <1>0, <1>5, <1>7, <1>8
  <2> HIDE DEF x
  <2> QED
    BY <2>1 DEF ChurnScore
<1>11. PropsJSON(g.props) = (GeoKeys \ Control) \union (DOMAIN p \ Control)
  <2>1. DOMAIN g.props = GeoKeys \union DOMAIN p
    BY <1>8, <1>9 DEF Over
  <2> QED
    BY <2>1 DEF PropsJSON
<1>12. Cardinality(PropsJSON(g.props)) <= MaxPropsKeys + Cardinality(GeoKeys)
  <2> DEFINE A == GeoKeys \ Control
             B == DOMAIN p \ Control
  <2>1. IsFiniteSet(B) /\ Cardinality(B) <= MaxPropsKeys /\ Cardinality(B) \in Nat
    BY <1>6, KeptProps, FS_CardinalityType
  <2>2. IsFiniteSet(A) /\ Cardinality(A) <= Cardinality(GeoKeys) /\ Cardinality(A) \in Nat
    BY GeoFinite, FS_Subset, FS_CardinalityType
  <2> HIDE DEF A, B
  <2>3. Cardinality(A \union B) = Cardinality(A) + Cardinality(B) - Cardinality(A \intersect B)
    BY <2>1, <2>2, FS_Union
  <2>4. IsFiniteSet(A \intersect B)
    BY <2>1, FS_Subset
  <2>5. Cardinality(A \intersect B) \in Nat
    BY <2>4, FS_CardinalityType
  <2>6. Cardinality(A \union B) <= MaxPropsKeys + Cardinality(GeoKeys)
    BY <2>1, <2>2, <2>3, <2>5, KeysAssumption, GeoFinite
  <2> QED
    BY <1>11, <2>6 DEF A, B
<1> QED
  BY <1>0, <1>2, <1>3, <1>5, <1>7, <1>8, <1>9, <1>10, <1>12 DEF Tracked, w

-----------------------------------------------------------------------------
(* One window.                                                              *)

(* SetToSeq lists a finite set.                                             *)
LEMMA SetSeq ==
    ASSUME NEW S, IsFiniteSet(S)
    PROVE  ToSet(SetToSeq(S)) = S
<1> DEFINE n == Cardinality(S)
           f == SetToSeq(S)
<1>1. n \in Nat /\ ExistsBijection(1..n, S)
  BY FS_CardinalityType
<1>2. \E g \in [1..n -> S] : IsInjective(g)
  BY <1>1 DEF ExistsBijection, Bijection, Injection, IsInjective
<1>3. f \in [1..n -> S] /\ IsInjective(f)
  BY <1>2 DEF SetToSeq
<1> HIDE DEF f
<1>4. f \in Injection(1..n, S)
  BY <1>3 DEF Injection, IsInjective
<1>5. Cardinality(1..n) = n /\ IsFiniteSet(1..n)
  BY <1>1, FS_Interval
<1>6. f \in Surjection(1..n, S)
  BY <1>4, <1>5, FS_Injection
<1>7. ToSet(f) = S
  BY <1>3, <1>6 DEF Surjection, ToSet
<1> QED
  BY <1>7 DEF f

(* What RowsClean says of one row by itself.                                *)
RowClean(e) ==
    /\ Posts[e.id[2]].consent
    /\ e.type \in TrackedTypes
    /\ e.keys \intersect Control = {}
    /\ Cardinality(e.keys) <= MaxPropsKeys + Cardinality(GeoKeys)
    /\ e.captureMs >= 0 /\ e.churn \in 0..999

(* The row of an event that survived is clean and keeps its key.            *)
LEMMA RowOf ==
    ASSUME NEW i \in DOMAIN Posts, NEW w \in Int, NEW g \in Enriched(Posts[i], w)
    PROVE  /\ RowClean(Row(<<w, i>>, g, w))
           /\ Row(<<w, i>>, g, w).id = <<w, i>>
           /\ DedupKey(Row(<<w, i>>, g, w)) = DedupKey(g)
<1> DEFINE r == Row(<<w, i>>, g, w)
<1>1. /\ r.id = <<w, i>> /\ r.type = g.type /\ r.ts = g.ts /\ r.sess = g.sess
      /\ r.churn = g.churn /\ r.keys = PropsJSON(g.props) /\ r.captureMs = CaptureMs(g, w)
  BY DEF Row
<1> HIDE DEF r
<1>2. r.keys \intersect Control = {}
  BY <1>1 DEF PropsJSON
<1>3. r.captureMs >= 0
  BY <1>1, SurvivorClean DEF CaptureMs
<1>4. RowClean(r)
  BY <1>1, <1>2, <1>3, SurvivorClean DEF RowClean
<1>5. DedupKey(r) = DedupKey(g)
  BY <1>1 DEF DedupKey
<1> QED
  BY <1>1, <1>4, <1>5 DEF r

(* Whatever the order of the posts and the choices of the stages: the rows  *)
(* of one window are clean and no two have the same key, and it has stage   *)
(* metrics.                                                                 *)
LEMMA WindowRows ==
    ASSUME NEW w \in 1..NWindows, NEW out \in Outcome[w]
    PROVE  /\ IsFiniteSet(ToSet(out.rows))
           /\ \A e \in ToSet(out.rows) : e.id[1] = w /\ RowClean(e)
           /\ \A e, f \in ToSet(out.rows) : DedupKey(e) = DedupKey(f) => e = f
           /\ ToSet(out.metrics) # {}
           /\ \A m \in ToSet(out.metrics) : m.win = w
<1>0. w \in Int
  BY WindowsAssumption
<1>1. PICK P \in Windows : out \in Runs(w, P)
  BY DEF Outcome
<1>2. P \subseteq DOMAIN Posts /\ IsFiniteSet(P)
  BY <1>1, WindowsAssumption
<1> DEFINE Alive == {i \in P : Enriched(Posts[i], w) # {}}
<1>3. \E f, F, n :
          /\ F \in SUBSET Alive
          /\ \A i \in Alive : f[i] \in Enriched(Posts[i], w)
          /\ \A i, j \in F : DedupKey(f[j]) = DedupKey(f[i]) => i = j
          /\ out.rows = SetToSeq({Row(<<w, i>>, f[i], w) : i \in F})
          /\ out.metrics = StageMetrics(w, n)
  <2> DEFINE Outcomes == {f \in [Alive -> UNION {Enriched(Posts[i], w) : i \in Alive}] :
                            \A i \in Alive : f[i] \in Enriched(Posts[i], w)}
             Firsts(f) == {F \in SUBSET Alive :
                            /\ \A i \in Alive : \E j \in F : DedupKey(f[j]) = DedupKey(f[i])
                            /\ \A i, j \in F : DedupKey(f[j]) = DedupKey(f[i]) => i = j}
             p == Cardinality(P)
             c == Cardinality({i \in P : HasConsent(ToEvent(Posts[i]))})
             a == Cardinality(Alive)
             Made(f, F) == [rows |-> SetToSeq({Row(<<w, i>>, f[i], w) : i \in F}),
                            metrics |-> StageMetrics(w, <<p, c, c, a, a, a, Cardinality(F), Cardinality(F)>>)]
  <2>1. Runs(w, P) = UNION {{Made(f, F) : F \in Firsts(f)} : f \in Outcomes}
    BY DEF Runs
  <2>2. PICK f \in Outcomes : \E F \in Firsts(f) : out = Made(f, F)
    <3> HIDE DEF Made, Outcomes, Firsts
    <3> QED
      BY <1>1, <2>1
  <2>3. PICK F \in Firsts(f) : out = Made(f, F)
    BY <2>2
  <2>4. /\ out.rows = SetToSeq({Row(<<w, i>>, f[i], w) : i \in F})
        /\ out.metrics = StageMetrics(w, <<p, c, c, a, a, a, Cardinality(F), Cardinality(F)>>)
    BY <2>3
  <2>5. /\ F \in SUBSET Alive
        /\ \A i \in Alive : f[i] \in Enriched(Posts[i], w)
        /\ \A i, j \in F : DedupKey(f[j]) = DedupKey(f[i]) => i = j
    BY <2>2, <2>3
  <2>6. PICK n : out.metrics = StageMetrics(w, n)
    BY <2>4
  <2> HIDE DEF Alive, p, c, a, Made, Outcomes, Firsts
  <2> QED
    BY <2>4, <2>5, <2>6
<1>4. PICK f, F, n :
          /\ F \in SUBSET Alive
          /\ \A i \in Alive : f[i] \in Enriched(Posts[i], w)
          /\ \A i, j \in F : DedupKey(f[j]) = DedupKey(f[i]) => i = j
          /\ out.rows = SetToSeq({Row(<<w, i>>, f[i], w) : i \in F})
          /\ out.metrics = StageMetrics(w, n)
  BY <1>3
<1> DEFINE R(i) == Row(<<w, i>>, f[i], w)
           S == {R(i) : i \in F}
<1>5. \A i \in F : i \in DOMAIN Posts /\ f[i] \in Enriched(Posts[i], w)
  BY <1>2, <1>4
<1>6. \A i \in F : RowClean(R(i)) /\ R(i).id = <<w, i>> /\ DedupKey(R(i)) = DedupKey(f[i])
  BY <1>0, <1>5, RowOf
<1> HIDE DEF R
<1>7. IsFiniteSet(S)
  <2>1. F \in SUBSET P
    BY <1>4
  <2>2. IsFiniteSet(F)
    BY <1>2, <2>1, FS_Subset
  <2>3. [i \in F |-> R(i)] \in Surjection(F, S)
    BY DEF Surjection
  <2> QED
    BY <2>2, <2>3, FS_Surjection
<1>8. ToSet(out.rows) = S
  BY <1>4, <1>7, SetSeq DEF R
<1>9. \A e \in S : e.id[1] = w /\ RowClean(e)
  BY <1>6
<1>10. \A d, e \in S : DedupKey(d) = DedupKey(e) => d = e
  BY <1>4, <1>6
<1>11. /\ ToSet(out.metrics) # {}
       /\ \A m \in ToSet(out.metrics) : m.win = w
  <2>1. 1 \in DOMAIN StageNames
    BY DEF StageNames
  <2>2. \A i \in DOMAIN StageNames : out.metrics[i].win = w
    BY <1>4 DEF StageMetrics
  <2>3. DOMAIN out.metrics = DOMAIN StageNames
    BY <1>4 DEF StageMetrics
  <2> QED
    BY <2>1, <2>2, <2>3 DEF ToSet
<1> QED
  BY <1>7, <1>8, <1>9, <1>10, <1>11

-----------------------------------------------------------------------------
(* The inductive invariant.                                                 *)

Results == UNION {Outcome[w] : w \in 1..NWindows}
Kept == UNION {ToSet(o.rows) \union ToSet(o.metrics) : o \in Results}

(* Every window put out what it may, and one that is flushed has rows.      *)
RunsInv ==
    /\ ran \in Seq(Results)
    /\ Len(ran) <= NWindows
    /\ \A w \in DOMAIN ran : ran[w] \in Outcome[w]
    /\ flushing \in {"idle", "events", "metrics"}
    /\ flushing # "idle" => ran # <<>> /\ ran[win].rows # <<>>

(* What is stored came from a window, and all of that window with it.       *)
TablesInv ==
    /\ IsFiniteSet(events)
    /\ \A e \in events : \E w \in DOMAIN ran : e \in ToSet(ran[w].rows)
    /\ \A m \in stage_metrics : \E w \in DOMAIN ran : m \in ToSet(ran[w].metrics)
    /\ \A w \in DOMAIN ran :
         \/ ToSet(ran[w].rows) \subseteq events
         \/ ToSet(ran[w].rows) \intersect events = {}
    /\ \A w \in DOMAIN ran :
         \/ ToSet(ran[w].metrics) \subseteq stage_metrics
         \/ ToSet(ran[w].metrics) \intersect stage_metrics = {}

(* A window is done once nothing of it is left to flush.                    *)
Done(w) == w = win => flushing = "idle"

RollInv ==
    /\ \A w : <<w, "metrics">> \in failed => w \in DOMAIN ran /\ Done(w)
    /\ \A w \in DOMAIN ran :
         (\E m \in stage_metrics : m.win = w)
           <=> ran[w].rows # <<>> /\ <<w, "metrics">> \notin failed /\ Done(w)

Request ==
    [at : {"idle", "refused", "waiting", "reading", "answered", "failed"},
     since : Int, until : Int, width : {1, 60, 1440}, seen : Seq(SUBSET Kept)]
ReqInv == req \in [Requests -> Request]

(* What a query saw is still there, and a later query of the same answer    *)
(* saw it as well.                                                          *)
SeenInv ==
    \A r \in Requests : \A n \in DOMAIN req[r].seen :
        /\ n < 5 => req[r].seen[n] \subseteq {e \in events : InRange(r, e.ts)}
        /\ n >= 5 => req[r].seen[n] \subseteq stage_metrics
        /\ \A m \in DOMAIN req[r].seen :
             n < m /\ m < 5 => req[r].seen[n] \subseteq req[r].seen[m]

Inv == RunsInv /\ TablesInv /\ RollInv /\ ReqInv /\ SeenInv /\ WholeWindows

-----------------------------------------------------------------------------
(* A window's rows and metrics, told apart from those of every other.       *)
LEMMA WindowFacts ==
    ASSUME RunsInv
    PROVE  /\ win \in Nat /\ DOMAIN ran = 1..win
           /\ \A w \in DOMAIN ran :
                /\ IsFiniteSet(ToSet(ran[w].rows))
                /\ \A e \in ToSet(ran[w].rows) : e.id[1] = w /\ RowClean(e)
                /\ \A e, f \in ToSet(ran[w].rows) : DedupKey(e) = DedupKey(f) => e = f
                /\ ToSet(ran[w].metrics) # {}
                /\ \A m \in ToSet(ran[w].metrics) : m.win = w
                /\ ToSet(ran[w].rows) \subseteq Kept
                /\ ToSet(ran[w].metrics) \subseteq Kept
<1>1. win \in Nat /\ DOMAIN ran = 1..win
  BY DEF RunsInv, win
<1>2. \A w \in DOMAIN ran : w \in 1..NWindows /\ ran[w] \in Outcome[w]
  BY <1>1, WindowsAssumption DEF RunsInv, win
<1>3. ASSUME NEW w \in DOMAIN ran
      PROVE  ToSet(ran[w].rows) \subseteq Kept /\ ToSet(ran[w].metrics) \subseteq Kept
  <2>1. ran[w] \in Results
    BY <1>2 DEF Results
  <2> QED
    BY <2>1 DEF Kept
<1> QED
  BY <1>1, <1>2, <1>3, WindowRows

(* Nothing is stored, nothing has run.                                      *)
LEMMA InitInv == Init => Inv
<1> SUFFICES ASSUME Init PROVE Inv
  OBVIOUS
<1>1. RunsInv
  BY WindowsAssumption DEF Init, RunsInv, win
<1>2. TablesInv
  BY FS_EmptySet DEF Init, TablesInv
<1>3. RollInv
  BY DEF Init, RollInv
<1>4. ReqInv
  BY DEF Init, ReqInv, Request
<1>5. SeenInv
  BY DEF Init, SeenInv
<1>6. WholeWindows
  BY DEF Init, WholeWindows
<1> QED
  BY <1>1, <1>2, <1>3, <1>4, <1>5, <1>6 DEF Inv

-----------------------------------------------------------------------------
(* The worker's steps.                                                      *)

(* Tables that only grow do not contradict what was read.                   *)
LEMMA SeenStays ==
    ASSUME SeenInv, req' = req, events \subseteq events', stage_metrics \subseteq stage_metrics'
    PROVE  SeenInv'
BY DEF SeenInv, InRange

(* The rows and metrics of a new window are in no table and in no answer.   *)
LEMMA RunWindowInv == Inv /\ RunWindow => Inv'
<1> SUFFICES ASSUME Inv, RunWindow PROVE Inv'
  OBVIOUS
<1> USE DEF Inv
<1>1. PICK out \in Outcome[win + 1] :
          /\ ran' = Append(ran, out)
          /\ flushing' = IF out.rows = <<>> THEN "idle" ELSE "events"
  BY DEF RunWindow
<1>2. /\ flushing = "idle" /\ win < NWindows
      /\ UNCHANGED <<conn, events, stage_metrics, failed, req>>
  BY DEF RunWindow
<1>3. win \in Nat /\ DOMAIN ran = 1..win
  BY WindowFacts
<1>4. out \in Results
  BY <1>2, <1>3, WindowsAssumption DEF Results
<1>5. /\ ran' \in Seq(Results) /\ win' = win + 1 /\ DOMAIN ran' = 1..(win + 1)
      /\ \A w \in DOMAIN ran : ran'[w] = ran[w]
      /\ ran'[win + 1] = out
  BY <1>1, <1>3, <1>4 DEF RunsInv, win
<1>6. RunsInv'
  <2>1. \A w \in DOMAIN ran' : ran'[w] \in Outcome[w]
    BY <1>3, <1>5 DEF RunsInv
  <2>2. Len(ran') <= NWindows
    BY <1>2, <1>3, <1>5, WindowsAssumption DEF win
  <2>3. flushing' # "idle" => ran' # <<>> /\ ran'[win'].rows # <<>>
    BY <1>1, <1>3, <1>5
  <2> QED
    BY <1>1, <1>5, <2>1, <2>2, <2>3 DEF RunsInv
<1>7. /\ \A e \in ToSet(out.rows) : e.id[1] = win + 1
      /\ \A m \in ToSet(out.metrics) : m.win = win + 1
  BY <1>5, <1>6, WindowFacts, WindowRows, <1>2, <1>3, WindowsAssumption
<1>8. /\ \A e \in events : e.id[1] \in 1..win
      /\ \A m \in stage_metrics : m.win \in 1..win
  BY <1>3, WindowFacts DEF TablesInv
<1>9. /\ ToSet(out.rows) \intersect events = {}
      /\ ToSet(out.metrics) \intersect stage_metrics = {}
  BY <1>3, <1>7, <1>8
<1>10. TablesInv'
  <2>1. ASSUME NEW w \in DOMAIN ran', w # win + 1
        PROVE  w \in DOMAIN ran /\ ran'[w] = ran[w]
    BY <1>3, <1>5, <2>1
  <2>2. /\ \A e \in events : \E w \in DOMAIN ran' : e \in ToSet(ran'[w].rows)
        /\ \A m \in stage_metrics : \E w \in DOMAIN ran' : m \in ToSet(ran'[w].metrics)
    BY <1>3, <1>5 DEF TablesInv
  <2>3. \A w \in DOMAIN ran' :
          \/ ToSet(ran'[w].rows) \subseteq events
          \/ ToSet(ran'[w].rows) \intersect events = {}
    BY <1>5, <1>9, <2>1 DEF TablesInv
  <2>4. \A w \in DOMAIN ran' :
          \/ ToSet(ran'[w].metrics) \subseteq stage_metrics
          \/ ToSet(ran'[w].metrics) \intersect stage_metrics = {}
    BY <1>5, <1>9, <2>1 DEF TablesInv
  <2> QED
    BY <1>2, <2>2, <2>3, <2>4 DEF TablesInv
<1>11. RollInv'
  <2>1. \A w \in DOMAIN ran : Done(w) /\ Done(w)'
    BY <1>2, <1>3, <1>5 DEF Done
  <2>2. \A w : w = win + 1 => (Done(w)' <=> out.rows = <<>>)
    BY <1>1, <1>5 DEF Done
  <2>3. <<win + 1, "metrics">> \notin failed
    BY <1>3 DEF RollInv
  <2>4. ~ \E m \in stage_metrics : m.win = win + 1
    BY <1>3, <1>8
  <2>5. \A w : <<w, "metrics">> \in failed' => w \in DOMAIN ran' /\ Done(w)'
    BY <1>2, <1>3, <1>5, <2>1 DEF RollInv
  <2>6. ASSUME NEW w \in DOMAIN ran'
        PROVE  (\E m \in stage_metrics' : m.win = w)
                 <=> ran'[w].rows # <<>> /\ <<w, "metrics">> \notin failed' /\ Done(w)'
    <3>1. CASE w = win + 1
      BY <1>2, <1>5, <2>2, <2>4, <3>1
    <3>2. CASE w # win + 1
      <4>1. w \in DOMAIN ran /\ ran'[w] = ran[w]
        BY <1>3, <1>5, <3>2
      <4> QED
        BY <1>2, <2>1, <4>1 DEF RollInv
    <3> QED
      BY <3>1, <3>2
  <2> QED
    BY <2>5, <2>6 DEF RollInv
<1>12. ReqInv'
  BY <1>2 DEF ReqInv
<1>13. SeenInv'
  BY <1>2, SeenStays
<1>14. WholeWindows'
  <2> SUFFICES ASSUME NEW r \in Requests, NEW n \in DOMAIN req[r].seen, NEW w \in DOMAIN ran'
               PROVE  LET all == IF n < 5 THEN {e \in ToSet(ran'[w].rows) : InRange(r, e.ts)}
                                 ELSE {m \in ToSet(ran'[w].metrics) : InRange(r, m.win)}
                          some == all \intersect req[r].seen[n]
                      IN some = {} \/ some = all
    BY <1>2 DEF WholeWindows, InRange
  <2>1. CASE w = win + 1
    <3>1. CASE n < 5
      <4>1. ToSet(out.rows) \intersect req[r].seen[n] = {}
        BY <1>9, <3>1 DEF SeenInv
      <4> QED
        BY <1>5, <2>1, <3>1, <4>1
    <3>2. CASE ~(n < 5)
      <4>1. n \in Nat
        BY DEF ReqInv, Request
      <4>2. ToSet(out.metrics) \intersect req[r].seen[n] = {}
        BY <1>9, <3>2, <4>1 DEF SeenInv
      <4> QED
        BY <1>5, <2>1, <3>2, <4>2
    <3> QED
      BY <3>1, <3>2
  <2>2. CASE w # win + 1
    <3>1. w \in DOMAIN ran /\ ran'[w] = ran[w]
      BY <1>3, <1>5, <2>2
    <3> QED
      BY <3>1 DEF WholeWindows
  <2> QED
    BY <2>1, <2>2
<1> QED
  BY <1>6, <1>10, <1>11, <1>12, <1>13, <1>14

(* Taking the connection changes nothing the invariant speaks of.           *)
LEMMA NoStepInv ==
    ASSUME Inv, UNCHANGED <<ran, flushing, events, stage_metrics, failed, req>>
    PROVE  Inv'
<1>1. RunsInv'
  BY DEF Inv, RunsInv, win
<1>2. TablesInv'
  BY DEF Inv, TablesInv
<1>3. RollInv'
  BY DEF Inv, RollInv, Done, win
<1>4. ReqInv'
  BY DEF Inv, ReqInv
<1>5. SeenInv'
  BY SeenStays DEF Inv
<1>6. WholeWindows'
  BY DEF Inv, WholeWindows, InRange
<1> QED
  BY <1>1, <1>2, <1>3, <1>4, <1>5, <1>6 DEF Inv

(* Once the window's rows are handled its metrics are to be written, then   *)
(* nothing.                                                                 *)
LEMMA CommitInv == Inv /\ Commit => Inv'
<1> SUFFICES ASSUME Inv, Commit PROVE Inv'
  OBVIOUS
<1> USE DEF Inv
<1> DEFINE rows == ToSet(ran[win].rows)
           metrics == ToSet(ran[win].metrics)
<1>1. /\ flushing' = IF flushing = "events" THEN "metrics" ELSE "idle"
      /\ UNCHANGED <<ran, req, failed>>
      /\ events' = IF flushing = "events" THEN events \union rows ELSE events
      /\ stage_metrics' = IF flushing = "metrics" THEN stage_metrics \union metrics
                          ELSE stage_metrics
  BY DEF Commit, EndTx, After, Stored, Rows
<1>2. win \in Nat /\ DOMAIN ran = 1..win /\ win' = win
  BY <1>1, WindowFacts DEF win
<1>3. flushing # "idle" => win \in DOMAIN ran /\ ran[win].rows # <<>>
  BY <1>2 DEF RunsInv, win
<1>4. RunsInv'
  BY <1>1, <1>2 DEF RunsInv
<1>5. ASSUME NEW w \in DOMAIN ran, w # win, flushing # "idle"
      PROVE  /\ ToSet(ran[w].rows) \intersect rows = {}
             /\ ToSet(ran[w].metrics) \intersect metrics = {}
  <2>1. /\ \A e \in ToSet(ran[w].rows) : e.id[1] = w
        /\ \A e \in rows : e.id[1] = win
        /\ \A m \in ToSet(ran[w].metrics) : m.win = w
        /\ \A m \in metrics : m.win = win
    BY <1>3, <1>5, WindowFacts
  <2> HIDE DEF rows, metrics
  <2> QED
    BY <1>5, <2>1
<1>6. TablesInv'
  <2>1. IsFiniteSet(events')
    BY <1>1, <1>3, WindowFacts, FS_Union DEF TablesInv
  <2>2. \A e \in events' : \E w \in DOMAIN ran' : e \in ToSet(ran'[w].rows)
    BY <1>1, <1>3 DEF TablesInv
  <2>3. \A m \in stage_metrics' : \E w \in DOMAIN ran' : m \in ToSet(ran'[w].metrics)
    BY <1>1, <1>3 DEF TablesInv
  <2>4. \A w \in DOMAIN ran' :
          \/ ToSet(ran'[w].rows) \subseteq events'
          \/ ToSet(ran'[w].rows) \intersect events' = {}
    BY <1>1, <1>5 DEF TablesInv
  <2>5. \A w \in DOMAIN ran' :
          \/ ToSet(ran'[w].metrics) \subseteq stage_metrics'
          \/ ToSet(ran'[w].metrics) \intersect stage_metrics' = {}
    BY <1>1, <1>5 DEF TablesInv
  <2> QED
    BY <2>1, <2>2, <2>3, <2>4, <2>5 DEF TablesInv
<1>7. RollInv'
  <2>1. \A w : w # win => (Done(w) <=> Done(w)')
    BY <1>2 DEF Done
  <2>2. \A w : Done(w) => Done(w)'
    BY <1>1, <1>2 DEF Done
  <2>3. ASSUME NEW w \in DOMAIN ran
        PROVE  (\E m \in stage_metrics' : m.win = w)
                 <=> ran[w].rows # <<>> /\ <<w, "metrics">> \notin failed /\ Done(w)'
    <3>1. CASE flushing = "metrics"
      <4>1. stage_metrics' = stage_metrics \union metrics /\ win \in DOMAIN ran
        BY <1>1, <1>3, <3>1
      <4>2. metrics # {} /\ \A m \in metrics : m.win = win
        BY <4>1, WindowFacts
      <4>3. CASE w = win
        <5>1. \E m \in stage_metrics' : m.win = w
          BY <4>1, <4>2, <4>3
        <5>2. <<w, "metrics">> \notin failed
          BY <3>1, <4>3 DEF RollInv, Done
        <5>3. Done(w)'
          BY <1>1, <3>1 DEF Done
        <5> QED
          BY <1>3, <3>1, <4>3, <5>1, <5>2, <5>3
      <4>4. CASE w # win
        BY <2>1, <4>1, <4>2, <4>4 DEF RollInv
      <4> QED
        BY <4>3, <4>4
    <3>2. CASE flushing # "metrics"
      <4>1. stage_metrics' = stage_metrics
        BY <1>1, <3>2
      <4>2. Done(w) <=> Done(w)'
        BY <1>1, <1>2, <3>2 DEF Done, RunsInv
      <4> QED
        BY <4>1, <4>2 DEF RollInv
    <3> QED
      BY <3>1, <3>2
  <2> QED
    BY <1>1, <2>2, <2>3 DEF RollInv
<1>8. ReqInv'
  BY <1>1 DEF ReqInv
<1>9. SeenInv'
  BY <1>1, SeenStays
<1>10. WholeWindows'
  BY <1>1 DEF WholeWindows, InRange
<1> QED
  BY <1>4, <1>6, <1>7, <1>8, <1>9, <1>10

(* A transaction that fails leaves the tables alone and its window noted.   *)
LEMMA FailInv == Inv /\ Fail => Inv'
<1> SUFFICES ASSUME Inv, Fail PROVE Inv'
  OBVIOUS
<1> USE DEF Inv
<1>1. /\ flushing' = IF flushing = "events" THEN "metrics" ELSE "idle"
      /\ failed' = failed \union {<<win, flushing>>}
      /\ UNCHANGED <<ran, req>>
      /\ UNCHANGED <<events, stage_metrics>>
  BY DEF Fail, EndTx, After, RolledBack
<1>2. win \in Nat /\ DOMAIN ran = 1..win /\ win' = win
  BY <1>1, WindowFacts DEF win
<1>3. RunsInv'
  BY <1>1, <1>2 DEF RunsInv
<1>4. TablesInv'
  BY <1>1 DEF TablesInv
<1>5. RollInv'
  <2>1. flushing # "idle" => win \in DOMAIN ran
    BY <1>2 DEF RunsInv, win
  <2>2. \A w : Done(w) => Done(w)'
    BY <1>1, <1>2 DEF Done
  <2>3. \A w : flushing = "metrics" => Done(w)'
    BY <1>1 DEF Done
  <2>4. \A w : <<w, "metrics">> \in failed'
                 <=> \/ <<w, "metrics">> \in failed
                     \/ w = win /\ flushing = "metrics"
    BY <1>1
  <2>5. \A w : <<w, "metrics">> \in failed' => w \in DOMAIN ran /\ Done(w)'
    BY <2>1, <2>2, <2>3, <2>4 DEF RollInv
  <2>6. ASSUME NEW w \in DOMAIN ran
        PROVE  (\E m \in stage_metrics : m.win = w)
                 <=> ran[w].rows # <<>> /\ <<w, "metrics">> \notin failed' /\ Done(w)'
    <3>1. CASE w = win /\ flushing = "metrics"
      BY <2>4, <3>1 DEF RollInv, Done
    <3>2. CASE ~(w = win /\ flushing = "metrics")
      <4>1. Done(w) <=> Done(w)'
        BY <1>1, <1>2, <3>2 DEF Done, RunsInv
      <4> QED
        BY <2>4, <3>2, <4>1 DEF RollInv
    <3> QED
      BY <3>1, <3>2
  <2> QED
    BY <1>1, <2>5, <2>6 DEF RollInv
<1>6. ReqInv'
  BY <1>1 DEF ReqInv
<1>7. SeenInv'
  BY <1>1, SeenStays
<1>8. WholeWindows'
  BY <1>1 DEF WholeWindows, InRange
<1> QED
  BY <1>3, <1>4, <1>5, <1>6, <1>7, <1>8

-----------------------------------------------------------------------------
(* The requests' steps.                                                     *)

(* Requests only read.                                                      *)
LEMMA WorkerStays ==
    ASSUME Inv, UNCHANGED workerVars
    PROVE  RunsInv' /\ TablesInv' /\ RollInv'
<1>1. UNCHANGED <<ran, flushing, events, stage_metrics, failed>>
  BY DEF workerVars
<1>2. RunsInv'
  BY <1>1 DEF Inv, RunsInv, win
<1>3. TablesInv'
  BY <1>1 DEF Inv, TablesInv
<1>4. RollInv'
  BY <1>1 DEF Inv, RollInv, Done, win
<1> QED
  BY <1>2, <1>3, <1>4

(* A request with other contents.                                           *)
LEMMA WithAt ==
    ASSUME NEW x \in Request, NEW at \in {"waiting", "reading", "answered", "failed"}
    PROVE  LET y == [x EXCEPT !.at = at]
           IN /\ y \in Request /\ y.since = x.since /\ y.until = x.until /\ y.seen = x.seen
BY DEF Request

LEMMA WithSeen ==
    ASSUME NEW x \in Request, NEW seen \in Seq(SUBSET Kept)
    PROVE  LET y == [x EXCEPT !.seen = seen]
           IN /\ y \in Request /\ y.since = x.since /\ y.until = x.until /\ y.seen = seen
BY DEF Request

LEMMA WithBoth ==
    ASSUME NEW x \in Request, NEW at \in {"waiting", "reading", "answered", "failed"},
           NEW seen \in Seq(SUBSET Kept)
    PROVE  LET y == [x EXCEPT !.at = at, !.seen = seen]
           IN /\ y \in Request /\ y.since = x.since /\ y.until = x.until /\ y.seen = seen
<1> DEFINE z == [x EXCEPT !.at = at]
           y == [x EXCEPT !.at = at, !.seen = seen]
           v == [z EXCEPT !.seen = seen]
<1>1. z \in Request /\ z.since = x.since /\ z.until = x.until
  BY WithAt
<1>2. y = v
  OBVIOUS
<1> HIDE DEF y, z
<1>3. v \in Request /\ v.since = z.since /\ v.until = z.until /\ v.seen = seen
  BY <1>1, WithSeen
<1> HIDE DEF v
<1>4. y \in Request /\ y.since = x.since /\ y.until = x.until /\ y.seen = seen
  BY <1>1, <1>2, <1>3
<1> QED
  BY <1>4 DEF y

(* A request that is accepted or refused has seen nothing.                  *)
LEMMA AskInv ==
    ASSUME Inv, NEW r \in Requests, NEW q \in Queries, Ask(r, q)
    PROVE  Inv'
<1> DEFINE since == Given(q.since, win - 1440)
           until == Given(q.until, win)
           x == [at |-> IF q.bad \/ until < since THEN "refused" ELSE "waiting",
                 since |-> since, until |-> until,
                 width |-> Width(q.granularity), seen |-> <<>>]
<1>1. req' = [req EXCEPT ![r] = x] /\ UNCHANGED workerVars
  BY DEF Ask
<1>2. win \in Nat
  BY WindowFacts DEF Inv
<1>3. since \in Int /\ until \in Int
  BY <1>2, QueriesAssumption DEF Given
<1>4. /\ x.seen = <<>>
      /\ x \in Request
  <2> HIDE DEF since, until
  <2> QED
    BY <1>3 DEF Width, Request
<1> HIDE DEF x
<1>5. ReqInv'
  BY <1>1, <1>4 DEF Inv, ReqInv
<1>6. /\ req'[r].seen = <<>>
      /\ \A s \in Requests : s # r => req'[s] = req[s]
  BY <1>1, <1>4 DEF Inv, ReqInv
<1>7. UNCHANGED <<ran, events, stage_metrics>>
  BY <1>1 DEF workerVars
<1>8. SeenInv'
  <2> SUFFICES ASSUME NEW s \in Requests, NEW n \in DOMAIN req'[s].seen
               PROVE  /\ n < 5 => req'[s].seen[n] \subseteq {e \in events : InRange(s, e.ts)'}
                      /\ n >= 5 => req'[s].seen[n] \subseteq stage_metrics
                      /\ \A m \in DOMAIN req'[s].seen :
                           n < m /\ m < 5 => req'[s].seen[n] \subseteq req'[s].seen[m]
    BY <1>7 DEF SeenInv, InRange
  <2>1. s # r
    BY <1>6
  <2> QED
    BY <1>6, <2>1 DEF Inv, SeenInv, InRange
<1>9. WholeWindows'
  <2> SUFFICES ASSUME NEW s \in Requests, NEW n \in DOMAIN req'[s].seen, NEW w \in DOMAIN ran
               PROVE  LET all == IF n < 5 THEN {e \in ToSet(ran[w].rows) : InRange(s, e.ts)'}
                                 ELSE {m \in ToSet(ran[w].metrics) : InRange(s, m.win)'}
                          some == all \intersect req'[s].seen[n]
                      IN some = {} \/ some = all
    BY <1>7 DEF WholeWindows, InRange
  <2>1. s # r
    BY <1>6
  <2>2. req'[s] = req[s]
    BY <1>6, <2>1
  <2> QED
    BY <2>2 DEF Inv, WholeWindows, InRange
<1> QED
  BY <1>1, <1>5, <1>8, <1>9, WorkerStays DEF Inv

(* A query takes whole windows out of whole windows, and what the queries   *)
(* before it took is among it.                                              *)
LEMMA QueryStartInv ==
    ASSUME Inv, NEW r \in Requests, QueryStart(r)
    PROVE  Inv'
<1> DEFINE k == Len(req[r].seen)
           res == Result(r)
<1>1. req' = [req EXCEPT ![r].at = "reading", ![r].seen = Append(@, res)] /\ UNCHANGED workerVars
  BY DEF QueryStart
<1>2. UNCHANGED <<ran, events, stage_metrics>>
  BY <1>1 DEF workerVars
<1>3. /\ k < 4 => res = {e \in events : InRange(r, e.ts)}
      /\ k >= 4 => res = {m \in stage_metrics : InRange(r, m.win)}
      /\ k \in Nat /\ DOMAIN req[r].seen = 1..k
  BY DEF Result, Inv, ReqInv, Request
<1> HIDE DEF res
<1>4. events \subseteq Kept /\ stage_metrics \subseteq Kept
  BY WindowFacts DEF Inv, TablesInv
<1>5. res \in SUBSET Kept
  BY <1>3, <1>4
<1>6. req \in [Requests -> Request]
  BY DEF Inv, ReqInv
<1>7. /\ Append(req[r].seen, res) \in Seq(SUBSET Kept)
      /\ Len(Append(req[r].seen, res)) = k + 1
      /\ \A n \in 1..k : Append(req[r].seen, res)[n] = req[r].seen[n]
      /\ Append(req[r].seen, res)[k + 1] = res
  <2>1. req[r].seen \in Seq(SUBSET Kept)
    BY <1>6 DEF Request
  <2> QED
    BY <1>5, <2>1
<1>8. /\ req' \in [Requests -> Request]
      /\ req'[r].seen = Append(req[r].seen, res)
      /\ \A s \in Requests : req'[s].since = req[s].since /\ req'[s].until = req[s].until
      /\ \A s \in Requests : s # r => req'[s].seen = req[s].seen
  <2>1. req[r] \in Request
    BY <1>6
  <2> DEFINE x == [req[r] EXCEPT !.at = "reading", !.seen = Append(req[r].seen, res)]
  <2>2. /\ x \in Request
        /\ x.seen = Append(req[r].seen, res)
        /\ x.since = req[r].since /\ x.until = req[r].until
    BY <1>7, <2>1, WithBoth
  <2>3. req'[r] = x
    BY <1>1, <1>6
  <2>4. /\ req' = [s \in Requests |-> req'[s]]
        /\ \A s \in Requests : s # r => req'[s] = req[s]
    BY <1>1, <1>6
  <2> HIDE DEF x
  <2>5. /\ req' \in [Requests -> Request] /\ req'[r] = x
        /\ \A s \in Requests : s # r => req'[s] = req[s]
    BY <1>6, <2>2, <2>3, <2>4
  <2> QED
    BY <2>2, <2>5
<1>9. /\ DOMAIN req'[r].seen = 1..(k + 1)
      /\ \A n \in 1..k : req'[r].seen[n] = req[r].seen[n]
      /\ req'[r].seen[k + 1] = res
  <2>1. req'[r].seen \in Seq(SUBSET Kept)
    BY <1>7, <1>8
  <2> QED
    BY <1>3, <1>7, <1>8, <2>1
<1>10. \A s \in Requests : \A t : InRange(s, t)' <=> InRange(s, t)
  BY <1>8 DEF InRange
<1>11. ReqInv'
  BY <1>8 DEF ReqInv
<1>12. SeenInv'
  <2>1. ASSUME NEW s \in Requests, NEW n \in DOMAIN req'[s].seen
        PROVE  /\ n < 5 => req'[s].seen[n] \subseteq {e \in events : InRange(s, e.ts)}
               /\ n >= 5 => req'[s].seen[n] \subseteq stage_metrics
               /\ \A m \in DOMAIN req'[s].seen :
                    n < m /\ m < 5 => req'[s].seen[n] \subseteq req'[s].seen[m]
    <3>1. CASE s # r
      BY <1>8, <3>1 DEF Inv, SeenInv
    <3>2. CASE s = r
      <4>1. n \in Nat /\ (n <= k => n \in 1..k)
        BY <1>3, <1>9, <3>2
      <4>2. /\ n < 5 => req'[r].seen[n] \subseteq {e \in events : InRange(r, e.ts)}
            /\ n >= 5 => req'[r].seen[n] \subseteq stage_metrics
        <5>1. CASE n = k + 1
          BY <1>3, <1>9, <5>1
        <5>2. CASE n # k + 1
          <6>1. n \in 1..k /\ n \in DOMAIN req[r].seen
            BY <1>3, <1>9, <3>2, <5>2
          <6> QED
            BY <1>9, <6>1 DEF Inv, SeenInv
        <5> QED
          BY <5>1, <5>2
      <4>3. ASSUME NEW m \in DOMAIN req'[r].seen, n < m, m < 5
            PROVE  req'[r].seen[n] \subseteq req'[r].seen[m]
        <5>1. n \in 1..k /\ n \in DOMAIN req[r].seen
          BY <1>3, <1>9, <3>2, <4>1, <4>3
        <5>2. CASE m = k + 1
          <6>1. req[r].seen[n] \subseteq {e \in events : InRange(r, e.ts)}
            BY <4>1, <4>3, <5>1, <5>2, <1>3 DEF Inv, SeenInv
          <6>2. res = {e \in events : InRange(r, e.ts)}
            BY <1>3, <4>3, <5>2
          <6> QED
            BY <1>9, <5>1, <5>2, <6>1, <6>2
        <5>3. CASE m # k + 1
          <6>1. m \in 1..k /\ m \in DOMAIN req[r].seen
            BY <1>3, <1>9, <5>3
          <6> QED
            BY <1>9, <4>3, <5>1, <6>1 DEF Inv, SeenInv
        <5> QED
          BY <5>2, <5>3
      <4> QED
        BY <3>2, <4>2, <4>3
    <3> QED
      BY <3>1, <3>2
  <2> QED
    BY <1>2, <1>10, <2>1 DEF SeenInv
<1>13. WholeWindows'
  <2>1. ASSUME NEW s \in Requests, NEW n \in DOMAIN req'[s].seen, NEW w \in DOMAIN ran
        PROVE  LET all == IF n < 5 THEN {e \in ToSet(ran[w].rows) : InRange(s, e.ts)}
                          ELSE {m \in ToSet(ran[w].metrics) : InRange(s, m.win)}
                   some == all \intersect req'[s].seen[n]
               IN some = {} \/ some = all
    <3>1. CASE s # r
      <4>1. req'[s].seen = req[s].seen
        BY <1>8, <3>1
      <4> QED
        BY <4>1 DEF Inv, WholeWindows
    <3>2. CASE s = r /\ n # k + 1
      <4>1. n \in 1..k /\ n \in DOMAIN req[r].seen
        BY <1>3, <1>9, <3>2
      <4> QED
        BY <1>9, <3>2, <4>1 DEF Inv, WholeWindows
    <3>3. CASE s = r /\ n = k + 1
      <4>1. req'[s].seen[n] = res
        BY <1>9, <3>3
      <4>2. CASE n < 5
        <5>1. res = {e \in events : InRange(s, e.ts)}
          BY <1>3, <3>3, <4>2
        <5>2. \/ ToSet(ran[w].rows) \subseteq events
              \/ ToSet(ran[w].rows) \intersect events = {}
          BY DEF Inv, TablesInv
        <5> QED
          BY <4>1, <4>2, <5>1, <5>2
      <4>3. CASE ~(n < 5)
        <5>1. res = {m \in stage_metrics : InRange(s, m.win)}
          BY <1>3, <3>3, <4>3
        <5>2. \/ ToSet(ran[w].metrics) \subseteq stage_metrics
              \/ ToSet(ran[w].metrics) \intersect stage_metrics = {}
          BY DEF Inv, TablesInv
        <5> QED
          BY <4>1, <4>3, <5>1, <5>2
      <4> QED
        BY <4>2, <4>3
    <3> QED
      BY <3>1, <3>2, <3>3
  <2> QED
    BY <1>2, <1>10, <2>1 DEF WholeWindows
<1> QED
  BY <1>1, <1>11, <1>12, <1>13, WorkerStays DEF Inv

(* How far a request has come says nothing of what it has seen.             *)
LEMMA AtInv ==
    ASSUME Inv, NEW r \in Requests, UNCHANGED workerVars,
           NEW at \in {"waiting", "answered", "failed"}, req' = [req EXCEPT ![r].at = at]
    PROVE  Inv'
<1> DEFINE x == [req[r] EXCEPT !.at = at]
<1>0. /\ x \in Request /\ x.since = req[r].since /\ x.until = req[r].until /\ x.seen = req[r].seen
  BY WithAt DEF Inv, ReqInv
<1>9. /\ req'[r] = x /\ req' = [s \in Requests |-> req'[s]]
      /\ \A s \in Requests : s # r => req'[s] = req[s]
  <2>0. ReqInv
    BY DEF Inv
  <2>1. req'[r] = [req[r] EXCEPT !.at = at]
    BY <2>0 DEF ReqInv
  <2>2. req' = [s \in Requests |-> req'[s]]
    BY <2>0 DEF ReqInv
  <2>3. \A s \in Requests : s # r => req'[s] = req[s]
    BY <2>0 DEF ReqInv
  <2> QED
    BY <2>1, <2>2, <2>3
<1> HIDE DEF x
<1>1. \A s \in Requests : /\ req'[s].since = req[s].since /\ req'[s].until = req[s].until
                          /\ req'[s].seen = req[s].seen
  BY <1>0, <1>9
<1>2. ReqInv'
  BY <1>0, <1>9 DEF Inv, ReqInv
<1>3. UNCHANGED <<ran, events, stage_metrics>>
  BY DEF workerVars
<1>4. SeenInv'
  BY <1>1, <1>3 DEF Inv, SeenInv, InRange
<1>5. WholeWindows'
  BY <1>1, <1>3 DEF Inv, WholeWindows, InRange
<1> QED
  BY <1>2, <1>4, <1>5, WorkerStays DEF Inv

(* Every step of the worker and of the requests keeps the invariant.        *)
LEMMA NextInv == Inv /\ [Next]_vars => Inv'
<1> SUFFICES ASSUME Inv, [Next]_vars PROVE Inv'
  OBVIOUS
<1>1. CASE RunWindow
  BY <1>1, RunWindowInv
<1>2. CASE Begin
  BY <1>2, NoStepInv DEF Begin
<1>3. CASE Commit
  BY <1>3, CommitInv
<1>4. CASE Fail
  BY <1>4, FailInv
<1>5. ASSUME NEW r \in Requests, NEW q \in Queries, Ask(r, q)
      PROVE  Inv'
  BY <1>5, AskInv
<1>6. ASSUME NEW r \in Requests, QueryStart(r)
      PROVE  Inv'
  BY <1>6, QueryStartInv
<1>7. ASSUME NEW r \in Requests, QueryEnd(r)
      PROVE  Inv'
  <2>1. PICK at \in {"waiting", "answered", "failed"} : req' = [req EXCEPT ![r].at = at]
    BY <1>7 DEF QueryEnd
  <2>2. UNCHANGED workerVars
    BY <1>7 DEF QueryEnd
  <2> QED
    BY <2>1, <2>2, AtInv
<1>8. ASSUME NEW r \in Requests, QueryFails(r)
      PROVE  Inv'
  BY <1>8, AtInv DEF QueryFails
<1>9. CASE UNCHANGED vars
  BY <1>9, NoStepInv DEF vars
<1> QED
  BY <1>1, <1>2, <1>3, <1>4, <1>5, <1>6, <1>7, <1>8, <1>9 DEF Next, WorkerStep, Query

(* The invariant holds, for any posts, windows and requests, however their  *)
(* transactions and queries interleave and fail.                            *)
THEOREM InvAlways == Spec => []Inv
<1>1. Init => Inv
  BY InitInv
<1>2. Inv /\ [Next]_vars => Inv'
  BY NextInv
<1> QED
  BY <1>1, <1>2, PTL DEF Spec

-----------------------------------------------------------------------------
(* RowsClean: every row ever stored had consent, is of a tracked type,      *)
(* keeps no control key and no more keys than allowed, and is alone in its  *)
(* window with its session, type and minute (hasConsent, normalize,         *)
(* clampProps, propsJSON, dedupKey).                                        *)
THEOREM RowsAlwaysClean == Spec => []RowsClean
<1>1. Inv => RowsClean
  <2> SUFFICES ASSUME Inv, NEW e \in events
               PROVE  /\ RowClean(e)
                      /\ \A f \in events : f.id[1] = e.id[1] /\ DedupKey(f) = DedupKey(e) => f = e
    BY DEF RowsClean, RowClean
  <2>1. \A f \in events : \E w \in DOMAIN ran : f \in ToSet(ran[w].rows)
    BY DEF Inv, TablesInv
  <2>2. PICK w \in DOMAIN ran : e \in ToSet(ran[w].rows)
    BY <2>1
  <2>3. RowClean(e) /\ e.id[1] = w
    BY <2>2, WindowFacts DEF Inv
  <2>4. ASSUME NEW f \in events, f.id[1] = e.id[1], DedupKey(f) = DedupKey(e)
        PROVE  f = e
    <3>1. PICK v \in DOMAIN ran : f \in ToSet(ran[v].rows)
      BY <2>1
    <3>2. f.id[1] = v
      BY <3>1, WindowFacts DEF Inv
    <3> QED
      BY <2>2, <2>3, <2>4, <3>1, <3>2, WindowFacts DEF Inv
  <2> QED
    BY <2>3, <2>4
<1> QED
  BY <1>1, InvAlways, PTL

(* WholeWindows: no query of any request sees part of a window, whichever   *)
(* transactions fail and wherever the query falls between them              *)
(* (InsertEvents, InsertStageMetrics).                                      *)
THEOREM WindowsSeenWhole == Spec => []WholeWindows
<1>1. Inv => WholeWindows
  BY DEF Inv
<1> QED
  BY <1>1, InvAlways, PTL

(* A finite set is at least as large as any of its subsets.                 *)
LEMMA CountOrder ==
    ASSUME NEW S, NEW T, IsFiniteSet(T), S \subseteq T
    PROVE  Count(S) <= Count(T)
BY FS_Subset DEF Count

(* AnswersOrdered: the five queries of an answer read ever larger tables,   *)
(* so its figures can differ in one direction only (Stats).                 *)
THEOREM CountsOrdered == Spec => []AnswersOrdered
<1>1. Inv => AnswersOrdered
  <2> SUFFICES ASSUME Inv, NEW r \in Requests, Len(req[r].seen) >= 4
               PROVE  LET seen == req[r].seen
                          bucket(e) == e.ts \div req[r].width
                      IN /\ Count(seen[1]) <= Count(seen[2])
                         /\ Count(seen[2]) <= Count(seen[3])
                         /\ \A t \in TrackedTypes :
                              Count({e \in seen[3] : e.type = t})
                                <= Count({e \in seen[4] : e.type = t})
                         /\ \A b \in {bucket(e) : e \in seen[2]} :
                              Count({e \in seen[2] : bucket(e) = b})
                                <= Count({e \in seen[4] : bucket(e) = b})
    BY DEF AnswersOrdered
  <2> DEFINE seen == req[r].seen
             bucket(e) == e.ts \div req[r].width
  <2>1. {1, 2, 3, 4} \subseteq DOMAIN seen
    BY DEF Inv, ReqInv, Request
  <2>2. /\ seen[1] \subseteq seen[2] /\ seen[2] \subseteq seen[3]
        /\ seen[3] \subseteq seen[4] /\ seen[2] \subseteq seen[4]
    BY <2>1 DEF Inv, SeenInv
  <2>3. seen[4] \subseteq events
    BY <2>1 DEF Inv, SeenInv
  <2>4. IsFiniteSet(seen[4])
    BY <2>3, FS_Subset DEF Inv, TablesInv
  <2> HIDE DEF seen, bucket
  <2>5. IsFiniteSet(seen[3]) /\ IsFiniteSet(seen[2])
    BY <2>2, <2>4, FS_Subset
  <2>6. Count(seen[1]) <= Count(seen[2]) /\ Count(seen[2]) <= Count(seen[3])
    BY <2>2, <2>5, CountOrder
  <2>7. ASSUME NEW t
        PROVE  Count({e \in seen[3] : e.type = t}) <= Count({e \in seen[4] : e.type = t})
    <3> DEFINE S == {e \in seen[3] : e.type = t}
               T == {e \in seen[4] : e.type = t}
    <3>1. S \subseteq T /\ T \subseteq seen[4]
      BY <2>2
    <3> HIDE DEF S, T
    <3>2. IsFiniteSet(T)
      BY <2>4, <3>1, FS_Subset
    <3>3. Count(S) <= Count(T)
      BY <3>1, <3>2, CountOrder
    <3> QED
      BY <3>3 DEF S, T
  <2>8. ASSUME NEW b
        PROVE  Count({e \in seen[2] : bucket(e) = b}) <= Count({e \in seen[4] : bucket(e) = b})
    <3> DEFINE S == {e \in seen[2] : bucket(e) = b}
               T == {e \in seen[4] : bucket(e) = b}
    <3>1. S \subseteq T /\ T \subseteq seen[4]
      BY <2>2
    <3> HIDE DEF S, T
    <3>2. IsFiniteSet(T)
      BY <2>4, <3>1, FS_Subset
    <3>3. Count(S) <= Count(T)
      BY <3>1, <3>2, CountOrder
    <3> QED
      BY <3>3 DEF S, T
  <2> QED
    BY <2>6, <2>7, <2>8 DEF seen, bucket
<1> QED
  BY <1>1, InvAlways, PTL

(* RollupsCover: between flushes the rollups are those of the windows that  *)
(* collected something, less those whose metrics failed (flush).            *)
THEOREM RollupsAlwaysCover == Spec => []RollupsCover
<1>1. Inv => RollupsCover
  <2> SUFFICES ASSUME Inv, flushing = "idle"
               PROVE  {m.win : m \in stage_metrics}
                        = {w \in DOMAIN ran : ran[w].rows # <<>> /\ <<w, "metrics">> \notin failed}
    BY DEF RollupsCover
  <2>1. \A m \in stage_metrics : m.win \in DOMAIN ran
    BY WindowFacts DEF Inv, TablesInv
  <2>2. \A w \in DOMAIN ran :
          (\E m \in stage_metrics : m.win = w)
            <=> ran[w].rows # <<>> /\ <<w, "metrics">> \notin failed
    BY DEF Inv, RollInv, Done
  <2> QED
    BY <2>1, <2>2
<1> QED
  BY <1>1, InvAlways, PTL
=============================================================================
