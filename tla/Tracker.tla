------------------------------- MODULE Tracker -------------------------------
(***************************************************************************)
(* The browser tracker, tracker.js: pages of one origin that buffer        *)
(* events, send them in batches, and keep failed or held batches in the    *)
(* retry queue that all of them share in localStorage.                     *)
(*                                                                         *)
(* A page runs one handler at a time, but getItem and setItem are separate *)
(* steps: two pages may be two processes, and nothing locks the queue      *)
(* between them.  work[p] is what the handler in progress has still to do. *)
(***************************************************************************)
EXTENDS Naturals, Sequences, FiniteSets, SequencesExt

CONSTANTS
    Pages,         \* browser tabs showing the shop
    Events,        \* calls of track with a whitelisted type
    BatchSize,     \* config.batchSize
    QueueCap,      \* config.maxQueueBytes, in events
    Refused,       \* events whose batch the API answers with 400 or 413
    MaxFails,      \* bound: outages, failures while online, lost answers
    Consents,      \* what a page's user may answer, now or in an earlier visit
    MayHide,       \* pages may be hidden or unloaded
    MayCrash,      \* pages may end without pagehide
    QuotaFails     \* setItem may throw

ASSUME SizesAssumption ==
    /\ BatchSize \in Nat \ {0}
    /\ QueueCap \in Nat
    /\ MaxFails \in Nat
ASSUME SetsAssumption ==
    /\ Consents \subseteq BOOLEAN /\ Consents # {}
    /\ Refused \subseteq Events
    /\ {MayHide, MayCrash, QuotaFails} \subseteq BOOLEAN

VARIABLES
    ready,         \* ready[p]: state.initialized
    consent,       \* consent[p]: config.consent
    buffer,        \* buffer[p]: state.buffer
    timer,         \* timer[p]: state.flushTimer is armed
    work,          \* work[p]: the localStorage operations ahead of p's handler
    hold,          \* hold[p]: the queue p's handler has read
    retry,         \* the retry queue in localStorage
    flights,       \* requests under way, or answered and not yet handled
    connected,     \* navigator.onLine: the browser has a connection
    notice,        \* notice[p]: an "online" event is queued for p
    fails,         \* how much has gone wrong so far, up to MaxFails
    fresh,         \* events not tracked yet
    reached,       \* reached[e]: how often e reached the API
    unanswered,    \* unanswered[e]: how often the answer to that was lost
    stranded,      \* events of a request that the page found failed while it was
                   \* online, and that no replay has taken up since
    shed,          \* events dropped by policy: refused, over the cap or quota
    unheard        \* events handed to a beacon or a dead page that never arrived

pageVars == <<ready, consent, buffer, timer>>
queueVars == <<work, hold, retry>>
linkVars == <<connected, notice, fails>>
pastVars == <<reached, unanswered, stranded, unheard>>
netVars == <<flights, linkVars, pastVars>>
vars == <<pageVars, queueVars, netVars, fresh, shed>>

Init ==
    /\ ready = [p \in Pages |-> FALSE]
    /\ consent = [p \in Pages |-> FALSE]
    /\ buffer = [p \in Pages |-> <<>>]
    /\ timer = [p \in Pages |-> FALSE]
    /\ work = [p \in Pages |-> <<>>]
    /\ hold = [p \in Pages |-> <<>>]
    /\ retry = <<>>
    /\ flights = {}
    /\ connected = TRUE
    /\ notice = [p \in Pages |-> FALSE]
    /\ fails = 0
    /\ fresh = Events
    /\ reached = [e \in Events |-> 0]
    /\ unanswered = [e \in Events |-> 0]
    /\ stranded = {}
    /\ shed = {}
    /\ unheard = {}

Idle(p) == ready[p] /\ work[p] = <<>>
Does(p, op) == work[p] # <<>> /\ Head(work[p]).op = op

Keep(batch) == [op |-> "keep", batch |-> batch]
Save(batch) == [op |-> "save", batch |-> batch]
Replay == [op |-> "replay", batch |-> <<>>]
Clear == [op |-> "clear", batch |-> <<>>]
Resend == [op |-> "resend", batch |-> <<>>]

-----------------------------------------------------------------------------
(* sendBatch, flush and record.                                             *)

Flight(p, batch, by) == [page |-> p, batch |-> batch, by |-> by, fate |-> "open"]

(* sendBatch: sendBeacon refuses what it has no room for, then fetch is used. *)
SendBatch(p, batch, beacon) ==
    \E by \in {"fetch"} \union (IF beacon THEN {"beacon"} ELSE {}) :
        flights' = flights \union {Flight(p, batch, by)}

(* Fault: flush does not look at the consent.                               *)
MaySendAlways(granted) == TRUE
MaySend(granted) == granted

(* flush(useBeacon), of the buffer buf, and then the operations in rest.    *)
Flush(p, buf, granted, beacon, rest) ==
    /\ buffer' = [buffer EXCEPT ![p] = <<>>]
    /\ timer' = [timer EXCEPT ![p] = FALSE]
    /\ work' = [work EXCEPT ![p] =
                  IF buf # <<>> /\ ~MaySend(granted) THEN <<Keep(buf)>> \o rest ELSE rest]
    /\ IF buf # <<>> /\ MaySend(granted) THEN SendBatch(p, buf, beacon)
       ELSE UNCHANGED flights

(* Fault: only the very first event arms the flush timer.                   *)
ArmedOnce == fresh = Events
Armed == TRUE

(* record and scheduleFlush                                                 *)
Record(p, e, granted, rest) ==
    LET buf == Append(buffer[p], e) IN
    IF Len(buf) >= BatchSize
    THEN Flush(p, buf, granted, FALSE, rest)
    ELSE /\ buffer' = [buffer EXCEPT ![p] = buf]
         /\ timer' = [timer EXCEPT ![p] = Armed]
         /\ work' = [work EXCEPT ![p] = rest]
         /\ UNCHANGED flights

-----------------------------------------------------------------------------
(* The handlers of a page.                                                  *)

(* init: the page view of a fresh page, then the replay of what an earlier  *)
(* page, or another one, has left.                                          *)
InitPage(p) ==
    /\ ~ready[p]
    /\ ready' = [ready EXCEPT ![p] = TRUE]
    /\ \E granted \in Consents, e \in fresh :
         /\ consent' = [consent EXCEPT ![p] = granted]
         /\ fresh' = fresh \ {e}
         /\ Record(p, e, granted, <<Replay>>)
    /\ UNCHANGED <<hold, retry, linkVars, pastVars, shed>>

Track(p) ==
    /\ Idle(p)
    /\ \E e \in fresh :
         /\ fresh' = fresh \ {e}
         /\ Record(p, e, consent[p], <<>>)
    /\ UNCHANGED <<ready, consent, hold, retry, linkVars, pastVars, shed>>

(* the callback of scheduleFlush                                            *)
TimerFires(p) ==
    /\ Idle(p)
    /\ timer[p]
    /\ Flush(p, buffer[p], consent[p], FALSE, <<>>)
    /\ UNCHANGED <<ready, consent, hold, retry, linkVars, pastVars, fresh, shed>>

(* visibilitychange to hidden, or pagehide                                  *)
Hide(p) ==
    /\ MayHide
    /\ Idle(p)
    /\ Flush(p, buffer[p], consent[p], TRUE, <<>>)
    /\ UNCHANGED <<ready, consent, hold, retry, linkVars, pastVars, fresh, shed>>

SetConsent(p, granted) ==
    /\ Idle(p)
    /\ granted \in Consents
    /\ consent' = [consent EXCEPT ![p] = granted]
    /\ IF granted
       THEN Flush(p, buffer[p], TRUE, FALSE, <<Replay>>)
       ELSE UNCHANGED <<buffer, timer, work, flights>>
    /\ UNCHANGED <<ready, hold, retry, linkVars, pastVars, fresh, shed>>

(* Fault: nothing is replayed when connectivity returns.                    *)
OnReturnNothing == <<>>
OnReturn == <<Replay>>

(* the listener of "online"                                                 *)
Online(p) ==
    /\ Idle(p)
    /\ notice[p]
    /\ notice' = [notice EXCEPT ![p] = FALSE]
    /\ work' = [work EXCEPT ![p] = OnReturn]
    /\ UNCHANGED <<pageVars, hold, retry, flights, connected, fails, pastVars, fresh, shed>>

(* What only the memory of the page holds: its buffer, the batch to be kept,*)
(* and a replayed queue it has removed but not sent.                        *)
Batches(ops) == UNION {ToSet(ops[i].batch) : i \in DOMAIN ops}
Keeping(p) == Batches(work[p])
Resending(p) == IF Does(p, "resend") THEN ToSet(hold[p]) ELSE {}
Pending(p) == ToSet(buffer[p]) \union Keeping(p) \union Resending(p)

(* The page is gone: nothing of it is left but its requests, to which       *)
(* nobody listens any more.  pagehide has flushed its buffer; a crash has   *)
(* not, and may come in the middle of a handler.                            *)
Gone(p) ==
    /\ ready' = [ready EXCEPT ![p] = FALSE]
    /\ consent' = [consent EXCEPT ![p] = FALSE]
    /\ buffer' = [buffer EXCEPT ![p] = <<>>]
    /\ timer' = [timer EXCEPT ![p] = FALSE]
    /\ work' = [work EXCEPT ![p] = <<>>]
    /\ hold' = [hold EXCEPT ![p] = <<>>]
    /\ notice' = [notice EXCEPT ![p] = FALSE]
    /\ flights' = {[f EXCEPT !.by = IF f.page = p THEN "beacon" ELSE @] :
                      f \in {g \in flights : g.page # p \/ g.fate = "open"}}
    /\ unheard' = unheard \union Pending(p) \union
         UNION {ToSet(f.batch) : f \in {g \in flights : g.page = p /\ g.fate = "fail"}}
    /\ shed' = shed \union
         UNION {ToSet(f.batch) : f \in {g \in flights : g.page = p /\ g.fate = "refused"}}
    /\ UNCHANGED <<retry, connected, fails, fresh, reached, unanswered, stranded>>
Unload(p) ==
    /\ MayHide
    /\ Idle(p)
    /\ buffer[p] = <<>>
    /\ Gone(p)
Crash(p) ==
    /\ MayCrash
    /\ ready[p]
    /\ Gone(p)

-----------------------------------------------------------------------------
(* enqueueRetry and flushRetryQueue, one access to localStorage at a time.  *)

Then(p, ops) == work' = [work EXCEPT ![p] = ops \o Tail(@)]

KeepLoad(p) ==
    /\ Does(p, "keep")
    /\ hold' = [hold EXCEPT ![p] = retry]
    /\ Then(p, <<Save(Head(work[p]).batch)>>)
    /\ UNCHANGED <<pageVars, retry, netVars, fresh, shed>>

(* saveRetryQueue shifts the oldest entries out, but never the last one.    *)
Excess(q) == IF Len(q) > QueueCap /\ Len(q) > 1
             THEN IF QueueCap = 0 THEN Len(q) - 1 ELSE Len(q) - QueueCap
             ELSE 0

(* Fault: the queue read before is overwritten, not extended.               *)
Overwritten(p, batch) == batch
Extended(p, batch) == hold[p] \o batch

KeepSave(p) ==
    /\ Does(p, "save")
    /\ LET q == Extended(p, Head(work[p]).batch)
           n == Excess(q)
       IN /\ retry' = SubSeq(q, n + 1, Len(q))
          /\ shed' = shed \union ToSet(SubSeq(q, 1, n))
    /\ hold' = [hold EXCEPT ![p] = <<>>]
    /\ Then(p, <<>>)
    /\ UNCHANGED <<pageVars, netVars, fresh>>

(* setItem throws: what is stored stays as it was.                          *)
KeepSaveThrows(p) ==
    /\ QuotaFails
    /\ Does(p, "save")
    /\ shed' = shed \union ToSet(Head(work[p]).batch)
    /\ hold' = [hold EXCEPT ![p] = <<>>]
    /\ Then(p, <<>>)
    /\ UNCHANGED <<pageVars, retry, netVars, fresh>>

ReplayLoad(p) ==
    /\ Does(p, "replay")
    /\ IF retry = <<>> \/ ~consent[p]
       THEN Then(p, <<>>) /\ UNCHANGED hold
       ELSE Then(p, <<Clear, Resend>>) /\ hold' = [hold EXCEPT ![p] = retry]
    /\ UNCHANGED <<pageVars, retry, netVars, fresh, shed>>

(* Fault: the replayed queue stays in localStorage.                         *)
NotRemoved == retry
Removed == <<>>

ReplayRemove(p) ==
    /\ Does(p, "clear")
    /\ retry' = Removed
    /\ Then(p, <<>>)
    /\ UNCHANGED <<pageVars, hold, netVars, fresh, shed>>

ReplaySend(p) ==
    /\ Does(p, "resend")
    /\ SendBatch(p, hold[p], FALSE)
    /\ stranded' = stranded \ ToSet(hold[p])
    /\ hold' = [hold EXCEPT ![p] = <<>>]
    /\ Then(p, <<>>)
    /\ UNCHANGED <<pageVars, retry, linkVars, fresh, reached, unanswered, shed, unheard>>

-----------------------------------------------------------------------------
(* The network, the API, and the callbacks of fetch.  Nobody listens to a   *)
(* beacon: what became of it is forgotten at once.                          *)

(* The browser loses its connection, and tells every open page when it has  *)
(* one again.                                                               *)
GoesOffline ==
    /\ connected
    /\ fails < MaxFails
    /\ fails' = fails + 1
    /\ connected' = FALSE
    /\ UNCHANGED <<pageVars, queueVars, flights, notice, pastVars, fresh, shed>>
ComesBack ==
    /\ ~connected
    /\ connected' = TRUE
    /\ notice' = [p \in Pages |-> notice[p] \/ ready[p]]
    /\ UNCHANGED <<pageVars, queueVars, flights, fails, pastVars, fresh, shed>>

Becomes(f, fate) ==
    flights' = (flights \ {f})
                 \union (IF f.by = "fetch" THEN {[f EXCEPT !.fate = fate]} ELSE {})
OneMore(count, batch) ==
    [e \in Events |-> IF e \in ToSet(batch) THEN count[e] + 1 ELSE count[e]]
Arrive(batch) == reached' = OneMore(reached, batch)
Forget(f) ==
    unheard' = IF f.by = "beacon" THEN unheard \union ToSet(f.batch) ELSE unheard

(* 202                                                                      *)
ApiAccepts(f) ==
    /\ connected
    /\ f.fate = "open"
    /\ ToSet(f.batch) \intersect Refused = {}
    /\ Arrive(f.batch)
    /\ Becomes(f, "ok")
    /\ UNCHANGED <<pageVars, queueVars, linkVars, fresh, unanswered, stranded, shed, unheard>>

(* 400 or 413, for the whole body                                           *)
ApiRefuses(f) ==
    /\ connected
    /\ f.fate = "open"
    /\ ToSet(f.batch) \intersect Refused # {}
    /\ Becomes(f, "refused")
    /\ shed' = IF f.by = "beacon" THEN shed \union ToSet(f.batch) ELSE shed
    /\ UNCHANGED <<pageVars, queueVars, linkVars, pastVars, fresh>>

(* No connection; or, with one, an API that is down or answers with a 5xx,  *)
(* of which no page is ever told when it is over.                           *)
RequestFails(f) ==
    /\ f.fate = "open"
    /\ \/ ~connected /\ fails' = fails
       \/ connected /\ fails < MaxFails /\ fails' = fails + 1
    /\ Becomes(f, "fail")
    /\ Forget(f)
    /\ UNCHANGED <<pageVars, queueVars, connected, notice, fresh, reached, unanswered,
                   stranded, shed>>

(* The API took the batch, but the page never gets the answer.              *)
AnswerLost(f) ==
    /\ connected
    /\ fails < MaxFails
    /\ f.fate = "open"
    /\ f.by = "fetch"
    /\ ToSet(f.batch) \intersect Refused = {}
    /\ fails' = fails + 1
    /\ Arrive(f.batch)
    /\ unanswered' = OneMore(unanswered, f.batch)
    /\ Becomes(f, "fail")
    /\ UNCHANGED <<pageVars, queueVars, connected, notice, fresh, stranded, shed, unheard>>

(* 400 and 413 are not retried.                                             *)
Retried == {"fail"}

(* then and catch of fetch: a refused batch is dropped, a failed one kept.  *)
FetchSettles(p, f) ==
    /\ Idle(p)
    /\ f.page = p
    /\ f.fate # "open"
    /\ flights' = flights \ {f}
    /\ work' = [work EXCEPT ![p] =
                  IF f.fate \in Retried THEN <<Keep(f.batch)>> ELSE <<>>]
    /\ shed' = IF f.fate \in {"ok"} \union Retried THEN shed
               ELSE shed \union ToSet(f.batch)
    /\ stranded' = IF f.fate = "fail" /\ connected /\ ~notice[p]
                   THEN stranded \union ToSet(f.batch) ELSE stranded
    /\ UNCHANGED <<pageVars, hold, retry, linkVars, fresh, reached, unanswered, unheard>>

-----------------------------------------------------------------------------
StorageStep(p) ==
    \/ KeepLoad(p) \/ KeepSave(p) \/ KeepSaveThrows(p)
    \/ ReplayLoad(p) \/ ReplayRemove(p) \/ ReplaySend(p)
Settling(p) == \E f \in flights : FetchSettles(p, f)
Answering == \E f \in flights : ApiAccepts(f) \/ ApiRefuses(f)

Next ==
    \/ \E p \in Pages :
         \/ InitPage(p) \/ Track(p) \/ TimerFires(p) \/ Hide(p) \/ Online(p)
         \/ \E granted \in BOOLEAN : SetConsent(p, granted)
         \/ Unload(p) \/ Crash(p)
         \/ StorageStep(p) \/ Settling(p)
    \/ Answering
    \/ \E f \in flights : RequestFails(f) \/ AnswerLost(f)
    \/ GoesOffline \/ ComesBack

Spec == Init /\ [][Next]_vars

(* A handler runs to its end; the event loop gets round to timers and       *)
(* callbacks whatever else it is busy with (SF), the listener of "online"   *)
(* among them if such an event has come; an API that can be reached answers;*)
(* and no outage of the browser's connection lasts for ever.                *)
Fairness ==
    /\ WF_vars(Answering)
    /\ WF_vars(ComesBack)
    /\ \A p \in Pages :
         /\ WF_vars(StorageStep(p))
         /\ SF_vars(TimerFires(p))
         /\ SF_vars(Settling(p))
         /\ SF_vars(Online(p))
FairSpec == Spec /\ Fairness

-----------------------------------------------------------------------------
(* Properties.                                                              *)

InFlight == UNION {ToSet(f.batch) : f \in flights}
Arrived == {e \in Events : reached[e] > 0}
Kept(e) ==
    \/ \E p \in Pages : e \in Pending(p)
    \/ e \in InFlight \union ToSet(retry) \union Arrived \union shed \union unheard

(* Through every failure, hold for consent, reload and replay of one page,  *)
(* a tracked event is in memory, under way, in localStorage, or at the API, *)
(* unless the policy (400/413, the cap, quota) gave it up, a beacon failed, *)
(* or the page crashed with the event in its memory.                        *)
NothingLost == \A e \in Events \ fresh : Kept(e)

(* An event is in one place at a time, in one part of its page or with one  *)
(* request that is open or has failed, and it reaches the API once and then *)
(* once more for each time that the answer about this very event was lost:  *)
(* neither the timer, nor unload, nor a replay or a crash in the middle of  *)
(* one, sends anything twice, as long as the page has its queue to itself.  *)
Live == {f \in flights : f.fate \in {"open", "fail"}}
Carries(f, e) == e \in ToSet(f.batch)
AtHome(p, e) ==
    e \in ToSet(buffer[p]) \union Keeping(p) \union Resending(p) \union ToSet(retry)
OnePlace(p, e) ==
    /\ e \in ToSet(buffer[p]) => e \notin Keeping(p) \union Resending(p) \union ToSet(retry)
    /\ e \in Keeping(p) => e \notin Resending(p) \union ToSet(retry)
    /\ e \in Resending(p) => e \notin ToSet(retry)
    /\ AtHome(p, e) => \A f \in Live : ~Carries(f, e)
    /\ \A f, g \in Live : Carries(f, e) /\ Carries(g, e) => f = g
NothingSentTwice ==
    \A e \in Events :
        /\ \A p \in Pages : OnePlace(p, e)
        /\ reached[e] <= 1 + unanswered[e]

(* While a page may not speak, nothing new leaves it: a request appears     *)
(* only from a page that has consent, at the instant it appears.            *)
Asked == {f \in flights' : \A g \in flights : g.page = f.page => g.batch # f.batch}
SpeaksWithConsent ==
    [][\A f \in Asked : consent'[f.page]]_vars

(* A buffered event always has a timer that will flush it, and a timer      *)
(* always has something to flush (scheduleFlush and flush agree).           *)
TimerMatchesBuffer == \A p \in Pages : timer[p] <=> buffer[p] # <<>>

(* Once failures end, a tracked event arrives at the API, or is given up by *)
(* policy or with a beacon or a crash, unless its page is without consent   *)
(* or closed for a while first, or it is stranded: the page was online when *)
(* it found its request failed, and nothing makes it replay the queue then  *)
(* (there is no timer for it).  What failed in an outage does get through.  *)
Delivered ==
    \A e \in Events :
        e \notin fresh ~> \/ reached[e] > 0
                         \/ e \in shed \union unheard \union stranded
                         \/ \E p \in Pages : ~consent[p] \/ ~ready[p]

(* scripts/README.md, "Offline retry": failed sends are persisted to        *)
(* localStorage and replayed, from every page that is open.                 *)
FailedSendsPersist == NothingLost
=============================================================================
