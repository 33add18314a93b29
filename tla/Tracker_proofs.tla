--------------------------- MODULE Tracker_proofs ----------------------------
(* What holds of the tracker for any number of events and failures and any  *)
(* sizes of its batches and of its queue: its timer and its consent for any *)
(* number of pages, what becomes of its events for one.                     *)
EXTENDS Tracker, TLAPS

USE DEF linkVars, pastVars

LEMMA Tails ==
    ASSUME NEW a, NEW b
    PROVE  /\ Tail(<<a>>) = <<>>
           /\ Tail(<<a, b>>) = <<b>>
           /\ Head(<<a>>) = a
           /\ Head(<<a, b>>) = a
           /\ <<>> \o <<>> = <<>>
           /\ <<>> \o <<b>> = <<b>>
           /\ <<a>> \o <<>> = <<a>>
           /\ <<a>> \o <<b>> = <<a, b>>
           /\ <<a, b>> \o <<>> = <<a, b>>
<1>1. Tail(<<a>>) = <<>>
  OBVIOUS
<1>2. Tail(<<a, b>>) = <<b>>
  OBVIOUS
<1>3. Head(<<a>>) = a /\ Head(<<a, b>>) = a
  OBVIOUS
<1>4. <<>> \o <<>> = <<>>
  OBVIOUS
<1>5. <<>> \o <<b>> = <<b>>
  OBVIOUS
<1>6. <<a>> \o <<>> = <<a>>
  OBVIOUS
<1>7. <<a>> \o <<b>> = <<a, b>>
  <2> DEFINE s == <<a>> \o <<b>>
             t == <<a, b>>
  <2>1. /\ s \in Seq({a, b}) /\ Len(s) = 2 /\ s[1] = a /\ s[2] = b
        /\ t \in Seq({a, b}) /\ Len(t) = 2 /\ t[1] = a /\ t[2] = b
    OBVIOUS
  <2> HIDE DEF s, t
  <2>2. s = [i \in 1..2 |-> s[i]] /\ t = [i \in 1..2 |-> t[i]]
    BY <2>1
  <2>3. \A i \in 1..2 : s[i] = t[i]
    BY <2>1
  <2>4. s = t
    BY <2>2, <2>3
  <2> QED
    BY <2>4 DEF s, t
<1>8. <<a, b>> \o <<>> = <<a, b>>
  OBVIOUS
<1> QED
  BY <1>1, <1>2, <1>3, <1>4, <1>5, <1>6, <1>7, <1>8

-----------------------------------------------------------------------------
(* The flush timer.                                                         *)

BufferInv ==
    /\ buffer \in [Pages -> Seq(Events)]
    /\ timer \in [Pages -> BOOLEAN]
    /\ fresh \subseteq Events
    /\ TimerMatchesBuffer

LEMMA FlushBuffer ==
    ASSUME BufferInv, NEW p \in Pages, NEW buf, NEW granted, NEW beacon, NEW rest,
           Flush(p, buf, granted, beacon, rest)
    PROVE  buffer' \in [Pages -> Seq(Events)] /\ timer' \in [Pages -> BOOLEAN]
           /\ TimerMatchesBuffer'
  BY DEF BufferInv, Flush, TimerMatchesBuffer

LEMMA RecordBuffer ==
    ASSUME BufferInv, NEW p \in Pages, NEW e \in Events, NEW granted, NEW rest,
           Record(p, e, granted, rest)
    PROVE  buffer' \in [Pages -> Seq(Events)] /\ timer' \in [Pages -> BOOLEAN]
           /\ TimerMatchesBuffer'
<1> DEFINE buf == Append(buffer[p], e)
<1>1. buf \in Seq(Events) /\ buf # <<>>
  BY DEF BufferInv
<1>2. CASE Len(buf) >= BatchSize
  BY <1>2, FlushBuffer DEF Record
<1>3. CASE ~(Len(buf) >= BatchSize)
  <2>1. buffer' = [buffer EXCEPT ![p] = buf] /\ timer' = [timer EXCEPT ![p] = TRUE]
    BY <1>3 DEF Record, Armed
  <2> HIDE DEF buf
  <2> QED
    BY <1>1, <2>1 DEF BufferInv, TimerMatchesBuffer
<1> QED
  BY <1>2, <1>3

LEMMA BufferStep == BufferInv /\ [Next]_vars => BufferInv'
<1> SUFFICES ASSUME BufferInv, [Next]_vars PROVE BufferInv'
  OBVIOUS
<1>1. CASE UNCHANGED <<buffer, timer, fresh>>
  BY <1>1 DEF BufferInv, TimerMatchesBuffer
<1>2. CASE \/ Answering \/ \E f \in flights : RequestFails(f) \/ AnswerLost(f)
           \/ GoesOffline \/ ComesBack
  BY <1>1, <1>2 DEF Answering, ApiAccepts, ApiRefuses, RequestFails, AnswerLost,
     GoesOffline, ComesBack, pageVars
<1>3. ASSUME NEW p \in Pages, StorageStep(p) \/ Settling(p) \/ Online(p) PROVE BufferInv'
  BY <1>1, <1>3 DEF StorageStep, Settling, KeepLoad, KeepSave, KeepSaveThrows, ReplayLoad,
     ReplayRemove, ReplaySend, FetchSettles, Online, pageVars
<1>4. ASSUME NEW p \in Pages, Unload(p) \/ Crash(p) PROVE BufferInv'
  <2>1. /\ buffer' = [buffer EXCEPT ![p] = <<>>]
        /\ timer' = [timer EXCEPT ![p] = FALSE]
        /\ UNCHANGED fresh
    BY <1>4 DEF Unload, Crash, Gone
  <2> QED
    BY <2>1 DEF BufferInv, TimerMatchesBuffer
<1>5. ASSUME NEW p \in Pages, InitPage(p) \/ Track(p) PROVE BufferInv'
  <2>1. \E e, granted, rest :
          e \in fresh /\ fresh' = fresh \ {e} /\ Record(p, e, granted, rest)
    <3>1. CASE InitPage(p)
      BY <3>1 DEF InitPage
    <3>2. CASE Track(p)
      BY <3>2 DEF Track
    <3> QED
      BY <1>5, <3>1, <3>2
  <2> QED
    BY <2>1, RecordBuffer DEF BufferInv
<1>6. ASSUME NEW p \in Pages,
             TimerFires(p) \/ Hide(p) \/ \E granted \in BOOLEAN : SetConsent(p, granted)
      PROVE  BufferInv'
  <2>1. UNCHANGED fresh
    BY <1>6 DEF TimerFires, Hide, SetConsent
  <2>2. \/ UNCHANGED <<buffer, timer>>
        \/ \E granted, beacon, rest : Flush(p, buffer[p], granted, beacon, rest)
    BY <1>6 DEF TimerFires, Hide, SetConsent
  <2> QED
    BY <1>1, <2>1, <2>2, FlushBuffer DEF BufferInv
<1> QED
  BY <1>1, <1>2, <1>3, <1>4, <1>5, <1>6 DEF Next, vars, pageVars, queueVars, netVars

(* A page's timer is armed exactly while its buffer is not empty, through   *)
(* every flush, consent change, reload and crash.                           *)
THEOREM TimerAgrees == Spec => []TimerMatchesBuffer
<1>1. Init => BufferInv
  BY DEF Init, BufferInv, TimerMatchesBuffer
<1>2. BufferInv => TimerMatchesBuffer
  BY DEF BufferInv
<1> QED
  BY <1>1, <1>2, BufferStep, PTL DEF Spec

-----------------------------------------------------------------------------
(* Consent.                                                                 *)

(* What a handler may have ahead of it: a batch to keep, perhaps a replay   *)
(* after it; and the rest of a replay only while the page has consent.      *)
WorkShape(p) ==
    \/ work[p] = <<>>
    \/ work[p] = <<Replay>>
    \/ \E b : work[p] \in {<<Keep(b)>>, <<Keep(b), Replay>>, <<Save(b)>>, <<Save(b), Replay>>}
    \/ consent[p] /\ work[p] \in {<<Clear, Resend>>, <<Resend>>}

ConsentInv ==
    /\ ready \in [Pages -> BOOLEAN]
    /\ consent \in [Pages -> BOOLEAN]
    /\ work = [p \in Pages |-> work[p]]
    /\ \A p \in Pages : WorkShape(p)
    /\ \A p \in Pages : ~ready[p] => work[p] = <<>>
    /\ \A f \in flights : f = [page |-> f.page, batch |-> f.batch, by |-> f.by, fate |-> f.fate]

Shaped(fs) ==
    \A f \in fs : f = [page |-> f.page, batch |-> f.batch, by |-> f.by, fate |-> f.fate]

(* A step adds requests of page p only, and only if it has consent.         *)
Adds(p, granted) ==
    /\ Shaped(flights')
    /\ \A f \in flights' \ flights : f.page = p /\ granted
(* Or it adds none: what is under way was under way before.                 *)
Silent ==
    /\ Shaped(flights')
    /\ \A f \in flights' : \E g \in flights : g.page = f.page /\ g.batch = f.batch

(* What a flush leaves the handler to do: rest, after keeping a batch or not.*)
Ahead(p, rest) ==
    \E ops : /\ work' = [work EXCEPT ![p] = ops]
             /\ ops = rest \/ \E b : ops \in {<<Keep(b)>>, <<Keep(b), Replay>>}

LEMMA AddsSpeaks ==
    ASSUME NEW p \in Pages, Adds(p, consent'[p])
    PROVE  \A f \in Asked : consent'[f.page]
  BY DEF Adds, Asked

LEMMA SilentSpeaks == Silent => \A f \in Asked : consent'[f.page]
  BY DEF Silent, Asked

LEMMA SendAdds ==
    ASSUME ConsentInv, NEW p \in Pages, NEW batch, NEW beacon, SendBatch(p, batch, beacon)
    PROVE  Adds(p, TRUE)
<1>1. PICK by : flights' = flights \union {Flight(p, batch, by)}
  BY DEF SendBatch
<1> QED
  BY <1>1 DEF Adds, Shaped, ConsentInv, Flight

LEMMA FlushShape ==
    ASSUME ConsentInv, NEW p \in Pages, NEW buf, NEW granted \in BOOLEAN, NEW beacon,
           NEW rest \in {<<>>, <<Replay>>}, Flush(p, buf, granted, beacon, rest)
    PROVE  Adds(p, granted) /\ Ahead(p, rest)
<1>1. CASE buf # <<>> /\ granted
  BY <1>1, SendAdds DEF Flush, MaySend, Ahead
<1>2. CASE buf # <<>> /\ ~granted
  <2>1. work' = [work EXCEPT ![p] = <<Keep(buf)>> \o rest] /\ UNCHANGED flights
    BY <1>2 DEF Flush, MaySend
  <2>2. <<Keep(buf)>> \o rest \in {<<Keep(buf)>>, <<Keep(buf), Replay>>}
    BY Tails
  <2> QED
    BY <2>1, <2>2 DEF Adds, Shaped, ConsentInv, Ahead
<1>3. CASE buf = <<>>
  BY <1>3 DEF Flush, MaySend, Ahead, Adds, Shaped, ConsentInv
<1> QED
  BY <1>1, <1>2, <1>3

LEMMA RecordShape ==
    ASSUME ConsentInv, NEW p \in Pages, NEW e, NEW granted \in BOOLEAN,
           NEW rest \in {<<>>, <<Replay>>}, Record(p, e, granted, rest)
    PROVE  Adds(p, granted) /\ Ahead(p, rest)
<1> DEFINE buf == Append(buffer[p], e)
<1>1. CASE Len(buf) >= BatchSize
  <2>1. Flush(p, buf, granted, FALSE, rest)
    BY <1>1 DEF Record
  <2> HIDE DEF buf
  <2> QED
    BY <2>1, FlushShape
<1>2. CASE ~(Len(buf) >= BatchSize)
  <2>1. work' = [work EXCEPT ![p] = rest] /\ UNCHANGED flights
    BY <1>2 DEF Record
  <2> QED
    BY <2>1 DEF Adds, Shaped, ConsentInv, Ahead
<1> QED
  BY <1>1, <1>2

(* The rest of a handler is in order if what the step leaves page p to do   *)
(* is, and it touches the consent of no other page.                         *)
LEMMA Continue ==
    ASSUME ConsentInv, NEW p \in Pages, NEW ops,
           work' = [work EXCEPT ![p] = ops],
           ready' \in [Pages -> BOOLEAN], consent' \in [Pages -> BOOLEAN],
           \A q \in Pages \ {p} : ready'[q] = ready[q] /\ consent'[q] = consent[q],
           ready'[p] \/ ops = <<>>,
           \/ ops \in {<<>>, <<Replay>>}
           \/ \E b : ops \in {<<Keep(b)>>, <<Keep(b), Replay>>, <<Save(b)>>, <<Save(b), Replay>>}
           \/ consent'[p] /\ ops \in {<<Clear, Resend>>, <<Resend>>},
           Shaped(flights')
    PROVE  ConsentInv'
<1>1. work' = [q \in Pages |-> work'[q]]
  BY DEF ConsentInv
<1>2. work'[p] = ops /\ \A q \in Pages \ {p} : work'[q] = work[q]
  BY DEF ConsentInv
<1>3. WorkShape(p)'
  BY <1>2 DEF WorkShape
<1>4. \A q \in Pages \ {p} : WorkShape(q)'
  BY <1>2 DEF ConsentInv, WorkShape
<1>5. \A q \in Pages : ~ready'[q] => work'[q] = <<>>
  BY <1>2 DEF ConsentInv
<1> QED
  BY <1>1, <1>3, <1>4, <1>5 DEF ConsentInv, Shaped

Speaks == \A f \in Asked : consent'[f.page]

(* The handlers that start: they find nothing ahead of them.                *)
LEMMA StartStep ==
    ASSUME ConsentInv, NEW p \in Pages,
           \/ InitPage(p) \/ Track(p) \/ TimerFires(p) \/ Hide(p) \/ Online(p)
           \/ \E granted \in BOOLEAN : SetConsent(p, granted)
    PROVE  ConsentInv' /\ Speaks
<1> USE DEF Speaks
<1>1. CASE InitPage(p)
  <2>1. PICK granted \in Consents, e \in fresh :
          /\ consent' = [consent EXCEPT ![p] = granted]
          /\ Record(p, e, granted, <<Replay>>)
    BY <1>1 DEF InitPage
  <2>2. granted \in BOOLEAN
    BY SetsAssumption
  <2>3. ready' = [ready EXCEPT ![p] = TRUE]
    BY <1>1 DEF InitPage
  <2>4. Adds(p, granted) /\ consent'[p] = granted
    BY <2>1, <2>2, RecordShape DEF ConsentInv
  <2>5. PICK ops : /\ work' = [work EXCEPT ![p] = ops]
                   /\ ops = <<Replay>> \/ \E b : ops \in {<<Keep(b)>>, <<Keep(b), Replay>>}
    BY <2>1, <2>2, RecordShape DEF Ahead
  <2>6. ready'[p] /\ ready' \in [Pages -> BOOLEAN] /\ consent' \in [Pages -> BOOLEAN]
        /\ \A q \in Pages \ {p} : ready'[q] = ready[q] /\ consent'[q] = consent[q]
    BY <2>1, <2>2, <2>3 DEF ConsentInv
  <2>7. ConsentInv'
    BY <2>4, <2>5, <2>6, Continue DEF Adds
  <2> QED
    BY <2>4, <2>7, AddsSpeaks
<1>2. CASE Track(p) \/ TimerFires(p) \/ Hide(p)
  <2>1. ready[p] /\ UNCHANGED <<ready, consent>> /\ consent[p] \in BOOLEAN
    BY <1>2 DEF Track, TimerFires, Hide, Idle, ConsentInv
  <2>2. Adds(p, consent[p]) /\ Ahead(p, <<>>)
    <3>1. CASE Track(p)
      <4>1. PICK e \in fresh : Record(p, e, consent[p], <<>>)
        BY <3>1 DEF Track
      <4> QED
        BY <2>1, <4>1, RecordShape
    <3>2. CASE TimerFires(p) \/ Hide(p)
      BY <2>1, <3>2, FlushShape DEF TimerFires, Hide
    <3> QED
      BY <1>2, <3>1, <3>2
  <2>3. PICK ops : /\ work' = [work EXCEPT ![p] = ops]
                   /\ ops = <<>> \/ \E b : ops \in {<<Keep(b)>>, <<Keep(b), Replay>>}
    BY <2>2 DEF Ahead
  <2>4. ConsentInv'
    BY <2>1, <2>2, <2>3, Continue DEF Adds, ConsentInv
  <2> QED
    BY <2>1, <2>2, <2>4, AddsSpeaks
<1>3. CASE Online(p)
  <2>1. ready[p] /\ UNCHANGED <<ready, consent, flights>> /\ work' = [work EXCEPT ![p] = <<Replay>>]
    BY <1>3 DEF Online, OnReturn, Idle, pageVars
  <2>2. Silent
    BY <2>1 DEF Silent, Shaped, ConsentInv
  <2>3. ConsentInv'
    BY <2>1, <2>2, Continue DEF Silent, ConsentInv
  <2> QED
    BY <2>2, <2>3, SilentSpeaks
<1>4. ASSUME NEW granted \in BOOLEAN, SetConsent(p, granted) PROVE ConsentInv' /\ Speaks
  <2>1. /\ ready[p] /\ UNCHANGED ready /\ work[p] = <<>>
        /\ consent' = [consent EXCEPT ![p] = granted]
    BY <1>4 DEF SetConsent, Idle
  <2>2. /\ consent'[p] = granted /\ consent' \in [Pages -> BOOLEAN]
        /\ \A q \in Pages \ {p} : consent'[q] = consent[q]
    BY <2>1 DEF ConsentInv
  <2>3. CASE granted
    <3>1. Flush(p, buffer[p], TRUE, FALSE, <<Replay>>)
      BY <1>4, <2>3 DEF SetConsent
    <3>2. Adds(p, TRUE)
      BY <3>1, FlushShape
    <3>3. PICK ops : /\ work' = [work EXCEPT ![p] = ops]
                     /\ ops = <<Replay>> \/ \E b : ops \in {<<Keep(b)>>, <<Keep(b), Replay>>}
      BY <3>1, FlushShape DEF Ahead
    <3>4. ConsentInv'
      BY <2>1, <2>2, <3>2, <3>3, Continue DEF Adds, ConsentInv
    <3> QED
      BY <2>2, <2>3, <3>2, <3>4, AddsSpeaks
  <2>4. CASE ~granted
    <3>1. UNCHANGED <<work, flights>>
      BY <1>4, <2>4 DEF SetConsent
    <3>2. Silent
      BY <3>1 DEF Silent, Shaped, ConsentInv
    <3>3. work' = [work EXCEPT ![p] = <<>>]
      BY <2>1, <3>1 DEF ConsentInv
    <3>4. ConsentInv'
      BY <2>1, <2>2, <3>2, <3>3, Continue DEF Silent, ConsentInv
    <3> QED
      BY <3>2, <3>4, SilentSpeaks
  <2> QED
    BY <2>3, <2>4
<1> QED
  BY <1>1, <1>2, <1>3, <1>4

(* What is left after the step in hand.                                     *)
LEMMA Doing ==
    ASSUME ConsentInv, NEW p \in Pages, work[p] # <<>>
    PROVE  /\ ready[p]
           /\ Does(p, "keep") \/ Does(p, "save") => Tail(work[p]) \in {<<>>, <<Replay>>}
           /\ Does(p, "replay") => Tail(work[p]) = <<>>
           /\ Does(p, "clear") => consent[p] /\ Tail(work[p]) = <<Resend>>
           /\ Does(p, "resend") => consent[p] /\ Tail(work[p]) = <<>>
<1> USE DEF Does, Keep, Save, Replay, Clear, Resend
<1>1. ready[p] /\ WorkShape(p)
  BY DEF ConsentInv
<1>2. CASE work[p] = <<Replay>>
  <2>1. Head(work[p]).op = "replay" /\ Tail(work[p]) = <<>>
    BY <1>2, Tails
  <2> QED
    BY <1>1, <2>1
<1>3. ASSUME NEW b,
             work[p] \in {<<Keep(b)>>, <<Keep(b), Replay>>, <<Save(b)>>, <<Save(b), Replay>>}
      PROVE  Head(work[p]).op \in {"keep", "save"} /\ Tail(work[p]) \in {<<>>, <<Replay>>}
  <2>1. ASSUME NEW x, x.op \in {"keep", "save"}, work[p] \in {<<x>>, <<x, Replay>>}
        PROVE  Head(work[p]).op \in {"keep", "save"} /\ Tail(work[p]) \in {<<>>, <<Replay>>}
    <3>1. CASE work[p] = <<x>>
      BY <2>1, <3>1, Tails
    <3>2. CASE work[p] = <<x, Replay>>
      <4>1. Head(work[p]) = x /\ Tail(work[p]) = <<Replay>>
        BY <3>2, Tails
      <4> QED
        BY <2>1, <4>1
    <3> QED
      BY <2>1, <3>1, <3>2
  <2>2. Keep(b).op \in {"keep", "save"} /\ Save(b).op \in {"keep", "save"}
    OBVIOUS
  <2>3. \E x \in {Keep(b), Save(b)} : work[p] \in {<<x>>, <<x, Replay>>}
    BY <1>3
  <2> QED
    BY <2>1, <2>2, <2>3
<1>4. CASE consent[p] /\ work[p] = <<Clear, Resend>>
  <2>1. Head(work[p]).op = "clear" /\ Tail(work[p]) = <<Resend>>
    BY <1>4, Tails
  <2> QED
    BY <1>1, <1>4, <2>1
<1>5. CASE consent[p] /\ work[p] = <<Resend>>
  <2>1. Head(work[p]).op = "resend" /\ Tail(work[p]) = <<>>
    BY <1>5, Tails
  <2> QED
    BY <1>1, <1>5, <2>1
<1>6. CASE \E b : work[p] \in {<<Keep(b)>>, <<Keep(b), Replay>>, <<Save(b)>>, <<Save(b), Replay>>}
  <2>1. Head(work[p]).op \in {"keep", "save"} /\ Tail(work[p]) \in {<<>>, <<Replay>>}
    BY <1>3, <1>6
  <2> QED
    BY <1>1, <2>1
<1> QED
  BY <1>1, <1>2, <1>4, <1>5, <1>6 DEF WorkShape

LEMMA ContinueSame ==
    ASSUME ConsentInv, NEW p \in Pages, ready[p], UNCHANGED <<ready, consent>>, NEW ops,
           work' = [work EXCEPT ![p] = ops],
           \/ ops \in {<<>>, <<Replay>>}
           \/ \E b : ops \in {<<Keep(b)>>, <<Keep(b), Replay>>, <<Save(b)>>, <<Save(b), Replay>>}
           \/ consent[p] /\ ops \in {<<Clear, Resend>>, <<Resend>>},
           Silent \/ Adds(p, consent[p])
    PROVE  ConsentInv' /\ Speaks
<1>1. Shaped(flights')
  BY DEF Silent, Adds
<1>2. ConsentInv'
  BY <1>1, Continue DEF ConsentInv
<1> QED
  BY <1>2, AddsSpeaks, SilentSpeaks DEF Speaks

LEMMA StorageShape ==
    ASSUME ConsentInv, NEW p \in Pages, StorageStep(p)
    PROVE  ConsentInv' /\ Speaks
<1>1. work[p] # <<>>
  BY DEF StorageStep, KeepLoad, KeepSave, KeepSaveThrows, ReplayLoad, ReplayRemove,
         ReplaySend, Does
<1>2. UNCHANGED <<ready, consent>>
  BY DEF StorageStep, KeepLoad, KeepSave, KeepSaveThrows, ReplayLoad, ReplayRemove,
         ReplaySend, pageVars
<1>3. UNCHANGED flights => Silent
  BY DEF Silent, Shaped, ConsentInv
<1> USE <1>1, <1>2, Doing
<1>4. CASE KeepLoad(p)
  <2>1. PICK b : work' = [work EXCEPT ![p] = <<Save(b)>> \o Tail(@)]
    BY <1>4 DEF KeepLoad, Then
  <2>2. <<Save(b)>> \o Tail(work[p]) \in {<<Save(b)>>, <<Save(b), Replay>>}
    BY <1>4, Tails DEF KeepLoad
  <2>3. UNCHANGED flights
    BY <1>4 DEF KeepLoad, netVars
  <2> QED
    BY <1>3, <2>1, <2>2, <2>3, ContinueSame
<1>5. CASE KeepSave(p) \/ KeepSaveThrows(p)
  <2>1. work' = [work EXCEPT ![p] = <<>> \o Tail(@)] /\ UNCHANGED flights
    BY <1>5 DEF KeepSave, KeepSaveThrows, Then, netVars
  <2>2. <<>> \o Tail(work[p]) \in {<<>>, <<Replay>>}
    BY <1>5, Tails DEF KeepSave, KeepSaveThrows
  <2> QED
    BY <1>3, <2>1, <2>2, ContinueSame
<1>6. CASE ReplayLoad(p)
  <2>1. UNCHANGED flights
    BY <1>6 DEF ReplayLoad, netVars
  <2>2. \E ops \in {<<>>, <<Clear, Resend>>} :
          /\ work' = [work EXCEPT ![p] = ops \o Tail(@)]
          /\ ops = <<>> \/ consent[p]
    BY <1>6 DEF ReplayLoad, Then, ConsentInv
  <2>3. PICK ops \in {<<>>, <<Clear, Resend>>} :
          /\ work' = [work EXCEPT ![p] = ops \o Tail(@)]
          /\ ops = <<>> \/ consent[p]
    BY <2>2
  <2>4. ops \o Tail(work[p]) = ops
    <3>1. Tail(work[p]) = <<>>
      BY <1>6 DEF ReplayLoad
    <3>2. <<>> \o <<>> = <<>> /\ <<Clear, Resend>> \o <<>> = <<Clear, Resend>>
      BY Tails
    <3> QED
      BY <3>1, <3>2
  <2> QED
    BY <1>3, <2>1, <2>3, <2>4, ContinueSame
<1>7. CASE ReplayRemove(p)
  <2>1. work' = [work EXCEPT ![p] = <<>> \o Tail(@)] /\ UNCHANGED flights
    BY <1>7 DEF ReplayRemove, Then, netVars
  <2>2. consent[p] /\ <<>> \o Tail(work[p]) = <<Resend>>
    BY <1>7, Tails DEF ReplayRemove
  <2> QED
    BY <1>3, <2>1, <2>2, ContinueSame
<1>8. CASE ReplaySend(p)
  <2>1. work' = [work EXCEPT ![p] = <<>> \o Tail(@)] /\ SendBatch(p, hold[p], FALSE)
    BY <1>8 DEF ReplaySend, Then
  <2>2. consent[p] /\ <<>> \o Tail(work[p]) = <<>>
    BY <1>8, Tails DEF ReplaySend
  <2>3. Adds(p, consent[p])
    BY <2>1, <2>2, SendAdds DEF Adds
  <2> QED
    BY <2>1, <2>2, <2>3, ContinueSame
<1> QED
  BY <1>4, <1>5, <1>6, <1>7, <1>8 DEF StorageStep

(* Nothing of what happens to requests makes a new one.                     *)
LEMMA NetworkShape ==
    ASSUME ConsentInv, Answering \/ \E f \in flights : RequestFails(f) \/ AnswerLost(f)
    PROVE  ConsentInv' /\ Speaks
<1>1. UNCHANGED <<ready, consent, work>>
  BY DEF Answering, ApiAccepts, ApiRefuses, RequestFails, AnswerLost, pageVars, queueVars
<1>2. PICK f, fate : f \in flights /\ Becomes(f, fate)
  BY DEF Answering, ApiAccepts, ApiRefuses, RequestFails, AnswerLost
<1>3. f = [page |-> f.page, batch |-> f.batch, by |-> f.by, fate |-> f.fate]
  BY <1>2 DEF ConsentInv
<1>4. flights' \subseteq flights \union {[f EXCEPT !.fate = fate]}
  BY <1>2 DEF Becomes
<1>5. [f EXCEPT !.fate = fate] = [page |-> f.page, batch |-> f.batch, by |-> f.by, fate |-> fate]
  BY <1>3
<1>6. Silent
  BY <1>2, <1>4, <1>5 DEF Silent, Shaped, ConsentInv
<1>7. ConsentInv'
  BY <1>1, <1>6 DEF ConsentInv, WorkShape, Silent, Shaped
<1> QED
  BY <1>6, <1>7, SilentSpeaks DEF Speaks

LEMMA SettlingShape ==
    ASSUME ConsentInv, NEW p \in Pages, Settling(p)
    PROVE  ConsentInv' /\ Speaks
<1>1. PICK f \in flights : FetchSettles(p, f)
  BY DEF Settling
<1>2. ready[p] /\ UNCHANGED <<ready, consent>>
  BY <1>1 DEF FetchSettles, Idle, pageVars
<1>3. PICK ops \in {<<>>, <<Keep(f.batch)>>} : work' = [work EXCEPT ![p] = ops]
  BY <1>1 DEF FetchSettles
<1>4. flights' \subseteq flights
  BY <1>1 DEF FetchSettles
<1>5. Silent
  BY <1>4 DEF Silent, Shaped, ConsentInv
<1> QED
  BY <1>2, <1>3, <1>5, ContinueSame

LEMMA GoneShape ==
    ASSUME ConsentInv, NEW p \in Pages, Gone(p)
    PROVE  ConsentInv' /\ Speaks
<1>1. /\ ready' = [ready EXCEPT ![p] = FALSE]
      /\ consent' = [consent EXCEPT ![p] = FALSE]
      /\ work' = [work EXCEPT ![p] = <<>>]
  BY DEF Gone
<1>2. \A f \in flights' : \E g, by : g \in flights /\ f = [g EXCEPT !.by = by]
  BY DEF Gone
<1>3. \A g \in flights : \A by :
        [g EXCEPT !.by = by] = [page |-> g.page, batch |-> g.batch, by |-> by, fate |-> g.fate]
  BY DEF ConsentInv
<1>4. ASSUME NEW f \in flights'
      PROVE  /\ f = [page |-> f.page, batch |-> f.batch, by |-> f.by, fate |-> f.fate]
             /\ \E g \in flights : g.page = f.page /\ g.batch = f.batch
  <2>1. PICK g, by : g \in flights /\ f = [g EXCEPT !.by = by]
    BY <1>2
  <2>2. f = [page |-> g.page, batch |-> g.batch, by |-> by, fate |-> g.fate]
    BY <1>3, <2>1
  <2> QED
    BY <2>1, <2>2
<1>5. Silent
  BY <1>4 DEF Silent, Shaped
<1>6. /\ ready' \in [Pages -> BOOLEAN] /\ consent' \in [Pages -> BOOLEAN]
      /\ \A q \in Pages \ {p} : ready'[q] = ready[q] /\ consent'[q] = consent[q]
  BY <1>1 DEF ConsentInv
<1>7. ConsentInv'
  BY <1>1, <1>5, <1>6, Continue DEF Silent
<1> QED
  BY <1>5, <1>7, SilentSpeaks DEF Speaks

LEMMA ConsentStep == ConsentInv /\ [Next]_vars => ConsentInv' /\ [Speaks]_vars
<1> SUFFICES ASSUME ConsentInv, [Next]_vars PROVE ConsentInv' /\ [Speaks]_vars
  OBVIOUS
<1>0. CASE UNCHANGED <<pageVars, work, flights>>
  <2>1. Silent
    BY <1>0 DEF Silent, Shaped, ConsentInv
  <2>2. ConsentInv'
    BY <1>0 DEF pageVars, ConsentInv, WorkShape
  <2> QED
    BY <2>1, <2>2, SilentSpeaks DEF Speaks
<1>1. UNCHANGED vars \/ GoesOffline \/ ComesBack => UNCHANGED <<pageVars, work, flights>>
  BY DEF vars, queueVars, netVars, GoesOffline, ComesBack
<1>2. ASSUME NEW p \in Pages, Unload(p) \/ Crash(p) PROVE Gone(p)
  BY <1>2 DEF Unload, Crash
<1>3. CASE Next
  BY <1>0, <1>1, <1>2, <1>3, StartStep, StorageShape, SettlingShape, GoneShape, NetworkShape
     DEF Next
<1> QED
  BY <1>0, <1>1, <1>3

(* A request leaves a page only while the page has consent, whether it is a *)
(* flush, a page's last words, or the replay of a queue that this or        *)
(* another page has left: no interleaving of consent changes, storage steps *)
(* and reloads lets one slip out.                                           *)
THEOREM SpeaksOnlyWithConsent == Spec => SpeaksWithConsent
<1>1. Init => ConsentInv
  BY DEF Init, ConsentInv, WorkShape
<1>2. [Speaks]_vars <=> [\A f \in Asked : consent'[f.page]]_vars
  BY DEF Speaks
<1> QED
  BY <1>1, <1>2, ConsentStep, PTL DEF Spec, SpeaksWithConsent

-----------------------------------------------------------------------------
(* Where the events of a page are.  From here on there is one page: two     *)
(* pages that share the queue do lose and repeat events.                    *)

Rests == {<<>>, <<Replay>>}
WorkIs(p) ==
    \/ work[p] \in {<<>>, <<Replay>>, <<Clear, Resend>>, <<Resend>>}
    \/ \E b \in Seq(Events), rest \in Rests :
         work[p] \in {<<Keep(b)>> \o rest, <<Save(b)>> \o rest}

LEMMA EmptySet == ToSet(<<>>) = {}
  BY DEF ToSet

LEMMA InSet ==
    ASSUME NEW S, NEW s \in Seq(S)
    PROVE  /\ \A i \in 1..Len(s) : s[i] \in ToSet(s)
           /\ \A x \in ToSet(s) : \E i \in 1..Len(s) : x = s[i]
           /\ ToSet(s) \subseteq S
           /\ ToSet(s) = {} => s = <<>>
  BY DEF ToSet

LEMMA JoinSet ==
    ASSUME NEW S, NEW s \in Seq(S), NEW t \in Seq(S)
    PROVE  s \o t \in Seq(S) /\ ToSet(s \o t) = ToSet(s) \union ToSet(t)
<1> DEFINE st == s \o t
<1>1. /\ st \in Seq(S) /\ Len(st) = Len(s) + Len(t)
      /\ \A i \in 1..Len(s) : st[i] = s[i]
      /\ \A i \in 1..Len(t) : st[Len(s) + i] = t[i]
  OBVIOUS
<1>2. Len(s) \in Nat /\ Len(t) \in Nat
  OBVIOUS
<1> HIDE DEF st
<1>3. ASSUME NEW x \in ToSet(s) PROVE x \in ToSet(st)
  <2>1. PICK i \in 1..Len(s) : x = s[i]
    BY InSet
  <2>2. i \in 1..Len(st) /\ st[i] = x
    BY <1>1, <1>2, <2>1
  <2> QED
    BY <1>1, <2>2, InSet
<1>4. ASSUME NEW x \in ToSet(t) PROVE x \in ToSet(st)
  <2>1. PICK i \in 1..Len(t) : x = t[i]
    BY InSet
  <2>2. Len(s) + i \in 1..Len(st) /\ st[Len(s) + i] = x
    BY <1>1, <1>2, <2>1
  <2> QED
    BY <1>1, <2>2, InSet
<1>5. ASSUME NEW x \in ToSet(st) PROVE x \in ToSet(s) \union ToSet(t)
  <2>1. PICK i \in 1..Len(st) : x = st[i]
    BY <1>1, InSet
  <2>2. CASE i <= Len(s)
    <3>1. i \in 1..Len(s) /\ x = s[i]
      BY <1>1, <1>2, <2>1, <2>2
    <3> QED
      BY <3>1, InSet
  <2>3. CASE i > Len(s)
    <3>1. i - Len(s) \in 1..Len(t) /\ i = Len(s) + (i - Len(s))
      BY <1>1, <1>2, <2>3
    <3>2. x = t[i - Len(s)]
      BY <1>1, <2>1, <3>1
    <3> QED
      BY <3>1, <3>2, InSet
  <2> QED
    BY <1>1, <1>2, <2>2, <2>3
<1>6. ToSet(st) = ToSet(s) \union ToSet(t)
  BY <1>3, <1>4, <1>5
<1> QED
  BY <1>1, <1>6 DEF st

LEMMA SplitSet ==
    ASSUME NEW S, NEW s \in Seq(S), NEW n \in 0..Len(s)
    PROVE  /\ SubSeq(s, n + 1, Len(s)) \in Seq(S)
           /\ ToSet(SubSeq(s, 1, n)) \union ToSet(SubSeq(s, n + 1, Len(s))) = ToSet(s)
<1> DEFINE a == SubSeq(s, 1, n)
           z == SubSeq(s, n + 1, Len(s))
<1>1. /\ a \in Seq(S) /\ Len(a) = n
      /\ \A i \in 1..n : a[i] = s[i]
  OBVIOUS
<1>2. /\ z \in Seq(S) /\ Len(z) = Len(s) - n
      /\ \A i \in 1..(Len(s) - n) : z[i] = s[n + i]
  OBVIOUS
<1>3. Len(s) \in Nat
  OBVIOUS
<1> HIDE DEF a, z
<1>4. ASSUME NEW x \in ToSet(a) PROVE x \in ToSet(s)
  <2>1. PICK i \in 1..n : x = a[i]
    BY <1>1, InSet
  <2>2. i \in 1..Len(s) /\ x = s[i]
    BY <1>1, <1>3, <2>1
  <2> QED
    BY <2>2, InSet
<1>5. ASSUME NEW x \in ToSet(z) PROVE x \in ToSet(s)
  <2>1. PICK i \in 1..(Len(s) - n) : x = z[i]
    BY <1>2, InSet
  <2>2. n + i \in 1..Len(s) /\ x = s[n + i]
    BY <1>2, <1>3, <2>1
  <2> QED
    BY <2>2, InSet
<1>6. ASSUME NEW x \in ToSet(s) PROVE x \in ToSet(a) \union ToSet(z)
  <2>1. PICK i \in 1..Len(s) : x = s[i]
    BY InSet
  <2>2. CASE i <= n
    <3>1. i \in 1..Len(a) /\ x = a[i]
      BY <1>1, <2>1, <2>2
    <3> QED
      BY <1>1, <3>1, InSet
  <2>3. CASE i > n
    <3>1. i - n \in 1..(Len(s) - n) /\ i = n + (i - n)
      BY <1>3, <2>3
    <3>2. i - n \in 1..Len(z) /\ x = z[i - n]
      BY <1>2, <2>1, <3>1
    <3> QED
      BY <1>2, <3>2, InSet
  <2> QED
    BY <1>3, <2>2, <2>3
<1>7. ToSet(a) \union ToSet(z) = ToSet(s)
  BY <1>4, <1>5, <1>6
<1> QED
  BY <1>2, <1>7 DEF a, z

LEMMA BatchesOf ==
    ASSUME NEW x, NEW y
    PROVE  /\ Batches(<<>>) = {}
           /\ Batches(<<x>>) = ToSet(x.batch)
           /\ Batches(<<x, y>>) = ToSet(x.batch) \union ToSet(y.batch)
<1>1. Batches(<<>>) = {}
  BY DEF Batches
<1>2. Batches(<<x>>) = ToSet(x.batch)
  <2>1. DOMAIN <<x>> = {1} /\ <<x>>[1] = x
    OBVIOUS
  <2> QED
    BY <2>1 DEF Batches
<1>3. Batches(<<x, y>>) = ToSet(x.batch) \union ToSet(y.batch)
  <2>1. DOMAIN <<x, y>> = {1, 2} /\ <<x, y>>[1] = x /\ <<x, y>>[2] = y
    OBVIOUS
  <2> QED
    BY <2>1 DEF Batches
<1> QED
  BY <1>1, <1>2, <1>3

(* What each shape of a handler's work still has in memory.                 *)
LEMMA WorkBatches ==
    ASSUME NEW b, NEW rest \in Rests
    PROVE  /\ Batches(<<>>) = {} /\ Batches(rest) = {}
           /\ Batches(<<Clear, Resend>>) = {} /\ Batches(<<Resend>>) = {}
           /\ \A x \in {Keep(b), Save(b)} :
                /\ Batches(<<x>> \o rest) = ToSet(b)
                /\ <<x>> \o rest # <<>>
                /\ Head(<<x>> \o rest) = x
                /\ Tail(<<x>> \o rest) = rest
<1>1. ToSet(Replay.batch) = {} /\ ToSet(Clear.batch) = {} /\ ToSet(Resend.batch) = {}
  BY EmptySet DEF Replay, Clear, Resend
<1>2. Batches(rest) = {}
  BY <1>1, BatchesOf DEF Rests
<1>3. Batches(<<Clear, Resend>>) = {} /\ Batches(<<Resend>>) = {}
  BY <1>1, BatchesOf
<1>4. ASSUME NEW x \in {Keep(b), Save(b)}
      PROVE  /\ Batches(<<x>> \o rest) = ToSet(b)
             /\ <<x>> \o rest # <<>>
             /\ Head(<<x>> \o rest) = x
             /\ Tail(<<x>> \o rest) = rest
  <2>1. x.batch = b
    BY DEF Keep, Save
  <2>2. CASE rest = <<>>
    <3>1. <<x>> \o rest = <<x>>
      BY <2>2, Tails
    <3>2. <<x>> # <<>> /\ Head(<<x>>) = x /\ Tail(<<x>>) = <<>>
      BY Tails
    <3> QED
      BY <2>1, <2>2, <3>1, <3>2, BatchesOf
  <2>3. CASE rest = <<Replay>>
    <3>1. <<x>> \o rest = <<x, Replay>>
      BY <2>3, Tails
    <3>2. <<x, Replay>> # <<>> /\ Head(<<x, Replay>>) = x /\ Tail(<<x, Replay>>) = <<Replay>>
      BY Tails
    <3>3. Batches(<<x, Replay>>) = ToSet(x.batch) \union ToSet(Replay.batch)
      BY BatchesOf
    <3>4. Batches(<<x, Replay>>) = ToSet(b)
      BY <1>1, <2>1, <3>3
    <3> QED
      BY <2>3, <3>1, <3>2, <3>4
  <2> QED
    BY <2>2, <2>3 DEF Rests
<1> QED
  BY <1>2, <1>3, <1>4, BatchesOf

(* The operation in hand, what is left after it, and what the memory of the *)
(* page holds meanwhile.                                                    *)
LEMMA InHand ==
    ASSUME NEW p, WorkIs(p)
    PROVE  /\ work[p] = <<>> => Keeping(p) = {} /\ Resending(p) = {}
           /\ Does(p, "keep") =>
                /\ Resending(p) = {}
                /\ \E b \in Seq(Events), rest \in Rests :
                     Head(work[p]) = Keep(b) /\ Tail(work[p]) = rest /\ Keeping(p) = ToSet(b)
           /\ Does(p, "save") =>
                /\ Resending(p) = {}
                /\ \E b \in Seq(Events), rest \in Rests :
                     Head(work[p]) = Save(b) /\ Tail(work[p]) = rest /\ Keeping(p) = ToSet(b)
           /\ Does(p, "replay") =>
                Keeping(p) = {} /\ Resending(p) = {} /\ Tail(work[p]) = <<>>
           /\ Does(p, "clear") =>
                Keeping(p) = {} /\ Resending(p) = {} /\ Tail(work[p]) = <<Resend>>
           /\ Does(p, "resend") =>
                Keeping(p) = {} /\ Resending(p) = ToSet(hold[p]) /\ Tail(work[p]) = <<>>
<1> USE DEF Does, Keeping, Resending
<1>1. CASE work[p] = <<>>
  BY <1>1, WorkBatches DEF Rests
<1>2. CASE work[p] = <<Replay>>
  <2>1. Head(work[p]) = Replay /\ Tail(work[p]) = <<>> /\ work[p] # <<>>
    BY <1>2, Tails
  <2>2. Keeping(p) = {}
    BY <1>2, WorkBatches DEF Rests
  <2>3. Head(work[p]).op = "replay"
    BY <2>1 DEF Replay
  <2> QED
    BY <2>1, <2>2, <2>3
<1>3. CASE work[p] = <<Clear, Resend>>
  <2>1. Head(work[p]) = Clear /\ Tail(work[p]) = <<Resend>> /\ work[p] # <<>>
    BY <1>3, Tails
  <2>2. Keeping(p) = {}
    BY <1>3, WorkBatches DEF Rests
  <2>3. Head(work[p]).op = "clear"
    BY <2>1 DEF Clear
  <2> QED
    BY <2>1, <2>2, <2>3
<1>4. CASE work[p] = <<Resend>>
  <2>1. Head(work[p]) = Resend /\ Tail(work[p]) = <<>> /\ work[p] # <<>>
    BY <1>4, Tails
  <2>2. Keeping(p) = {}
    BY <1>4, WorkBatches DEF Rests
  <2>3. Head(work[p]).op = "resend"
    BY <2>1 DEF Resend
  <2> QED
    BY <2>1, <2>2, <2>3
<1>5. ASSUME NEW b \in Seq(Events), NEW rest \in Rests, NEW x \in {Keep(b), Save(b)},
             work[p] = <<x>> \o rest
      PROVE  /\ work[p] # <<>> /\ Head(work[p]) = x /\ Tail(work[p]) = rest
             /\ Keeping(p) = ToSet(b)
             /\ Resending(p) = {}
             /\ x.op = (IF x = Keep(b) THEN "keep" ELSE "save")
  <2>1. work[p] # <<>> /\ Head(work[p]) = x /\ Tail(work[p]) = rest /\ Keeping(p) = ToSet(b)
    BY <1>5, WorkBatches
  <2>2. x.op = (IF x = Keep(b) THEN "keep" ELSE "save")
    BY DEF Keep, Save
  <2> QED
    BY <2>1, <2>2
<1>6. CASE \E b \in Seq(Events), rest \in Rests :
             work[p] \in {<<Keep(b)>> \o rest, <<Save(b)>> \o rest}
  <2>1. PICK b \in Seq(Events), rest \in Rests :
          work[p] \in {<<Keep(b)>> \o rest, <<Save(b)>> \o rest}
    BY <1>6
  <2>2. PICK x \in {Keep(b), Save(b)} : work[p] = <<x>> \o rest
    BY <2>1
  <2>3. /\ work[p] # <<>> /\ Head(work[p]) = x /\ Tail(work[p]) = rest
        /\ Keeping(p) = ToSet(b)
        /\ Resending(p) = {}
        /\ x.op = (IF x = Keep(b) THEN "keep" ELSE "save")
    BY <1>5, <2>2
  <2>4. x.op = "keep" => x = Keep(b)
    BY <2>3
  <2>5. x.op = "save" => x = Save(b)
    BY <2>3 DEF Keep, Save
  <2>6. x.op \in {"keep", "save"}
    BY <2>3
  <2> HIDE DEF Keeping, Resending
  <2> QED
    BY <2>3, <2>4, <2>5, <2>6
<1> QED
  BY <1>1, <1>2, <1>3, <1>4, <1>6 DEF WorkIs

LEMMA AppendSet ==
    ASSUME NEW S, NEW s \in Seq(S), NEW x \in S
    PROVE  Append(s, x) \in Seq(S) /\ Append(s, x) # <<>>
           /\ ToSet(Append(s, x)) = ToSet(s) \union {x}
<1> DEFINE t == Append(s, x)
<1>1. /\ t \in Seq(S) /\ Len(t) = Len(s) + 1
      /\ \A i \in 1..Len(s) : t[i] = s[i]
      /\ t[Len(s) + 1] = x
  OBVIOUS
<1>2. Len(s) \in Nat /\ t # <<>>
  OBVIOUS
<1> HIDE DEF t
<1>3. ASSUME NEW y \in ToSet(s) PROVE y \in ToSet(t)
  <2>1. PICK i \in 1..Len(s) : y = s[i]
    BY InSet
  <2>2. i \in 1..Len(t) /\ y = t[i]
    BY <1>1, <1>2, <2>1
  <2> QED
    BY <1>1, <2>2, InSet
<1>4. x \in ToSet(t)
  <2>1. Len(s) + 1 \in 1..Len(t) /\ t[Len(s) + 1] = x
    BY <1>1, <1>2
  <2> QED
    BY <1>1, <2>1, InSet
<1>5. ASSUME NEW y \in ToSet(t) PROVE y \in ToSet(s) \union {x}
  <2>1. PICK i \in 1..Len(t) : y = t[i]
    BY <1>1, InSet
  <2>2. i \in 1..Len(s) \/ i = Len(s) + 1
    BY <1>1, <1>2
  <2> QED
    BY <1>1, <2>1, <2>2, InSet
<1>6. ToSet(t) = ToSet(s) \union {x}
  BY <1>3, <1>4, <1>5
<1> QED
  BY <1>1, <1>2, <1>6 DEF t

Requests == [page : Pages, batch : Seq(Events), by : {"fetch", "beacon"},
             fate : {"open", "ok", "refused", "fail"}]

(* The shapes of what a page holds; and the queue it has read is the queue  *)
(* as it still is when it writes, because no other page has written it.     *)
HomeInv(p) ==
    /\ retry \in Seq(Events)
    /\ hold \in [Pages -> Seq(Events)]
    /\ work = [q \in Pages |-> work[q]]
    /\ WorkIs(p)
    /\ ~ready[p] => work[p] = <<>>
    /\ Does(p, "save") \/ Does(p, "clear") => hold[p] = retry
    /\ reached \in [Events -> Nat]
    /\ unanswered \in [Events -> Nat]
    /\ flights \subseteq Requests
    /\ \A f \in flights : f.fate = "ok" => ToSet(f.batch) \subseteq Arrived

(* What a handler does with the events S: it leaves them in the buffer, sets*)
(* about keeping them, or sends them.                                       *)
Handed(p, S) ==
    /\ UNCHANGED <<hold, retry, unanswered, reached, shed, unheard>>
    /\ Resending(p)' = {}
    /\ \/ ToSet(buffer[p])' = S /\ Keeping(p)' = {} /\ UNCHANGED flights
       \/ ToSet(buffer[p])' = {} /\ Keeping(p)' = S /\ UNCHANGED flights
       \/ /\ ToSet(buffer[p])' = {} /\ Keeping(p)' = {}
          /\ \E f \in Requests :
               f.fate = "open" /\ ToSet(f.batch) = S /\ flights' = flights \union {f}

LEMMA FlightRequest ==
    ASSUME NEW p \in Pages, NEW b \in Seq(Events), NEW by \in {"fetch", "beacon"}
    PROVE  Flight(p, b, by) \in Requests /\ Flight(p, b, by).fate = "open"
           /\ Flight(p, b, by).batch = b
  BY DEF Flight, Requests

LEMMA RestAhead ==
    ASSUME NEW p \in Pages, work = [q \in Pages |-> work[q]],
           NEW rest \in Rests, work' = [work EXCEPT ![p] = rest]
    PROVE  /\ work' = [q \in Pages |-> work'[q]] /\ work'[p] = rest
           /\ WorkIs(p)' /\ Keeping(p)' = {} /\ Resending(p)' = {}
           /\ ~Does(p, "save")' /\ ~Does(p, "clear")'
<1>1. work'[p] = rest /\ work' = [q \in Pages |-> work'[q]]
  OBVIOUS
<1>2. WorkIs(p)'
  BY <1>1 DEF WorkIs, Rests
<1>3. Keeping(p)' = {}
  BY <1>1, WorkBatches DEF Keeping
<1>4. rest = <<>> \/ Head(rest).op = "replay"
  BY Tails DEF Rests, Replay
<1> QED
  BY <1>1, <1>2, <1>3, <1>4 DEF Resending, Does

LEMMA KeepAhead ==
    ASSUME NEW p \in Pages, work = [q \in Pages |-> work[q]],
           NEW b \in Seq(Events), NEW rest \in Rests, NEW x \in {Keep(b), Save(b)},
           work' = [work EXCEPT ![p] = <<x>> \o rest]
    PROVE  /\ work' = [q \in Pages |-> work'[q]] /\ work'[p] # <<>>
           /\ WorkIs(p)' /\ Keeping(p)' = ToSet(b) /\ Resending(p)' = {}
           /\ Does(p, "save")' => x = Save(b)
           /\ ~Does(p, "clear")'
<1>1. work'[p] = <<x>> \o rest /\ work' = [q \in Pages |-> work'[q]]
  OBVIOUS
<1>2. WorkIs(p)'
  BY <1>1 DEF WorkIs
<1>3. Keeping(p)' = ToSet(b) /\ work'[p] # <<>> /\ Head(work'[p]) = x
  BY <1>1, WorkBatches DEF Keeping
<1>4. x.op \in {"keep", "save"} /\ (x.op = "save" => x = Save(b))
  BY DEF Keep, Save
<1> QED
  BY <1>1, <1>2, <1>3, <1>4 DEF Resending, Does

LEMMA FlushHands ==
    ASSUME NEW p \in Pages, BufferInv, HomeInv(p), NEW buf \in Seq(Events), NEW granted,
           NEW beacon, NEW rest \in Rests, Flush(p, buf, granted, beacon, rest),
           ready'[p], UNCHANGED <<hold, retry, unanswered, reached, shed, unheard>>
    PROVE  HomeInv(p)' /\ Handed(p, ToSet(buf))
<1>1. buffer'[p] = <<>> /\ ToSet(buffer[p])' = {}
  BY EmptySet DEF Flush, BufferInv
<1>2. CASE buf # <<>> /\ granted
  <2>1. work' = [work EXCEPT ![p] = rest] /\ SendBatch(p, buf, beacon)
    BY <1>2 DEF Flush, MaySend
  <2>2. PICK by \in {"fetch", "beacon"} : flights' = flights \union {Flight(p, buf, by)}
    BY <2>1 DEF SendBatch
  <2>3. /\ Flight(p, buf, by) \in Requests /\ Flight(p, buf, by).fate = "open"
        /\ Flight(p, buf, by).batch = buf
    BY FlightRequest
  <2>4. /\ work' = [q \in Pages |-> work'[q]] /\ WorkIs(p)'
        /\ Keeping(p)' = {} /\ Resending(p)' = {}
        /\ ~Does(p, "save")' /\ ~Does(p, "clear")'
    BY <2>1, RestAhead DEF HomeInv
  <2>5. HomeInv(p)'
    BY <2>2, <2>3, <2>4 DEF HomeInv, Arrived
  <2> QED
    BY <1>1, <2>2, <2>3, <2>4, <2>5 DEF Handed
<1>3. CASE buf # <<>> /\ ~granted
  <2>1. work' = [work EXCEPT ![p] = <<Keep(buf)>> \o rest] /\ UNCHANGED flights
    BY <1>3 DEF Flush, MaySend
  <2>2. /\ work' = [q \in Pages |-> work'[q]] /\ WorkIs(p)'
        /\ Keeping(p)' = ToSet(buf) /\ Resending(p)' = {}
        /\ Does(p, "save")' => Keep(buf) = Save(buf)
        /\ ~Does(p, "clear")'
    BY <2>1, KeepAhead DEF HomeInv
  <2>3. Keep(buf) # Save(buf)
    BY DEF Keep, Save
  <2>4. HomeInv(p)'
    BY <2>1, <2>2, <2>3 DEF HomeInv, Arrived
  <2> QED
    BY <1>1, <2>1, <2>2, <2>4 DEF Handed
<1>4. CASE buf = <<>>
  <2>1. work' = [work EXCEPT ![p] = rest] /\ UNCHANGED flights
    BY <1>4 DEF Flush, MaySend
  <2>2. /\ work' = [q \in Pages |-> work'[q]] /\ WorkIs(p)'
        /\ Keeping(p)' = {} /\ Resending(p)' = {}
        /\ ~Does(p, "save")' /\ ~Does(p, "clear")'
    BY <2>1, RestAhead DEF HomeInv
  <2>3. HomeInv(p)'
    BY <2>1, <2>2 DEF HomeInv, Arrived
  <2> QED
    BY <1>1, <1>4, <2>1, <2>2, <2>3, EmptySet DEF Handed
<1> QED
  BY <1>2, <1>3, <1>4

LEMMA RecordHands ==
    ASSUME NEW p \in Pages, BufferInv, HomeInv(p), NEW e \in Events, NEW granted,
           NEW rest \in Rests, Record(p, e, granted, rest),
           ready'[p], UNCHANGED <<hold, retry, unanswered, reached, shed, unheard>>
    PROVE  HomeInv(p)' /\ Handed(p, ToSet(buffer[p]) \union {e})
<1> DEFINE buf == Append(buffer[p], e)
<1>1. buf \in Seq(Events) /\ ToSet(buf) = ToSet(buffer[p]) \union {e}
  BY AppendSet DEF BufferInv
<1>2. CASE Len(buf) >= BatchSize
  <2>1. Flush(p, buf, granted, FALSE, rest)
    BY <1>2 DEF Record
  <2> HIDE DEF buf
  <2> QED
    BY <1>1, <2>1, FlushHands
<1>3. CASE ~(Len(buf) >= BatchSize)
  <2>1. /\ buffer' = [buffer EXCEPT ![p] = buf]
        /\ work' = [work EXCEPT ![p] = rest] /\ UNCHANGED flights
    BY <1>3 DEF Record
  <2> HIDE DEF buf
  <2>2. buffer'[p] = buf
    BY <2>1 DEF BufferInv
  <2>3. /\ work' = [q \in Pages |-> work'[q]] /\ WorkIs(p)'
        /\ Keeping(p)' = {} /\ Resending(p)' = {}
        /\ ~Does(p, "save")' /\ ~Does(p, "clear")'
    BY <2>1, RestAhead DEF HomeInv
  <2>4. HomeInv(p)'
    BY <2>1, <2>3 DEF HomeInv, Arrived
  <2> QED
    BY <1>1, <2>1, <2>2, <2>3, <2>4 DEF Handed
<1> QED
  BY <1>2, <1>3

(* A handler that starts finds nothing in the hands of an earlier one.      *)
Started(p) ==
    /\ Keeping(p) = {} /\ Resending(p) = {}
    /\ \/ UNCHANGED fresh /\ Handed(p, ToSet(buffer[p]))
       \/ \E e \in fresh :
            fresh' = fresh \ {e} /\ Handed(p, ToSet(buffer[p]) \union {e})

LEMMA StartHands ==
    ASSUME NEW p \in Pages, BufferInv, ConsentInv, HomeInv(p),
           \/ InitPage(p) \/ Track(p) \/ TimerFires(p) \/ Hide(p) \/ Online(p)
           \/ \E granted \in BOOLEAN : SetConsent(p, granted)
    PROVE  HomeInv(p)' /\ Started(p)
<1>1. work[p] = <<>>
  BY DEF InitPage, Track, TimerFires, Hide, Online, SetConsent, Idle, HomeInv
<1>2. Keeping(p) = {} /\ Resending(p) = {}
  BY <1>1, InHand DEF HomeInv
<1>3. <<>> \in Rests /\ <<Replay>> \in Rests
  BY DEF Rests
<1>4. buffer[p] \in Seq(Events)
  BY DEF BufferInv
<1>5. UNCHANGED <<hold, retry, unanswered, reached, shed, unheard>>
  BY DEF InitPage, Track, TimerFires, Hide, Online, SetConsent, netVars
<1>6. ready'[p]
  BY DEF InitPage, Track, TimerFires, Hide, Online, SetConsent, Idle, pageVars, ConsentInv
<1>7. CASE InitPage(p) \/ Track(p)
  <2>1. PICK e \in fresh, granted \in BOOLEAN, rest \in Rests :
          fresh' = fresh \ {e} /\ Record(p, e, granted, rest)
    <3>1. CASE InitPage(p)
      BY <1>3, <3>1, SetsAssumption DEF InitPage
    <3>2. CASE Track(p)
      BY <1>3, <3>2 DEF Track, ConsentInv
    <3> QED
      BY <1>7, <3>1, <3>2
  <2>2. e \in Events
    BY DEF BufferInv
  <2>3. HomeInv(p)' /\ Handed(p, ToSet(buffer[p]) \union {e})
    BY <1>5, <1>6, <2>1, <2>2, RecordHands
  <2> QED
    BY <1>2, <2>1, <2>3 DEF Started
<1>8. CASE \E granted, beacon \in BOOLEAN, rest \in Rests :
             UNCHANGED fresh /\ Flush(p, buffer[p], granted, beacon, rest)
  BY <1>2, <1>4, <1>5, <1>6, <1>8, FlushHands DEF Started
<1>9. ASSUME NEW rest \in Rests, work' = [work EXCEPT ![p] = rest],
             UNCHANGED <<buffer, flights, fresh>>
      PROVE  HomeInv(p)' /\ Started(p)
  <2>1. /\ work' = [q \in Pages |-> work'[q]] /\ WorkIs(p)'
        /\ Keeping(p)' = {} /\ Resending(p)' = {}
        /\ ~Does(p, "save")' /\ ~Does(p, "clear")'
    BY <1>9, RestAhead DEF HomeInv
  <2>2. HomeInv(p)'
    BY <1>5, <1>6, <1>9, <2>1 DEF HomeInv, Arrived
  <2>3. Handed(p, ToSet(buffer[p]))
    BY <1>5, <1>9, <2>1 DEF Handed
  <2> QED
    BY <1>2, <1>9, <2>2, <2>3 DEF Started
<1>10. CASE TimerFires(p) \/ Hide(p)
  BY <1>3, <1>8, <1>10 DEF TimerFires, Hide, ConsentInv
<1>11. CASE Online(p)
  BY <1>3, <1>9, <1>11 DEF Online, OnReturn, pageVars
<1>12. ASSUME NEW granted \in BOOLEAN, SetConsent(p, granted) PROVE HomeInv(p)' /\ Started(p)
  <2>1. UNCHANGED fresh
    BY <1>12 DEF SetConsent
  <2>2. CASE granted
    BY <1>3, <1>8, <1>12, <2>1, <2>2 DEF SetConsent
  <2>3. CASE ~granted
    <3>1. UNCHANGED <<buffer, work, flights>>
      BY <1>12, <2>3 DEF SetConsent
    <3>2. work' = [work EXCEPT ![p] = <<>>]
      BY <1>1, <3>1 DEF HomeInv
    <3> QED
      BY <1>3, <1>9, <2>1, <3>1, <3>2
  <2> QED
    BY <2>2, <2>3
<1> QED
  BY <1>7, <1>10, <1>11, <1>12

LEMMA ExcessBound ==
    ASSUME NEW S, NEW q \in Seq(S) PROVE Excess(q) \in 0..Len(q)
<1>1. Len(q) \in Nat
  OBVIOUS
<1> QED
  BY <1>1, SizesAssumption DEF Excess

(* One access to localStorage: a step that moves no event; the batch at     *)
(* hand joins the queue; the queue is taken out; the queue is sent.         *)
Quiet(p) ==
    /\ UNCHANGED <<retry, flights, shed>>
    /\ Resending(p) = {} /\ Resending(p)' = {} /\ Keeping(p)' = Keeping(p)
Joined(p) ==
    /\ UNCHANGED flights
    /\ Resending(p) = {} /\ Resending(p)' = {} /\ Keeping(p)' = {}
    /\ ToSet(retry)' \subseteq ToSet(retry) \union Keeping(p)
    /\ ToSet(retry) \union Keeping(p) \subseteq ToSet(retry)' \union shed'
    /\ shed \subseteq shed'
Taken(p) ==
    /\ UNCHANGED <<flights, shed>>
    /\ Resending(p) = {} /\ Keeping(p) = {} /\ Keeping(p)' = {}
    /\ Resending(p)' = ToSet(retry) /\ ToSet(retry)' = {}
Resent(p) ==
    /\ UNCHANGED <<retry, shed>>
    /\ Resending(p)' = {} /\ Keeping(p) = {} /\ Keeping(p)' = {}
    /\ \E f \in Requests : f.fate = "open" /\ ToSet(f.batch) = Resending(p)
                           /\ flights' = flights \union {f}
Stored(p) ==
    /\ UNCHANGED <<buffer, unanswered, fresh, reached, unheard>>
    /\ Quiet(p) \/ Joined(p) \/ Taken(p) \/ Resent(p)

LEMMA StorageHands ==
    ASSUME NEW p \in Pages, HomeInv(p), StorageStep(p)
    PROVE  HomeInv(p)' /\ Stored(p)
<1>1. UNCHANGED <<ready, buffer, unanswered, fresh, reached, unheard>>
  BY DEF StorageStep, KeepLoad, KeepSave, KeepSaveThrows, ReplayLoad, ReplayRemove,
         ReplaySend, pageVars, netVars
<1>2. ready'[p]
  BY <1>1 DEF StorageStep, KeepLoad, KeepSave, KeepSaveThrows, ReplayLoad, ReplayRemove,
         ReplaySend, Does, HomeInv
<1>3. WorkIs(p) /\ hold[p] \in Seq(Events) /\ retry \in Seq(Events)
  BY DEF HomeInv
<1>4. \A r \in Rests : <<>> \o r = r
  BY Tails DEF Rests
<1>5. CASE KeepLoad(p)
  <2>1. Does(p, "keep") /\ UNCHANGED <<retry, flights, shed>>
        /\ hold' = [hold EXCEPT ![p] = retry]
    BY <1>5 DEF KeepLoad, netVars
  <2>2. PICK b \in Seq(Events), rest \in Rests :
          Head(work[p]) = Keep(b) /\ Tail(work[p]) = rest /\ Keeping(p) = ToSet(b)
    BY <1>3, <2>1, InHand
  <2>3. Resending(p) = {} /\ Keep(b).batch = b
    BY <1>3, <2>1, InHand DEF Keep
  <2>4. work' = [work EXCEPT ![p] = <<Save(b)>> \o rest]
    BY <1>5, <2>2, <2>3 DEF KeepLoad, Then
  <2>5. /\ work' = [q \in Pages |-> work'[q]] /\ WorkIs(p)'
        /\ Keeping(p)' = ToSet(b) /\ Resending(p)' = {} /\ ~Does(p, "clear")'
    BY <2>4, KeepAhead DEF HomeInv
  <2>6. hold' \in [Pages -> Seq(Events)] /\ hold'[p] = retry'
    BY <2>1 DEF HomeInv
  <2>7. HomeInv(p)'
    BY <1>1, <1>2, <2>1, <2>5, <2>6 DEF HomeInv, Arrived
  <2> QED
    BY <1>1, <2>1, <2>2, <2>3, <2>5, <2>7 DEF Stored, Quiet, Joined, Taken, Resent
<1>6. CASE KeepSave(p) \/ KeepSaveThrows(p)
  <2>1. Does(p, "save") /\ UNCHANGED flights /\ hold' = [hold EXCEPT ![p] = <<>>]
        /\ Then(p, <<>>)
    BY <1>6 DEF KeepSave, KeepSaveThrows, netVars
  <2>2. PICK b \in Seq(Events), rest \in Rests :
          Head(work[p]) = Save(b) /\ Tail(work[p]) = rest /\ Keeping(p) = ToSet(b)
    BY <1>3, <2>1, InHand
  <2>3. Resending(p) = {} /\ Save(b).batch = b
    BY <1>3, <2>1, InHand DEF Save
  <2>4. work' = [work EXCEPT ![p] = rest]
    BY <1>4, <2>1, <2>2 DEF Then
  <2>5. /\ work' = [q \in Pages |-> work'[q]] /\ WorkIs(p)'
        /\ Keeping(p)' = {} /\ Resending(p)' = {}
        /\ ~Does(p, "save")' /\ ~Does(p, "clear")'
    BY <2>4, RestAhead DEF HomeInv
  <2>6. hold' \in [Pages -> Seq(Events)] /\ hold[p] = retry
    BY <2>1 DEF HomeInv
  <2>7. /\ retry' \in Seq(Events) /\ shed \subseteq shed'
        /\ ToSet(retry') \subseteq ToSet(retry) \union ToSet(b)
        /\ ToSet(retry) \union ToSet(b) \subseteq ToSet(retry') \union shed'
    <3>1. CASE KeepSaveThrows(p)
      <4>1. UNCHANGED retry /\ shed' = shed \union ToSet(b)
        BY <2>2, <2>3, <3>1 DEF KeepSaveThrows
      <4> QED
        BY <1>3, <4>1
    <3>2. CASE KeepSave(p)
      <4> DEFINE q == retry \o b
                 n == Excess(q)
      <4>1. q \in Seq(Events) /\ ToSet(q) = ToSet(retry) \union ToSet(b)
        BY <1>3, JoinSet
      <4>2. /\ retry' = SubSeq(q, n + 1, Len(q))
            /\ shed' = shed \union ToSet(SubSeq(q, 1, n))
        BY <2>2, <2>3, <2>6, <3>2 DEF KeepSave, Extended
      <4> HIDE DEF q
      <4>3. n \in 0..Len(q)
        BY <4>1, ExcessBound
      <4> HIDE DEF n
      <4>4. /\ SubSeq(q, n + 1, Len(q)) \in Seq(Events)
            /\ ToSet(SubSeq(q, 1, n)) \union ToSet(SubSeq(q, n + 1, Len(q))) = ToSet(q)
        BY <4>1, <4>3, SplitSet
      <4> QED
        BY <4>1, <4>2, <4>4
    <3> QED
      BY <1>6, <3>1, <3>2
  <2>8. HomeInv(p)'
    BY <1>1, <1>2, <2>1, <2>5, <2>6, <2>7 DEF HomeInv, Arrived
  <2> QED
    BY <1>1, <2>1, <2>2, <2>3, <2>5, <2>7, <2>8 DEF Stored, Quiet, Joined, Taken, Resent
<1>7. CASE ReplayLoad(p)
  <2>1. Does(p, "replay") /\ UNCHANGED <<retry, flights, shed>>
    BY <1>7 DEF ReplayLoad, netVars
  <2>2. Keeping(p) = {} /\ Resending(p) = {} /\ Tail(work[p]) = <<>>
    BY <1>3, <2>1, InHand
  <2>3. CASE retry = <<>> \/ ~consent[p]
    <3>1. work' = [work EXCEPT ![p] = <<>>] /\ UNCHANGED hold
      BY <1>7, <2>2, <2>3, Tails DEF ReplayLoad, Then
    <3>2. <<>> \in Rests
      BY DEF Rests
    <3>3. /\ work' = [q \in Pages |-> work'[q]] /\ WorkIs(p)'
          /\ Keeping(p)' = {} /\ Resending(p)' = {}
          /\ ~Does(p, "save")' /\ ~Does(p, "clear")'
      BY <3>1, <3>2, RestAhead DEF HomeInv
    <3>4. HomeInv(p)'
      BY <1>1, <1>2, <2>1, <3>1, <3>3 DEF HomeInv, Arrived
    <3> QED
      BY <1>1, <2>1, <2>2, <3>3, <3>4 DEF Stored, Quiet, Joined, Taken, Resent
  <2>4. CASE ~(retry = <<>> \/ ~consent[p])
    <3>1. /\ work' = [work EXCEPT ![p] = <<Clear, Resend>> \o Tail(@)]
          /\ hold' = [hold EXCEPT ![p] = retry]
      BY <1>7, <2>4 DEF ReplayLoad, Then
    <3>2. work' = [work EXCEPT ![p] = <<Clear, Resend>>]
      BY <2>2, <3>1, Tails
    <3>3. work' = [q \in Pages |-> work'[q]] /\ work'[p] = <<Clear, Resend>>
      BY <3>2 DEF HomeInv
    <3>4. Head(work'[p]).op = "clear"
      BY <3>3, Tails DEF Clear
    <3>5. Keeping(p)' = {} /\ Resending(p)' = {} /\ WorkIs(p)'
      <4>1. Keeping(p)' = {}
        BY <3>3, WorkBatches DEF Keeping, Rests
      <4> QED
        BY <3>3, <3>4, <4>1 DEF Resending, Does, WorkIs
    <3>6. hold' \in [Pages -> Seq(Events)] /\ hold'[p] = retry'
      BY <2>1, <3>1 DEF HomeInv
    <3>7. HomeInv(p)'
      BY <1>1, <1>2, <2>1, <3>3, <3>5, <3>6 DEF HomeInv, Arrived
    <3> QED
      BY <1>1, <2>1, <2>2, <3>5, <3>7 DEF Stored, Quiet, Joined, Taken, Resent
  <2> QED
    BY <2>3, <2>4
<1>8. CASE ReplayRemove(p)
  <2>1. Does(p, "clear") /\ UNCHANGED <<hold, flights, shed>> /\ retry' = <<>>
    BY <1>8 DEF ReplayRemove, netVars, Removed
  <2>2. Keeping(p) = {} /\ Resending(p) = {} /\ Tail(work[p]) = <<Resend>> /\ hold[p] = retry
    BY <1>3, <2>1, InHand DEF HomeInv
  <2>3. work' = [work EXCEPT ![p] = <<Resend>>]
    BY <1>8, <2>2, Tails DEF ReplayRemove, Then
  <2>4. work' = [q \in Pages |-> work'[q]] /\ work'[p] = <<Resend>>
    BY <2>3 DEF HomeInv
  <2>5. Head(work'[p]).op = "resend" /\ work'[p] # <<>>
    BY <2>4, Tails DEF Resend
  <2>6. Keeping(p)' = {}
    BY <2>4, WorkBatches DEF Keeping, Rests
  <2>7. Resending(p)' = ToSet(retry) /\ ~Does(p, "save")' /\ ~Does(p, "clear")' /\ WorkIs(p)'
    BY <2>1, <2>2, <2>4, <2>5 DEF Resending, Does, WorkIs
  <2>8. retry' \in Seq(Events) /\ ToSet(retry') = {}
    BY <2>1, EmptySet
  <2>9. HomeInv(p)'
    BY <1>1, <1>2, <2>1, <2>4, <2>7, <2>8 DEF HomeInv, Arrived
  <2> QED
    BY <1>1, <2>1, <2>2, <2>6, <2>7, <2>8, <2>9 DEF Stored, Quiet, Joined, Taken, Resent
<1>9. CASE ReplaySend(p)
  <2>1. Does(p, "resend") /\ UNCHANGED <<retry, shed>> /\ hold' = [hold EXCEPT ![p] = <<>>]
        /\ SendBatch(p, hold[p], FALSE)
    BY <1>9 DEF ReplaySend
  <2>2. Keeping(p) = {} /\ Resending(p) = ToSet(hold[p]) /\ Tail(work[p]) = <<>>
    BY <1>3, <2>1, InHand
  <2>3. work' = [work EXCEPT ![p] = <<>>]
    BY <1>9, <2>2, Tails DEF ReplaySend, Then
  <2>4. <<>> \in Rests
    BY DEF Rests
  <2>5. /\ work' = [q \in Pages |-> work'[q]] /\ WorkIs(p)'
        /\ Keeping(p)' = {} /\ Resending(p)' = {}
        /\ ~Does(p, "save")' /\ ~Does(p, "clear")'
    BY <2>3, <2>4, RestAhead DEF HomeInv
  <2>6. PICK by \in {"fetch", "beacon"} : flights' = flights \union {Flight(p, hold[p], by)}
    BY <2>1 DEF SendBatch
  <2>7. /\ Flight(p, hold[p], by) \in Requests /\ Flight(p, hold[p], by).fate = "open"
        /\ Flight(p, hold[p], by).batch = hold[p]
    BY <1>3, FlightRequest
  <2>8. hold' \in [Pages -> Seq(Events)]
    BY <2>1 DEF HomeInv
  <2>9. HomeInv(p)'
    BY <1>1, <1>2, <2>1, <2>5, <2>6, <2>7, <2>8 DEF HomeInv, Arrived
  <2> QED
    BY <1>1, <2>1, <2>2, <2>5, <2>6, <2>7, <2>9 DEF Stored, Quiet, Joined, Taken, Resent
<1> QED
  BY <1>5, <1>6, <1>7, <1>8, <1>9 DEF StorageStep

(* The API or the network decides an open request f, which becomes g.       *)
Decided(p, f, g) ==
    /\ f.fate = "open" /\ g \in Requests /\ g.batch = f.batch
    /\ flights' = (flights \ {f}) \union (IF f.by = "fetch" THEN {g} ELSE {})
    /\ UNCHANGED <<buffer, retry, fresh>>
    /\ Keeping(p)' = Keeping(p) /\ Resending(p)' = Resending(p)
    /\ \/ /\ g.fate = "ok" /\ Arrive(f.batch)
          /\ UNCHANGED <<unanswered, shed, unheard>>
       \/ /\ g.fate = "refused" /\ UNCHANGED <<unanswered, reached, unheard>>
          /\ shed' = IF f.by = "beacon" THEN shed \union ToSet(f.batch) ELSE shed
       \/ /\ g.fate = "fail" /\ UNCHANGED <<reached, unanswered, shed>>
          /\ Forget(f)
       \/ /\ g.fate = "fail" /\ UNCHANGED <<shed, unheard>>
          /\ f.by = "fetch" /\ Arrive(f.batch)
          /\ unanswered' = OneMore(unanswered, f.batch)

LEMMA NetworkHands ==
    ASSUME NEW p \in Pages, HomeInv(p),
           Answering \/ \E f \in flights : RequestFails(f) \/ AnswerLost(f)
    PROVE  HomeInv(p)' /\ \E f \in flights : \E g : Decided(p, f, g)
<1>1. PICK f \in flights :
        ApiAccepts(f) \/ ApiRefuses(f) \/ RequestFails(f) \/ AnswerLost(f)
  BY DEF Answering
<1>2. UNCHANGED <<ready, buffer, work, hold, retry, fresh>> /\ f.fate = "open"
  BY <1>1 DEF ApiAccepts, ApiRefuses, RequestFails, AnswerLost, pageVars, queueVars
<1>3. f \in Requests
  BY DEF HomeInv
<1>4. ASSUME NEW fate \in {"ok", "refused", "fail"}
      PROVE  /\ [f EXCEPT !.fate = fate] \in Requests
             /\ [f EXCEPT !.fate = fate].fate = fate
             /\ [f EXCEPT !.fate = fate].batch = f.batch
  BY <1>3 DEF Requests
<1>5. PICK g : Decided(p, f, g)
  <2>0. Keeping(p)' = Keeping(p) /\ Resending(p)' = Resending(p)
    BY <1>2 DEF Keeping, Resending, Does
  <2>1. CASE ApiAccepts(f)
    <3>1. Decided(p, f, [f EXCEPT !.fate = "ok"])
      BY <1>2, <1>4, <2>0, <2>1 DEF Decided, ApiAccepts, Becomes
    <3> QED
      BY <3>1
  <2>2. CASE ApiRefuses(f)
    <3>1. Decided(p, f, [f EXCEPT !.fate = "refused"])
      BY <1>2, <1>4, <2>0, <2>2 DEF Decided, ApiRefuses, Becomes
    <3> QED
      BY <3>1
  <2>3. CASE RequestFails(f)
    <3>1. Decided(p, f, [f EXCEPT !.fate = "fail"])
      BY <1>2, <1>4, <2>0, <2>3 DEF Decided, RequestFails, Becomes
    <3> QED
      BY <3>1
  <2>4. CASE AnswerLost(f)
    <3>1. Decided(p, f, [f EXCEPT !.fate = "fail"])
      BY <1>2, <1>4, <2>0, <2>4 DEF Decided, AnswerLost, Becomes
    <3> QED
      BY <3>1
  <2> QED
    BY <1>1, <2>1, <2>2, <2>3, <2>4
<1>6. ToSet(f.batch) \subseteq Events
  BY <1>3, InSet DEF Requests
<1>7. reached' \in [Events -> Nat] /\ unanswered' \in [Events -> Nat]
  <2>1. reached \in [Events -> Nat] /\ unanswered \in [Events -> Nat]
    BY DEF HomeInv
  <2>2. ASSUME NEW count \in [Events -> Nat], NEW batch
        PROVE  OneMore(count, batch) \in [Events -> Nat]
    BY DEF OneMore
  <2>3. /\ reached' \in {reached, OneMore(reached, f.batch)}
        /\ unanswered' \in {unanswered, OneMore(unanswered, f.batch)}
    BY <1>5 DEF Decided, Arrive
  <2> QED
    BY <2>1, <2>2, <2>3
<1>8. Arrived \subseteq Arrived' /\ (g.fate = "ok" => ToSet(f.batch) \subseteq Arrived')
  <2>1. \A e \in Events : reached[e] \in Nat /\ reached'[e] \in {reached[e], reached[e] + 1}
    BY <1>5 DEF Decided, Arrive, OneMore, HomeInv
  <2>2. g.fate = "ok" => \A e \in ToSet(f.batch) : reached'[e] = reached[e] + 1
    BY <1>5, <1>6 DEF Decided, Arrive, OneMore
  <2> QED
    BY <1>6, <2>1, <2>2 DEF Arrived
<1>9. flights' \subseteq Requests
      /\ \A h \in flights' : h.fate = "ok" => ToSet(h.batch) \subseteq Arrived'
  BY <1>5, <1>8 DEF Decided, HomeInv
<1>10. HomeInv(p)'
  BY <1>2, <1>7, <1>9 DEF HomeInv, WorkIs, Does
<1> QED
  BY <1>5, <1>10

(* The answer to a request f reaches the page.                              *)
Settled(p, f) ==
    /\ f.fate # "open" /\ flights' = flights \ {f}
    /\ UNCHANGED <<buffer, retry, unanswered, fresh, reached, unheard>>
    /\ Keeping(p) = {} /\ Resending(p) = {} /\ Resending(p)' = {}
    /\ \/ f.fate = "fail" /\ Keeping(p)' = ToSet(f.batch) /\ UNCHANGED shed
       \/ f.fate = "ok" /\ Keeping(p)' = {} /\ UNCHANGED shed
       \/ f.fate = "refused" /\ Keeping(p)' = {} /\ shed' = shed \union ToSet(f.batch)

LEMMA SettlingHands ==
    ASSUME NEW p \in Pages, HomeInv(p), Settling(p)
    PROVE  HomeInv(p)' /\ \E f \in flights : Settled(p, f)
<1>1. PICK f \in flights : FetchSettles(p, f)
  BY DEF Settling
<1>2. /\ ready[p] /\ work[p] = <<>> /\ f.fate # "open" /\ flights' = flights \ {f}
      /\ UNCHANGED <<ready, buffer, hold, retry, unanswered, fresh, reached, unheard>>
  BY <1>1 DEF FetchSettles, Idle, pageVars
<1>3. f \in Requests
  BY DEF HomeInv
<1>4. f.batch \in Seq(Events) /\ f.fate \in {"open", "ok", "refused", "fail"}
  BY <1>3 DEF Requests
<1>5. Keeping(p) = {} /\ Resending(p) = {}
  BY <1>2, InHand DEF HomeInv
<1>6. <<>> \in Rests
  BY DEF Rests
<1>7. CASE f.fate = "fail"
  <2>1. work' = [work EXCEPT ![p] = <<Keep(f.batch)>>] /\ UNCHANGED shed
    BY <1>1, <1>7 DEF FetchSettles, Retried
  <2>2. work' = [work EXCEPT ![p] = <<Keep(f.batch)>> \o <<>>]
    BY <2>1, Tails
  <2>3. /\ work' = [q \in Pages |-> work'[q]] /\ WorkIs(p)'
        /\ Keeping(p)' = ToSet(f.batch) /\ Resending(p)' = {}
        /\ Does(p, "save")' => Keep(f.batch) = Save(f.batch)
        /\ ~Does(p, "clear")'
    BY <1>4, <1>6, <2>2, KeepAhead DEF HomeInv
  <2>4. Keep(f.batch) # Save(f.batch)
    BY DEF Keep, Save
  <2>5. HomeInv(p)'
    BY <1>2, <2>1, <2>3, <2>4 DEF HomeInv, Arrived
  <2> QED
    BY <1>2, <1>5, <1>7, <2>1, <2>3, <2>5 DEF Settled
<1>8. CASE f.fate \in {"ok", "refused"}
  <2>1. /\ work' = [work EXCEPT ![p] = <<>>]
        /\ shed' = IF f.fate = "ok" THEN shed ELSE shed \union ToSet(f.batch)
    BY <1>1, <1>8 DEF FetchSettles, Retried
  <2>2. /\ work' = [q \in Pages |-> work'[q]] /\ WorkIs(p)'
        /\ Keeping(p)' = {} /\ Resending(p)' = {}
        /\ ~Does(p, "save")' /\ ~Does(p, "clear")'
    BY <1>6, <2>1, RestAhead DEF HomeInv
  <2>3. HomeInv(p)'
    BY <1>2, <2>2 DEF HomeInv, Arrived
  <2> QED
    BY <1>2, <1>5, <1>8, <2>1, <2>2, <2>3 DEF Settled
<1> QED
  BY <1>2, <1>4, <1>7, <1>8

(* The page is gone, and only its open requests are left of it.             *)
Left(p) ==
    /\ ToSet(buffer[p])' = {} /\ Keeping(p)' = {} /\ Resending(p)' = {}
    /\ UNCHANGED <<retry, unanswered, fresh, reached>>
    /\ \A f \in flights : f.fate = "open" => \E g \in flights' : g.batch = f.batch
    /\ \A g \in flights' : \E f \in flights :
         f.fate = "open" /\ g = [f EXCEPT !.by = "beacon"]
    /\ \A g \in flights' : \A f : g = [f EXCEPT !.by = "beacon"] /\ f \in flights
                            => g.batch = f.batch
    /\ unheard \union Pending(p) \subseteq unheard' /\ shed \subseteq shed'
    /\ \A f \in flights : /\ f.fate = "fail" => ToSet(f.batch) \subseteq unheard'
                          /\ f.fate = "refused" => ToSet(f.batch) \subseteq shed'

LEMMA GoneHands ==
    ASSUME NEW p, Pages = {p}, BufferInv, HomeInv(p), Gone(p)
    PROVE  HomeInv(p)' /\ Left(p)
<1>1. /\ UNCHANGED <<retry, unanswered, fresh, reached>>
      /\ work' = [work EXCEPT ![p] = <<>>]
      /\ hold' = [hold EXCEPT ![p] = <<>>]
      /\ buffer' = [buffer EXCEPT ![p] = <<>>]
  BY DEF Gone
<1>2. \A f \in flights : f \in Requests /\ f.page = p
  BY DEF HomeInv, Requests
<1>3. \A f \in Requests :
        /\ [f EXCEPT !.by = "beacon"] \in Requests
        /\ [f EXCEPT !.by = "beacon"].batch = f.batch
        /\ [f EXCEPT !.by = "beacon"].fate = f.fate
  BY DEF Requests
<1>4. \A g \in flights' : \E f \in flights :
        f.fate = "open" /\ g = [f EXCEPT !.by = "beacon"]
  BY <1>2 DEF Gone
<1>5. \A f \in flights : f.fate = "open" => [f EXCEPT !.by = "beacon"] \in flights'
  BY <1>2 DEF Gone
<1>6. \A f \in flights : f.fate = "fail" => ToSet(f.batch) \subseteq unheard'
  BY <1>2 DEF Gone
<1>7. \A f \in flights : f.fate = "refused" => ToSet(f.batch) \subseteq shed'
  BY <1>2 DEF Gone
<1>8. unheard \union Pending(p) \subseteq unheard' /\ shed \subseteq shed'
  BY DEF Gone
<1>9. <<>> \in Rests
  BY DEF Rests
<1>10. /\ work' = [q \in Pages |-> work'[q]] /\ WorkIs(p)' /\ work'[p] = <<>>
       /\ Keeping(p)' = {} /\ Resending(p)' = {}
       /\ ~Does(p, "save")' /\ ~Does(p, "clear")'
  BY <1>1, <1>9, RestAhead DEF HomeInv
<1>11. hold' \in [Pages -> Seq(Events)] /\ buffer'[p] = <<>>
  BY <1>1 DEF HomeInv, BufferInv
<1>12. flights' \subseteq Requests /\ \A g \in flights' : g.fate = "open"
  BY <1>2, <1>3, <1>4
<1>13. HomeInv(p)'
  BY <1>1, <1>10, <1>11, <1>12 DEF HomeInv
<1>14. \A f \in flights : f.fate = "open" => \E g \in flights' : g.batch = f.batch
  BY <1>2, <1>3, <1>5
<1>15. Left(p)
  BY <1>1, <1>2, <1>3, <1>4, <1>6, <1>7, <1>8, <1>10, <1>11, <1>14, EmptySet DEF Left
<1> QED
  BY <1>13, <1>15

(* Every step of the one page there is, or of the network.                  *)
HandsStep(p) ==
    \/ Started(p) \/ Stored(p) \/ Left(p)
    \/ \E f \in flights : Settled(p, f) \/ \E g : Decided(p, f, g)

(* Or a step of the connection, that leaves all of this as it is.           *)
Aside == UNCHANGED <<pageVars, queueVars, flights, pastVars, fresh, shed>>

LEMMA NextHands ==
    ASSUME NEW p, Pages = {p}, BufferInv, ConsentInv, HomeInv(p), Next
    PROVE  Aside \/ (HomeInv(p)' /\ HandsStep(p))
<1>1. p \in Pages /\ \A q \in Pages : q = p
  OBVIOUS
<1>2. CASE \/ InitPage(p) \/ Track(p) \/ TimerFires(p) \/ Hide(p) \/ Online(p)
           \/ \E granted \in BOOLEAN : SetConsent(p, granted)
  BY <1>1, <1>2, StartHands DEF HandsStep
<1>3. CASE Unload(p) \/ Crash(p)
  BY <1>3, GoneHands DEF HandsStep, Unload, Crash
<1>4. CASE StorageStep(p)
  BY <1>1, <1>4, StorageHands DEF HandsStep
<1>5. CASE Settling(p)
  BY <1>1, <1>5, SettlingHands DEF HandsStep
<1>6. CASE Answering \/ \E f \in flights : RequestFails(f) \/ AnswerLost(f)
  BY <1>1, <1>6, NetworkHands DEF HandsStep
<1>7. CASE GoesOffline \/ ComesBack
  BY <1>7 DEF Aside, GoesOffline, ComesBack
<1> QED
  BY <1>1, <1>2, <1>3, <1>4, <1>5, <1>6, <1>7 DEF Next

-----------------------------------------------------------------------------
(* Nothing is lost.                                                         *)

Safe(p) == Pending(p) \union InFlight \union ToSet(retry)
             \union Arrived \union shed \union unheard
LostInv(p) == Events \ fresh \subseteq Safe(p)

LEMMA SafeStep ==
    ASSUME NEW p \in Pages, HomeInv(p), HandsStep(p)
    PROVE  Safe(p) \subseteq Safe(p)'
           /\ \A e \in fresh \ fresh' : e \in Safe(p)'
<1>1. \A e : e \in Safe(p) <=>
        \/ e \in ToSet(buffer[p]) \/ e \in Keeping(p) \/ e \in Resending(p)
        \/ \E f \in flights : e \in ToSet(f.batch)
        \/ e \in ToSet(retry) \/ e \in Arrived \/ e \in shed \/ e \in unheard
  BY DEF Safe, Pending, InFlight
<1>2. \A e : e \in Safe(p)' <=>
        \/ e \in ToSet(buffer[p])' \/ e \in Keeping(p)' \/ e \in Resending(p)'
        \/ \E f \in flights' : e \in ToSet(f.batch)
        \/ e \in ToSet(retry)' \/ e \in Arrived' \/ e \in shed' \/ e \in unheard'
  BY DEF Safe, Pending, InFlight
<1> HIDE DEF Safe
<1>3. ASSUME NEW S, Handed(p, S)
      PROVE  /\ \A e \in S : e \in Safe(p)'
             /\ \A e : \/ \E f \in flights : e \in ToSet(f.batch)
                     \/ e \in ToSet(retry) \/ e \in Arrived \/ e \in shed \/ e \in unheard
                     => e \in Safe(p)'
  BY <1>2, <1>3 DEF Handed, Arrived
<1>4. CASE Started(p)
  <2>1. PICK S : /\ Handed(p, S) /\ ToSet(buffer[p]) \subseteq S
                 /\ \A e \in fresh \ fresh' : e \in S
    BY <1>4 DEF Started
  <2>2. Keeping(p) = {} /\ Resending(p) = {}
    BY <1>4 DEF Started
  <2> QED
    BY <1>1, <1>3, <2>1, <2>2
<1>5. CASE Stored(p)
  <2>1. UNCHANGED <<fresh, reached, unheard, buffer>>
    BY <1>5 DEF Stored
  <2>2. ASSUME NEW e \in Safe(p) PROVE e \in Safe(p)'
    BY <1>1, <1>2, <1>5, <2>1 DEF Stored, Quiet, Joined, Taken, Resent, Arrived
  <2> QED
    BY <2>1, <2>2
<1>6. CASE Left(p)
  <2>1. UNCHANGED <<retry, fresh, reached>> /\ shed \subseteq shed'
        /\ unheard \union Pending(p) \subseteq unheard'
    BY <1>6 DEF Left
  <2>2. ASSUME NEW f \in flights, NEW e \in ToSet(f.batch) PROVE e \in Safe(p)'
    <3>1. f.fate \in {"open", "ok", "refused", "fail"}
      BY DEF HomeInv, Requests
    <3>2. CASE f.fate = "open"
      BY <1>2, <1>6, <3>2 DEF Left
    <3>3. CASE f.fate = "ok"
      BY <1>2, <2>1, <3>3 DEF HomeInv, Arrived
    <3>4. CASE f.fate \in {"refused", "fail"}
      BY <1>2, <1>6, <3>4 DEF Left
    <3> QED
      BY <3>1, <3>2, <3>3, <3>4
  <2> QED
    BY <1>1, <1>2, <2>1, <2>2 DEF Pending, Arrived
<1>7. ASSUME NEW f \in flights, Settled(p, f)
      PROVE  Safe(p) \subseteq Safe(p)' /\ UNCHANGED fresh
  <2>1. UNCHANGED <<buffer, retry, fresh, reached, unheard>> /\ shed \subseteq shed'
        /\ Keeping(p) = {} /\ Resending(p) = {} /\ flights' = flights \ {f}
    BY <1>7 DEF Settled
  <2>2. ASSUME NEW e \in ToSet(f.batch) PROVE e \in Safe(p)'
    BY <1>2, <1>7 DEF Settled, HomeInv, Arrived
  <2> QED
    BY <1>1, <1>2, <2>1, <2>2 DEF Arrived
<1>8. ASSUME NEW f \in flights, NEW g, Decided(p, f, g)
      PROVE  Safe(p) \subseteq Safe(p)' /\ UNCHANGED fresh
  <2>1. /\ UNCHANGED <<buffer, retry, fresh>> /\ shed \subseteq shed' /\ unheard \subseteq unheard'
        /\ Keeping(p)' = Keeping(p) /\ Resending(p)' = Resending(p)
        /\ flights \ {f} \subseteq flights' /\ g.batch = f.batch
        /\ f.by = "fetch" => g \in flights'
    BY <1>8 DEF Decided, Forget
  <2>2. f \in Requests
    BY DEF HomeInv
  <2>3. f.by \in {"fetch", "beacon"} /\ ToSet(f.batch) \subseteq Events
    BY <2>2, InSet DEF Requests
  <2>4. Arrived \subseteq Arrived' /\ (g.fate = "ok" => ToSet(f.batch) \subseteq Arrived')
    <3>1. \A e \in Events : reached[e] \in Nat /\ reached'[e] \in {reached[e], reached[e] + 1}
      BY <1>8 DEF Decided, Arrive, OneMore, HomeInv
    <3>2. g.fate = "ok" => \A e \in ToSet(f.batch) : reached'[e] = reached[e] + 1
      BY <1>8, <2>3 DEF Decided, Arrive, OneMore
    <3> QED
      BY <2>3, <3>1, <3>2 DEF Arrived
  <2>5. ASSUME NEW e \in ToSet(f.batch) PROVE e \in Safe(p)'
    <3>1. CASE f.by = "fetch"
      BY <1>2, <2>1, <3>1
    <3>2. CASE f.by = "beacon"
      BY <1>2, <1>8, <2>4, <3>2 DEF Decided, Forget
    <3> QED
      BY <2>3, <3>1, <3>2
  <2> QED
    BY <1>1, <1>2, <2>1, <2>4, <2>5
<1> QED
  BY <1>4, <1>5, <1>6, <1>7, <1>8 DEF HandsStep

LEMMA HomeStep ==
    ASSUME NEW p, Pages = {p}, BufferInv, ConsentInv, HomeInv(p), LostInv(p), [Next]_vars
    PROVE  HomeInv(p)' /\ LostInv(p)'
<1>0. UNCHANGED vars => Aside
  BY DEF vars, netVars, Aside
<1>1. CASE Aside
  <2>0. UNCHANGED <<ready, buffer, work, hold, retry, flights, reached, unanswered, unheard,
                    fresh, shed>>
    BY <1>1 DEF Aside, pageVars, queueVars
  <2>1. WorkIs(p)' <=> WorkIs(p)
    BY <2>0 DEF WorkIs
  <2>2. HomeInv(p)'
    BY <2>0, <2>1 DEF HomeInv, Arrived, Does
  <2>3. Safe(p)' = Safe(p)
    BY <2>0 DEF Safe, Pending, Keeping, Resending, Does, InFlight, Arrived
  <2> QED
    BY <2>0, <2>2, <2>3 DEF LostInv
<1>2. CASE Next /\ ~Aside
  <2>1. HomeInv(p)' /\ HandsStep(p)
    BY <1>2, NextHands
  <2>2. Safe(p) \subseteq Safe(p)' /\ \A e \in fresh \ fresh' : e \in Safe(p)'
    BY <2>1, SafeStep
  <2> QED
    BY <2>1, <2>2 DEF LostInv
<1> QED
  BY <1>0, <1>1, <1>2

LEMMA HomeInit ==
    ASSUME NEW p, Pages = {p}, Init PROVE HomeInv(p) /\ LostInv(p)
<1>1. work[p] = <<>> /\ hold \in [Pages -> Seq(Events)] /\ work = [q \in Pages |-> work[q]]
  BY DEF Init
<1> QED
  BY <1>1 DEF Init, HomeInv, LostInv, WorkIs, Does

LEMMA BufferAlways == Spec => []BufferInv
<1>1. Init => BufferInv
  BY DEF Init, BufferInv, TimerMatchesBuffer
<1> QED
  BY <1>1, BufferStep, PTL DEF Spec

LEMMA ConsentAlways == Spec => []ConsentInv
<1>1. Init => ConsentInv
  BY DEF Init, ConsentInv, WorkShape
<1> QED
  BY <1>1, ConsentStep, PTL DEF Spec

(* A page that has its retry queue to itself loses no event: through        *)
(* failures, holds for consent, reloads, crashes and quota errors, an event *)
(* given to track is in its memory, under way, in localStorage or at the    *)
(* API, unless policy, a failed beacon or a crash took it.                  *)
THEOREM NoneLost ==
    ASSUME NEW p, Pages = {p} PROVE Spec => []NothingLost
<1>1. Init => HomeInv(p) /\ LostInv(p)
  BY HomeInit
<1>2. BufferInv /\ ConsentInv /\ HomeInv(p) /\ LostInv(p) /\ [Next]_vars
      => HomeInv(p)' /\ LostInv(p)'
  BY HomeStep
<1>3. LostInv(p) => NothingLost
  BY DEF LostInv, NothingLost, Kept, Safe
<1> QED
  BY <1>1, <1>2, <1>3, BufferAlways, ConsentAlways, PTL DEF Spec

-----------------------------------------------------------------------------
(* Nothing is sent twice.                                                   *)

(* While an event is anywhere, in the page or with a request that is open   *)
(* or has failed, every time it reached the API before was an answer lost.  *)
OnceOnly(p, e) ==
    /\ e \in fresh => ~AtHome(p, e) /\ (\A f \in Live : ~Carries(f, e)) /\ reached[e] = 0
    /\ reached[e] <= 1 + unanswered[e]
    /\ AtHome(p, e) \/ (\E f \in Live : Carries(f, e)) => reached[e] <= unanswered[e]
OnceInv(p) == \A e \in Events : OnePlace(p, e) /\ OnceOnly(p, e)

LEMMA OnceStarted ==
    ASSUME NEW p \in Pages, HomeInv(p), BufferInv, OnceInv(p), Started(p)
    PROVE  OnceInv(p)'
<1> SUFFICES ASSUME NEW e \in Events PROVE OnePlace(p, e)' /\ OnceOnly(p, e)'
  BY DEF OnceInv
<1>1. OnePlace(p, e) /\ OnceOnly(p, e) /\ reached[e] \in Nat /\ unanswered[e] \in Nat
  BY DEF OnceInv, HomeInv
<1>2. /\ Keeping(p) = {} /\ Resending(p) = {} /\ Resending(p)' = {}
      /\ UNCHANGED <<retry, unanswered, reached>> /\ fresh' \subseteq fresh
  BY DEF Started, Handed
<1>3. PICK S : /\ Handed(p, S)
               /\ e \in S => e \in ToSet(buffer[p]) \/ (e \in fresh /\ e \notin fresh')
  BY DEF Started
<1>4. e \in fresh' => e \notin S
  BY <1>1, <1>2, <1>3 DEF OnceOnly, AtHome, Started
<1>5. CASE UNCHANGED flights
  <2>1. Live' = Live
    BY <1>5 DEF Live
  <2>2. \/ ToSet(buffer[p])' = S /\ Keeping(p)' = {}
        \/ ToSet(buffer[p])' = {} /\ Keeping(p)' = S
        \/ \E f \in flights : f.fate = "open" /\ ToSet(f.batch) = S
              /\ ToSet(buffer[p])' = {} /\ Keeping(p)' = {}
    BY <1>3, <1>5 DEF Handed
  <2>3. AtHome(p, e)' <=> e \in ToSet(buffer[p])' \/ e \in Keeping(p)' \/ e \in ToSet(retry)
    BY <1>2 DEF AtHome
  <2> QED
    BY <1>1, <1>2, <1>3, <1>4, <2>1, <2>2, <2>3 DEF OnePlace, OnceOnly, AtHome
<1>6. ASSUME NEW f \in Requests, f.fate = "open", ToSet(f.batch) = S,
             flights' = flights \union {f}, ToSet(buffer[p])' = {}, Keeping(p)' = {}
      PROVE  OnePlace(p, e)' /\ OnceOnly(p, e)'
  <2>1. Live' = Live \union {f} /\ (Carries(f, e) <=> e \in S)
    BY <1>6 DEF Live, Carries
  <2>2. AtHome(p, e)' <=> e \in ToSet(retry)
    BY <1>2, <1>6 DEF AtHome
  <2>3. e \in S => \A g \in Live : ~Carries(g, e)
    BY <1>1, <1>3 DEF OnePlace, OnceOnly, AtHome
  <2>4. e \in S => e \notin ToSet(retry)
    BY <1>1, <1>3 DEF OnePlace, OnceOnly, AtHome
  <2>5. e \in S => reached[e] <= unanswered[e]
    BY <1>1, <1>3 DEF OnceOnly, AtHome
  <2>6. OnePlace(p, e)'
    BY <1>1, <1>2, <1>6, <2>1, <2>2, <2>3, <2>4 DEF OnePlace, AtHome, Carries
  <2>7. OnceOnly(p, e)'
    BY <1>1, <1>2, <1>4, <1>6, <2>1, <2>2, <2>5 DEF OnceOnly, AtHome, Carries
  <2> QED
    BY <2>6, <2>7
<1> QED
  BY <1>3, <1>5, <1>6 DEF Handed

LEMMA OnceStored ==
    ASSUME NEW p \in Pages, HomeInv(p), OnceInv(p), Stored(p)
    PROVE  OnceInv(p)'
<1> SUFFICES ASSUME NEW e \in Events PROVE OnePlace(p, e)' /\ OnceOnly(p, e)'
  BY DEF OnceInv
<1>1. OnePlace(p, e) /\ OnceOnly(p, e)
  BY DEF OnceInv
<1>2. UNCHANGED <<buffer, unanswered, fresh, reached>>
  BY DEF Stored
<1>3. CASE Quiet(p) \/ Joined(p) \/ Taken(p)
  <2>1. Live' = Live
    BY <1>3 DEF Quiet, Joined, Taken, Live
  <2>2. AtHome(p, e)' => AtHome(p, e)
    BY <1>2, <1>3 DEF Quiet, Joined, Taken, AtHome
  <2>3. e \in Keeping(p)' \/ e \in Resending(p)' => e \notin ToSet(buffer[p])
    BY <1>1, <1>2, <1>3 DEF Quiet, Joined, Taken, OnePlace, AtHome
  <2>4. /\ e \in Keeping(p)' => e \notin Resending(p)' \union ToSet(retry)'
        /\ e \in Resending(p)' => e \notin ToSet(retry)'
    BY <1>1, <1>2, <1>3 DEF Quiet, Joined, Taken, OnePlace
  <2>5. e \in ToSet(buffer[p]) => e \notin ToSet(retry)'
    BY <1>1, <1>2, <1>3 DEF Quiet, Joined, Taken, OnePlace
  <2> QED
    BY <1>1, <1>2, <2>1, <2>2, <2>3, <2>4, <2>5 DEF OnePlace, OnceOnly
<1>4. ASSUME NEW f \in Requests, f.fate = "open", ToSet(f.batch) = Resending(p),
             flights' = flights \union {f}, UNCHANGED retry,
             Resending(p)' = {}, Keeping(p) = {}, Keeping(p)' = {}
      PROVE  OnePlace(p, e)' /\ OnceOnly(p, e)'
  <2>1. Live' = Live \union {f} /\ (Carries(f, e) <=> e \in Resending(p))
    BY <1>4 DEF Live, Carries
  <2>2. AtHome(p, e)' <=> e \in ToSet(buffer[p]) \/ e \in ToSet(retry)
    BY <1>2, <1>4 DEF AtHome
  <2>3. e \in Resending(p) =>
          AtHome(p, e) /\ ~AtHome(p, e)' /\ \A g \in Live : ~Carries(g, e)
    BY <1>1, <2>2 DEF OnePlace, AtHome
  <2>4. AtHome(p, e)' => AtHome(p, e)
    BY <2>2 DEF AtHome
  <2>5. OnePlace(p, e)'
    BY <1>1, <1>2, <1>4, <2>1, <2>2, <2>3, <2>4 DEF OnePlace, Carries
  <2>6. OnceOnly(p, e)'
    BY <1>1, <1>2, <1>4, <2>1, <2>3, <2>4 DEF OnceOnly, Carries
  <2> QED
    BY <2>5, <2>6
<1> QED
  BY <1>3, <1>4 DEF Stored, Resent

LEMMA OnceLeft ==
    ASSUME NEW p \in Pages, HomeInv(p), OnceInv(p), Left(p)
    PROVE  OnceInv(p)'
<1> SUFFICES ASSUME NEW e \in Events PROVE OnePlace(p, e)' /\ OnceOnly(p, e)'
  BY DEF OnceInv
<1>1. OnePlace(p, e) /\ OnceOnly(p, e)
  BY DEF OnceInv
<1>2. UNCHANGED <<retry, unanswered, fresh, reached>>
      /\ ToSet(buffer[p])' = {} /\ Keeping(p)' = {} /\ Resending(p)' = {}
  BY DEF Left
<1>3. ASSUME NEW g \in Live'
      PROVE  \E f \in Live : g = [f EXCEPT !.by = "beacon"] /\ (Carries(g, e)' <=> Carries(f, e))
  BY DEF Left, Live, Carries
<1>4. AtHome(p, e)' <=> e \in ToSet(retry)
  BY <1>2 DEF AtHome
<1>5. AtHome(p, e)' => AtHome(p, e)
  BY <1>4 DEF AtHome
<1>6. OnePlace(p, e)'
  BY <1>1, <1>2, <1>3, <1>4, <1>5 DEF OnePlace, Carries
<1>7. OnceOnly(p, e)'
  BY <1>1, <1>2, <1>3, <1>5 DEF OnceOnly, Carries
<1> QED
  BY <1>6, <1>7

LEMMA OnceSettled ==
    ASSUME NEW p \in Pages, HomeInv(p), OnceInv(p), NEW f \in flights, Settled(p, f)
    PROVE  OnceInv(p)'
<1> SUFFICES ASSUME NEW e \in Events PROVE OnePlace(p, e)' /\ OnceOnly(p, e)'
  BY DEF OnceInv
<1>1. OnePlace(p, e) /\ OnceOnly(p, e)
  BY DEF OnceInv
<1>2. UNCHANGED <<buffer, retry, unanswered, fresh, reached>>
      /\ Keeping(p) = {} /\ Resending(p) = {} /\ Resending(p)' = {}
      /\ Live' = Live \ {f}
  BY DEF Settled, Live
<1>3. CASE f \in Live /\ Carries(f, e)
  <2>1. e \in Keeping(p)' /\ \A g \in Live' : ~Carries(g, e)
    BY <1>1, <1>2, <1>3 DEF Settled, Live, Carries, OnePlace
  <2>2. ~AtHome(p, e)
    BY <1>1, <1>3 DEF OnePlace
  <2>3. e \notin ToSet(buffer[p])' \union Resending(p)' \union ToSet(retry)'
    BY <1>2, <2>2 DEF AtHome
  <2> QED
    BY <1>1, <1>2, <1>3, <2>1, <2>3 DEF OnePlace, OnceOnly, Carries
<1>4. CASE ~(f \in Live /\ Carries(f, e))
  <2>1. e \notin Keeping(p)'
    BY <1>4 DEF Settled, Live, Carries
  <2>2. AtHome(p, e)' <=> AtHome(p, e)
    BY <1>2, <2>1 DEF AtHome
  <2> QED
    BY <1>1, <1>2, <2>1, <2>2 DEF OnePlace, OnceOnly, Carries
<1> QED
  BY <1>3, <1>4

LEMMA OnceDecided ==
    ASSUME NEW p \in Pages, HomeInv(p), OnceInv(p), NEW f \in flights, NEW g, Decided(p, f, g)
    PROVE  OnceInv(p)'
<1> SUFFICES ASSUME NEW e \in Events PROVE OnePlace(p, e)' /\ OnceOnly(p, e)'
  BY DEF OnceInv
<1>1. OnePlace(p, e) /\ OnceOnly(p, e) /\ reached[e] \in Nat /\ unanswered[e] \in Nat
  BY DEF OnceInv, HomeInv
<1>2. /\ UNCHANGED <<buffer, retry, fresh>>
      /\ Keeping(p)' = Keeping(p) /\ Resending(p)' = Resending(p)
      /\ f \in Live /\ (Carries(g, e) <=> Carries(f, e))
      /\ flights' \subseteq (flights \ {f}) \union {g}
  BY DEF Decided, Live, Carries
<1>3. AtHome(p, e)' <=> AtHome(p, e)
  BY <1>2 DEF AtHome
<1>4. Live' \subseteq (Live \ {f}) \union {g}
  BY <1>2 DEF Live
<1>5. CASE Carries(f, e)
  <2>1. ~AtHome(p, e) /\ \A h \in Live \ {f} : ~Carries(h, e)
    BY <1>1, <1>2, <1>5 DEF OnePlace
  <2>2. e \notin fresh /\ reached[e] <= unanswered[e]
    BY <1>1, <1>2, <1>5 DEF OnceOnly
  <2>3. \/ reached'[e] <= unanswered'[e]
        \/ g.fate = "ok" /\ reached'[e] <= 1 + unanswered'[e]
    BY <1>1, <1>5, <2>2 DEF Decided, Arrive, OneMore, Carries
  <2>4. reached'[e] <= 1 + unanswered'[e]
    <3>1. reached'[e] \in Nat /\ unanswered'[e] \in Nat
      BY <1>1 DEF Decided, Arrive, OneMore
    <3> QED
      BY <2>3, <3>1
  <2>5. g.fate = "ok" => \A h \in Live' : ~Carries(h, e)
    <3>1. g.fate = "ok" => g \notin Live'
      BY DEF Live
    <3> QED
      BY <1>4, <2>1, <3>1
  <2> QED
    BY <1>2, <1>3, <1>4, <2>1, <2>2, <2>3, <2>4, <2>5 DEF OnePlace, OnceOnly, Carries, AtHome
<1>6. CASE ~Carries(f, e)
  <2>1. reached'[e] = reached[e] /\ unanswered'[e] = unanswered[e]
    BY <1>6 DEF Decided, Arrive, OneMore, Carries, HomeInv
  <2>2. (\E h \in Live' : Carries(h, e)) => \E h \in Live : Carries(h, e)
    BY <1>2, <1>4, <1>6
  <2>3. \A h \in Live' : Carries(h, e) => h \in Live
    BY <1>2, <1>4, <1>6
  <2>4. OnePlace(p, e)'
    BY <1>1, <1>2, <1>3, <2>3 DEF OnePlace, Carries
  <2>5. reached'[e] <= 1 + unanswered'[e] /\ (reached[e] <= unanswered[e] => reached'[e] <= unanswered'[e])
    BY <1>1, <2>1 DEF OnceOnly
  <2> QED
    BY <1>1, <1>2, <1>3, <2>1, <2>2, <2>4, <2>5 DEF OnceOnly, Carries
<1> QED
  BY <1>5, <1>6

LEMMA OnceStep ==
    ASSUME NEW p, Pages = {p}, BufferInv, ConsentInv, HomeInv(p), OnceInv(p), [Next]_vars
    PROVE  OnceInv(p)'
<1>0. UNCHANGED vars => Aside
  BY DEF vars, netVars, Aside
<1>1. CASE Aside
  BY <1>1 DEF Aside, pageVars, queueVars, OnceInv, OnePlace, OnceOnly, AtHome, Live, Keeping,
              Resending, Does
<1>2. CASE Next /\ ~Aside
  BY <1>2, NextHands, OnceStarted, OnceStored, OnceLeft, OnceSettled, OnceDecided
     DEF HandsStep
<1> QED
  BY <1>0, <1>1, <1>2

LEMMA OnceInit ==
    ASSUME NEW p, Pages = {p}, Init PROVE OnceInv(p)
<1>1. /\ work[p] = <<>> /\ buffer[p] = <<>> /\ retry = <<>> /\ flights = {}
      /\ \A e \in Events : reached[e] = 0 /\ unanswered[e] = 0
  BY DEF Init
<1>2. ToSet(buffer[p]) = {} /\ ToSet(retry) = {} /\ Keeping(p) = {} /\ Resending(p) = {}
  BY <1>1, EmptySet, WorkBatches DEF Keeping, Resending, Does, Rests
<1> QED
  BY <1>1, <1>2 DEF OnceInv, OnePlace, OnceOnly, AtHome, Live

(* With a page that has its retry queue to itself, an event is in one place *)
(* at a time, and reaches the API once and once more for each lost answer   *)
(* about it: no flush, hold, replay, reload or crash in the middle of one   *)
(* duplicates it (sendBatch, enqueueRetry, flushRetryQueue).                *)
THEOREM NoneSentTwice ==
    ASSUME NEW p, Pages = {p} PROVE Spec => []NothingSentTwice
<1>1. Init => HomeInv(p) /\ LostInv(p) /\ OnceInv(p)
  BY HomeInit, OnceInit
<1>2. BufferInv /\ ConsentInv /\ HomeInv(p) /\ LostInv(p) /\ OnceInv(p) /\ [Next]_vars
      => HomeInv(p)' /\ LostInv(p)' /\ OnceInv(p)'
  BY HomeStep, OnceStep
<1>3. OnceInv(p) => NothingSentTwice
  BY DEF OnceInv, OnceOnly, NothingSentTwice
<1> QED
  BY <1>1, <1>2, <1>3, BufferAlways, ConsentAlways, PTL DEF Spec

=============================================================================
