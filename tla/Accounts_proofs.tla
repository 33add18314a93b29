-------------------------- MODULE Accounts_proofs ---------------------------
(* What holds of accounts and sessions for any number of tabs, addresses,   *)
(* passwords, restarts and overlapping calls: the server first, then what   *)
(* the pages make of its answers.                                           *)
EXTENDS Accounts, SequenceTheorems, TLAPS

Creds == Inputs \union {Malformed}

(* Rows are spelt canonically, and come from what was typed.                *)
RowOK(r) == \E x \in Inputs : r = [email |-> Canonical(x), pw |-> x.pw]

UsersOK ==
    /\ users \in Seq({[email |-> Canonical(x), pw |-> x.pw] : x \in Inputs})
    /\ OnePerAddress

(* The strengthening of Truthful, call by call: a call carries a user or a  *)
(* cookie only from the step that may give it one, and what was known when  *)
(* a login was sent is found whenever the handler looks.                    *)
Shape(c) ==
    DOMAIN c = {"tab", "op", "creds", "cookie", "at", "status", "user", "puts",
                "known", "broke"}

CallOK(c) ==
    /\ Shape(c)
    /\ c.creds \in Creds
    /\ c.user \subseteq DOMAIN users
    /\ \A k \in c.cookie \union UNION c.puts : k.sub \in DOMAIN users
    /\ \A id \in c.user :
        /\ c.op \in SignOps =>
             /\ users[id].email[1] = c.creds.who
             /\ users[id].pw = c.creds.pw
        /\ c.op = "restore" => \E k \in c.cookie : k.sub = id
        /\ \A k \in UNION c.puts : k.sub = id
    /\ c.at \in {"sent", "inserted"} => c.puts = {}
    /\ c.at = "inserted" => c.op = "signup"
    /\ c.known => c.op = "login" /\ Matching(c.creds) # {}
    /\ c.known /\ c.at = "answered" => c.broke \/ c.status = 200

IInv ==
    /\ UsersOK
    /\ \A k \in jar : k.sub \in DOMAIN users
    /\ ui = [t \in Tabs |-> ui[t]]
    /\ \A t \in Tabs : /\ DOMAIN ui[t] = {"status", "user", "page"}
                       /\ ui[t].user \subseteq DOMAIN users
    /\ \A c \in calls : CallOK(c)

LEMMA RowType ==
    ASSUME UsersOK, NEW i \in DOMAIN users
    PROVE  RowOK(users[i])
  BY DEF UsersOK, RowOK

(* What a person registered is what the login handler's query finds.        *)
LEMMA RegisteredMatches ==
    ASSUME UsersOK, NEW creds \in Creds, Registered(creds)
    PROVE  Matching(creds) # {}
<1>1. PICK i \in DOMAIN users : users[i].email[1] = creds.who /\ users[i].pw = creds.pw
  BY DEF Registered
<1>2. PICK x \in Inputs : users[i] = [email |-> <<x.who, "plain">>, pw |-> x.pw]
  BY RowType DEF RowOK, Canonical
<1>3. users[i].email = <<creds.who, "plain">>
  BY <1>1, <1>2
<1> QED
  BY <1>1, <1>3 DEF Matching, Owners, Canonical

(* Rows are only added, so what held of a call goes on holding.             *)
Grows ==
    /\ DOMAIN users \subseteq DOMAIN users'
    /\ \A i \in DOMAIN users : users'[i] = users[i]

LEMMA CallKept ==
    ASSUME Grows, NEW c, CallOK(c)
    PROVE  CallOK(c)'
<1>1. c.known => Matching(c.creds)' # {}
  BY DEF Grows, CallOK, Matching, Owners, Canonical
<1> QED
  BY <1>1 DEF Grows, CallOK

LEMMA InitInv == Init => IInv
  BY DEF Init, IInv, UsersOK, OnePerAddress, Blank

LEMMA SendInv ==
    ASSUME IInv, NEW t, NEW op, NEW creds \in Creds, Send(t, op, creds)
    PROVE  (\A c \in calls : CallOK(c))' /\ UsersOK' /\ (\A k \in jar : k.sub \in DOMAIN users)'
<1> DEFINE new == [tab |-> t, op |-> op, creds |-> creds, cookie |-> jar, at |-> "sent",
           status |-> 0, user |-> {}, puts |-> {},
           known |-> op = "login" /\ Registered(creds), broke |-> FALSE]
<1>1. CallOK(new)
  BY RegisteredMatches DEF IInv, CallOK, Shape
<1>2. UNCHANGED <<users, jar>> /\ calls' = calls \union {new}
  BY DEF Send
<1>3. Grows
  BY <1>2 DEF Grows
<1>4. \A c \in calls' : CallOK(c)'
  BY <1>1, <1>2, <1>3, CallKept DEF IInv
<1>5. UsersOK'
  BY <1>2 DEF IInv, UsersOK, OnePerAddress
<1> QED
  BY <1>2, <1>4, <1>5 DEF IInv

(* A handler that leaves the table alone replaces a call by an answered one. *)
LEMMA AnswerInv ==
    ASSUME IInv, NEW c \in calls, NEW d, Answer(c, d), CallOK(d)
    PROVE  IInv'
<1>1. UNCHANGED <<users, jar, ui>> /\ calls' = (calls \ {c}) \union {d}
  BY DEF Answer, Become
<1>2. Grows
  BY <1>1 DEF Grows
<1>3. \A e \in calls' : CallOK(e)'
  BY <1>1, <1>2, CallKept DEF IInv
<1>4. UsersOK'
  BY <1>1 DEF IInv, UsersOK, OnePerAddress
<1> QED
  BY <1>1, <1>3, <1>4 DEF IInv

LEMMA ReplyShape ==
    ASSUME NEW c, Shape(c), NEW status, NEW user, NEW puts,
           NEW r, r = Reply(c, status, user, puts)
    PROVE  /\ Shape(r)
           /\ r.op = c.op /\ r.creds = c.creds /\ r.cookie = c.cookie
           /\ r.known = c.known /\ r.broke = c.broke
           /\ r.at = "answered" /\ r.status = status /\ r.user = user /\ r.puts = puts
  BY DEF Shape, Reply

(* A refusal carries nothing; a greeting carries the account greeted.       *)
LEMMA RefusalOK ==
    ASSUME NEW c, CallOK(c), NEW status,
           c.known => status = 200
    PROVE  CallOK(Reply(c, status, {}, {}))
<1> DEFINE r == Reply(c, status, {}, {})
<1>1. /\ Shape(r) /\ r.creds = c.creds /\ r.cookie = c.cookie /\ r.known = c.known
      /\ r.op = c.op /\ r.at = "answered" /\ r.status = status /\ r.user = {} /\ r.puts = {}
  BY ReplyShape DEF CallOK
<1> HIDE DEF r
<1>2. CallOK(r)
  BY <1>1 DEF CallOK
<1> QED
  BY <1>2 DEF r

LEMMA FailingOK ==
    ASSUME NEW c, CallOK(c), NEW status
    PROVE  CallOK(Failing(c, status))
<1> DEFINE b == [c EXCEPT !.broke = TRUE]
           r == Reply(b, status, {}, {})
<1>1. /\ Shape(b) /\ b.creds = c.creds /\ b.cookie = c.cookie /\ b.known = c.known
      /\ b.op = c.op /\ b.broke = TRUE
  BY DEF CallOK, Shape
<1> HIDE DEF b
<1>2. /\ Shape(r) /\ r.creds = b.creds /\ r.cookie = b.cookie /\ r.known = b.known
      /\ r.op = b.op /\ r.at = "answered" /\ r.broke = b.broke /\ r.user = {} /\ r.puts = {}
  BY <1>1, ReplyShape
<1> HIDE DEF r
<1>3. CallOK(r)
  BY <1>1, <1>2 DEF CallOK
<1> QED
  BY <1>3 DEF r, b, Failing

LEMMA GreetOK ==
    ASSUME NEW c, CallOK(c), c.op \in SignOps, NEW id \in DOMAIN users, NEW status,
           users[id].email[1] = c.creds.who, users[id].pw = c.creds.pw,
           c.known => status = 200
    PROVE  CallOK(Greet(c, status, id))
<1> DEFINE r == Greet(c, status, id)
<1>1. /\ Shape(r) /\ r.creds = c.creds /\ r.cookie = c.cookie /\ r.known = c.known
      /\ r.op = c.op /\ r.at = "answered" /\ r.status = status /\ r.user = {id}
      /\ r.puts = {{Issue(id)}}
  BY ReplyShape DEF CallOK, Greet
<1>2. Issue(id).sub = id
  BY DEF Issue
<1> HIDE DEF r
<1>3. UNION r.puts = {Issue(id)}
  BY <1>1
<1>4. CallOK(r)
  BY <1>1, <1>2, <1>3 DEF CallOK, SignOps
<1> QED
  BY <1>4 DEF r

LEMMA LoginInv ==
    ASSUME IInv, NEW c \in calls, LoginHandle(c)
    PROVE  IInv'
<1>0. CallOK(c) /\ c.op = "login"
  BY DEF IInv, LoginHandle
<1>1. CASE c.creds = Malformed /\ Answer(c, Reply(c, 400, {}, {}))
  <2>1. ~c.known
    <3>0. Canonical(c.creds) = <<"nobody", "plain">>
      <4>1. Malformed.who = "nobody"
        BY DEF Malformed
      <4> QED BY <1>1, <4>1 DEF Canonical
    <3>1. SUFFICES ASSUME NEW i \in DOMAIN users,
                          users[i].email = <<"nobody", "plain">>
                   PROVE  FALSE
      BY <1>0, <3>0 DEF CallOK, Matching, Owners
    <3>2. PICK x \in Inputs : users[i] = [email |-> <<x.who, "plain">>, pw |-> x.pw]
      BY RowType DEF RowOK, Canonical, IInv
    <3> QED BY <3>1, <3>2, InputsAssumption
  <2> QED BY <1>0, <1>1, <2>1, RefusalOK, AnswerInv
<1>2. CASE Matching(c.creds) = {} /\ Answer(c, Reply(c, 401, {}, {}))
  <2>1. ~c.known
    BY <1>0, <1>2 DEF CallOK
  <2> QED BY <1>0, <1>2, <2>1, RefusalOK, AnswerInv
<1>3. CASE \E id \in Matching(c.creds) : Answer(c, Greet(c, 200, id))
  <2>1. PICK id \in Matching(c.creds) : Answer(c, Greet(c, 200, id))
    BY <1>3
  <2>2. id \in DOMAIN users /\ users[id].email[1] = c.creds.who /\ users[id].pw = c.creds.pw
    BY <2>1 DEF Matching, Owners, Canonical
  <2> QED BY <1>0, <2>1, <2>2, GreetOK, AnswerInv DEF SignOps
<1>4. CASE Answer(c, Failing(c, 401))
  BY <1>0, <1>4, FailingOK, AnswerInv
<1> QED
  BY <1>1, <1>2, <1>3, <1>4 DEF LoginHandle

LEMMA ProtectedInv ==
    ASSUME IInv, NEW c \in calls, Protected(c)
    PROVE  IInv'
<1>0. CallOK(c) /\ c.op \in {"restore", "stats"} /\ ~c.known
  BY DEF IInv, Protected, CallOK
<1>1. CASE Verify(c.cookie) = {} /\ Answer(c, Reply(c, 401, {}, {}))
  BY <1>0, <1>1, RefusalOK, AnswerInv
<1>2. ASSUME NEW id \in Verify(c.cookie),
             Answer(c, Reply(c, 200, IF c.op = "stats" THEN {} ELSE {id}, {}))
      PROVE  IInv'
  <2>1. PICK k \in c.cookie : k.sub = id
    BY DEF Verify
  <2> DEFINE u == IF c.op = "stats" THEN {} ELSE {id}
             r == Reply(c, 200, u, {})
  <2>2. /\ Shape(r) /\ r.creds = c.creds /\ r.cookie = c.cookie /\ ~r.known
        /\ r.op = c.op /\ r.at = "answered" /\ r.user = u /\ r.puts = {}
    BY <1>0, ReplyShape DEF CallOK
  <2> HIDE DEF r
  <2>3. CallOK(r)
    BY <1>0, <2>1, <2>2 DEF CallOK, SignOps
  <2> QED BY <1>2, <2>3, AnswerInv DEF r
<1>3. ASSUME Answer(c, Failing(c, IF c.op = "stats" THEN 500 ELSE 401))
      PROVE  IInv'
  BY <1>0, <1>3, FailingOK, AnswerInv
<1> QED
  BY <1>1, <1>2, <1>3 DEF Protected

LEMMA LogoutInv ==
    ASSUME IInv, NEW c \in calls, LogoutHandle(c)
    PROVE  IInv'
<1>1. CallOK(c) /\ ~c.known
  BY DEF IInv, LogoutHandle, CallOK
<1> DEFINE r == Reply(c, 200, {}, {{}})
<1>2. /\ Shape(r) /\ r.creds = c.creds /\ r.cookie = c.cookie /\ ~r.known
      /\ r.op = c.op /\ r.at = "answered" /\ r.user = {} /\ r.puts = {{}}
  BY <1>1, ReplyShape DEF CallOK
<1> HIDE DEF r
<1>3. UNION r.puts = {}
  BY <1>2
<1>4. CallOK(r)
  BY <1>1, <1>2, <1>3 DEF CallOK
<1> QED
  BY <1>4, AnswerInv DEF LogoutHandle, r

LEMMA SignupInv ==
    ASSUME IInv, NEW c \in calls, SignupHandle(c)
    PROVE  IInv'
<1>0. CallOK(c) /\ c.op = "signup" /\ c.at = "sent" /\ ~c.known
  BY DEF IInv, SignupHandle, CallOK
<1>1. CASE \/ Answer(c, Reply(c, 400, {}, {})) \/ Answer(c, Reply(c, 500, {}, {}))
           \/ Answer(c, Reply(c, 409, {}, {})) \/ Answer(c, Failing(c, 500))
  BY <1>0, <1>1, RefusalOK, FailingOK, AnswerInv
<1>2. CASE /\ c.creds # Malformed
           /\ ~Taken(c.creds)
           /\ users' = Append(users, [email |-> Canonical(c.creds), pw |-> c.creds.pw])
           /\ Become(c, [c EXCEPT !.at = "inserted", !.user = {Len(users) + 1}])
           /\ UNCHANGED jar
  <2>0. PICK n : n = Len(users)
    OBVIOUS
  <2> DEFINE row == [email |-> Canonical(c.creds), pw |-> c.creds.pw]
             d == [c EXCEPT !.at = "inserted", !.user = {n + 1}]
             R == {[email |-> Canonical(x), pw |-> x.pw] : x \in Inputs}
  <2>1. users \in Seq(R) /\ row \in R
    BY <1>0, <1>2 DEF IInv, UsersOK, CallOK, Creds
  <2>2. row.email = Canonical(c.creds) /\ row.email[1] = c.creds.who /\ row.pw = c.creds.pw
    BY DEF Canonical
  <2> HIDE DEF R, row
  <2>3. /\ users' \in Seq(R)
        /\ Len(users') = Len(users) + 1
        /\ DOMAIN users' = DOMAIN users \union {Len(users) + 1}
        /\ \A i \in DOMAIN users : users'[i] = users[i]
        /\ users'[Len(users) + 1] = row
    BY <1>2, <2>1 DEF row
  <2>4. Grows
    BY <2>3 DEF Grows
  <2>5. \A i \in DOMAIN users : users[i].email[1] # row.email[1]
    <3> SUFFICES ASSUME NEW i \in DOMAIN users, users[i].email[1] = row.email[1]
                 PROVE  FALSE
      OBVIOUS
    <3>1. PICK x \in Inputs : users[i] = [email |-> <<x.who, "plain">>, pw |-> x.pw]
      BY RowType DEF RowOK, Canonical, IInv
    <3>2. users[i].email = Canonical(c.creds)
      BY <2>2, <3>1 DEF Canonical
    <3> QED BY <1>2, <3>2 DEF Taken, Owners
  <2>6. OnePerAddress'
    BY <2>3, <2>5 DEF OnePerAddress, IInv, UsersOK
  <2>7. UsersOK'
    BY <2>3, <2>6 DEF UsersOK, R
  <2>8. CallOK(d)'
    <3>1. /\ d.creds = c.creds /\ d.puts = {} /\ d.cookie = c.cookie /\ d.op = "signup"
          /\ d.user = {n + 1} /\ ~d.known /\ d.at = "inserted"
          /\ Shape(d)
      BY <1>0 DEF CallOK, Shape
    <3> HIDE DEF d
    <3>2. d.creds \in Creds /\ \A k \in d.cookie : k.sub \in DOMAIN users'
      BY <1>0, <2>3, <3>1 DEF CallOK
    <3>3. users'[Len(users) + 1].email[1] = d.creds.who /\ users'[Len(users) + 1].pw = d.creds.pw
      BY <2>2, <2>3, <3>1
    <3>4. UNION d.puts = {} /\ d.user = {Len(users) + 1} /\ d.user \subseteq DOMAIN users'
      BY <2>0, <2>3, <3>1
    <3> QED
      BY <3>1, <3>2, <3>3, <3>4 DEF CallOK
  <2>9. \A e \in calls' : CallOK(e)'
    BY <1>2, <2>0, <2>4, <2>8, CallKept DEF IInv, Become
  <2> QED
    BY <1>2, <2>3, <2>7, <2>9 DEF IInv, Become
<1> QED
  BY <1>1, <1>2 DEF SignupHandle

LEMMA FinishInv ==
    ASSUME IInv, NEW c \in calls, SignupFinish(c)
    PROVE  IInv'
<1>1. CallOK(c) /\ c.op = "signup" /\ ~c.known
  BY DEF IInv, SignupFinish, CallOK
<1>2. PICK id \in c.user : Answer(c, Greet(c, 201, id)) \/ Answer(c, Failing(c, 500))
  BY DEF SignupFinish
<1>3. id \in DOMAIN users /\ users[id].email[1] = c.creds.who /\ users[id].pw = c.creds.pw
  BY <1>1 DEF CallOK, SignOps
<1> QED
  BY <1>1, <1>2, <1>3, GreetOK, FailingOK, AnswerInv DEF SignOps

LEMMA SettleInv ==
    ASSUME IInv, NEW c \in calls, NEW d, d = c \/ d = Lost(c), Settle(c, d),
           \A k \in jar' : k \in jar \/ \E l \in UNION c.puts : k.sub = l.sub
    PROVE  IInv'
<1>1. CallOK(c) /\ UNCHANGED users /\ calls' = calls \ {c}
  BY DEF IInv, Settle
<1>2. Grows
  BY <1>1 DEF Grows
<1>3. \A e \in calls' : CallOK(e)'
  BY <1>1, <1>2, CallKept DEF IInv
<1>4. UsersOK'
  BY <1>1 DEF IInv, UsersOK, OnePerAddress
<1>5. \A k \in jar' : k.sub \in DOMAIN users'
  BY <1>1 DEF IInv, CallOK
<1>6. d.user \subseteq DOMAIN users
  <2>1. CASE d = c
    BY <1>1, <2>1 DEF CallOK
  <2>2. CASE d = Lost(c)
    <3>1. d = [c EXCEPT !.status = 0, !.user = {}]
      BY <2>2 DEF Lost
    <3>2. "user" \in DOMAIN c
      BY <1>1 DEF CallOK, Shape
    <3> QED BY <3>1, <3>2
  <2> QED BY <2>1, <2>2
<1>7. ui' = [t \in Tabs |-> ui'[t]]
  BY DEF IInv, Settle
<1>8. ASSUME NEW t \in Tabs
      PROVE  /\ DOMAIN ui'[t] = {"status", "user", "page"}
             /\ ui'[t].user \subseteq DOMAIN users
  <2>1. ui'[t] = ui[t] \/ ui'[t] = After(d, ui[t])
    BY DEF Settle, IInv
  <2>2. /\ DOMAIN ui[t] = {"status", "user", "page"}
        /\ ui[t].user \subseteq DOMAIN users
    BY DEF IInv
  <2> QED BY <1>6, <2>1, <2>2 DEF After
<1> QED
  BY <1>1, <1>3, <1>4, <1>5, <1>7, <1>8 DEF IInv

LEMMA CalledInv ==
    ASSUME IInv, NEW c \in calls, Serve(c) \/ Arrive(c) \/ Lose(c)
    PROVE  IInv'
<1>1. CASE Serve(c)
  BY <1>1, SignupInv, FinishInv, LoginInv, ProtectedInv, LogoutInv DEF Serve
<1>2. CASE Arrive(c)
  <2>1. \A k \in jar' : k \in jar \/ \E l \in UNION c.puts : k.sub = l.sub
    BY <1>2 DEF Arrive, Stored, Aged
  <2> QED BY <1>2, <2>1, SettleInv DEF Arrive
<1>3. CASE Lose(c)
  BY <1>3, SettleInv DEF Lose
<1> QED
  BY <1>1, <1>2, <1>3

LEMMA TabInv ==
    ASSUME IInv, NEW t \in Tabs,
           \/ Restore(t) \/ Logout(t) \/ LoadStats(t) \/ Reload(t)
           \/ \E op \in SignOps, creds \in Creds : Sign(t, op, creds)
    PROVE  IInv'
<1> USE DEF Creds
<1>1. ASSUME NEW op, NEW creds \in Creds, Send(t, op, creds),
             \/ UNCHANGED ui
             \/ ui' = [ui EXCEPT ![t].status = "loading"]
             \/ ui' = [ui EXCEPT ![t].page = "loading"]
      PROVE  IInv'
  <2>1. UNCHANGED users
    BY <1>1 DEF Send
  <2>2. \A s \in Tabs : /\ DOMAIN ui'[s] = {"status", "user", "page"}
                        /\ ui'[s].user \subseteq DOMAIN users
    BY <1>1 DEF IInv
  <2>3. ui' = [s \in Tabs |-> ui'[s]]
    BY <1>1 DEF IInv
  <2> QED BY <1>1, <2>1, <2>2, <2>3, SendInv DEF IInv
<1>2. CASE Reload(t)
  <2>1. /\ UNCHANGED <<users, jar>> /\ calls' \subseteq calls
        /\ ui' = [ui EXCEPT ![t] = Blank]
    BY <1>2 DEF Reload
  <2>2. \A s \in Tabs : /\ DOMAIN ui'[s] = {"status", "user", "page"}
                        /\ ui'[s].user \subseteq DOMAIN users
    BY <2>1 DEF IInv, Blank
  <2>3. ui' = [s \in Tabs |-> ui'[s]]
    BY <2>1 DEF IInv
  <2>4. Grows /\ UsersOK'
    BY <2>1 DEF Grows, IInv, UsersOK, OnePerAddress
  <2>5. \A c \in calls' : CallOK(c)'
    BY <2>1, <2>4, CallKept DEF IInv
  <2> QED BY <2>1, <2>2, <2>3, <2>4, <2>5 DEF IInv
<1>3. CASE Restore(t)
  BY <1>1, <1>3 DEF Restore
<1>4. CASE Logout(t)
  BY <1>1, <1>4 DEF Logout
<1>5. CASE LoadStats(t)
  BY <1>1, <1>5 DEF LoadStats
<1>6. CASE \E op \in SignOps, creds \in Creds : Sign(t, op, creds)
  BY <1>1, <1>6 DEF Sign
<1> QED
  BY <1>2, <1>3, <1>4, <1>5, <1>6

LEMMA QuietInv ==
    ASSUME IInv, UNCHANGED <<users, ui, calls>>, jar' \subseteq jar
    PROVE  IInv'
<1>1. Grows /\ UsersOK'
  BY DEF Grows, IInv, UsersOK, OnePerAddress
<1>2. \A c \in calls : CallOK(c)'
  BY <1>1, CallKept DEF IInv
<1> QED
  BY <1>1, <1>2 DEF IInv

LEMMA StepInv == IInv /\ [Next]_vars => IInv'
<1> SUFFICES ASSUME IInv, [Next]_vars PROVE IInv'
  OBVIOUS
<1>1. CASE UNCHANGED vars
  BY <1>1, QuietInv DEF vars
<1>2. CASE (\E env \in Envs : Restart(env)) \/ Tick
  BY <1>2, QuietInv DEF Restart, Tick
<1>3. CASE \E c \in calls : Serve(c) \/ Arrive(c) \/ Lose(c)
  BY <1>3, CalledInv
<1>4. CASE \E t \in Tabs :
             \/ Restore(t) \/ Logout(t) \/ LoadStats(t) \/ Reload(t)
             \/ \E op \in SignOps, creds \in Inputs \union {Malformed} : Sign(t, op, creds)
  BY <1>4, TabInv DEF Creds
<1> QED
  BY <1>1, <1>2, <1>3, <1>4 DEF Next

LEMMA InvHolds == Spec => []IInv
  BY InitInv, StepInv, PTL DEF Spec

(* One account per address and sessions that name real accounts, whatever   *)
(* overlaps, breaks or restarts (Signup, Login, Me, CreateUser).            *)
THEOREM Sessions == Spec => []SessionSound
<1>1. IInv => SessionSound
  BY DEF IInv, UsersOK, CallOK, SessionSound, SessionsReal, Truthful
<1> QED
  BY <1>1, InvHolds, PTL

(* An account that existed when the login was sent is let in, unless the    *)
(* store failed under the login itself (bindCredentials, Login).            *)
THEOREM LoginHonoured == Spec => []LoginAfterSignup
<1>1. IInv => LoginAfterSignup
  BY DEF IInv, CallOK, LoginAfterSignup
<1> QED
  BY <1>1, InvHolds, PTL

-----------------------------------------------------------------------------
(* The page and its cookie.                                                 *)

Session(c) == c.op # "stats"

(* What an answer may carry, by the kind of the call.                       *)
AnswerOK(c) ==
    /\ c.tab \in Tabs
    /\ c.op \in Ops
    /\ c.at # "answered" => ~Ok(c) /\ c.puts = {}
    /\ c.op \in SignOps /\ (Ok(c) \/ c.puts # {}) =>
         \E k : c.puts = {{k}} /\ c.user = {k.sub}
    /\ c.op = "restore" => c.puts = {} /\ (Ok(c) => \E id : c.user = {id})
    /\ c.op = "logout" => c.puts \subseteq {{}}
    /\ c.op = "stats" => c.puts = {}
    /\ \A k \in UNION c.puts : k.age \in Nat

(* A session call of a tab that none has overlapped is the only one in the  *)
(* browser: the cookie set last is the one it left with, unless that was    *)
(* too old to be sent, and a form is still open.                            *)
Alone(t) ==
    \A c \in calls : c.tab = t /\ Session(c) =>
        /\ \A d \in calls : Session(d) => d = c
        /\ c.cookie \subseteq last
        /\ c.op \in SignOps => ui[t].status # "authenticated"

(* The browser holds the cookie set last until it is too old.               *)
Timed ==
    /\ clock \in Nat
    /\ cfg.JWTTTL \in Nat
    /\ \A k \in last : k.until \in Nat
    /\ jar = last \/ (jar = {} /\ \A k \in last : clock >= k.until)

UIInv ==
    /\ Timed
    /\ \A k, l \in last : k = l
    /\ \A c \in calls : AnswerOK(c)
    /\ \A t \in Tabs \ mixed : Alone(t)
    /\ UIAgrees

(* A handler's step on a call leaves every other call alone.                *)
LEMMA BecomeUI ==
    ASSUME IInv, UIInv, NEW c \in calls, NEW d, Become(c, d), UNCHANGED jar,
           d.tab = c.tab, d.op = c.op, d.cookie = c.cookie, AnswerOK(d)
    PROVE  UIInv'
<1>1. /\ UNCHANGED <<cfg, clock, jar, last, ui, mixed>>
      /\ calls' = (calls \ {c}) \union {d}
  BY DEF Become
<1>2. \A e \in calls' : AnswerOK(e)
  BY <1>1 DEF UIInv
<1>3. ASSUME NEW t \in Tabs \ mixed
      PROVE  Alone(t)'
  <2>1. Alone(t)
    BY <1>3 DEF UIInv
  <2> SUFFICES ASSUME NEW e \in calls', e.tab = t, Session(e)
               PROVE  /\ \A f \in calls' : Session(f) => f = e
                      /\ e.cookie \subseteq last
                      /\ e.op \in SignOps => ui[t].status # "authenticated"
    BY <1>1 DEF Alone, Session
  <2>2. CASE e = d
    <3>1. \A f \in calls : Session(f) => f = c
      BY <2>1, <2>2 DEF Alone, Session
    <3> QED
      BY <1>1, <2>1, <2>2, <3>1 DEF Alone, Session
  <2>3. CASE e # d
    <3>1. e \in calls /\ e # c
      BY <1>1, <2>3
    <3>2. ~Session(c)
      BY <2>1, <3>1 DEF Alone
    <3> QED
      BY <1>1, <2>1, <3>1, <3>2 DEF Alone, Session
  <2> QED
    BY <2>2, <2>3
<1>4. UIAgrees'
  BY <1>1 DEF UIInv, UIAgrees
<1>5. \A e \in calls' : AnswerOK(e)'
  BY <1>2 DEF AnswerOK, Ok
<1>6. Timed'
  BY <1>1 DEF UIInv, Timed
<1> QED
  BY <1>1, <1>3, <1>4, <1>5, <1>6 DEF UIInv

(* A session call that overlaps another mixes both tabs, so none is alone.  *)
LEMMA SendUI ==
    ASSUME IInv, UIInv, NEW t \in Tabs, NEW op \in Ops, NEW creds, Send(t, op, creds),
           \/ UNCHANGED ui
           \/ ui[t].status = "idle" /\ ui' = [ui EXCEPT ![t].status = "loading"]
           \/ ui' = [ui EXCEPT ![t].page = "loading"],
           op \in SignOps => ui[t].status # "authenticated"
    PROVE  UIInv'
<1> DEFINE new == [tab |-> t, op |-> op, creds |-> creds, cookie |-> jar, at |-> "sent",
           status |-> 0, user |-> {}, puts |-> {},
           known |-> op = "login" /\ Registered(creds), broke |-> FALSE]
           others == {c \in calls : c.op # "stats"}
<1>1. /\ calls' = calls \union {new} /\ UNCHANGED <<cfg, clock, jar, last>>
      /\ mixed' = IF op = "stats" \/ others = {} THEN mixed
                  ELSE mixed \union {t} \union {c.tab : c \in others}
  BY DEF Send
<1>2. /\ new.tab = t /\ new.op = op /\ new.cookie = jar /\ AnswerOK(new)
  BY DEF AnswerOK, Ok
<1> HIDE DEF new
<1>3. \A c \in calls' : AnswerOK(c)'
  <2>1. \A c \in calls' : AnswerOK(c)
    BY <1>1, <1>2 DEF UIInv
  <2> QED
    BY <2>1 DEF AnswerOK, Ok
<1>4. \A s \in Tabs : /\ ui'[s].user = ui[s].user
                      /\ ui'[s].status = "authenticated" => ui[s].status = "authenticated"
  BY DEF IInv
<1>5. Tabs \ mixed' \subseteq Tabs \ mixed
  BY <1>1
<1>6. UIAgrees'
  BY <1>1, <1>4, <1>5 DEF UIInv, UIAgrees
<1>7. ASSUME NEW s \in Tabs \ mixed', NEW e \in calls', e.tab = s, Session(e)
      PROVE  /\ \A f \in calls' : Session(f) => f = e
             /\ e.cookie \subseteq last'
             /\ e.op \in SignOps => ui'[s].status # "authenticated"
  <2>1. Alone(s) /\ s \notin mixed
    BY <1>5 DEF UIInv
  <2>2. CASE op = "stats"
    <3>1. ~Session(new) /\ e \in calls
      BY <1>1, <1>2, <1>7, <2>2 DEF Session
    <3> QED
      BY <1>1, <1>4, <1>7, <2>1, <3>1 DEF Alone
  <2>3. CASE op # "stats" /\ others = {}
    <3>1. \A f \in calls' : Session(f) => f = new
      BY <1>1, <2>3 DEF Session
    <3>2. jar \subseteq last
      BY DEF UIInv, Timed
    <3> QED
      BY <1>1, <1>2, <1>4, <1>7, <3>1, <3>2
  <2>4. CASE op # "stats" /\ others # {}
    <3>1. s # t /\ \A c \in others : c.tab # s
      BY <1>1, <2>4
    <3> QED
      BY <1>1, <1>2, <1>7, <3>1 DEF Session
  <2> QED
    BY <2>2, <2>3, <2>4
<1>8. \A s \in Tabs \ mixed' : Alone(s)'
  BY <1>7 DEF Alone, Session
<1>9. Timed'
  BY <1>1 DEF UIInv, Timed
<1> QED
  BY <1>1, <1>3, <1>6, <1>8, <1>9 DEF UIInv

(* What the store's action leaves of the page.                              *)
LEMMA AfterUI ==
    ASSUME NEW c, NEW d, d.op = c.op, c.op \in Ops, NEW u, DOMAIN u = {"status", "user", "page"}
    PROVE  /\ c.op = "stats" => After(d, u).status = u.status /\ After(d, u).user = u.user
           /\ c.op \in SignOps \union {"restore"} /\ Ok(d) =>
                After(d, u).status = "authenticated" /\ After(d, u).user = d.user
           /\ c.op = "logout" \/ (c.op = "restore" /\ ~Ok(d)) =>
                After(d, u).status = "unauthenticated"
           /\ c.op \in SignOps /\ ~Ok(d) => After(d, u) = u
<1>1. CASE c.op = "stats"
  BY <1>1 DEF After, SignOps
<1>2. CASE c.op \in SignOps \union {"restore"} /\ Ok(d)
  BY <1>2 DEF After, SignOps
<1>3. CASE c.op = "logout" \/ (c.op = "restore" /\ ~Ok(d))
  BY <1>3 DEF After, SignOps
<1>4. CASE c.op \in SignOps /\ ~Ok(d)
  BY <1>4 DEF After, SignOps
<1> QED
  BY <1>1, <1>2, <1>3, <1>4 DEF Ops, SignOps

(* The answer that sets the cookie sets the page of the same account.       *)
LEMMA SettleUI ==
    ASSUME IInv, UIInv, NEW c \in calls, NEW d, d = c \/ d = Lost(c), Settle(c, d),
           \/ UNCHANGED <<jar, last, mixed>> /\ (d = Lost(c) \/ c.puts = {})
           \/ /\ c.puts # {} /\ Stored(c)
              /\ mixed' = mixed \union (Tabs \ {c.tab})
    PROVE  UIInv'
<1>1. /\ calls' = calls \ {c} /\ ui' = [ui EXCEPT ![c.tab] = After(d, @)]
      /\ c.tab \in Tabs /\ AnswerOK(c) /\ CallOK(c)
      /\ UNCHANGED <<cfg, clock>>
  BY DEF Settle, UIInv, IInv, AnswerOK
<1>2. /\ ui'[c.tab] = After(d, ui[c.tab])
      /\ \A t \in Tabs : t # c.tab => ui'[t] = ui[t]
      /\ DOMAIN ui[c.tab] = {"status", "user", "page"}
  BY <1>1 DEF IInv
<1>3. /\ d.op = c.op /\ c.op \in Ops
      /\ Ok(d) => d = c /\ Ok(c)
  <2>1. Shape(c)
    BY <1>1 DEF CallOK
  <2>2. d = Lost(c) => d.op = c.op /\ d.status = 0
    BY <2>1 DEF Shape, Lost
  <2> QED
    BY <1>1, <2>2 DEF AnswerOK, Ok
<1>4. \A k, l \in last' : k = l
  <2>1. c.puts # {} => \E S : c.puts = {S} /\ \A k, l \in S : k = l
    <3> SUFFICES ASSUME c.puts # {}
                 PROVE  \E S : c.puts = {S} /\ \A k, l \in S : k = l
      OBVIOUS
    <3>1. CASE c.op \in SignOps
      <4>1. PICK k : c.puts = {{k}}
        BY <1>1, <3>1 DEF AnswerOK
      <4> QED
        BY <4>1
    <3>2. CASE c.op \notin SignOps
      <4>1. c.puts = {{}}
        BY <1>1, <3>2 DEF AnswerOK, Ops, SignOps
      <4> QED
        BY <4>1
    <3> QED
      BY <3>1, <3>2
  <2>2. PICK S : c.puts # {} => c.puts = {S} /\ \A k, l \in S : k = l
    BY <2>1
  <2>3. CASE UNCHANGED last
    BY <2>3 DEF UIInv
  <2>4. CASE c.puts # {} /\ Stored(c)
    <3>1. last' = {Aged(k) : k \in S}
      BY <2>2, <2>4 DEF Stored
    <3> QED
      BY <2>2, <2>4, <3>1
  <2> QED
    BY <2>3, <2>4
<1>5. \A e \in calls' : AnswerOK(e)'
  BY <1>1 DEF UIInv, AnswerOK, Ok
<1>6. Tabs \ mixed' \subseteq Tabs \ mixed /\ (last' # last => Tabs \ mixed' \subseteq {c.tab})
  OBVIOUS
<1>11. Timed'
  <2>1. CASE UNCHANGED <<jar, last>>
    BY <1>1, <2>1 DEF UIInv, Timed
  <2>2. CASE c.puts # {} /\ Stored(c)
    <3>1. jar' = last' /\ last' = {Aged(k) : k \in UNION c.puts}
      BY <2>2 DEF Stored
    <3>2. \A k \in UNION c.puts : Aged(k).until \in Nat
      BY <1>1 DEF UIInv, Timed, AnswerOK, Aged
    <3> QED
      BY <1>1, <3>1, <3>2 DEF UIInv, Timed
  <2> QED BY <2>1, <2>2
<1>7. ASSUME NEW t \in Tabs \ mixed', NEW e \in calls', e.tab = t, Session(e)
      PROVE  /\ \A f \in calls' : Session(f) => f = e
             /\ e.cookie \subseteq last'
             /\ e.op \in SignOps => ui'[t].status # "authenticated"
  <2>1. Alone(t) /\ e \in calls /\ e # c
    BY <1>1, <1>6 DEF UIInv
  <2>2. ~Session(c)
    BY <1>7, <2>1 DEF Alone
  <2>3. c.puts = {} /\ c.op = "stats"
    BY <1>1, <2>2 DEF Session, AnswerOK
  <2>4. ui'[t].status = ui[t].status
    BY <1>2, <1>3, <2>3, AfterUI
  <2>5. UNCHANGED last
    BY <2>3 DEF Stored
  <2> QED
    BY <1>1, <1>7, <2>1, <2>3, <2>4, <2>5 DEF Alone
<1>8. ASSUME NEW t \in Tabs \ mixed', ui'[t].status = "authenticated"
      PROVE  {k.sub : k \in last'} = ui'[t].user
  <2>0. t \notin mixed /\ (ui[t].status = "authenticated" => {k.sub : k \in last} = ui[t].user)
    BY <1>6 DEF UIInv, UIAgrees
  <2>1. CASE t # c.tab
    BY <1>2, <1>6, <1>8, <2>0, <2>1
  <2>2. CASE t = c.tab /\ c.op = "stats"
    <3>1. ui'[t].status = ui[t].status /\ ui'[t].user = ui[t].user
      BY <1>2, <1>3, <2>2, AfterUI
    <3>2. c.puts = {}
      BY <1>1, <2>2 DEF AnswerOK
    <3> QED
      BY <1>8, <2>0, <3>1, <3>2
  <2>3. CASE t = c.tab /\ c.op = "logout"
    <3>1. ui'[t].status = "unauthenticated"
      BY <1>2, <1>3, <2>3, AfterUI
    <3> QED
      BY <1>8, <3>1
  <2>4. CASE t = c.tab /\ c.op = "restore"
    <3>1. Ok(d)
      BY <1>2, <1>3, <1>8, <2>4, AfterUI
    <3>2. d = c /\ Ok(c) /\ ui'[t].user = c.user
      BY <1>2, <1>3, <2>4, <3>1, AfterUI
    <3>3. c.puts = {} /\ \E id : c.user = {id}
      BY <1>1, <2>4, <3>2 DEF AnswerOK
    <3>4. c.cookie \subseteq last
      BY <2>0, <2>4 DEF UIInv, Alone, Session
    <3>5. PICK id : c.user = {id}
      BY <3>3
    <3>6. PICK k \in last : k.sub = id
      BY <1>1, <2>4, <3>4, <3>5 DEF CallOK
    <3>7. last = {k}
      BY <3>6 DEF UIInv
    <3>8. UNCHANGED last
      BY <3>3
    <3> QED
      BY <3>2, <3>5, <3>6, <3>7, <3>8
  <2>5. CASE t = c.tab /\ c.op \in SignOps
    <3>1. ui[t].status # "authenticated"
      BY <2>0, <2>5 DEF UIInv, Alone, Session, SignOps
    <3>2. Ok(d)
      BY <1>2, <1>3, <1>8, <2>5, <3>1, AfterUI
    <3>3. d = c /\ Ok(c) /\ ui'[t].user = c.user
      BY <1>2, <1>3, <2>5, <3>2, AfterUI
    <3>4. PICK k : c.puts = {{k}} /\ c.user = {k.sub}
      BY <1>1, <2>5, <3>3 DEF AnswerOK
    <3>5. c # Lost(c)
      <4>1. Shape(c)
        BY <1>1 DEF CallOK
      <4>2. Lost(c).status = 0
        BY <4>1 DEF Shape, Lost
      <4> QED
        BY <3>3, <4>2 DEF Ok
    <3>6. last' = {Aged(k)} /\ Aged(k).sub = k.sub
      <4>1. Stored(c) /\ UNION c.puts = {k} /\ c.puts # {}
        BY <3>3, <3>4, <3>5
      <4>2. last' = {Aged(l) : l \in UNION c.puts}
        BY <4>1 DEF Stored
      <4> QED
        BY <4>1, <4>2 DEF Aged
    <3> QED
      BY <3>3, <3>4, <3>6
  <2> QED
    BY <1>3, <2>1, <2>2, <2>3, <2>4, <2>5 DEF Ops, SignOps
<1>9. \A t \in Tabs \ mixed' : Alone(t)'
  BY <1>7 DEF Alone, Session
<1>10. UIAgrees'
  BY <1>8, <1>11 DEF UIAgrees, Timed
<1> QED
  BY <1>4, <1>5, <1>9, <1>10, <1>11 DEF UIInv

LEMMA ArriveUI ==
    ASSUME IInv, UIInv, NEW c \in calls, Arrive(c) \/ Lose(c)
    PROVE  UIInv'
<1>1. CASE Lose(c)
  BY <1>1, SettleUI DEF Lose
<1>2. CASE Arrive(c)
  <2>1. PICK d : Settle(c, d) /\ (d = c \/ d = Lost(c))
    BY <1>2 DEF Arrive
  <2>2. CASE c.puts = {}
    <3>1. UNCHANGED <<jar, last, mixed>>
      BY <1>2, <2>2 DEF Arrive, Stored
    <3> QED
      BY <2>1, <2>2, <3>1, SettleUI
  <2>3. CASE c.puts # {}
    BY <1>2, <2>1, <2>3, SettleUI DEF Arrive
  <2> QED
    BY <2>2, <2>3
<1> QED
  BY <1>1, <1>2

(* The answers of the server are such as the page expects.                  *)
LEMMA ReplyUI ==
    ASSUME NEW c, Shape(c), NEW status, NEW user, NEW puts,
           NEW r, r = Reply(c, status, user, puts)
    PROVE  /\ r.tab = c.tab /\ r.op = c.op /\ r.cookie = c.cookie
           /\ r.at = "answered" /\ r.status = status /\ r.user = user /\ r.puts = puts
  BY DEF Shape, Reply

LEMMA RefuseUI ==
    ASSUME IInv, UIInv, NEW c \in calls, NEW status, status \notin {200, 201},
           Answer(c, Reply(c, status, {}, {})) \/ Answer(c, Failing(c, status))
    PROVE  UIInv'
<1> DEFINE b == [c EXCEPT !.broke = TRUE]
<1>0. Shape(c) /\ AnswerOK(c)
  BY DEF IInv, CallOK, UIInv
<1>1. Shape(b) /\ b.tab = c.tab /\ b.op = c.op /\ b.cookie = c.cookie
  BY <1>0 DEF Shape
<1> HIDE DEF b
<1>2. PICK x : /\ x = c \/ x = b
               /\ Answer(c, Reply(x, status, {}, {}))
  BY DEF Failing, b
<1> DEFINE r == Reply(x, status, {}, {})
<1>3. /\ r.tab = c.tab /\ r.op = c.op /\ r.cookie = c.cookie
      /\ r.at = "answered" /\ r.status = status /\ r.user = {} /\ r.puts = {}
  BY <1>0, <1>1, <1>2, ReplyUI
<1>4. Become(c, r) /\ UNCHANGED jar
  BY <1>2 DEF Answer
<1> HIDE DEF r
<1>5. AnswerOK(r)
  BY <1>0, <1>3 DEF AnswerOK, Ok
<1> QED
  BY <1>3, <1>4, <1>5, BecomeUI

LEMMA GreetUI ==
    ASSUME IInv, UIInv, NEW c \in calls, c.op \in SignOps, NEW status, NEW id,
           Answer(c, Greet(c, status, id))
    PROVE  UIInv'
<1> DEFINE r == Greet(c, status, id)
           k == Issue(id)
<1>0. Shape(c) /\ AnswerOK(c)
  BY DEF IInv, CallOK, UIInv
<1>1. /\ r.tab = c.tab /\ r.op = c.op /\ r.cookie = c.cookie
      /\ r.at = "answered" /\ r.status = status /\ r.user = {id} /\ r.puts = {{k}}
  BY <1>0, ReplyUI DEF Greet
<1>2. k.sub = id /\ k.age \in Nat
  BY DEF Issue, UIInv, Timed
<1>3. Become(c, r) /\ UNCHANGED jar
  BY DEF Answer
<1> HIDE DEF r, k
<1>4. AnswerOK(r)
  BY <1>0, <1>1, <1>2 DEF AnswerOK, SignOps
<1> QED
  BY <1>1, <1>3, <1>4, BecomeUI

LEMMA ServeUI ==
    ASSUME IInv, UIInv, NEW c \in calls, Serve(c)
    PROVE  UIInv'
<1>0. Shape(c) /\ AnswerOK(c)
  BY DEF IInv, CallOK, UIInv
<1>1. CASE SignupHandle(c)
  <2>1. CASE \/ Answer(c, Reply(c, 400, {}, {})) \/ Answer(c, Reply(c, 500, {}, {}))
             \/ Answer(c, Reply(c, 409, {}, {})) \/ Answer(c, Failing(c, 500))
    BY <2>1, RefuseUI
  <2>2. CASE /\ Become(c, [c EXCEPT !.at = "inserted", !.user = {Len(users) + 1}])
             /\ UNCHANGED jar
    <3>0. PICK n : n = Len(users) + 1
      OBVIOUS
    <3> DEFINE d == [c EXCEPT !.at = "inserted", !.user = {n}]
    <3>1. c.op = "signup" /\ c.at = "sent"
      BY <1>1 DEF SignupHandle
    <3>2. /\ d.tab = c.tab /\ d.op = c.op /\ d.cookie = c.cookie /\ d.at = "inserted"
          /\ d.status = c.status /\ d.puts = c.puts
      BY <1>0 DEF Shape
    <3>3. Become(c, d)
      BY <2>2, <3>0
    <3> HIDE DEF d
    <3>4. AnswerOK(d)
      BY <1>0, <3>1, <3>2 DEF AnswerOK, Ok
    <3> QED
      BY <2>2, <3>2, <3>3, <3>4, BecomeUI
  <2> QED
    BY <1>1, <2>1, <2>2 DEF SignupHandle
<1>2. CASE SignupFinish(c)
  <2>1. c.op = "signup"
    BY <1>2 DEF SignupFinish, IInv, CallOK
  <2>2. PICK id \in c.user : Answer(c, Greet(c, 201, id)) \/ Answer(c, Failing(c, 500))
    BY <1>2 DEF SignupFinish
  <2> QED
    BY <2>1, <2>2, GreetUI, RefuseUI DEF SignOps
<1>3. CASE LoginHandle(c)
  <2>1. c.op = "login"
    BY <1>3 DEF LoginHandle
  <2>2. \/ Answer(c, Reply(c, 400, {}, {})) \/ Answer(c, Reply(c, 401, {}, {}))
        \/ Answer(c, Failing(c, 401))
        \/ \E id \in Matching(c.creds) : Answer(c, Greet(c, 200, id))
    BY <1>3 DEF LoginHandle
  <2> QED
    BY <2>1, <2>2, GreetUI, RefuseUI DEF SignOps
<1>4. CASE Protected(c)
  <2>1. CASE \/ Answer(c, Reply(c, 401, {}, {}))
             \/ Answer(c, Failing(c, IF c.op = "stats" THEN 500 ELSE 401))
    BY <2>1, RefuseUI
  <2>2. ASSUME NEW id, Answer(c, Reply(c, 200, IF c.op = "stats" THEN {} ELSE {id}, {}))
        PROVE  UIInv'
    <3> DEFINE u == IF c.op = "stats" THEN {} ELSE {id}
               r == Reply(c, 200, u, {})
    <3>1. /\ r.tab = c.tab /\ r.op = c.op /\ r.cookie = c.cookie
          /\ r.at = "answered" /\ r.status = 200 /\ r.user = u /\ r.puts = {}
      BY <1>0, ReplyUI
    <3>2. Become(c, r) /\ UNCHANGED jar
      BY <2>2 DEF Answer
    <3>3. c.op \in {"restore", "stats"}
      BY <1>4 DEF Protected
    <3> HIDE DEF r
    <3>4. AnswerOK(r)
      BY <1>0, <3>1, <3>3 DEF AnswerOK, SignOps
    <3> QED
      BY <3>1, <3>2, <3>4, BecomeUI
  <2> QED
    BY <1>4, <2>1, <2>2 DEF Protected
<1>5. CASE LogoutHandle(c)
  <2> DEFINE r == Reply(c, 200, {}, {{}})
  <2>1. /\ r.tab = c.tab /\ r.op = c.op /\ r.cookie = c.cookie
        /\ r.at = "answered" /\ r.puts = {{}}
    BY <1>0, ReplyUI
  <2>2. Become(c, r) /\ UNCHANGED jar /\ c.op = "logout"
    BY <1>5 DEF LogoutHandle, Answer
  <2> HIDE DEF r
  <2>3. AnswerOK(r)
    BY <1>0, <2>1, <2>2 DEF AnswerOK, SignOps
  <2> QED
    BY <2>1, <2>2, <2>3, BecomeUI
<1> QED
  BY <1>1, <1>2, <1>3, <1>4, <1>5 DEF Serve

(* A page loaded anew shows nobody.                                         *)
LEMMA ReloadUI ==
    ASSUME IInv, UIInv, NEW t \in Tabs, Reload(t)
    PROVE  UIInv'
<1>1. /\ ui' = [ui EXCEPT ![t] = Blank]
      /\ calls' = {c \in calls : c.tab # t}
      /\ mixed' = IF calls' = {} THEN mixed \ {t} ELSE mixed \union {t}
      /\ UNCHANGED <<cfg, clock, jar, last>>
  BY DEF Reload
<1>2. /\ ui'[t].status = "idle"
      /\ \A s \in Tabs : s # t => ui'[s] = ui[s]
  BY <1>1 DEF IInv, Blank
<1>3. \A c \in calls' : AnswerOK(c)'
  BY <1>1 DEF UIInv, AnswerOK, Ok
<1>4. UIAgrees'
  BY <1>1, <1>2 DEF UIInv, UIAgrees
<1>5. \A s \in Tabs \ mixed' : Alone(s)'
  <2>1. CASE calls' = {}
    BY <2>1 DEF Alone
  <2>2. CASE calls' # {}
    <3> SUFFICES ASSUME NEW s \in Tabs \ mixed' PROVE Alone(s)'
      OBVIOUS
    <3>1. s # t /\ s \notin mixed
      BY <1>1, <2>2
    <3> QED
      BY <1>1, <1>2, <3>1 DEF UIInv, Alone, Session
  <2> QED
    BY <2>1, <2>2
<1>6. Timed'
  BY <1>1 DEF UIInv, Timed
<1> QED
  BY <1>1, <1>3, <1>4, <1>5, <1>6 DEF UIInv

LEMMA UIStep == IInv /\ UIInv /\ [Next]_vars => UIInv'
<1> SUFFICES ASSUME IInv, UIInv, [Next]_vars PROVE UIInv'
  OBVIOUS
<1>1. CASE UNCHANGED <<last, ui, calls, mixed>> /\ Timed'
  <2>1. \A c \in calls : AnswerOK(c)'
    BY DEF UIInv, AnswerOK, Ok
  <2>2. UIAgrees'
    BY <1>1 DEF UIInv, UIAgrees, Timed
  <2>3. \A t \in Tabs \ mixed : Alone(t)'
    BY <1>1 DEF UIInv, Alone, Session
  <2> QED
    BY <1>1, <2>1, <2>2, <2>3 DEF UIInv
<1>2. CASE UNCHANGED vars \/ (\E env \in Envs : Restart(env)) \/ Tick
  <2>1. CASE UNCHANGED vars
    <3>1. Timed'
      BY <2>1 DEF vars, UIInv, Timed
    <3> QED BY <1>1, <2>1, <3>1 DEF vars
  <2>2. ASSUME NEW env \in Envs, Restart(env) PROVE UIInv'
    <3>1. cfg'.JWTTTL \in Nat
      BY <2>2, LifetimeAssumption DEF Restart
    <3>2. Timed'
      BY <2>2, <3>1 DEF Restart, UIInv, Timed
    <3> QED BY <1>1, <2>2, <3>2 DEF Restart
  <2>3. CASE Tick
    <3>1. Timed'
      BY <2>3 DEF Tick, UIInv, Timed
    <3> QED BY <1>1, <2>3, <3>1 DEF Tick
  <2> QED BY <1>2, <2>1, <2>2, <2>3
<1>3. CASE \E c \in calls : Serve(c) \/ Arrive(c) \/ Lose(c)
  BY <1>3, ServeUI, ArriveUI
<1>4. ASSUME NEW t \in Tabs, Restore(t) \/ Logout(t) \/ LoadStats(t) PROVE UIInv'
  BY <1>4, SendUI DEF Restore, Logout, LoadStats, Ops, SignOps
<1>5. ASSUME NEW t \in Tabs, Reload(t) PROVE UIInv'
  BY <1>5, ReloadUI
<1>6. ASSUME NEW t \in Tabs, NEW op \in SignOps, NEW creds, Sign(t, op, creds) PROVE UIInv'
  BY <1>6, SendUI DEF Sign, Ops, SignOps
<1> QED
  BY <1>2, <1>3, <1>4, <1>5, <1>6 DEF Next

(* A page whose session calls did not overlap, and whose cookie no other    *)
(* tab has replaced, shows the user of the cookie set last, and the browser *)
(* holds that cookie or has dropped it for its age (restore, login, signup, *)
(* logout of authStore; SetCookie with its MaxAge, ClearCookie).            *)
THEOREM PageAgrees == Spec => []UIAgrees
<1>1. Init => UIInv
  BY LifetimeAssumption DEF Init, UIInv, Timed, Alone, UIAgrees, Blank
<1>2. UIInv => UIAgrees
  BY DEF UIInv
<1> QED
  BY <1>1, <1>2, UIStep, InvHolds, PTL DEF Spec
=============================================================================
