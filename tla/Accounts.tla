------------------------------ MODULE Accounts -------------------------------
(***************************************************************************)
(* Accounts and sessions: the auth endpoints over the users table, and the *)
(* tabs of one browser, which share the session cookie.  A call is         *)
(* answered in steps, so calls of one tab or of several overlap, their     *)
(* answers overtake each other, and any of them may be lost.               *)
(*                                                                         *)
(* A row's id is its position in users: rows are only ever added.  A       *)
(* session cookie is a record, and a set with at most one of them stands   *)
(* for a cookie that may be absent: the token (sub, exp, key), and age,    *)
(* its MaxAge, which the browser counts from when it stores the cookie.    *)
(***************************************************************************)
EXTENDS Config, FiniteSets

CONSTANTS
    Tabs,
    Envs,          \* environments the server may be (re)started in
    Inputs,        \* what is typed into the forms
    Horizon,       \* bound on the clock
    MaxOpen,       \* bound on calls under way at once
    MaxCalls       \* bound on calls other than restore, reloads and restarts

ASSUME InputsAssumption ==
    \A x \in Inputs : /\ x = [who |-> x.who, form |-> x.form, pw |-> x.pw]
                     /\ x.who # "nobody"
\* A lifetime under a second is none: http.SetCookie leaves MaxAge 0 out.
ASSUME LifetimeAssumption ==
    \A env \in Envs : Boots(Load(env)) => Load(env).JWTTTL \in Nat \ {0}

VARIABLES
    cfg,           \* the configuration of the running server
    users,         \* the users table
    clock,         \* time, in units of which JWT_TTL is a multiple
    jar,           \* the browser's session cookie
    last,          \* history: the cookie as it was last set or cleared
    ui,            \* authStore's status and user, and the dashboard's state
    calls,         \* calls under way
    mixed,         \* history: tabs whose session calls have overlapped
    made           \* how much of MaxCalls is spent

vars == <<cfg, users, clock, jar, last, ui, calls, mixed, made>>

Ops == {"restore", "login", "signup", "logout", "stats"}
SignOps == {"login", "signup"}

(* What a form sends: an address in one of its spellings and a password, or *)
(* something bindCredentials refuses.                                       *)
TooLong == "longer than bcrypt hashes"
Malformed == [who |-> "nobody", form |-> "other", pw |-> ""]

(* Fault: addresses keep the case and the blanks they were typed with.      *)
AsTyped(creds) == <<creds.who, creds.form>>
Canonical(creds) == <<creds.who, "plain">>

Owners(creds) ==
    {id \in DOMAIN users : users[id].email = Canonical(creds)}
Matching(creds) == {id \in Owners(creds) : users[id].pw = creds.pw}

Issue(id) ==
    [sub |-> id, exp |-> clock + cfg.JWTTTL, key |-> cfg.JWTSecret, age |-> cfg.JWTTTL]

Verify(cookie) ==
    {k.sub : k \in {k \in cookie : k.key = cfg.JWTSecret /\ clock < k.exp}}

(* History only: the person has an account with that password.              *)
Registered(creds) ==
    \E id \in DOMAIN users : users[id].email[1] = creds.who /\ users[id].pw = creds.pw

-----------------------------------------------------------------------------
Blank == [status |-> "idle", user |-> {}, page |-> "loading"]

Init ==
    /\ \E env \in Envs : Boots(Load(env)) /\ cfg = Load(env)
    /\ users = <<>>
    /\ clock = 0
    /\ jar = {}
    /\ last = {}
    /\ ui = [t \in Tabs |-> Blank]
    /\ calls = {}
    /\ mixed = {}
    /\ made = 0

Spend == made < MaxCalls /\ made' = made + 1

(* request(): a tab has one call of a kind under way; the cookie is read    *)
(* when the call leaves.                                                    *)
Send(t, op, creds) ==
    /\ Cardinality(calls) < MaxOpen
    /\ \A c \in calls : ~(c.tab = t /\ c.op = op)
    /\ calls' = calls \union
         {[tab |-> t, op |-> op, creds |-> creds, cookie |-> jar, at |-> "sent",
           status |-> 0, user |-> {}, puts |-> {},
           known |-> op = "login" /\ Registered(creds), broke |-> FALSE]}
    /\ mixed' = LET others == {c \in calls : c.op # "stats"}
                IN IF op = "stats" \/ others = {} THEN mixed
                   ELSE mixed \union {t} \union {c.tab : c \in others}
    /\ UNCHANGED <<cfg, users, clock, jar, last>>

Restore(t) ==
    /\ ui[t].status = "idle"
    /\ ui' = [ui EXCEPT ![t].status = "loading"]
    /\ Send(t, "restore", Malformed)
    /\ UNCHANGED made

Sign(t, op, creds) ==
    /\ ui[t].status \in {"loading", "unauthenticated"}
    /\ Spend
    /\ Send(t, op, creds)
    /\ UNCHANGED ui

Logout(t) ==
    /\ ui[t].status = "authenticated"
    /\ Spend
    /\ Send(t, "logout", Malformed)
    /\ UNCHANGED ui

(* The dashboard's load().                                                  *)
LoadStats(t) ==
    /\ ui[t].status = "authenticated"
    /\ ui' = [ui EXCEPT ![t].page = "loading"]
    /\ Spend
    /\ Send(t, "stats", Malformed)

-----------------------------------------------------------------------------
(* The server.                                                              *)

Become(c, d) ==
    /\ calls' = (calls \ {c}) \union {d}
    /\ UNCHANGED <<cfg, clock, last, ui, mixed, made>>

Reply(c, status, user, puts) ==
    [c EXCEPT !.at = "answered", !.status = status, !.user = user, !.puts = puts]

Failing(c, status) == Reply([c EXCEPT !.broke = TRUE], status, {}, {})

Answer(c, d) == Become(c, d) /\ UNCHANGED <<users, jar>>

(* Fault: the session is never opened.                                      *)
GreetNoCookie(c, status, id) == Reply(c, status, {id}, {})
Greet(c, status, id) == Reply(c, status, {id}, {{Issue(id)}})

(* Fault: the table has no UNIQUE constraint that bites.                    *)
TakenNever(creds) == FALSE
Taken(creds) == Owners(creds) # {}

SignupHandle(c) ==
    /\ c.op = "signup" /\ c.at = "sent"
    /\ \/ c.creds = Malformed /\ Answer(c, Reply(c, 400, {}, {}))
       \/ c.creds.pw = TooLong /\ Answer(c, Reply(c, 500, {}, {}))
       \/ /\ c.creds # Malformed /\ c.creds.pw # TooLong
          /\ \/ Taken(c.creds) /\ Answer(c, Reply(c, 409, {}, {}))
             \/ Answer(c, Failing(c, 500))
             \/ /\ ~Taken(c.creds)
                /\ users' = Append(users, [email |-> Canonical(c.creds),
                                           pw |-> c.creds.pw])
                /\ Become(c, [c EXCEPT !.at = "inserted", !.user = {Len(users) + 1}])
                /\ UNCHANGED jar

(* CreateUser reads the row it has inserted back; when that fails the       *)
(* account exists all the same.                                             *)
SignupFinish(c) ==
    /\ c.at = "inserted"
    /\ \E id \in c.user :
         Answer(c, Greet(c, 201, id)) \/ Answer(c, Failing(c, 500))

(* Any store error reads as bad credentials.                                *)
LoginHandle(c) ==
    /\ c.op = "login" /\ c.at = "sent"
    /\ \/ c.creds = Malformed /\ Answer(c, Reply(c, 400, {}, {}))
       \/ /\ c.creds # Malformed
          /\ \/ Matching(c.creds) = {} /\ Answer(c, Reply(c, 401, {}, {}))
             \/ \E id \in Matching(c.creds) : Answer(c, Greet(c, 200, id))
             \/ Answer(c, Failing(c, 401))

(* RequireAuth, then Me or Stats; a store error is 401 for one and 500 for  *)
(* the other.                                                               *)
Protected(c) ==
    /\ c.op \in {"restore", "stats"} /\ c.at = "sent"
    /\ \/ Verify(c.cookie) = {} /\ Answer(c, Reply(c, 401, {}, {}))
       \/ \E id \in Verify(c.cookie) :
            \/ Answer(c, Reply(c, 200, IF c.op = "stats" THEN {} ELSE {id}, {}))
            \/ Answer(c, Failing(c, IF c.op = "stats" THEN 500 ELSE 401))

LogoutHandle(c) ==
    /\ c.op = "logout" /\ c.at = "sent"
    /\ Answer(c, Reply(c, 200, {}, {{}}))

-----------------------------------------------------------------------------
(* The browser again.                                                       *)

(* Set-Cookie: the browser notes when the cookie will be too old.           *)
Aged(k) ==
    [sub |-> k.sub, exp |-> k.exp, key |-> k.key, age |-> k.age, until |-> clock + k.age]
Stored(c) ==
    /\ last' = IF c.puts = {} THEN last ELSE {Aged(k) : k \in UNION c.puts}
    /\ jar' = IF c.puts = {} THEN jar ELSE last'

Ok(c) == c.status \in {200, 201}

(* Fault: restore has no catch.                                             *)
AfterNoCatch(c, u) ==
    IF Ok(c) THEN [u EXCEPT !.status = "authenticated", !.user = c.user] ELSE u

(* What the store's action does with the answer: restore and logout settle  *)
(* the status whatever it was, a failed login or signup leaves it alone,    *)
(* and stats only touches the dashboard.                                    *)
After(c, u) ==
    CASE c.op = "stats" ->
           [u EXCEPT !.page = IF Ok(c) THEN "ready"
                              ELSE IF c.status = 401 THEN "unauthorized" ELSE "error"]
      [] c.op \in SignOps \union {"restore"} /\ Ok(c) ->
           [u EXCEPT !.status = "authenticated", !.user = c.user]
      [] c.op = "logout" \/ (c.op = "restore" /\ ~Ok(c)) ->
           [u EXCEPT !.status = "unauthenticated", !.user = {}]
      [] OTHER -> u

Settle(c, d) ==
    /\ ui' = [ui EXCEPT ![c.tab] = After(d, @)]
    /\ calls' = calls \ {c}
    /\ UNCHANGED <<cfg, users, clock, made>>

Lost(c) == [c EXCEPT !.status = 0, !.user = {}]

(* The response arrives: its cookie is stored, for all tabs, and the store's *)
(* action goes on with the body, or without when reading it fails.          *)
Arrive(c) ==
    /\ c.at = "answered"
    /\ Stored(c)
    /\ Settle(c, c) \/ Settle(c, Lost(c))
    /\ mixed' = IF c.puts = {} THEN mixed ELSE mixed \union (Tabs \ {c.tab})

(* The connection breaks, before the handler ran, in it, or after it.       *)
Lose(c) == Settle(c, Lost(c)) /\ UNCHANGED <<jar, last, mixed>>

(* The page is loaded anew: its calls are aborted and its store is lost.    *)
Reload(t) ==
    /\ Spend
    /\ ui' = [ui EXCEPT ![t] = Blank]
    /\ calls' = {c \in calls : c.tab # t}
    /\ mixed' = IF calls' = {} THEN mixed \ {t} ELSE mixed \union {t}
    /\ UNCHANGED <<cfg, users, clock, jar, last>>

(* A restart, once the handlers have ended or their connections are lost;   *)
(* another environment may change the key or the lifetime of tokens.        *)
Restart(env) ==
    /\ Spend
    /\ \A c \in calls : c.at = "answered"
    /\ Boots(Load(env))
    /\ cfg' = Load(env)
    /\ UNCHANGED <<users, clock, jar, last, ui, calls, mixed>>

(* Time passes, and the browser drops a cookie past its MaxAge; no page is  *)
(* told.                                                                    *)
Tick ==
    /\ clock < Horizon
    /\ clock' = clock + 1
    /\ jar' = {k \in jar : clock' < k.until}
    /\ UNCHANGED <<cfg, users, last, ui, calls, mixed, made>>

Serve(c) ==
    \/ SignupHandle(c) \/ SignupFinish(c) \/ LoginHandle(c)
    \/ Protected(c) \/ LogoutHandle(c)

Next ==
    \/ \E t \in Tabs :
         \/ Restore(t) \/ Logout(t) \/ LoadStats(t) \/ Reload(t)
         \/ \E op \in SignOps, creds \in Inputs \union {Malformed} : Sign(t, op, creds)
    \/ \E c \in calls : Serve(c) \/ Arrive(c) \/ Lose(c)
    \/ \E env \in Envs : Restart(env)
    \/ Tick

Spec == Init /\ [][Next]_vars

(* The server answers what it has received, or the connection breaks, and   *)
(* the event loop runs the continuations of what has arrived.               *)
FairSpec ==
    /\ Spec
    /\ \A t \in Tabs :
         WF_vars(\E c \in calls : c.tab = t /\ (Serve(c) \/ Arrive(c)))

-----------------------------------------------------------------------------
(* Properties.                                                              *)

(* No address has two accounts, however it is spelt and however signups     *)
(* interleave; and whatever the browser holds or a call carries names an    *)
(* account that exists: a signup cut short leaves no session for a missing  *)
(* row (CreateUser, SetCookie).                                             *)
OnePerAddress ==
    \A i, j \in DOMAIN users : users[i].email[1] = users[j].email[1] => i = j

SessionsReal ==
    /\ \A k \in jar : k.sub \in DOMAIN users
    /\ \A t \in Tabs : ui[t].user \subseteq DOMAIN users
    /\ \A c \in calls :
         /\ c.user \subseteq DOMAIN users
         /\ \A k \in c.cookie \union UNION c.puts : k.sub \in DOMAIN users

(* An answer names the account it was asked for: the one of the address and *)
(* the password sent, or the subject of the cookie sent, and the session it *)
(* opens is that account's (Signup, Login, Me).                             *)
Truthful ==
    \A c \in calls : \A id \in c.user :
        /\ c.op \in SignOps =>
             /\ users[id].email[1] = c.creds.who
             /\ users[id].pw = c.creds.pw
        /\ c.op = "restore" => \E k \in c.cookie : k.sub = id
        /\ \A k \in UNION c.puts : k.sub = id

SessionSound == OnePerAddress /\ SessionsReal /\ Truthful

(* An account that exists when its owner submits the login form lets them   *)
(* in, in whatever spelling, whatever restarts, reloads and failed signups  *)
(* came before: a login is refused only if the store failed under it.       *)
LoginAfterSignup ==
    \A c \in calls :
        c.known /\ c.at = "answered" =>
            c.broke \/ c.status = 200

(* Unless session calls overlapped (of one tab, or another tab changed the  *)
(* cookie), a page that shows a user shows the one of the cookie that was   *)
(* last set, and the browser still holds that cookie, or it has dropped it  *)
(* for its age: then the page shows the user of a session that is over,     *)
(* until its next protected call, but never another's.                      *)
UIAgrees ==
    \A t \in Tabs \ mixed :
        ui[t].status = "authenticated" =>
            /\ ui[t].user = {k.sub : k \in last}
            /\ jar = last \/ (jar = {} /\ \A k \in last : clock >= k.until)

(* restore never leaves the page on "Checking your session": the status     *)
(* settles whatever becomes of the call.                                    *)
RestoreEnds == \A t \in Tabs : ui[t].status = "loading" ~> ui[t].status # "loading"

(* ecom/README.md:104: "Session expiry / 401 - protected routes redirect to *)
(* /login": a page whose protected call was answered 401 is signed out.     *)
ExpiryRedirects ==
    \A t \in Tabs : ui[t].page = "unauthorized" => ui[t].status = "unauthenticated"
=============================================================================
