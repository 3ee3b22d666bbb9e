------------------------------ MODULE Sessions ------------------------------
(***************************************************************************)
(* Signing in and staying signed in: the login, code, reset, profile and   *)
(* set-up pages of employees and administrators, the handlers behind them, *)
(* and the two dependencies that every other handler goes through.         *)
(*                                                                         *)
(* A handler is the sequence of its awaits (Handler): one step of the      *)
(* model is one command of Redis or one statement of PostgreSQL, so        *)
(* requests of different browsers interleave between any two of them and   *)
(* may fail at any of them.  A browser shows one page at a time and waits  *)
(* for the answer to its request; its cookies are what the answers set.    *)
(* Reads go to a replica that lags, unless the cookie write_window_lag     *)
(* sends them to the primary.                                              *)
(***************************************************************************)
EXTENDS Naturals, Sequences

CONSTANTS
  Browsers, People,     \* who may have a ticket number
  Default,              \* DEFAULT_ADMIN_TICKET, which no employee has
  Passwords, DefaultPassword, Unusable,  \* Unusable: the random password nobody knows
  Codes,                \* six-digit codes; the same one may be drawn twice
  NoOne,                \* no row, no token, no code
  MaxNonce, MaxClock    \* bounds: nonces drawn, seconds in which tokens differ

VARIABLES
  emailOtp,   \* ENABLE_EMAIL_OTP
  accounts,   \* tables employees and loco_admin of the primary
  replica,    \* the same tables as the replica has them
  nonces,     \* how many nonces have been drawn: each is a new number
  clock,      \* the second that a token issued now expires from
  info,       \* default_admin:info in Redis: its nonce, 0 when there is none
  session,    \* session:{ticket}:{portal} in Redis
  otp,        \* otp:login, otp:reset and otp:admin_login in Redis
  cookie,     \* what each browser keeps
  page,       \* what each browser shows
  req,        \* the request each browser waits for
  signedIn,   \* history: signed in, and nothing has ended it since
  crossed,    \* history: a seeding and a set-up have crossed
  revoked     \* history: administrators removed, and not set up again since

vars == <<emailOtp, accounts, replica, nonces, clock, info, session, otp,
          cookie, page, req, signedIn, crossed, revoked>>
stores == <<emailOtp, accounts, replica, nonces, clock, info, session, otp, crossed, revoked>>

Portals == {"employee", "admin"}
Tickets == People \cup {Default}
Secrets == Passwords \cup {DefaultPassword, Unusable}
Token == [who : Tickets, nonce : 1..MaxNonce, at : 0..MaxClock]
Employee == [pwd : Secrets, nonce : 1..MaxNonce]
LocoAdmin == [pwd : Secrets, nonce : 1..MaxNonce, must : BOOLEAN, portal : BOOLEAN]
Tables == [emp : [People -> Employee \cup {NoOne}],
           adm : [People -> LocoAdmin \cup {NoOne}]]

Admins(t) == {p \in People : t.adm[p] # NoOne}

ASSUME BoundsAssumption == MaxNonce \in Nat \ {0} /\ MaxClock \in Nat
ASSUME DefaultAssumption == Default \notin People
ASSUME NoOneAssumption ==
  NoOne \notin Tickets \cup Secrets \cup Codes \cup Token \cup Employee \cup LocoAdmin

-----------------------------------------------------------------------------
(* Pages.  stage is "check" while the route guard asks, "load" while the   *)
(* page asks again for itself, "profile" while a tab does, then "ready".   *)
Page == [at : {"login", "otp", "forgot", "reset", "expired", "dashboard",
               "adminLogin", "adminOtp", "setup", "adminDashboard", "blank"},
         stage : {"check", "load", "profile", "ready"},
         who : Tickets \cup {NoOne},  \* whom the page is about
         coded : BOOLEAN,             \* the set-up form covers the code form
         portal : BOOLEAN,            \* the header does not offer the employee portal
         offer : BOOLEAN,             \* the profile does
         refused : BOOLEAN,           \* history: the default administrator was
         bounced : BOOLEAN]           \* history: by a read of the primary

Opened(at) == [at |-> at,
               stage |-> IF at \in {"login", "dashboard", "adminLogin", "adminDashboard"}
                         THEN "check" ELSE "ready",
               who |-> NoOne, coded |-> FALSE, portal |-> TRUE, offer |-> FALSE,
               refused |-> FALSE, bounced |-> FALSE]

AdminSide(at) == at \in {"adminLogin", "adminOtp", "setup", "adminDashboard", "blank"}
PortalOf(at) == IF AdminSide(at) THEN "admin" ELSE "employee"

(* A request: its arguments, the cookies it was sent with and where its    *)
(* handler stands.  clean: nobody else has touched the account meanwhile.  *)
NoRequest == [kind |-> "none", portal |-> "employee", who |-> NoOne, pwd |-> NoOne,
              new |-> NoOne, ticket |-> NoOne, code |-> NoOne, token |-> NoOne,
              lag |-> FALSE, todo |-> <<>>, nonce |-> 0, flag |-> FALSE,
              status |-> "ok", clean |-> TRUE]
Kinds == {"none", "me", "login", "verify", "resend", "forgot", "reset", "change",
          "setup", "enable", "logout"}
Steps == {"Session", "Row", "SeedRead", "SeedSet", "Password", "Mail", "Code", "Account",
          "Insert", "Forget", "Commit", "Store", "DropCode", "DropDefault", "DropSession"}
Request == [kind : Kinds, portal : Portals, who : Tickets \cup {NoOne},
            pwd : Secrets \cup {NoOne}, new : Passwords \cup {NoOne},
            ticket : People \cup {NoOne}, code : Codes \cup {NoOne},
            token : Token \cup {NoOne}, lag : BOOLEAN, todo : Seq(Steps),
            nonce : 0..MaxNonce, flag : BOOLEAN, clean : BOOLEAN,
            status : {"open", "ok", "400", "401", "403", "422", "error"}]

(* A sign-in ends with a session, or with a code sent by mail.             *)
Enter(t) == IF emailOtp /\ t # Default THEN <<"Mail">> ELSE <<"Store">>

(* Variant: the migration leaves the default administrator in Redis.       *)
SetupKeepsDefault(t) ==
  IF t = Default THEN <<"Session", "Row", "Insert", "Commit", "Store", "DropDefault">>
                 ELSE <<"Session", "Row", "Commit", "Store">>

Setup(t) ==
  IF t = Default
  THEN <<"Session", "Row", "Insert", "Forget", "Commit", "Store", "DropDefault">>
  ELSE <<"Session", "Row", "Commit", "Store">>

(* The awaits of the handler of a request, in order.                       *)
Handler(kind, portal, t) ==
  CASE kind = "me"     -> <<"Session", "Row">>
    [] kind = "login"  -> (IF portal = "admin" THEN <<"SeedRead", "Password">>
                                               ELSE <<"Password">>) \o Enter(t)
    [] kind = "verify" -> IF portal = "admin"
                          THEN <<"Code", "Account", "DropCode", "Store">>
                          ELSE <<"Code", "Account", "Store", "DropCode">>
    [] kind \in {"resend", "forgot"} -> <<"Mail">>
    [] kind = "reset"  -> <<"Code", "Commit", "DropCode">>
    [] kind \in {"change", "enable"} -> <<"Session", "Row", "Commit">>
    [] kind = "setup"  -> Setup(t)
    [] kind = "logout" -> IF t = NoOne THEN <<>> ELSE <<"DropSession">>

(* A request with the cookies c: an unauthenticated one names its ticket,  *)
(* any other is the cookie's.                                              *)
Ask(c, portal, kind, t) ==
  LET who == IF kind \in {"me", "change", "setup", "enable", "logout"}
             THEN IF c[portal] = NoOne THEN NoOne ELSE c[portal].who
             ELSE t
      todo == Handler(kind, portal, who)
  IN [NoRequest EXCEPT !.kind = kind, !.portal = portal, !.who = who,
                       !.token = c[portal], !.lag = c.lag, !.todo = todo,
                       !.status = IF todo = <<>> THEN "ok" ELSE "open"]

(* What a page asks for as it opens.                                       *)
Mount(c, at) ==
  IF Opened(at).stage = "check" THEN Ask(c, PortalOf(at), "me", NoOne) ELSE NoRequest

(* The containers have just started, with the rows that are in the         *)
(* database; Redis has no sessions and no codes.  Without an administrator *)
(* the default one has been seeded, or deleted by a set-up that failed.    *)
Init ==
  /\ emailOtp \in BOOLEAN
  /\ accounts \in Tables /\ replica = accounts
  /\ \A p \in Admins(accounts) : accounts.emp[p] # NoOne
  /\ nonces \in 1..MaxNonce /\ clock = 0
  /\ info \in IF Admins(accounts) = {} THEN 0..nonces ELSE {0}
  /\ session = [q \in Portals |-> [t \in Tickets |-> NoOne]]
  /\ otp = [k \in {"login", "reset", "admin"} |-> [p \in People |-> NoOne]]
  /\ cookie = [b \in Browsers |-> [employee |-> NoOne, admin |-> NoOne, lag |-> FALSE]]
  /\ page = [b \in Browsers |-> Opened("login")]
  /\ req = [b \in Browsers |-> Mount(cookie[b], "login")]
  /\ signedIn = [b \in Browsers |-> [q \in Portals |-> FALSE]]
  /\ crossed = FALSE /\ revoked = {}

-----------------------------------------------------------------------------
(* Steps of the handlers.                                                  *)
At(b, step) == /\ req[b].status = "open" /\ req[b].todo # <<>> /\ Head(req[b].todo) = step
Past(r) == [r EXCEPT !.todo = Tail(@), !.status = IF Tail(r.todo) = <<>> THEN "ok" ELSE "open"]
Refused(r, status) == [r EXCEPT !.todo = <<>>, !.status = status]

(* The request becomes r and nobody else is concerned.                     *)
Proceed(b, r) == /\ req' = [req EXCEPT ![b] = r]
                 /\ UNCHANGED signedIn

(* The request becomes r, and the sessions of t are no longer what they    *)
(* were: whoever was signed in as t is not, and requests of others that    *)
(* concern t have been overtaken.                                          *)
Ending(b, r, portal, t) ==
  /\ req' = [x \in Browsers |->
               CASE x = b -> r
                 [] x # b /\ req[x].portal = portal /\ req[x].who = t
                      -> [req[x] EXCEPT !.clean = FALSE]
                 [] OTHER -> req[x]]
  /\ signedIn' = [x \in Browsers |->
                    [signedIn[x] EXCEPT ![portal] =
                       @ /\ ~(cookie[x][portal] # NoOne /\ cookie[x][portal].who = t)]]

(* The first half of both dependencies: the token of the cookie must be    *)
(* the one that Redis has for its ticket.                                  *)
CheckSession(b) ==
  LET r == req[b]
  IN /\ At(b, "Session")
     /\ Proceed(b, IF r.token # NoOne /\ session[r.portal][r.who] = r.token
                   THEN Past(r) ELSE Refused(r, "401"))
     /\ UNCHANGED <<stores, cookie, page>>

(* Variant: only writes go to the primary.                                 *)
TablesIgnoringCookie(r) == IF r.kind # "me" THEN accounts ELSE replica

(* The database a request is routed to.                                    *)
TablesFor(r) == IF r.kind # "me" \/ r.lag THEN accounts ELSE replica

(* Variant: the set-up may be skipped.                                     *)
OwesSetupNever(r, a) == FALSE

(* Administrators whose set-up is pending may do nothing else.             *)
OwesSetup(r, a) == r.kind # "setup" /\ a.must

(* What a row of employees makes of a request: the second half of          *)
(* get_current_user, and the check of the current password, which sees the *)
(* row already loaded.                                                     *)
EmployeeVerdict(r) ==
  LET e == TablesFor(r).emp[r.who]
  IN CASE e = NoOne -> "401"
       [] e # NoOne /\ e.nonce # r.token.nonce -> "401"
       [] e # NoOne /\ e.nonce = r.token.nonce ->
            IF r.kind = "change" /\ e.pwd # r.pwd THEN "400" ELSE "ok"

(* The same for loco_admin: require_admin, then what admin_change_password *)
(* and admin_set_employee_password check.  A profile page sends no e-mail  *)
(* address, which the schema of the request demands.                       *)
AdminVerdict(r) ==
  LET a == TablesFor(r).adm[r.who]
  IN CASE a = NoOne -> "403"
       [] a # NoOne /\ a.nonce # r.token.nonce -> "401"
       [] a # NoOne /\ a.nonce = r.token.nonce ->
            IF OwesSetup(r, a) THEN "403"
            ELSE CASE r.kind = "change" -> "422"
                   [] r.kind = "setup" /\ a.pwd # r.pwd -> "400"
                   [] r.kind = "enable" /\ (a.portal \/ a.pwd # r.pwd) -> "400"
                   [] OTHER -> "ok"

(* The default administrator has no row: Redis answers for it, and it may  *)
(* only set up its successor.                                              *)
DefaultVerdict(r) == IF info = r.token.nonce /\ r.kind = "setup" THEN "ok" ELSE "403"

CheckRow(b) ==
  LET r == req[b]
      v == CASE r.portal = "employee" -> EmployeeVerdict(r)
             [] r.portal = "admin" /\ r.who = Default -> DefaultVerdict(r)
             [] r.portal = "admin" /\ r.who # Default -> AdminVerdict(r)
      t == TablesFor(r)
      f == /\ r.portal = "admin" /\ r.who # Default /\ t.adm[r.who] # NoOne
           /\ IF r.kind = "setup" THEN t.adm[r.who].must ELSE t.adm[r.who].portal
  IN /\ At(b, "Row")
     /\ Proceed(b, IF v = "ok" THEN [Past(r) EXCEPT !.flag = f] ELSE Refused(r, v))
     /\ UNCHANGED <<stores, cookie, page>>

(* Variant: the default administrator is seeded at start-up only.          *)
MissingInfoNever == FALSE
MissingInfo == Admins(accounts) = {} /\ info = 0

(* seed_default_admin_if_needed reads first ...                            *)
SeedRead(b) ==
  LET r == req[b]
  IN /\ At(b, "SeedRead")
     /\ IF Admins(accounts) # {}
        THEN info' = 0 /\ Ending(b, Past(r), "admin", Default)
        ELSE /\ Proceed(b, IF MissingInfo
                           THEN [r EXCEPT !.todo = <<"SeedSet">> \o Tail(@)]
                           ELSE Past(r))
             /\ UNCHANGED info
     /\ UNCHANGED <<crossed, revoked, emailOtp, accounts, replica, nonces, clock, session, otp, cookie, page>>

(* ... and writes after it has hashed the password.                        *)
SeedSet(b) ==
  /\ At(b, "SeedSet") /\ nonces < MaxNonce
  /\ nonces' = nonces + 1 /\ info' = nonces + 1
  /\ Ending(b, Past(req[b]), "admin", Default)
  /\ crossed' = (crossed \/ \E x \in Browsers : req[x].kind = "setup")
  /\ UNCHANGED <<revoked, emailOtp, accounts, replica, clock, session, otp, cookie, page>>

(* The tables hold password and role; flag: setting up comes first.        *)
CheckPassword(b) ==
  LET r == req[b]
      e == IF r.who \in People THEN accounts.emp[r.who] ELSE NoOne
      a == IF r.who \in People THEN accounts.adm[r.who] ELSE NoOne
      In(nonce, must) == Proceed(b, [Past(r) EXCEPT !.nonce = nonce, !.flag = must])
      Out(status) == Proceed(b, Refused(r, status))
  IN /\ At(b, "Password")
     /\ CASE r.portal = "employee" /\ r.who = Default -> Out("403")
          [] r.portal = "employee" /\ r.who # Default ->
               IF e = NoOne \/ (e # NoOne /\ e.pwd # r.pwd) THEN Out("401")
               ELSE IF a # NoOne /\ ~a.portal THEN Out("403")
               ELSE In(e.nonce, FALSE)
          [] r.portal = "admin" /\ r.who = Default ->
               IF Admins(accounts) # {} \/ info = 0 THEN Out("403")
               ELSE IF r.pwd # DefaultPassword THEN Out("401")
               ELSE In(info, TRUE)
          [] r.portal = "admin" /\ r.who # Default ->
               IF a = NoOne THEN Out("403")
               ELSE IF a.pwd # r.pwd THEN Out("401")
               ELSE In(a.nonce, a.must)
     /\ UNCHANGED <<stores, cookie, page>>

(* The key of the code a request is about.                                 *)
CodeOf(r) == IF r.kind \in {"forgot", "reset"} THEN "reset"
             ELSE IF r.portal = "admin" THEN "admin" ELSE "login"

(* The address of a sign-in has been read with its password.               *)
MailCode(b, code) ==
  LET r == req[b]
  IN /\ At(b, "Mail")
     /\ IF /\ r.who \in People /\ emailOtp
           /\ r.kind = "login" \/ accounts.emp[r.who] # NoOne
        THEN /\ otp' = [otp EXCEPT ![CodeOf(r)][r.who] = code]
             /\ Proceed(b, Past(r))
        ELSE Proceed(b, Refused(r, "400")) /\ UNCHANGED otp
     /\ UNCHANGED <<crossed, revoked, emailOtp, accounts, replica, nonces, clock, info, session, cookie, page>>

CheckCode(b) ==
  LET r == req[b]
      stored == IF r.who \in People THEN otp[CodeOf(r)][r.who] ELSE NoOne
  IN /\ At(b, "Code")
     /\ Proceed(b, IF stored # NoOne /\ stored = r.code THEN Past(r) ELSE Refused(r, "400"))
     /\ UNCHANGED <<stores, cookie, page>>

(* The nonce that the token of a verified sign-in will carry.              *)
ReadAccount(b) ==
  LET r == req[b]
      n == IF r.portal = "admin" THEN accounts.adm[r.who] ELSE accounts.emp[r.who]
  IN /\ At(b, "Account")
     /\ Proceed(b, IF n = NoOne THEN Refused(r, "400")
                   ELSE [Past(r) EXCEPT !.nonce = n.nonce,
                                        !.flag = r.portal = "admin" /\ n.must])
     /\ UNCHANGED <<stores, cookie, page>>

(* A set-up has inserted the rows of t and not committed them yet.         *)
Inserting(t) ==
  \E x \in Browsers : req[x].ticket = t /\ (At(x, "Forget") \/ At(x, "Commit"))

(* The default administrator names its successor: employee and             *)
(* administrator are inserted, or the key is taken.  A key that another    *)
(* transaction has inserted is waited for.                                 *)
InsertSuccessor(b) ==
  LET r == req[b]
      taken == accounts.adm[r.ticket] # NoOne
  IN /\ At(b, "Insert")
     /\ ~Inserting(r.ticket)
     /\ Proceed(b, CASE info = 0 \/ r.pwd # DefaultPassword -> Refused(r, "403")
                     [] info # 0 /\ r.pwd = DefaultPassword /\ taken -> Refused(r, "error")
                     [] OTHER -> [Past(r) EXCEPT !.flag = accounts.emp[r.ticket] # NoOne])
     /\ UNCHANGED <<stores, cookie, page>>

(* The default administrator is deleted before anything is committed.      *)
ForgetDefault(b) ==
  /\ At(b, "Forget")
  /\ info' = 0
  /\ Ending(b, Past(req[b]), "admin", Default)
  /\ UNCHANGED <<crossed, revoked, emailOtp, accounts, replica, nonces, clock, session, otp, cookie, page>>

(* The row that a handler is about to write has been deleted since it was  *)
(* found; the statement of whoever has loaded it fails.                    *)
Gone(r) ==
  CASE r.kind \in {"reset", "change"} -> accounts.emp[r.who] = NoOne
    [] r.kind = "setup" -> r.who # Default /\ accounts.adm[r.who] = NoOne
    [] r.kind = "enable" -> accounts.adm[r.who] = NoOne

CommitNothing(b) ==
  LET r == req[b]
  IN /\ At(b, "Commit") /\ Gone(r)
     /\ Proceed(b, Refused(r, IF r.kind = "reset" THEN "400" ELSE "error"))
     /\ UNCHANGED <<stores, cookie, page>>

(* Resetting or changing the password of an employee: the nonce stays, and *)
(* so do the sessions.                                                     *)
CommitPassword(b) ==
  LET r == req[b]
  IN /\ At(b, "Commit") /\ r.kind \in {"reset", "change"} /\ ~Gone(r)
     /\ accounts' = [accounts EXCEPT !.emp[r.who].pwd = r.new]
     /\ Proceed(b, Past(r))
     /\ UNCHANGED <<crossed, revoked, emailOtp, replica, nonces, clock, info, session, otp, cookie, page>>

(* Variant: the new token is made with the nonce read at the start.        *)
TokenNonceOld(r) == r.token.nonce

(* The new token is made with the nonce that was just stored.              *)
TokenNonce(r) == nonces + 1

(* Variant: the migration creates no employee.                             *)
SuccessorWithout(row, n) == row

(* The migration creates an employee, whose password nobody knows, unless  *)
(* there is one.                                                           *)
Successor(row, n) == IF row = NoOne THEN [pwd |-> Unusable, nonce |-> n] ELSE row

(* The set-up of an administrator ends the sessions of that account.  What *)
(* was loaded as FALSE is not written (flag: it was pending).              *)
CommitSetup(b) ==
  LET r == req[b]
      n == nonces + 1
      own == accounts.adm[r.who]
      new == r.ticket
  IN /\ At(b, "Commit") /\ r.kind = "setup" /\ ~Gone(r) /\ nonces < MaxNonce
     /\ nonces' = n
     /\ IF r.who = Default
        THEN /\ accounts' = [accounts EXCEPT
                  !.emp[new] = Successor(@, n),
                  !.adm[new] = [pwd |-> r.new, nonce |-> n, must |-> FALSE, portal |-> r.flag]]
             /\ Proceed(b, [Past(r) EXCEPT !.who = new, !.nonce = n])
        ELSE /\ accounts' = [accounts EXCEPT
                  !.adm[r.who] = [own EXCEPT !.pwd = r.new, !.nonce = n,
                                        !.must = own.must /\ ~r.flag]]
             /\ Ending(b, [Past(r) EXCEPT !.nonce = TokenNonce(r)], "admin", r.who)
     /\ crossed' = (crossed \/ \E x \in Browsers : At(x, "SeedSet"))
     /\ revoked' = {p \in revoked : accounts'.adm[p] = NoOne \/ accounts'.adm[p].must}
     /\ UNCHANGED <<emailOtp, replica, clock, info, session, otp, cookie, page>>

(* admin_set_employee_password: for an employee nobody could sign in as    *)
(* when it was asked for, whose nonce is drawn anew.                       *)
CommitPortal(b) ==
  LET r == req[b]
  IN /\ At(b, "Commit") /\ r.kind = "enable" /\ ~Gone(r) /\ nonces < MaxNonce
     /\ nonces' = nonces + 1
     /\ accounts' = [accounts EXCEPT !.emp[r.who] = [pwd |-> r.new, nonce |-> nonces + 1],
                                     !.adm[r.who].portal = TRUE]
     /\ Ending(b, Past(r), "employee", r.who)
     /\ UNCHANGED <<crossed, revoked, emailOtp, replica, clock, info, session, otp, cookie, page>>

(* One session per ticket and portal: the last sign-in has it.             *)
StoreSession(b) ==
  LET r == req[b]
      t == [who |-> r.who, nonce |-> r.nonce, at |-> clock]
  IN /\ At(b, "Store")
     /\ session' = [session EXCEPT ![r.portal][r.who] = t]
     /\ Ending(b, [Past(r) EXCEPT !.token = t], r.portal, r.who)
     /\ UNCHANGED <<crossed, revoked, emailOtp, accounts, replica, nonces, clock, info, otp, cookie, page>>

DropCode(b) ==
  LET r == req[b]
  IN /\ At(b, "DropCode")
     /\ otp' = [otp EXCEPT ![CodeOf(r)][r.who] = NoOne]
     /\ Proceed(b, Past(r))
     /\ UNCHANGED <<crossed, revoked, emailOtp, accounts, replica, nonces, clock, info, session, cookie, page>>

DropDefault(b) ==
  /\ At(b, "DropDefault")
  /\ session' = [session EXCEPT !.admin[Default] = NoOne]
  /\ Ending(b, Past(req[b]), "admin", Default)
  /\ UNCHANGED <<crossed, revoked, emailOtp, accounts, replica, nonces, clock, info, otp, cookie, page>>

(* Signing out deletes the session of the ticket, whoever has it now; when *)
(* Redis fails the answer is the same.                                     *)
DropSession(b) ==
  LET r == req[b]
  IN /\ At(b, "DropSession")
     /\ session' = [session EXCEPT ![r.portal][r.who] = NoOne]
     /\ Ending(b, Past(r), r.portal, r.who)
     /\ UNCHANGED <<crossed, revoked, emailOtp, accounts, replica, nonces, clock, info, otp, cookie, page>>

KeepSession(b) ==
  /\ At(b, "DropSession")
  /\ Proceed(b, Past(req[b]))
  /\ UNCHANGED <<stores, cookie, page>>

(* A statement fails, the worker dies or the answer is lost.               *)
Fail(b) ==
  /\ req[b].kind # "none" /\ req[b].status # "error"
  /\ Proceed(b, Refused(req[b], "error"))
  /\ UNCHANGED <<stores, cookie, page>>

-----------------------------------------------------------------------------
(* Answers.                                                                *)
Entered(r) == r.kind \in {"verify", "setup"}
              \/ (r.kind = "login" /\ Enter(r.who) = <<"Store">>)

(* What the answer leaves in the browser: the token of the session, or     *)
(* none, and the cookie that sends the next read to the primary; a read    *)
(* uses that cookie up.                                                    *)
Cookies(b) ==
  LET r == req[b]
      ok == r.status = "ok"
  IN [cookie[b] EXCEPT
        ![r.portal] = CASE ok /\ r.kind = "logout" -> NoOne
                        [] ok /\ Entered(r) -> r.token
                        [] OTHER -> @,
        !.lag = CASE r.kind # "me" -> @ \/ ok
                  [] r.kind = "me" /\ r.lag /\ r.status # "error" -> FALSE
                  [] OTHER -> @]

(* To the page for those who are not signed in.                            *)
Bounced(r) ==
  [Opened(IF r.portal = "admin" THEN "adminLogin" ELSE "expired")
     EXCEPT !.bounced = r.lag /\ r.status # "error"]

Home(r) == Opened(IF r.portal = "admin" THEN "adminDashboard" ELSE "dashboard")

(* The sign-in pages go on to the dashboard.                               *)
AtSignIn(p, r) == IF r.status = "ok" THEN Home(r) ELSE [p EXCEPT !.stage = "ready"]

(* The guards of the dashboards send away whoever is not signed in.        *)
AtGuard(p, r) ==
  IF r.status = "ok"
  THEN [p EXCEPT !.stage = "load", !.who = IF r.portal = "admin" THEN r.who ELSE @]
  ELSE Bounced(r)

(* The dashboards ask again for themselves; of the failures only a 401     *)
(* counts, for the interceptor.                                            *)
AtDashboard(p, r) ==
  IF r.status = "401" THEN Bounced(r)
  ELSE [p EXCEPT !.stage = "ready",
                 !.who = IF r.status = "ok" THEN r.who ELSE @,
                 !.portal = IF r.status = "ok" /\ r.portal = "admin" THEN r.flag ELSE @]

(* The profile of an administrator asks once more.                         *)
AtProfile(p, r) ==
  IF r.status = "401" THEN Bounced(r)
  ELSE [p EXCEPT !.offer = ~(r.status = "ok" /\ r.flag)]

AfterMe(p, r) ==
  IF p.at \in {"login", "adminLogin"} THEN AtSignIn(p, r)
  ELSE CASE p.stage = "check" -> AtGuard(p, r)
         [] p.stage \in {"load", "ready"} -> AtDashboard(p, r)
         [] p.stage = "profile" -> AtProfile(p, r)

(* Signing in: to the code form, to the set-up form or to the dashboard.   *)
AfterLogin(b, r) ==
  LET p == page[b]
  IN CASE r.status # "ok" ->
            [p EXCEPT !.refused = /\ r.status \in {"401", "403"} /\ r.clean
                                  /\ r.portal = "admin" /\ r.who = Default
                                  /\ r.pwd = DefaultPassword]
       [] r.status = "ok" /\ ~Entered(r) ->
            IF r.portal = "admin" THEN [p EXCEPT !.at = "adminOtp"]
            ELSE [Opened("otp") EXCEPT !.who = r.who]
       [] r.status = "ok" /\ Entered(r) ->
            IF r.flag THEN [p EXCEPT !.at = "setup", !.coded = r.kind = "verify"] ELSE Home(r)

(* Forms inside the pages.                                                 *)
AfterForm(b, r) ==
  LET p == page[b]
      ok == r.status = "ok"
  IN CASE r.status = "401" /\ p.at # "setup" -> Bounced(r)
       [] r.status = "422" -> Opened("blank")
       [] ok /\ r.kind = "forgot" -> [Opened("reset") EXCEPT !.who = r.who]
       [] ok /\ r.kind = "reset" -> Opened("login")
       [] ok /\ r.kind = "setup" -> Home(r)
       [] ok /\ r.kind = "enable" -> [p EXCEPT !.portal = TRUE]
       [] OTHER -> p

(* Signing out leads to the sign-in page even when it failed; cancelling   *)
(* the set-up shows the form underneath again.                             *)
AfterLogout(b, r) ==
  LET p == page[b]
  IN IF p.at = "setup"
     THEN [p EXCEPT !.at = IF p.coded THEN "adminOtp" ELSE "adminLogin"]
     ELSE Opened(IF r.portal = "admin" THEN "adminLogin" ELSE "login")

Answer(b) ==
  LET r == req[b]
      p == CASE r.kind = "me" -> AfterMe(page[b], r)
             [] r.kind \in {"login", "verify"} -> AfterLogin(b, r)
             [] r.kind = "logout" -> AfterLogout(b, r)
             [] OTHER -> AfterForm(b, r)
      c == Cookies(b)
  IN /\ r.kind # "none" /\ r.status # "open"
     /\ page' = [page EXCEPT ![b] = p]
     /\ cookie' = [cookie EXCEPT ![b] = c]
     /\ req' = [req EXCEPT ![b] = IF p.stage \in {"check", "load"}
                                  THEN Ask(c, PortalOf(p.at), "me", NoOne) ELSE NoRequest]
     /\ signedIn' = [signedIn EXCEPT ![b][r.portal] =
                       IF r.status = "ok" /\ Entered(r) THEN r.clean
                       ELSE @ /\ ~(r.status = "ok" /\ r.kind = "logout")]
     /\ UNCHANGED stores

-----------------------------------------------------------------------------
(* What users do, once the page has its answer.                            *)
Idle(b) == req[b].kind = "none"

Show(b, p, r) == /\ page' = [page EXCEPT ![b] = p]
                 /\ req' = [req EXCEPT ![b] = r]
                 /\ UNCHANGED <<stores, cookie, signedIn>>

(* Follows a link, types an address or reloads.                            *)
Visit(b, at) ==
  /\ Idle(b)
  /\ at \in {"login", "forgot", "reset", "dashboard", "adminLogin", "adminDashboard"}
  /\ Show(b, Opened(at), Mount(cookie[b], at))

(* The forms of the sign-in pages.                                         *)
SignInForm(p) == p.at = "login" /\ p.stage = "ready"
AdminSignInForm(p) == p.at = "adminLogin" /\ p.stage = "ready"
CodeForm(p) == p.at = "otp"
AdminCodeForm(p) == p.at = "adminOtp"

SignIn(b, t, pwd) ==
  LET p == page[b]
  IN /\ Idle(b) /\ SignInForm(p)
     /\ Show(b, [p EXCEPT !.who = t],
             [Ask(cookie[b], "employee", "login", t) EXCEPT !.pwd = pwd])

AdminSignIn(b, t, pwd) ==
  LET p == page[b]
  IN /\ Idle(b) /\ AdminSignInForm(p)
     /\ Show(b, [p EXCEPT !.who = t, !.refused = FALSE],
             [Ask(cookie[b], "admin", "login", t) EXCEPT !.pwd = pwd])

EnterCode(b, code) ==
  /\ Idle(b) /\ CodeForm(page[b])
  /\ Show(b, page[b], [Ask(cookie[b], "employee", "verify", page[b].who) EXCEPT !.code = code])

EnterAdminCode(b, code) ==
  /\ Idle(b) /\ AdminCodeForm(page[b])
  /\ Show(b, page[b], [Ask(cookie[b], "admin", "verify", page[b].who) EXCEPT !.code = code])

ResendCode(b) ==
  /\ Idle(b) /\ CodeForm(page[b])
  /\ Show(b, page[b], Ask(cookie[b], "employee", "resend", page[b].who))

GoBack(b) ==
  /\ Idle(b) /\ AdminCodeForm(page[b])
  /\ Show(b, [page[b] EXCEPT !.at = "adminLogin"], NoRequest)

ForgotForm(p) == p.at = "forgot"

(* The ticket number is asked for only when the page was opened directly.  *)
ResetForm(p, t) == p.at = "reset" /\ (p.who # NoOne => t = p.who)

ForgotPassword(b, t) ==
  /\ Idle(b) /\ ForgotForm(page[b])
  /\ Show(b, page[b], Ask(cookie[b], "employee", "forgot", t))

ResetPassword(b, t, code, new) ==
  /\ Idle(b) /\ ResetForm(page[b], t)
  /\ Show(b, page[b], [Ask(cookie[b], "employee", "reset", t) EXCEPT !.code = code, !.new = new])

(* The dashboard of an employee shows the profile of whom it has loaded.   *)
ProfileShown(p) == p.at = "dashboard" /\ p.who # NoOne
AdminProfileShown(p) == p.at = "adminDashboard" /\ p.stage = "profile"

ChangePassword(b, pwd, new) ==
  /\ Idle(b) /\ ProfileShown(page[b])
  /\ Show(b, page[b], [Ask(cookie[b], "employee", "change", NoOne)
                         EXCEPT !.pwd = pwd, !.new = new])

ChangeAdminPassword(b, pwd, new) ==
  /\ Idle(b) /\ AdminProfileShown(page[b])
  /\ Show(b, page[b], [Ask(cookie[b], "admin", "change", NoOne)
                         EXCEPT !.pwd = pwd, !.new = new])

(* The default administrator also names the ticket number to take over.    *)
SetUpForm(p, t) == /\ p.at = "setup"
                   /\ IF p.who = Default THEN t \in People ELSE t = NoOne

SetUp(b, pwd, new, t) ==
  /\ Idle(b) /\ SetUpForm(page[b], t)
  /\ Show(b, page[b], [Ask(cookie[b], "admin", "setup", NoOne)
                         EXCEPT !.pwd = pwd, !.new = new, !.ticket = t])

OpenProfile(b) ==
  /\ Idle(b) /\ page[b].at = "adminDashboard" /\ page[b].stage = "ready"
  /\ Show(b, [page[b] EXCEPT !.stage = "profile"], Ask(cookie[b], "admin", "me", NoOne))

(* The header and the profile each offer the employee portal.              *)
HeaderOffers(p) == p.at = "adminDashboard" /\ ~p.portal
ProfileOffers(p) == AdminProfileShown(p) /\ p.offer
EnableForm(p) == HeaderOffers(p) \/ ProfileOffers(p)

EnablePortal(b, pwd, new) ==
  LET p == page[b]
  IN /\ Idle(b) /\ EnableForm(p)
     /\ Show(b, p, [Ask(cookie[b], "admin", "enable", NoOne) EXCEPT !.pwd = pwd, !.new = new])

SignOut(b) ==
  /\ Idle(b) /\ page[b].at = "dashboard"
  /\ Show(b, page[b], Ask(cookie[b], "employee", "logout", NoOne))

AdminSignOut(b) ==
  /\ Idle(b) /\ page[b].at = "adminDashboard"
  /\ Show(b, page[b], Ask(cookie[b], "admin", "logout", NoOne))

CancelSetUp(b) ==
  /\ Idle(b) /\ page[b].at = "setup"
  /\ Show(b, page[b], Ask(cookie[b], "admin", "logout", NoOne))

-----------------------------------------------------------------------------
(* What administrators do to the account of p from the control center, in  *)
(* one step each: MasterTables has the awaits of these handlers, and the   *)
(* two removals at once that leave no administrator.                       *)
Administered == \E a \in Admins(accounts) : ~accounts.adm[a].must

(* Whoever is signed in as t there is not any more; requests of others     *)
(* that concern t have been overtaken.                                     *)
Overtake(portals, t) ==
  /\ signedIn' = [x \in Browsers |-> [q \in Portals |->
        signedIn[x][q] /\ ~(q \in portals /\ cookie[x][q] # NoOne /\ cookie[x][q].who = t)]]
  /\ req' = [x \in Browsers |-> IF req[x].portal \in portals /\ req[x].who = t
                                THEN [req[x] EXCEPT !.clean = FALSE] ELSE req[x]]

(* Directly, or by approving a registration.                               *)
CreateEmployee(p, pwd) ==
  /\ Administered /\ ~Inserting(p) /\ accounts.emp[p] = NoOne /\ nonces < MaxNonce
  /\ nonces' = nonces + 1
  /\ accounts' = [accounts EXCEPT !.emp[p] = [pwd |-> pwd, nonce |-> nonces + 1]]
  /\ UNCHANGED <<crossed, revoked, emailOtp, replica, clock, info, session, otp, cookie, page,
                 req, signedIn>>

(* The nonce stays.                                                        *)
UpdateEmployee(p, pwd) ==
  /\ Administered /\ accounts.emp[p] # NoOne
  /\ accounts' = [accounts EXCEPT !.emp[p].pwd = pwd]
  /\ UNCHANGED <<crossed, revoked, emailOtp, replica, nonces, clock, info, session, otp, cookie,
                 page, req, signedIn>>

(* The row of loco_admin goes with that of employees, unless it is the     *)
(* last one.                                                               *)
DeleteEmployee(p) ==
  /\ Administered /\ ~Inserting(p) /\ accounts.emp[p] # NoOne /\ Admins(accounts) # {p}
  /\ accounts' = [accounts EXCEPT !.emp[p] = NoOne, !.adm[p] = NoOne]
  /\ revoked' = revoked \cup ({p} \cap Admins(accounts))
  /\ Overtake(Portals, p)
  /\ UNCHANGED <<crossed, emailOtp, replica, nonces, clock, info, session, otp, cookie, page>>

(* With the password of the employee, to be changed first.                 *)
Promote(p) ==
  /\ Administered /\ ~Inserting(p) /\ nonces < MaxNonce
  /\ accounts.emp[p] # NoOne /\ accounts.adm[p] = NoOne
  /\ nonces' = nonces + 1
  /\ accounts' = [accounts EXCEPT !.adm[p] = [pwd |-> accounts.emp[p].pwd, nonce |-> nonces + 1,
                                              must |-> TRUE, portal |-> TRUE]]
  /\ UNCHANGED <<crossed, revoked, emailOtp, replica, clock, info, session, otp, cookie, page,
                 req, signedIn>>

RemoveAdmin(p) ==
  /\ Administered /\ accounts.adm[p] # NoOne /\ Admins(accounts) # {p}
  /\ accounts' = [accounts EXCEPT !.adm[p] = NoOne]
  /\ revoked' = revoked \cup {p}
  /\ Overtake({"admin"}, p)
  /\ UNCHANGED <<crossed, emailOtp, replica, nonces, clock, info, session, otp, cookie, page>>

-----------------------------------------------------------------------------
(* Time and faults.                                                        *)
ExpireSession(portal, t) ==
  /\ session[portal][t] # NoOne
  /\ session' = [session EXCEPT ![portal][t] = NoOne]
  /\ Overtake({portal}, t)
  /\ UNCHANGED <<crossed, revoked, emailOtp, accounts, replica, nonces, clock, info, otp, cookie, page>>

ExpireCode(k, t) ==
  /\ otp[k][t] # NoOne
  /\ otp' = [otp EXCEPT ![k][t] = NoOne]
  /\ UNCHANGED <<crossed, revoked, emailOtp, accounts, replica, nonces, clock, info, session,
                 cookie, page, req, signedIn>>

(* The cookie of an administrator lasts from the sign-in, whatever is done *)
(* meanwhile; that of an employee is renewed with the session.             *)
ExpireCookie(b) ==
  /\ cookie[b].admin # NoOne
  /\ cookie' = [cookie EXCEPT ![b].admin = NoOne]
  /\ signedIn' = [signedIn EXCEPT ![b].admin = FALSE]
  /\ UNCHANGED <<stores, page, req>>

ExpireLag(b) ==
  /\ cookie[b].lag
  /\ cookie' = [cookie EXCEPT ![b].lag = FALSE]
  /\ UNCHANGED <<stores, page, req, signedIn>>

Tick == /\ clock < MaxClock
        /\ clock' = clock + 1
        /\ UNCHANGED <<crossed, revoked, emailOtp, accounts, replica, nonces, info, session, otp,
                       cookie, page, req, signedIn>>

Replicate == /\ replica # accounts
             /\ replica' = accounts
             /\ UNCHANGED <<crossed, revoked, emailOtp, accounts, nonces, clock, info, session, otp,
                            cookie, page, req, signedIn>>

-----------------------------------------------------------------------------
UserStep ==
  \E b \in Browsers :
    \/ \E at \in {"login", "forgot", "reset", "dashboard", "adminLogin", "adminDashboard"} :
         Visit(b, at)
    \/ \E t \in Tickets, pwd \in Passwords \cup {DefaultPassword} :
         SignIn(b, t, pwd) \/ AdminSignIn(b, t, pwd)
    \/ \E code \in Codes : EnterCode(b, code) \/ EnterAdminCode(b, code)
    \/ ResendCode(b) \/ GoBack(b) \/ OpenProfile(b)
    \/ SignOut(b) \/ AdminSignOut(b) \/ CancelSetUp(b)
    \/ \E t \in Tickets : ForgotPassword(b, t)
    \/ \E t \in People, code \in Codes, new \in Passwords : ResetPassword(b, t, code, new)
    \/ \E pwd, new \in Passwords :
         ChangePassword(b, pwd, new) \/ ChangeAdminPassword(b, pwd, new) \/ EnablePortal(b, pwd, new)
    \/ \E pwd \in Passwords \cup {DefaultPassword}, new \in Passwords,
          t \in People \cup {NoOne} : SetUp(b, pwd, new, t)

AdminStep ==
  \E p \in People : \/ \E pwd \in Passwords : CreateEmployee(p, pwd) \/ UpdateEmployee(p, pwd)
                     \/ DeleteEmployee(p) \/ Promote(p) \/ RemoveAdmin(p)

FaultStep ==
  \/ \E b \in Browsers : Fail(b) \/ ExpireCookie(b) \/ ExpireLag(b)
  \/ \E portal \in Portals, t \in Tickets : ExpireSession(portal, t)
  \/ \E k \in {"login", "reset", "admin"}, t \in People : ExpireCode(k, t)
  \/ Tick

SystemStep ==
  \/ \E b \in Browsers :
       \/ CheckSession(b) \/ CheckRow(b) \/ SeedRead(b) \/ SeedSet(b) \/ CheckPassword(b)
       \/ \E code \in Codes : MailCode(b, code)
       \/ CheckCode(b) \/ ReadAccount(b) \/ InsertSuccessor(b) \/ ForgetDefault(b)
       \/ CommitNothing(b) \/ CommitPassword(b) \/ CommitSetup(b) \/ CommitPortal(b) \/ StoreSession(b)
       \/ DropCode(b) \/ DropDefault(b) \/ DropSession(b) \/ KeepSession(b) \/ Answer(b)
  \/ Replicate

Next == UserStep \/ AdminStep \/ FaultStep \/ SystemStep

Spec == Init /\ [][Next]_vars

-----------------------------------------------------------------------------
TypeOK ==
  /\ emailOtp \in BOOLEAN /\ crossed \in BOOLEAN /\ revoked \subseteq People
  /\ accounts \in Tables /\ replica \in Tables
  /\ nonces \in 0..MaxNonce /\ clock \in 0..MaxClock /\ info \in 0..nonces
  /\ session \in [Portals -> [Tickets -> Token \cup {NoOne}]]
  /\ otp \in [{"login", "reset", "admin"} -> [People -> Codes \cup {NoOne}]]
  /\ cookie \in [Browsers -> [employee : Token \cup {NoOne}, admin : Token \cup {NoOne},
                               lag : BOOLEAN]]
  /\ page \in [Browsers -> Page] /\ req \in [Browsers -> Request]
  /\ signedIn \in [Browsers -> [Portals -> BOOLEAN]]
  \* An administrator is an employee, and a session is its own ticket's.
  /\ \A p \in Admins(accounts) : accounts.emp[p] # NoOne
  /\ \A portal \in Portals, t \in Tickets :
       session[portal][t] # NoOne => session[portal][t].who = t

(* Whose token the two dependencies would accept now, on the primary.      *)
Accepted(portal, t) ==
  LET k == session[portal][t]
  IN /\ k # NoOne
     /\ IF t = Default THEN info = k.nonce
        ELSE IF portal = "admin" THEN accounts.adm[t] # NoOne /\ accounts.adm[t].nonce = k.nonce
        ELSE accounts.emp[t] # NoOne /\ accounts.emp[t].nonce = k.nonce

(* Whoever has signed in, or set up an account, stays signed in until      *)
(* someone signs in, out or changes the administrator password of the same *)
(* ticket, or enables the employee portal for it, or an administrator      *)
(* deletes the employee or removes the administrator, or the session runs  *)
(* out: no other step of another account, no failed or half-finished       *)
(* request and nothing else done in the other portal ends it.              *)
KeepsSignedIn ==
  \A b \in Browsers, portal \in Portals :
    signedIn[b][portal] =>
      LET k == cookie[b][portal]
      IN k # NoOne /\ session[portal][k.who] = k /\ Accepted(portal, k.who)

(* The control center opens only for an administrator with a row of its    *)
(* own that has finished the set-up, also when its address is typed.  Only *)
(* of somebody who has been removed since may it stay open, or open once   *)
(* more while the replica has the row.                                     *)
SetupFirst ==
  \A b \in Browsers :
    page[b].at = "adminDashboard" /\ page[b].stage # "check" =>
      \/ page[b].who \in Admins(accounts) /\ ~accounts.adm[page[b].who].must
      \/ page[b].who \in revoked

(* Once an administrator exists nobody can act as the default one, however *)
(* sign-ins and several set-ups have interleaved or failed, unless the     *)
(* default administrator was seeded again while a set-up was under way.    *)
DefaultRetired ==
  Admins(accounts) # {} /\ ~crossed => ~Accepted("admin", Default)

(* As long as there is no administrator the default one gets in with its   *)
(* password, also after a set-up that deleted it and then failed.          *)
DefaultGetsIn ==
  \A b \in Browsers : page[b].refused => Admins(accounts) # {}

(* The first read after a successful write goes to the primary: a route    *)
(* guard that asks right after signing in or setting up never sends away   *)
(* somebody who may stay, however far the replica lags.                    *)
FirstReadIsOwn ==
  \A b \in Browsers :
    LET q == PortalOf(page[b].at)
        t == cookie[b][q].who
    IN page[b].bounced /\ signedIn[b][q] /\ (q = "admin" => t \in Admins(accounts))
         => q = "admin" /\ accounts.adm[t].must

(* README: the nonce makes sessions "resistant to token reuse after logout *)
(* or password change": the token that was accepted before the password of *)
(* an employee is changed or reset is not accepted afterwards.             *)
PasswordEndsSessions ==
  [][\A p \in People :
       /\ Accepted("employee", p)
       /\ accounts'.emp[p] # accounts.emp[p]
       => ~(Accepted("employee", p)' /\ session'.employee[p] = session.employee[p])]_vars

(* The docstring of admin_set_employee_password: "Once set, this endpoint  *)
(* cannot be used again."  No request is about to set the password of the  *)
(* employee portal while the portal is enabled.                            *)
EnabledOnce ==
  \A b \in Browsers :
    At(b, "Commit") /\ req[b].kind = "enable" /\ ~Gone(req[b])
      => ~accounts.adm[req[b].who].portal
=============================================================================
