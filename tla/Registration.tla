--------------------------- MODULE Registration ---------------------------
(***************************************************************************)
(* How a new employee gets an account.  An applicant fills in RegisterPage *)
(* and, when e-mail codes are on, VerifyOtpPage; the answers wait in Redis *)
(* until the code is entered and become a row of registration_requests.    *)
(* An administrator decides about the row in RegistrationRequestsManager,  *)
(* which works on a list and a dialog that are copies of earlier rows.     *)
(*                                                                         *)
(* Of a form the model keeps the ticket number and the e-mail address, the *)
(* two fields the handlers look at.  A code sent by e-mail is modelled by  *)
(* the address it went to: only who reads that mail can enter it.          *)
(*                                                                         *)
(* Handlers await Redis and the database, so a handler is several steps    *)
(* and others run in between.                                              *)
(***************************************************************************)
EXTENDS Naturals, FiniteSets

CONSTANTS
    Applicant,   \* browsers at the registration pages
    Admin,       \* browsers at the requests manager
    Ticket,
    Mail,
    Code,        \* registration codes; bounds the number of requests
    MaxLoads,    \* bounds the lists of one manager that are under way
    None

Status == {"PENDING", "APPROVED", "REJECTED", "EXPIRED"}

\* The status filter of the manager.
Filter == Status \union {"ALL"}

\* A row.  "proof" is the address whose code was entered for it, "late" that
\* valid_until has passed.
Request == [ticket : Ticket, mail : Mail, status : Status, late : BOOLEAN, proof : Mail]

\* An employee; from is the request they come from.
Account == [mail : Mail, from : Code \union {None}]

\* The page of an applicant, and the request of it that is being handled.
Desk == [at : {"form", "otp", "slip"}, ticket : Ticket \union {None},
         mail : Mail \union {None}, slip : Code \union {None}]
Serving == [op : {"register", "verify", "resend"}, ticket : Ticket, mail : Mail,
            at : {"sent", "free", "stored", "known", "loaded", "clear", "cleaning"},
            temp : Mail \union {None}, code : Code \union {None}]

\* A request as the manager's list has it, the manager, a list that is under
\* way and a decision.
Row == [code : Code, status : Status]
Manager == [filter : Filter, list : SUBSET Row, sel : Code \union {None},
            busy : BOOLEAN, loading : BOOLEAN]
Listing == [filter : Filter, at : {"sent", "found", "checked", "served"},
            past : SUBSET Code, found : SUBSET Code, rows : SUBSET Row]
Deciding == [op : {"APPROVE", "REJECT", "PENDING", "extend"}, code : Code,
             filter : Filter, seen : Status \union {None}]

\* None is none of the values it stands in for.
ASSUME NoneAssumption ==
    None \notin Ticket \union Mail \union Code \union Request \union Account
                  \union Serving \union Deciding

VARIABLES
    emailOtp,    \* the setting ENABLE_EMAIL_OTP
    requests,    \* the table registration_requests, by code
    accounts,    \* accounts[t]: the employee with ticket t and the request they come from
    temp,        \* temp[t]: the address in the Redis key temp_reg:t
    otp,         \* otp[t]: the address the code in otp:reg:t was sent to
    desk,        \* desk[a]: the page of applicant a
    serve,       \* serve[a]: the request of a that is being handled
    manager,     \* manager[u]: the page of administrator u
    loads,       \* loads[u]: lists of u that are under way
    act,         \* act[u]: the decision of u that is being handled
    mixed,       \* tickets whose handlers have overlapped or failed half-way
    dropped,     \* approved requests whose account was deleted since
    calm         \* calm[u]: the lists of u came one at a time, and none failed

applicantVars == <<temp, otp, desk, serve, mixed>>
managerVars   == <<manager, loads, act, calm>>
vars == <<emailOtp, requests, accounts, dropped, applicantVars, managerVars>>

\* The pages as they are mounted.
NewDesk    == [at |-> "form", ticket |-> None, mail |-> None, slip |-> None]
NewManager == [filter |-> "ALL", list |-> {}, sel |-> None, busy |-> FALSE,
               loading |-> TRUE]
Load(f)    == [filter |-> f, at |-> "sent", past |-> {}, found |-> {}, rows |-> {}]

TypeOK ==
    /\ emailOtp \in BOOLEAN
    /\ requests \in [Code -> Request \union {None}]
    /\ accounts \in [Ticket -> Account \union {None}]
    /\ temp \in [Ticket -> Mail \union {None}]
    /\ otp \in [Ticket -> Mail \union {None}]
    /\ desk \in [Applicant -> Desk]
    /\ serve \in [Applicant -> Serving \union {None}]
    /\ manager \in [Admin -> Manager]
    /\ loads \in [Admin -> SUBSET Listing]
    /\ act \in [Admin -> Deciding \union {None}]
    /\ mixed \subseteq Ticket
    /\ dropped \subseteq Code
    /\ calm \in [Admin -> BOOLEAN]
    \* A slip is shown with its code, and a decision has its button pressed.
    /\ \A a \in Applicant : desk[a].at = "slip" <=> desk[a].slip # None
    /\ \A u \in Admin : /\ manager[u].busy <=> act[u] # None
                        /\ manager[u].loading => loads[u] # {}

Init ==
    /\ emailOtp \in BOOLEAN
    /\ requests = [c \in Code |-> None]
    /\ accounts = [t \in Ticket |-> None]
    /\ temp = [t \in Ticket |-> None]
    /\ otp = [t \in Ticket |-> None]
    /\ desk = [a \in Applicant |-> NewDesk]
    /\ serve = [a \in Applicant |-> None]
    /\ manager = [u \in Admin |-> NewManager]
    /\ loads = [u \in Admin |-> {Load("ALL")}]
    /\ act = [u \in Admin |-> None]
    /\ mixed = {}
    /\ dropped = {}
    /\ calm = [u \in Admin |-> TRUE]

Stored == {c \in Code : requests[c] # None}

\* Nobody has an account under t or m.
Unused(t, m) ==
    /\ accounts[t] = None
    /\ \A s \in Ticket : accounts[s] # None => accounts[s].mail # m

-----------------------------------------------------------------------------
(* The applicant's pages.                                                  *)

\* What the pages offer: the form with its button, the code form, asking for
\* another code once the shown countdown has run out (time is left out, so at
\* any time), and the slip.  A page waits for the answer to what it has sent.
CanRegister(a) == desk[a].at = "form" /\ serve[a] = None
CanVerify(a)   == desk[a].at = "otp" /\ serve[a] = None
CanResend(a)   == desk[a].at = "otp" /\ serve[a] = None
SlipShown(a)   == desk[a].at = "slip"

\* A handler starts for ticket t while another is at work on it.
Overlapping(a, t) == \E b \in Applicant \ {a} : serve[b] # None /\ serve[b].ticket = t

Send(a, op, t, m) ==
    /\ serve' = [serve EXCEPT ![a] = [op |-> op, ticket |-> t, mail |-> m, at |-> "sent",
                                      temp |-> None, code |-> None]]
    /\ mixed' = IF Overlapping(a, t) THEN mixed \union {t} ELSE mixed

\* handleRegister, the form having passed its checks.
Register(a) ==
    /\ CanRegister(a)
    /\ \E t \in Ticket, m \in Mail :
        /\ desk' = [desk EXCEPT ![a] = [NewDesk EXCEPT !.ticket = t, !.mail = m]]
        /\ Send(a, "register", t, m)
    /\ UNCHANGED <<emailOtp, requests, accounts, dropped, temp, otp, managerVars>>

\* handleVerify, with a code of six digits.
Verify(a) ==
    /\ CanVerify(a)
    /\ Send(a, "verify", desk[a].ticket, desk[a].mail)
    /\ UNCHANGED <<emailOtp, requests, accounts, dropped, temp, otp, desk, managerVars>>

\* handleResendOtp.
Resend(a) ==
    /\ CanResend(a)
    /\ Send(a, "resend", desk[a].ticket, desk[a].mail)
    /\ UNCHANGED <<emailOtp, requests, accounts, dropped, temp, otp, desk, managerVars>>

\* Variant: the slip is not cleared.
StartOverKeeping(a) ==
    /\ SlipShown(a) \/ CanVerify(a)
    /\ desk' = [desk EXCEPT ![a].at = "form"]
    /\ UNCHANGED <<emailOtp, requests, accounts, dropped, temp, otp, serve, mixed, managerVars>>

\* Closing the slip leads to the login page, "Start over" to an empty form.
StartOver(a) ==
    /\ SlipShown(a) \/ CanVerify(a)
    /\ desk' = [desk EXCEPT ![a] = NewDesk]
    /\ UNCHANGED <<emailOtp, requests, accounts, dropped, temp, otp, serve, mixed, managerVars>>

Doing(a, op, at) == serve[a] # None /\ serve[a].op = op /\ serve[a].at = at

Answer(a, page) ==
    /\ serve' = [serve EXCEPT ![a] = None]
    /\ desk' = [desk EXCEPT ![a] = page]

\* The page that shows the slip of request c.
Slip(a, c) == [desk[a] EXCEPT !.at = "slip", !.slip = c]

Step(a, at) == serve' = [serve EXCEPT ![a].at = at] /\ UNCHANGED desk

-----------------------------------------------------------------------------
(* The handlers of auth/router.py.                                         *)

\* Variant: looks for any open request.
OpenAnyway(t, m) == {c \in Stored : requests[c].status = "PENDING"}

\* Open requests that register takes for the applicant's own.
OpenFor(t, m) ==
    {c \in Stored : /\ requests[c].status = "PENDING"
                    /\ requests[c].ticket = t \/ requests[c].mail = m}

\* register: the account must be new; an open request is answered with its
\* own slip.
CheckRegister(a) ==
    /\ Doing(a, "register", "sent")
    /\ LET t == serve[a].ticket
           m == serve[a].mail
       IN \/ ~Unused(t, m) /\ Answer(a, desk[a])
          \/ Unused(t, m) /\ \E c \in OpenFor(t, m) : Answer(a, Slip(a, c))
          \/ Unused(t, m) /\ OpenFor(t, m) = {} /\ Step(a, "free")
    /\ UNCHANGED <<emailOtp, requests, accounts, dropped, temp, otp, mixed, managerVars>>

\* The answers and the code are two keys.
StoreTemp(a) ==
    /\ emailOtp /\ Doing(a, "register", "free")
    /\ temp' = [temp EXCEPT ![serve[a].ticket] = serve[a].mail]
    /\ Step(a, "stored")
    /\ UNCHANGED <<emailOtp, requests, accounts, dropped, otp, mixed, managerVars>>

StoreOtp(a) ==
    /\ Doing(a, "register", "stored")
    /\ otp' = [otp EXCEPT ![serve[a].ticket] = serve[a].mail]
    /\ Answer(a, [desk[a] EXCEPT !.at = "otp"])
    /\ UNCHANGED <<emailOtp, requests, accounts, dropped, temp, mixed, managerVars>>

\* An unused code for a row with address m, proved by a code sent to p.
Insert(c, t, m, p) ==
    /\ requests[c] = None
    /\ requests' = [requests EXCEPT ![c] =
          [ticket |-> t, mail |-> m, status |-> "PENDING", late |-> FALSE, proof |-> p]]

\* Without e-mail codes register inserts the request itself.
InsertDirectly(a) ==
    /\ ~emailOtp /\ Doing(a, "register", "free")
    /\ \E c \in Code :
        /\ Insert(c, serve[a].ticket, serve[a].mail, serve[a].mail)
        /\ Answer(a, Slip(a, c))
    /\ UNCHANGED <<emailOtp, accounts, dropped, temp, otp, mixed, managerVars>>

\* verify_otp: the code must be the stored one.  Whoever has no mail with
\* it, or mistypes it, is refused.
CheckOtp(a) ==
    /\ Doing(a, "verify", "sent")
    /\ \/ otp[serve[a].ticket] = serve[a].mail /\ Step(a, "known")
       \/ Answer(a, desk[a])
    /\ UNCHANGED <<emailOtp, requests, accounts, dropped, temp, otp, mixed, managerVars>>

\* The answers are read after the code.
LoadTemp(a) ==
    /\ Doing(a, "verify", "known")
    /\ LET m == temp[serve[a].ticket]
       IN \/ m = None /\ Answer(a, desk[a])
          \/ /\ m # None
             /\ serve' = [serve EXCEPT ![a].temp = m, ![a].at = "loaded"]
             /\ UNCHANGED desk
    /\ UNCHANGED <<emailOtp, requests, accounts, dropped, temp, otp, mixed, managerVars>>

CheckVerify(a) ==
    /\ Doing(a, "verify", "loaded")
    /\ IF accounts[serve[a].ticket] # None THEN Answer(a, desk[a]) ELSE Step(a, "clear")
    /\ UNCHANGED <<emailOtp, requests, accounts, dropped, temp, otp, mixed, managerVars>>

InsertVerified(a) ==
    /\ Doing(a, "verify", "clear")
    /\ \E c \in Code :
        /\ Insert(c, serve[a].ticket, serve[a].temp, serve[a].mail)
        /\ serve' = [serve EXCEPT ![a].at = "stored", ![a].code = c]
    /\ UNCHANGED <<emailOtp, accounts, dropped, temp, otp, desk, mixed, managerVars>>

\* The keys go once the request is committed.
DropOtp(a) ==
    /\ Doing(a, "verify", "stored")
    /\ otp' = [otp EXCEPT ![serve[a].ticket] = None]
    /\ Step(a, "cleaning")
    /\ UNCHANGED <<emailOtp, requests, accounts, dropped, temp, mixed, managerVars>>

DropTemp(a) ==
    /\ Doing(a, "verify", "cleaning")
    /\ temp' = [temp EXCEPT ![serve[a].ticket] = None]
    /\ Answer(a, Slip(a, serve[a].code))
    /\ UNCHANGED <<emailOtp, requests, accounts, dropped, otp, mixed, managerVars>>

\* resend_otp: to the address in the stored answers.
LoadForResend(a) ==
    /\ Doing(a, "resend", "sent")
    /\ LET m == temp[serve[a].ticket]
       IN \/ (m = None \/ ~emailOtp) /\ Answer(a, desk[a])
          \/ /\ m # None /\ emailOtp
             /\ serve' = [serve EXCEPT ![a].temp = m, ![a].at = "loaded"]
             /\ UNCHANGED desk
    /\ UNCHANGED <<emailOtp, requests, accounts, dropped, temp, otp, mixed, managerVars>>

RenewTemp(a) ==
    /\ Doing(a, "resend", "loaded")
    /\ temp' = [temp EXCEPT ![serve[a].ticket] = serve[a].temp]
    /\ Step(a, "stored")
    /\ UNCHANGED <<emailOtp, requests, accounts, dropped, otp, mixed, managerVars>>

\* Variant: the new code goes to the address the page shows.
ResendOtpToPage(a) ==
    /\ Doing(a, "resend", "stored")
    /\ otp' = [otp EXCEPT ![serve[a].ticket] = serve[a].mail]
    /\ Answer(a, desk[a])
    /\ UNCHANGED <<emailOtp, requests, accounts, dropped, temp, mixed, managerVars>>

ResendOtp(a) ==
    /\ Doing(a, "resend", "stored")
    /\ otp' = [otp EXCEPT ![serve[a].ticket] = serve[a].temp]
    /\ Answer(a, desk[a])
    /\ UNCHANGED <<emailOtp, requests, accounts, dropped, temp, mixed, managerVars>>

\* A handler fails: the page shows an error and keeps its form.
FailServe(a) ==
    /\ serve[a] # None
    /\ mixed' = mixed \union {serve[a].ticket}
    /\ Answer(a, desk[a])
    /\ UNCHANGED <<emailOtp, requests, accounts, dropped, temp, otp, managerVars>>

\* Redis drops a key when its time is up; a code lives shorter than the
\* answers, which resending renews.
ExpireOtp(t) ==
    /\ otp[t] # None
    /\ otp' = [otp EXCEPT ![t] = None]
    /\ UNCHANGED <<emailOtp, requests, accounts, dropped, temp, desk, serve, mixed, managerVars>>

ExpireTemp(t) ==
    /\ temp[t] # None
    /\ otp[t] = None
    /\ temp' = [temp EXCEPT ![t] = None]
    /\ UNCHANGED <<emailOtp, requests, accounts, dropped, otp, desk, serve, mixed, managerVars>>

-----------------------------------------------------------------------------
(* The manager page.                                                       *)

\* What the page offers: the filter, the rows with their button when the
\* list has been loaded, and the dialog of a row with its decisions, which
\* are disabled while one is being handled.
CanFilter(u) == manager[u].sel = None
CanReview(u) == manager[u].sel = None /\ ~manager[u].loading
CanDecide(u) == manager[u].sel # None /\ ~manager[u].busy

StartList(u, f) ==
    /\ Cardinality(loads[u]) < MaxLoads
    /\ loads' = [loads EXCEPT ![u] = @ \union {Load(f)}]

\* Variant: the list is asked for with the filter of before.
ChooseFilterStale(u, f) ==
    /\ CanFilter(u)
    /\ f # manager[u].filter
    /\ StartList(u, manager[u].filter)
    /\ manager' = [manager EXCEPT ![u].filter = f, ![u].loading = TRUE]
    /\ calm' = [calm EXCEPT ![u] = @ /\ loads[u] = {} /\ ~manager[u].busy]
    /\ UNCHANGED <<emailOtp, requests, accounts, dropped, applicantVars, act>>

\* The effect on statusFilter starts a list and does not cancel the last.
ChooseFilter(u, f) ==
    /\ CanFilter(u)
    /\ f # manager[u].filter
    /\ StartList(u, f)
    /\ manager' = [manager EXCEPT ![u].filter = f, ![u].loading = TRUE]
    /\ calm' = [calm EXCEPT ![u] = @ /\ loads[u] = {} /\ ~manager[u].busy]
    /\ UNCHANGED <<emailOtp, requests, accounts, dropped, applicantVars, act>>

\* "Review & Process" opens the dialog on the row as listed.
Review(u, r) ==
    /\ CanReview(u)
    /\ r \in manager[u].list
    /\ manager' = [manager EXCEPT ![u].sel = r.code]
    /\ UNCHANGED <<emailOtp, requests, accounts, dropped, applicantVars, loads, act, calm>>

\* The cross closes the dialog, even while a decision is being handled.
CloseDialog(u) ==
    /\ manager[u].sel # None
    /\ manager' = [manager EXCEPT ![u].sel = None]
    /\ UNCHANGED <<emailOtp, requests, accounts, dropped, applicantVars, loads, act, calm>>

\* handleAction and handleExtendValidity.  The list they will ask for at the
\* end has the filter of now.
Decide(u, op) ==
    /\ CanDecide(u)
    /\ act' = [act EXCEPT ![u] = [op |-> op, code |-> manager[u].sel,
                                  filter |-> manager[u].filter, seen |-> None]]
    /\ manager' = [manager EXCEPT ![u].busy = TRUE]
    /\ UNCHANGED <<emailOtp, requests, accounts, dropped, applicantVars, loads, calm>>

\* The answer under way has come one step further.
Replace(u, l, m) == loads' = [loads EXCEPT ![u] = (@ \ {l}) \union {m}]

\* list_registration_requests notes the time and the open requests that are
\* late by then ...
FindLate(u, l) ==
    /\ l \in loads[u] /\ l.at = "sent"
    /\ LET past  == {c \in Stored : requests[c].late}
           found == {c \in past : requests[c].status = "PENDING"}
       IN Replace(u, l, [l EXCEPT !.past = past, !.found = found,
                                  !.at = IF found = {} THEN "checked" ELSE "found"])
    /\ UNCHANGED <<emailOtp, requests, accounts, dropped, applicantVars, manager, act, calm>>

\* ... expires these, whatever has become of them ...
ExpireLate(u, l) ==
    /\ l \in loads[u] /\ l.at = "found"
    /\ requests' = [c \in Code |-> IF c \in l.found THEN [requests[c] EXCEPT !.status = "EXPIRED"]
                                   ELSE requests[c]]
    /\ Replace(u, l, [l EXCEPT !.at = "checked"])
    /\ UNCHANGED <<emailOtp, accounts, dropped, applicantVars, manager, act, calm>>

\* ... and reads the rows.  The session still has those it expired as it left
\* them, and an open request that was late at the start is shown as expired.
Shown(l, c) ==
    IF c \in l.found \/ (c \in l.past /\ requests[c].late /\ requests[c].status = "PENDING")
    THEN "EXPIRED" ELSE requests[c].status

\* The filter asks for what the table says.
SelectList(u, l) ==
    /\ l \in loads[u] /\ l.at = "checked"
    /\ LET chosen == {c \in Stored : l.filter \in {"ALL", requests[c].status}}
           rows == {[code |-> c, status |-> Shown(l, c)] : c \in chosen}
       IN Replace(u, l, [l EXCEPT !.rows = rows, !.at = "served"])
    /\ UNCHANGED <<emailOtp, requests, accounts, dropped, applicantVars, manager, act, calm>>

ListArrives(u, l) ==
    /\ l \in loads[u] /\ l.at = "served"
    /\ loads' = [loads EXCEPT ![u] = @ \ {l}]
    /\ manager' = [manager EXCEPT ![u].list = l.rows, ![u].loading = FALSE]
    /\ UNCHANGED <<emailOtp, requests, accounts, dropped, applicantVars, act, calm>>

\* The old rows stay.
ListFails(u, l) ==
    /\ l \in loads[u]
    /\ loads' = [loads EXCEPT ![u] = @ \ {l}]
    /\ manager' = [manager EXCEPT ![u].loading = FALSE]
    /\ calm' = [calm EXCEPT ![u] = FALSE]
    /\ UNCHANGED <<emailOtp, requests, accounts, dropped, applicantVars, act>>

-----------------------------------------------------------------------------
(* The handlers of admin/router.py.                                        *)

\* The request is read, whatever its status, and so is the account.
ReadRequest(u) ==
    /\ act[u] # None /\ act[u].seen = None
    /\ LET r == requests[act[u].code]
       IN IF act[u].op = "APPROVE" /\ accounts[r.ticket] # None
          THEN /\ act' = [act EXCEPT ![u] = None]
               /\ manager' = [manager EXCEPT ![u].busy = FALSE]
          ELSE /\ act' = [act EXCEPT ![u].seen = r.status]
               /\ UNCHANGED manager
    /\ UNCHANGED <<emailOtp, requests, accounts, dropped, applicantVars, loads, calm>>

Decision == [APPROVE |-> "APPROVED", REJECT |-> "REJECTED", PENDING |-> "PENDING"]

\* The status after the commit: an attribute that has not changed since it
\* was read is not written.
NewStatus(u) ==
    LET seen == act[u].seen
        now  == requests[act[u].code].status
        new  == IF act[u].op # "extend" THEN Decision[act[u].op]
                ELSE IF seen = "EXPIRED" THEN "PENDING" ELSE seen
    IN IF new = seen THEN now ELSE new

\* take_registration_action and extend_registration_validity commit; the
\* page closes the dialog and asks for the list again.  Added days may still
\* end in the past.
Commit(u) ==
    /\ act[u] # None /\ act[u].seen # None
    /\ LET c == act[u].code
           r == requests[c]
       IN /\ IF act[u].op = "APPROVE"
             THEN /\ Unused(r.ticket, r.mail)
                  /\ accounts' = [accounts EXCEPT ![r.ticket] = [mail |-> r.mail, from |-> c]]
             ELSE UNCHANGED accounts
          /\ \E late \in IF act[u].op = "extend" THEN {FALSE, r.late} ELSE {r.late} :
                requests' = [requests EXCEPT ![c].status = NewStatus(u), ![c].late = late]
          /\ dropped' = IF act[u].op = "APPROVE" THEN dropped \ {c} ELSE dropped
    /\ StartList(u, act[u].filter)
    /\ act' = [act EXCEPT ![u] = None]
    /\ manager' = [manager EXCEPT ![u].sel = None, ![u].busy = FALSE,
                                  ![u].loading = TRUE]
    /\ calm' = [calm EXCEPT ![u] = @ /\ loads[u] = {}]
    /\ UNCHANGED <<emailOtp, applicantVars>>

\* A refused or failed decision changes nothing; the dialog stays open.
Rollback(u) ==
    /\ act' = [act EXCEPT ![u] = None]
    /\ manager' = [manager EXCEPT ![u].busy = FALSE]
    /\ UNCHANGED <<emailOtp, requests, accounts, dropped, applicantVars, loads, calm>>

\* Variant: the status is committed before the account is inserted.
ConflictLate(u) ==
    /\ act[u] # None /\ act[u].op = "APPROVE" /\ act[u].seen # None
    /\ LET r == requests[act[u].code] IN ~Unused(r.ticket, r.mail)
    /\ requests' = [requests EXCEPT ![act[u].code].status = "APPROVED"]
    /\ act' = [act EXCEPT ![u] = None]
    /\ manager' = [manager EXCEPT ![u].busy = FALSE]
    /\ UNCHANGED <<emailOtp, accounts, dropped, applicantVars, loads, calm>>

\* employees refuses a second row with the ticket or the address.
Conflict(u) ==
    /\ act[u] # None /\ act[u].op = "APPROVE" /\ act[u].seen # None
    /\ LET r == requests[act[u].code] IN ~Unused(r.ticket, r.mail)
    /\ Rollback(u)

FailDecision(u) == act[u] # None /\ Rollback(u)

-----------------------------------------------------------------------------
(* The rest of the program.                                                *)

\* valid_until passes.
Lapse(c) ==
    /\ requests[c] # None
    /\ ~requests[c].late
    /\ requests' = [requests EXCEPT ![c].late = TRUE]
    /\ UNCHANGED <<emailOtp, accounts, dropped, applicantVars, managerVars>>

\* The master-data wizard creates and deletes employees.
CreateAccount(t, m) ==
    /\ Unused(t, m)
    /\ accounts' = [accounts EXCEPT ![t] = [mail |-> m, from |-> None]]
    /\ UNCHANGED <<emailOtp, requests, dropped, applicantVars, managerVars>>

\* The wizard, and a change of the default administrator, give an employee
\* another address.
ChangeMail(t, m) ==
    /\ accounts[t] # None
    /\ \A s \in Ticket \ {t} : accounts[s] # None => accounts[s].mail # m
    /\ accounts' = [accounts EXCEPT ![t].mail = m]
    /\ UNCHANGED <<emailOtp, requests, dropped, applicantVars, managerVars>>

DeleteAccount(t) ==
    /\ accounts[t] # None
    /\ accounts' = [accounts EXCEPT ![t] = None]
    /\ dropped' = dropped \union ({accounts[t].from} \ {None})
    /\ UNCHANGED <<emailOtp, requests, applicantVars, managerVars>>

UserStep ==
    \/ \E a \in Applicant : Register(a) \/ Verify(a) \/ Resend(a) \/ StartOver(a)
    \/ \E u \in Admin :
        \/ \E f \in Filter : ChooseFilter(u, f)
        \/ \E r \in manager[u].list : Review(u, r)
        \/ CloseDialog(u)
        \/ \E op \in {"APPROVE", "REJECT", "PENDING", "extend"} : Decide(u, op)
    \/ \E t \in Ticket, m \in Mail : CreateAccount(t, m) \/ ChangeMail(t, m)
    \/ \E t \in Ticket : DeleteAccount(t)

ServeStep(a) ==
    \/ CheckRegister(a) \/ StoreTemp(a) \/ StoreOtp(a) \/ InsertDirectly(a)
    \/ CheckOtp(a) \/ LoadTemp(a) \/ CheckVerify(a) \/ InsertVerified(a)
    \/ DropOtp(a) \/ DropTemp(a)
    \/ LoadForResend(a) \/ RenewTemp(a) \/ ResendOtp(a)

AdminStep(u) ==
    \/ \E l \in loads[u] : \/ FindLate(u, l) \/ ExpireLate(u, l)
                         \/ SelectList(u, l) \/ ListArrives(u, l)
    \/ ReadRequest(u) \/ Commit(u) \/ Conflict(u)

SystemStep == (\E a \in Applicant : ServeStep(a)) \/ (\E u \in Admin : AdminStep(u))

FaultStep ==
    \/ \E a \in Applicant : FailServe(a)
    \/ \E t \in Ticket : ExpireOtp(t) \/ ExpireTemp(t)
    \/ \E u \in Admin : FailDecision(u) \/ \E l \in loads[u] : ListFails(u, l)
    \/ \E c \in Code : Lapse(c)

Next == UserStep \/ SystemStep \/ FaultStep

Spec == Init /\ [][Next]_vars

-----------------------------------------------------------------------------
(* Properties.                                                             *)

\* An approved request has the account that was made for it, under whatever
\* address by now, until the account is deleted: whichever decisions, expiries,
\* direct creations and changes race with the approval
\* (take_registration_action).
ApprovedIsStaff ==
    \A c \in Stored \ dropped :
        requests[c].status = "APPROVED" =>
            /\ accounts[requests[c].ticket] # None
            /\ accounts[requests[c].ticket].from = c

\* A slip names a stored request with the applicant's own ticket number or
\* address, although its answers went through Redis and another applicant
\* may have replaced them (register, verify_otp).
SlipIsOwn ==
    \A a \in Applicant : SlipShown(a) =>
        LET r == requests[desk[a].slip]
        IN r # None /\ (r.ticket = desk[a].ticket \/ r.mail = desk[a].mail)

\* A request carries the address whose code was entered, as long as no two
\* handlers for its ticket number overlapped and none failed half-way:
\* register writes the answers and the code under two keys, and verify_otp
\* reads them one after the other.
VerifiedAddress ==
    \A c \in Stored :
        requests[c].ticket \notin mixed => requests[c].mail = requests[c].proof

\* The manager lists what its filter says, if its lists came one at a time
\* and no filter was chosen while a decision was being handled: nothing else
\* keeps an old answer from replacing a new one (fetchRequests).  Requests
\* shown as expired may come under any filter, since the list shows them so
\* after it has chosen by the table (list_registration_requests).
FilteredWhenCalm ==
    \A u \in Admin :
        calm[u] /\ loads[u] = {} =>
            \A r \in manager[u].list :
                manager[u].filter = "ALL" \/ r.status \in {manager[u].filter, "EXPIRED"}

\* Not even then does a list keep to its filter: another administrator reopens
\* a late request, or decides about one, between the expiry and the reading.
FilteredExactly ==
    \A u \in Admin :
        calm[u] /\ loads[u] = {} =>
            \A r \in manager[u].list : manager[u].filter \in {"ALL", r.status}
=============================================================================
