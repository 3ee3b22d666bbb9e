---------------------------- MODULE Assessments ----------------------------
(***************************************************************************)
(* Competency ratings: an employee rates themselves (SelfAssessmentUI), a  *)
(* supervisor reviews what was submitted or edits the stored ratings       *)
(* (StaffAssessmentUI).  A submission waits in Redis, ratings are rows of  *)
(* PostgreSQL, and approving one touches both.                             *)
(*                                                                         *)
(* Both pages keep a copy of what they have loaded in ratingsMap and send  *)
(* the whole copy when the user saves.  Loads are not cancelled: an answer *)
(* is put into ratingsMap whenever it comes.                               *)
(*                                                                         *)
(* A handler is several steps, because other handlers run while it awaits  *)
(* Redis or the database, and any of them can be its last.                 *)
(***************************************************************************)
EXTENDS Naturals, FiniteSets

CONSTANTS
    Staff,        \* employees who are not supervisors
    Supervisor,   \* the pages of supervisors
    Job,
    MaxStar,      \* stars a job can be given (5 in the code)
    MaxLoads,     \* bounds the loads of one page that are in flight
    None

ASSUME StarAssumption == MaxStar \in Nat \ {0}
ASSUME PeopleAssumption ==
    /\ Staff \cap Supervisor = {}
    /\ None \notin Staff \union Supervisor \union {"redis"}
    /\ "redis" \notin Supervisor

\* Ratings of some of the jobs; what a page shows once the jobs are loaded
\* has one for every job.
Star  == 0..MaxStar
Sheet == UNION {[J -> Star] : J \in SUBSET Job}
Blank == [j \in {} |-> 0]

\* A submission, as the list of pending reviews has it.
Review == [who : Staff, sheet : Sheet]

\* ratingsMap of a supervisor's page.  "of" remembers whose data it is.
Form == [sheet : Sheet, of : Staff \union {None}]

VARIABLES
    pending,    \* pending[s]: the Redis key assessment:pending:s
    ratings,    \* ratings[s]: the rows of employee_job_ratings
    mine,       \* mine[s]: the self-assessment page of s
    page,       \* page[u]: the page of supervisor u
    loads,      \* loads[u]: GETs of ratings whose answer is to come
    serve,      \* serve[u]: the request of u that is being handled
    due,        \* due[s]: who owes an answer to the latest submission of s
    calm        \* calm[u]: no load was under way or has failed since u chose

vars == <<pending, ratings, mine, page, loads, serve, due, calm>>

Closed  == [at |-> "closed", form |-> Blank, pend |-> None, appr |-> Blank]
NewPage == [tab |-> "approved", staff |-> None, review |-> None, list |-> {},
            form |-> [sheet |-> Blank, of |-> None],
            dialog |-> FALSE, busy |-> FALSE, reload |-> "jobs"]

\* The self-assessment page, the supervisor's page, a load of ratings and a
\* request being handled.
SelfPage == [at : {"closed", "get", "rows", "idle", "sending"}, form : Sheet,
             pend : Sheet \union {None}, appr : Sheet]
StaffPage == [tab : {"approved", "pending"}, staff : Staff \union {None},
              review : Review \union {None}, list : SUBSET Review, form : Form,
              dialog : BOOLEAN, busy : BOOLEAN, reload : {"idle", "jobs", "list"}]
Load == [who : Staff, got : Sheet \union {None}]
Request == [op : {"approve", "reject", "save", "clear"}, who : Staff, sheet : Sheet,
            seen : Sheet, at : {"sent", "found", "read", "taken", "done", "failed"}]

\* None is neither a sheet, a review nor a request.
ASSUME NoneAssumption == None \notin Sheet \union Review \union Request

TypeOK ==
    /\ pending \in [Staff -> Sheet \union {None}]
    /\ ratings \in [Staff -> Sheet]
    /\ mine \in [Staff -> SelfPage]
    /\ page \in [Supervisor -> StaffPage]
    /\ loads \in [Supervisor -> SUBSET Load]
    /\ serve \in [Supervisor -> Request \union {None}]
    /\ due \in [Staff -> Supervisor \union {"redis", None}]
    /\ calm \in [Supervisor -> BOOLEAN]
    \* The controls of a tab are those of its own selection.
    /\ \A u \in Supervisor :
        /\ page[u].staff # None => page[u].tab = "approved"
        /\ page[u].review # None => page[u].tab = "pending"
        /\ serve[u] # None => page[u].busy

Init ==
    /\ pending = [s \in Staff |-> None]
    /\ ratings = [s \in Staff |-> Blank]
    /\ mine = [s \in Staff |-> Closed]
    /\ page = [u \in Supervisor |-> NewPage]
    /\ loads = [u \in Supervisor |-> {}]
    /\ serve = [u \in Supervisor |-> None]
    /\ due = [s \in Staff |-> None]
    /\ calm = [u \in Supervisor |-> TRUE]

\* Every job is rated 0 unless s rates it.
Filled(s) == [j \in Job |-> IF j \in DOMAIN s THEN s[j] ELSE 0]

\* s with the ratings of t where t has one.
Over(s, t) == [j \in DOMAIN s \union DOMAIN t |-> IF j \in DOMAIN t THEN t[j] ELSE s[j]]

\* handleStarClick: the same star again means none.
Clicked(s, j, n) ==
    LET old == IF j \in DOMAIN s THEN s[j] ELSE 0
    IN Over(s, [k \in {j} |-> IF old = n THEN 0 ELSE n])

-----------------------------------------------------------------------------
(* The self-assessment page.                                               *)

\* What the page offers: the jobs with their stars once they have loaded,
\* going back to what is approved when something is, and submitting unless
\* a submission or the refresh after it is under way.
Rateable(s)  == mine[s].form # Blank
CanReset(s)  == Rateable(s) /\ mine[s].appr # Blank
CanSubmit(s) == Rateable(s) /\ mine[s].at = "idle"

\* Mounting the page, or submitting, starts fetchAssessmentData.
OpenSelf(s) ==
    /\ mine[s].at \in {"closed", "idle"}
    /\ mine' = [mine EXCEPT ![s] = [Closed EXCEPT !.at = "get"]]
    /\ UNCHANGED <<pending, ratings, page, loads, serve, due, calm>>

\* get_self_assessment reads Redis first and the table afterwards.
GetSelf(s) ==
    /\ mine[s].at = "get"
    /\ mine' = [mine EXCEPT ![s].pend = pending[s], ![s].at = "rows"]
    /\ UNCHANGED <<pending, ratings, page, loads, serve, due, calm>>

ShowSelf(s) ==
    /\ mine[s].at = "rows"
    /\ LET p == mine[s].pend
           approved == Filled(ratings[s])
       IN mine' = [mine EXCEPT ![s].appr = ratings[s],
                               ![s].form = IF p = None THEN approved ELSE Over(approved, p),
                               ![s].at = "idle"]
    /\ UNCHANGED <<pending, ratings, page, loads, serve, due, calm>>

RateSelf(s) ==
    /\ Rateable(s)
    /\ \E j \in Job, n \in Star \ {0} : mine' = [mine EXCEPT ![s].form = Clicked(@, j, n)]
    /\ UNCHANGED <<pending, ratings, page, loads, serve, due, calm>>

\* handleResetToApproved.
ResetSelf(s) ==
    /\ CanReset(s)
    /\ mine' = [mine EXCEPT ![s].form = Filled(mine[s].appr)]
    /\ UNCHANGED <<pending, ratings, page, loads, serve, due, calm>>

\* handleSubmit.
SubmitSelf(s) ==
    /\ CanSubmit(s)
    /\ mine' = [mine EXCEPT ![s].at = "sending"]
    /\ UNCHANGED <<pending, ratings, page, loads, serve, due, calm>>

\* submit_self_assessment overwrites what may be there.
StoreSelf(s) ==
    /\ mine[s].at = "sending"
    /\ pending' = [pending EXCEPT ![s] = mine[s].form]
    /\ due' = [due EXCEPT ![s] = "redis"]
    /\ mine' = [mine EXCEPT ![s].at = "get"]
    /\ UNCHANGED <<ratings, page, loads, serve, calm>>

\* Any of these requests fails: the page says so and keeps what it has.
FailSelf(s) ==
    /\ mine[s].at \in {"get", "rows", "sending"}
    /\ mine' = [mine EXCEPT ![s].at = IF Rateable(s) THEN "idle" ELSE "closed"]
    /\ UNCHANGED <<pending, ratings, page, loads, serve, due, calm>>

-----------------------------------------------------------------------------
(* The supervisor's page: what it offers, and its effects.                 *)

\* The directory of a tab.
CanSelect(u, s)   == page[u].tab = "approved" /\ s \in Staff
CanReview(u, r)   == page[u].tab = "pending" /\ r \in page[u].list

\* The editor of stored ratings, the review of a submission, the remarks
\* dialog of a rejection.
EditorOpen(u)     == page[u].tab = "approved" /\ page[u].staff # None
ReviewOpen(u)     == page[u].tab = "pending" /\ page[u].review # None
DialogOpen(u)     == page[u].dialog /\ page[u].review # None

\* The employee whose name is shown above the stars.
Named(u) == IF EditorOpen(u) THEN page[u].staff ELSE page[u].review.who

\* The effect on selectedPending: its ratings go into the form.
ReviewForm(r) ==
    IF r = None THEN [sheet |-> Blank, of |-> None]
    ELSE [sheet |-> Filled(r.sheet), of |-> r.who]

\* The effect on selectedStaff: nobody selected clears the form, somebody
\* starts a load and leaves the form alone.
StartLoad(u, s) ==
    IF s = None THEN UNCHANGED loads
    ELSE /\ Cardinality(loads[u]) < MaxLoads
         /\ loads' = [loads EXCEPT ![u] = @ \union {[who |-> s, got |-> None]}]

\* Leaving the page and coming back; answers to the old page are dropped.
OpenPage(u) ==
    /\ ~page[u].busy
    /\ page' = [page EXCEPT ![u] = NewPage]
    /\ loads' = [loads EXCEPT ![u] = {}]
    /\ calm' = [calm EXCEPT ![u] = TRUE]
    /\ UNCHANGED <<pending, ratings, mine, serve, due>>

\* Variant: the other tab's selection stays.
SwitchTabKeeping(u) ==
    /\ page' = [page EXCEPT ![u].tab = IF @ = "approved" THEN "pending" ELSE "approved"]
    /\ UNCHANGED <<pending, ratings, mine, loads, serve, due, calm>>

\* Both tab buttons drop the selection of the tab that is left, and with it
\* the form.
SwitchTab(u) ==
    /\ page' = [page EXCEPT
        ![u].tab = IF @ = "approved" THEN "pending" ELSE "approved",
        ![u].staff = None,
        ![u].review = None,
        ![u].form = IF page[u].staff = None /\ page[u].review = None
                    THEN @ ELSE [sheet |-> Blank, of |-> None]]
    /\ UNCHANGED <<pending, ratings, mine, loads, serve, due, calm>>

SelectStaff(u, s) ==
    /\ CanSelect(u, s) /\ s # page[u].staff
    /\ page' = [page EXCEPT ![u].staff = s]
    /\ StartLoad(u, s)
    /\ calm' = [calm EXCEPT ![u] = loads[u] = {}]
    /\ UNCHANGED <<pending, ratings, mine, serve, due>>

\* Variant: the form is filled when a submission is opened, not when another
\* one is.
SelectReviewOnce(u, r) ==
    /\ CanReview(u, r) /\ r # page[u].review
    /\ page' = [page EXCEPT
        ![u].review = r,
        ![u].form = IF page[u].review = None THEN ReviewForm(r) ELSE @]
    /\ calm' = [calm EXCEPT ![u] = loads[u] = {}]
    /\ UNCHANGED <<pending, ratings, mine, loads, serve, due>>

SelectReview(u, r) ==
    /\ CanReview(u, r) /\ r # page[u].review
    /\ page' = [page EXCEPT ![u].review = r, ![u].form = ReviewForm(r)]
    /\ calm' = [calm EXCEPT ![u] = loads[u] = {}]
    /\ UNCHANGED <<pending, ratings, mine, loads, serve, due>>

\* get_staff_ratings reads the table ...
ServeLoad(u, m) ==
    /\ m \in loads[u] /\ m.got = None
    /\ loads' = [loads EXCEPT ![u] =
        (@ \ {m}) \union {[m EXCEPT !.got = ratings[m.who]]}]
    /\ UNCHANGED <<pending, ratings, mine, page, serve, due, calm>>

\* ... and its answer goes into the form, whoever is selected by then.
LoadArrives(u, m) ==
    /\ m \in loads[u] /\ m.got # None
    /\ loads' = [loads EXCEPT ![u] = @ \ {m}]
    /\ page' = [page EXCEPT ![u].form = [sheet |-> Filled(m.got), of |-> m.who]]
    /\ UNCHANGED <<pending, ratings, mine, serve, due, calm>>

LoadFails(u, m) ==
    /\ m \in loads[u]
    /\ loads' = [loads EXCEPT ![u] = @ \ {m}]
    /\ calm' = [calm EXCEPT ![u] = FALSE]
    /\ UNCHANGED <<pending, ratings, mine, page, serve, due>>

\* fetchRegistryData: new jobs make both effects run again, in this order;
\* the list of pending submissions comes last.
ReloadJobs(u) ==
    /\ page[u].reload = "jobs"
    /\ page' = [page EXCEPT ![u].reload = "list", ![u].form = ReviewForm(page[u].review)]
    /\ StartLoad(u, page[u].staff)
    /\ UNCHANGED <<pending, ratings, mine, serve, due, calm>>

ReloadList(u) ==
    /\ page[u].reload = "list"
    /\ page' = [page EXCEPT
        ![u].reload = "idle",
        ![u].busy = serve[u] # None,
        ![u].list = {[who |-> s, sheet |-> pending[s]] : s \in {t \in Staff : pending[t] # None}}]
    /\ UNCHANGED <<pending, ratings, mine, loads, serve, due, calm>>

ReloadFails(u) ==
    /\ page[u].reload # "idle"
    /\ page' = [page EXCEPT ![u].reload = "idle", ![u].busy = serve[u] # None]
    /\ UNCHANGED <<pending, ratings, mine, loads, serve, due, calm>>

RateStaff(u) ==
    /\ EditorOpen(u) \/ ReviewOpen(u)
    /\ \E j \in Job, n \in Star \ {0} :
        page' = [page EXCEPT ![u].form =
            [sheet |-> Clicked(@.sheet, j, n), of |-> IF @.of = None THEN Named(u) ELSE @.of]]
    /\ UNCHANGED <<pending, ratings, mine, loads, serve, due, calm>>

OpenDialog(u) ==
    /\ ReviewOpen(u) /\ ~page[u].busy
    /\ page' = [page EXCEPT ![u].dialog = TRUE]
    /\ UNCHANGED <<pending, ratings, mine, loads, serve, due, calm>>

CancelDialog(u) ==
    /\ DialogOpen(u)
    /\ page' = [page EXCEPT ![u].dialog = FALSE]
    /\ UNCHANGED <<pending, ratings, mine, loads, serve, due, calm>>

\* handleSaveDirect, handleDeleteAll, handleApprove, handleRejectConfirm:
\* each sends the whole form, and disables the other three.
Ask(u, op) ==
    /\ ~page[u].busy
    /\ \/ op \in {"save", "clear"} /\ EditorOpen(u)
       \/ op = "approve" /\ ReviewOpen(u)
       \/ op = "reject" /\ DialogOpen(u)
    /\ page' = [page EXCEPT ![u].busy = TRUE]
    /\ serve' = [serve EXCEPT ![u] =
        [op |-> op, who |-> Named(u), sheet |-> page[u].form.sheet, seen |-> Blank, at |-> "sent"]]
    /\ UNCHANGED <<pending, ratings, mine, loads, due, calm>>

\* The request succeeded: its selection and dialog are dropped, or its form
\* is zeroed, whatever the user has turned to in the meantime, and the page
\* reloads.
Succeeded(u) ==
    LET op == serve[u].op IN
    /\ serve[u] # None /\ serve[u].at = "done"
    /\ serve' = [serve EXCEPT ![u] = None]
    /\ page' = [page EXCEPT
        ![u].review = IF op \in {"approve", "reject"} THEN None ELSE @,
        ![u].form   = CASE op = "clear" -> [sheet |-> Filled(Blank), of |-> None]
                        [] op \in {"approve", "reject"} /\ page[u].review # None ->
                             [sheet |-> Blank, of |-> None]
                        [] OTHER -> @,
        ![u].dialog = IF op = "reject" THEN FALSE ELSE @,
        ![u].reload = "jobs"]
    /\ UNCHANGED <<pending, ratings, mine, loads, due, calm>>

\* It failed, or its answer is lost: the page shows an error.
Failed(u, at) ==
    /\ serve[u] # None /\ serve[u].at = at
    /\ serve' = [serve EXCEPT ![u] = None]
    /\ page' = [page EXCEPT ![u].busy = FALSE]
    /\ UNCHANGED <<pending, ratings, mine, loads, due, calm>>

-----------------------------------------------------------------------------
(* approve_assessment, reject_assessment, save_staff_ratings_direct,       *)
(* delete_all_staff_ratings.                                               *)

Reviewing(u) == serve[u].op \in {"approve", "reject"}

\* EXISTS: a review of nothing is refused (404).
CheckExists(u) ==
    /\ serve[u] # None /\ serve[u].at = "sent"
    /\ serve' = [serve EXCEPT ![u].at =
        IF Reviewing(u) /\ pending[serve[u].who] = None THEN "failed" ELSE "found"]
    /\ UNCHANGED <<pending, ratings, mine, page, loads, due, calm>>

\* SELECT the rows to update or to delete.
ReadRatings(u) ==
    /\ serve[u] # None /\ serve[u].at = "found"
    /\ serve' = [serve EXCEPT ![u].seen = ratings[serve[u].who], ![u].at = "read"]
    /\ UNCHANGED <<pending, ratings, mine, page, loads, due, calm>>

\* DEL, before anything is committed.
TakePending(u) ==
    LET s == serve[u].who IN
    /\ serve[u] # None /\ serve[u].at = "read" /\ Reviewing(u)
    /\ serve' = [serve EXCEPT ![u].at = "taken"]
    /\ pending' = [pending EXCEPT ![s] = None]
    /\ due' = [due EXCEPT ![s] = IF pending[s] = None THEN @ ELSE u]
    /\ UNCHANGED <<ratings, mine, page, loads, calm>>

\* The session writes what differs from what it has read: rows it did not
\* find are inserted, those whose rating differs updated.
Inserts(u) == DOMAIN serve[u].sheet \ DOMAIN serve[u].seen
Updates(u) == {j \in DOMAIN serve[u].sheet \cap DOMAIN serve[u].seen :
                  serve[u].sheet[j] # serve[u].seen[j]}

\* A row inserted by somebody else in the meantime is a conflict of keys, a
\* row deleted by somebody else is one UPDATE too few: both fail.
Conflict(u) ==
    /\ serve[u].op \in {"approve", "save"}
    /\ \/ Inserts(u) \cap DOMAIN ratings[serve[u].who] # {}
       \/ ~(Updates(u) \subseteq DOMAIN ratings[serve[u].who])

Written(u) ==
    LET old == ratings[serve[u].who]
        new == serve[u].sheet
    IN CASE serve[u].op = "reject" -> old
         [] serve[u].op = "clear" -> [j \in DOMAIN old \ DOMAIN serve[u].seen |-> old[j]]
         [] OTHER -> Over(old, [j \in Inserts(u) \union Updates(u) |-> new[j]])

\* Who owes an answer once u's handler has ended: it answered the employee
\* by a notification, or the supervisor by an error.
Discharged(u) == [due EXCEPT ![serve[u].who] = IF @ = u THEN None ELSE @]

\* Variant: the rejection forgets the notification.
CommitNoNotice(u) ==
    /\ serve[u] # None /\ ~Conflict(u)
    /\ serve[u].at = IF Reviewing(u) THEN "taken" ELSE "read"
    /\ ratings' = [ratings EXCEPT ![serve[u].who] = Written(u)]
    /\ serve' = [serve EXCEPT ![u].at = "done"]
    /\ due' = IF serve[u].op = "reject" THEN due ELSE Discharged(u)
    /\ UNCHANGED <<pending, mine, page, loads, calm>>

\* COMMIT of the ratings, with the notification in the case of a review.
Commit(u) ==
    /\ serve[u] # None /\ ~Conflict(u)
    /\ serve[u].at = IF Reviewing(u) THEN "taken" ELSE "read"
    /\ ratings' = [ratings EXCEPT ![serve[u].who] = Written(u)]
    /\ serve' = [serve EXCEPT ![u].at = "done"]
    /\ due' = Discharged(u)
    /\ UNCHANGED <<pending, mine, page, loads, calm>>

\* A statement, Redis or the COMMIT fails: rollback, 500.
Abort(u) ==
    /\ serve[u] # None /\ serve[u].at \in {"sent", "found", "read", "taken"}
    /\ serve' = [serve EXCEPT ![u].at = "failed"]
    /\ due' = Discharged(u)
    /\ UNCHANGED <<pending, ratings, mine, page, loads, calm>>

\* delete_single_staff_rating, which no page calls.
DeleteRating(s, j) ==
    /\ j \in DOMAIN ratings[s]
    /\ ratings' = [ratings EXCEPT ![s] = [k \in DOMAIN @ \ {j} |-> @[k]]]
    /\ UNCHANGED <<pending, mine, page, loads, serve, due, calm>>

-----------------------------------------------------------------------------
UserStep ==
    \/ \E s \in Staff : OpenSelf(s) \/ RateSelf(s) \/ ResetSelf(s) \/ SubmitSelf(s)
    \/ \E s \in Staff, j \in Job : DeleteRating(s, j)
    \/ \E u \in Supervisor :
        \/ OpenPage(u) \/ SwitchTab(u) \/ RateStaff(u) \/ OpenDialog(u) \/ CancelDialog(u)
        \/ \E s \in Staff : SelectStaff(u, s)
        \/ \E r \in page[u].list : SelectReview(u, r)
        \/ \E op \in {"approve", "reject", "save", "clear"} : Ask(u, op)

Handler(u) ==
    \/ CheckExists(u) \/ ReadRatings(u) \/ TakePending(u) \/ Commit(u)

SystemStep ==
    \/ \E s \in Staff : GetSelf(s) \/ ShowSelf(s) \/ StoreSelf(s)
    \/ \E u \in Supervisor :
        \/ Handler(u) \/ Succeeded(u) \/ Failed(u, "failed")
        \/ ReloadJobs(u) \/ ReloadList(u)
        \/ \E m \in loads[u] : ServeLoad(u, m) \/ LoadArrives(u, m)

FaultStep ==
    \/ \E s \in Staff : FailSelf(s)
    \/ \E u \in Supervisor :
        \/ Abort(u) \/ Failed(u, "done") \/ ReloadFails(u)
        \/ \E m \in loads[u] : LoadFails(u, m)

Next == UserStep \/ SystemStep \/ FaultStep

Spec == Init /\ [][Next]_vars

-----------------------------------------------------------------------------
(* Properties.                                                             *)

\* A submission does not vanish: until it is replaced by its author, it is
\* in Redis, or in the hands of a handler that removed it and has not ended,
\* which will notify the employee or report an error to the supervisor.
\* The key is deleted before the commit, by handlers that may run at the
\* same time, while the employee may submit again.
NeverVanishes ==
    \A s \in Staff :
        /\ due[s] = "redis" => pending[s] # None
        /\ \A u \in Supervisor :
            due[s] = u => serve[u] # None /\ serve[u].at = "taken" /\ serve[u].who = s

\* A supervisor who lets a load end before choosing somebody else, and gets
\* no error, sees and saves the ratings of the employee whose name is shown:
\* reloads, effects and requests under way do not bring in anybody else's.
OwnWhenCalm ==
    \A u \in Supervisor :
        calm[u] /\ loads[u] = {} /\ (EditorOpen(u) \/ ReviewOpen(u))
            => page[u].form.of \in {Named(u), None}

\* What a supervisor saves for an employee is what was loaded for that
\* employee, with the stars the supervisor changed ("Directly updated
\* competency ratings for ...", "Self-assessment for ... approved").
SavesOwnRatings ==
    [][\A u \in Supervisor, op \in {"approve", "save"} :
        Ask(u, op) => page[u].form.of \in {Named(u), None}]_vars
=============================================================================
