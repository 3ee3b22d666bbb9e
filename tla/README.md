# Verification of the Loco Works Management System

TLA+ specifications of the parts of LWMS in which something can go wrong that
a test would hardly reach, TLC configurations that check them on small
instances, and proofs that hold for every instance. Paths below are relative to
the repository (`src/` here); `employee_bookings/router.py` and the like are in
`backend/app/features/`, pages are in `frontend/src/features/`.

## 1. The system

LWMS is a FastAPI back end (three identical containers behind nginx), a
PostgreSQL primary with a streaming replica, Redis behind Sentinel, and a React
front end. The scripts `.agents/scripts/test_*.py` call single endpoints (codes,
administrator rights, sliding sessions, ratings, audit rows, views) one after the
other; no test runs two of them at once or lets a step fail. What is promised is read
from README, docstrings, comments, these scripts and messages to the user.

| component | state it keeps | operations | how it interacts |
|---|---|---|---|
| editing lock | Redis key `lock:employee-booking:{date}:{shift}`, 30 s expiry; `lockOwner` and a 15 s interval in two pages | `acquire_lock`, `release_lock`, check in `save_bookings` | pages poll; saves depend on it |
| staff booking | `employee_bookings`, `employee_availability`, `employee_notifications` | `save_bookings`, `update_availabilities`, reads | one click sends several saves; commits, then broadcasts |
| locomotive bookings | `loco_bookings`, `booking_tasks` (foreign key with cascade); form, list and history of a page | `create_booking`, `add_*`, `delete_*`, `update_*` | read by the pages of staff booking and carry-forward |
| carry-forward | `loco_booking_remarks`; the page's copy of a shift | `submit_remarks` | writes the bookings of the next shift |
| sessions | Redis `session:*`, `otp:*`, `default_admin:info`, cookies, nonces in two tables | login, codes, logout, reset, change, set-up, `get_current_user`, `get_current_admin` | every request |
| registration | Redis `temp_reg:*` and `otp:reg:*`, `registration_requests`, `employees` | register, verify, list, approve, reject, reopen | e-mail, master data |
| master data | types, locomotives, jobs, categories, designations, employees, administrators | list, create, update, delete; promotion by code | foreign keys of the bookings |
| assessments | Redis self-assessments, `employee_job_ratings`; `ratingsMap` of two pages | submit, approve, reject, save, delete | Redis and PostgreSQL in one operation |
| notices, chat | Redis stream with one consumer group, pub/sub, history list, sockets per container | `broadcast_event`, listeners, `/ws` | called after commits |
| routing | `write_window_lag` cookie, primary and replica | middleware, `get_db` | every request |

Hard behaviours: handlers are coroutines of three processes and interleave at
every `await`; a Redis command and the SQL statements of a handler are separate
steps; browsers crash, throttle timers and lose requests; users submit pages that
are out of date; a click is several requests; pages load lists without cancelling
the load before. `PROJECT.json` lists the hazards with their lines and the
properties aimed at them.

What makes each component correct:

- *editing lock*: whoever is told to have it has it; it never passes directly
  from one supervisor to another; nothing is written in a window except by its
  owner; a crash or a loss blocks nobody for ever.
- *staff booking*: no assignment twice, no staff without a supervisor, a
  reported success is what is stored, nobody in two places at once.
- *locomotive bookings*: keys and foreign keys hold; editing one shift leaves the
  others alone; a page shows what is stored and announces what it replaces.
- *carry-forward*: nothing incomplete is lost, nothing completed comes back, what
  is carried lands in the next shift.
- *assessments*: no submission disappears without an answer; a supervisor rates the
  employee whose name is shown.
- *registration*: approval makes an account, which stays until it is deleted; a slip is one's own; an address that
  was verified is the one that is used.
- *master data*: somebody is left to administer; a page acts on the table it shows.
- *sessions*: nothing but signing out, signing in elsewhere, expiry, a new nonce or
  losing the account ends a session; a new administrator sets up an account before
  anything else.
- *notices, chat*: what is said reaches everybody who is connected, once, in order.

## 2. Modules

| module | models | variables and the code behind them |
|---|---|---|
| `EditWindow` | what the lock promises (abstract) | `editor`, `writers` |
| `EditLock` | `employee_bookings/router.py` 172-261, `EmployeesBookingWizard.tsx` 347-391, `JobCarryForwardPage.tsx` 131-176 | `lock`, `ttl`: the Redis key; `page`, `lockedOut`, `timer`: how far the page has come, `lockOwner`, interval; `lockReq`, `unlockReq`, `saveReq`: how far a request has come; `age`: how long a browser has had requests under way; `writers`: a history of who committed |
| `StaffBooking` | `save_bookings` 228-438, `update_availabilities`, `handleSaveSupervisors`, `handleSaveStaff` | `rows`, `absent`: tables; `click`, `batch`: the spinner and its promises; `pc`, `owner`, `ask`, `seen`, `doomed`: the local state of each save |
| `StaffBooking_proofs` | proofs | |
| `LocoBookings` | `bookings/router.py`, `submit_remarks`, `JobCarryForwardPage.tsx`, `LocoBookingUI.tsx` | `rows`, `tasks`, `remarks`, `nextId`: tables of one locomotive; `despatched`, `today`; `page`: what the carry-forward page has loaded |
| `LocoBookings_proofs` | proofs | |
| `BookingDesk` | `LocoBookingUI.tsx` and `components/loco/*` on top of `bookings/router.py` | `rows`, `locos`: tables; `desk`: the form, the daily list, the history and the chosen tab; `loads`, `call`: requests under way; `touched`, `calm`: histories |
| `BookingDesk_proofs` | proofs | |
| `Assessments` | `assessments/router.py`, `StaffAssessmentUI.tsx`, `SelfAssessmentUI.tsx` | `pending`: Redis; `ratings`: table; `mine`, `page`: both pages with their `ratingsMap`; `loads`, `serve`: requests; `due`, `calm`: histories |
| `Assessments_proofs` | proofs | |
| `Registration` | `auth/router.py` (register, verify, resend), `admin/router.py` (requests), `RegisterPage`, `VerifyOtpPage`, `RegistrationRequestsManager` | `requests`, `accounts`: tables; `temp`, `otp`: Redis; `desk`, `manager`: pages; `serve`, `loads`, `act`: requests; `mixed`, `dropped`, `calm`: histories |
| `Registration_proofs` | proofs | |
| `MasterTables` | `admin/`, `locos/`, `jobs/`, `employees/router.py`, `MasterDataCrudWizard`, `MasterDataPage`, `AdminStaffManager` | `table`, `promo`: tables and Redis; `page`, `loads`, `act`; `tornLocos`, `tornAdmins`, `calm`: histories |
| `MasterTables_proofs` | proofs | |
| `Sessions` | `auth/router.py`, `admin/router.py` (sign-in, set-up, profile, accounts), both dependencies, `main.py`, 14 pages and guards | `accounts`, `replica`, `info`, `session`, `otp`: PostgreSQL and Redis; `cookie`, `page`, `req`: each browser; `signedIn`, `crossed`, `revoked`: histories |
| `Sessions_proofs` | proofs | |
| `Realtime` | `chat/router.py`, `realtime/router.py`, `ChatRoom.tsx`, the sockets of `DashboardPage` and `EmployeesBookingWizard` | `history`, `feed`, `stream`, `batch`: Redis and its readers; `registry`, `sock`, `telling`: containers; `up`, `wire`: connections; `page`; `unheard`, `missed`: histories |
| `Realtime_proofs` | proofs | |
| `MC*` | initial states, symmetry sets, the bound on clicks | |

An action of `EditLock` is one Redis command, one answer or one event of a page.
The lock effect of a page depends on the user, who is known only when `/auth/me` has
answered: its first run asks for nothing, and when the user arrives its clean-up sends
an unlock and its second run a lock request, at once (`Identify`). A change of date or
shift unlocks the window that is left and locks the one that is entered (`Leave`, then
`Switch`). So a browser has several requests under way, and the constant `Faults` says
what may become of them. With `Faults = {}` they are handled in the order they were
sent (`LockTurn`, `UnlockTurn`), which nothing in the code enforces but a browser with
one connection and one worker gives, and all are over `Latency` ticks after the first;
between the GET of a handler and the SET or DELETE behind it no time passes. With
`"overlap"` they are handled in any order.
A save of `StaffBooking` is six steps: check of absences, SELECT, start of the
DELETE, its row locks, COMMIT (with the INSERTs, which nobody sees earlier) and
the broadcast with the answer. PostgreSQL runs at READ COMMITTED: the DELETE
finds what is committed when it starts, waits for transactions that have deleted
one of those rows and leaves out what is gone afterwards. `LocoBookings` and
`BookingDesk` take every handler as one step; what is stale there is the page,
loaded long before it is submitted, or lists that overtake each other.
`Assessments`, `Registration` and `MasterTables` split a handler where it awaits
Redis or commits. `Sessions` gives a handler as the sequence of its awaits, one
step each, any of which may fail; what administrators do to the accounts of others
from the control center (create, change, delete, promote, remove) is one step each
there, between any two awaits of the others (`AdminStep`). `Realtime` has one step per Redis command and
per socket that a listener sends to.

`LocoBookings` and `BookingDesk` share the handlers of `bookings/router.py`: the
first has several days, carried bookings and `submit_remarks`, the second has the
page that sends the requests, with both shifts of two days and carried rows at
midnight in the initial states.

A variable called `calm` is a history variable: it says that a page was used by
somebody who waits (no second load, no failure, and in `BookingDesk` nobody else's
change). The properties with `WhenCalm` in their name are what the pages guarantee
to such a user; section 4 says what happens to others. `mixed`, `tornLocos`,
`tornAdmins`, `crossed`, `missed` and `unheard` name the overlaps and failures
for which a property is not claimed. They are narrow on purpose: everything outside
them is claimed.

What is abstracted: employees, jobs and locomotives are model values; texts
(remarks, descriptions, messages) are left out, except that a task knows which
task it carries forward (in the code a suffix of its description); a time of day
is midnight or one of a few others, since only equality with midnight and with
each other matters; notification rows are left out of `StaffBooking` because nothing
but their addressee reads them. The identity of the person who booked a job is left
out. A code sent by e-mail is the address it went to, or a model value. Browsers are
taken to be in the time zone that the server reckons days in (Asia/Kolkata), so that
the day of a click is the day under which it is stored.

## 3. What the runs check

| run | instance | what it shows |
|---|---|---|
| `edit_lock_calm` | 2 supervisors, requests in order and within a tick, crashes | `LockTypeOK`; `GrantHolds`: a page told that it has the lock has it; `SavesHoldLock`: a save is let through for the holder only; `CalmInv`, the inductive form, with `WindowIsolated` in it; `ImplementsEditWindow`: refinement of `EditWindow` |
| `edit_lock_faulty` | 2 supervisors, requests that overtake, delays and losses, fairness | `Recovers`: a supervisor left alone on the window always gets the lock again, and the page shows it |
| `lock_overlap` | as `edit_lock_calm`, requests in any order | violation of `WindowIsolated` |
| `staff_booking` | 1 wizard, 2 locomotives, 2 supervisors, 1 staff, 2 saves in flight | `Orderly`, `SavedAsShown` while the lock keeps others out and the user waits for a click to end |
| `loco_bookings` | 2 jobs, 2 days, 1 time of day beside midnight, 5 calls | `EditsStayInShift`; `CarryLosesNothing`; `CarriedInPlace`: what a submission adds is in the next shift, unless that has the job at another time |
| `booking_desk` | 2 locomotives, 2 jobs, 1 text, 2 loads under way, 3 clicks | `StoredWhenCalm`: a page shows what is stored; `WarnedWhenCalm`: it replaces no booking unannounced; `ActsOnItsCard`: a button of a card changes the shift of the card |
| `assessments` | 2 employees, 2 supervisors, 1 job, 2 loads, 5 clicks | `NeverVanishes`: a submission is stored, or in the hands of a handler that will answer for it; `OwnWhenCalm`: the form is about the employee whose name is shown |
| `registration` | 2 applicants, 2 administrators, 2 tickets, addresses and codes, 4 clicks | `ApprovedIsStaff`, `SlipIsOwn`, `VerifiedAddress`, `FilteredWhenCalm` |
| `master_tables` | one page of each kind, 2 rows per table, one row per page of a list, 3 clicks | `AdminRemains`: the last administrator is not removed; `DespatchFits`: despatched means stage 9; `OwnTableWhenCalm`: a page shows rows of the table of its tab |
| `sessions` | 2 browsers, 2 people, 2 passwords, 1 code, 2 clicks or changes by administrators | `KeepsSignedIn`, `SetupFirst` (but for who has been removed), `DefaultRetired`, `DefaultGetsIn`, `FirstReadIsOwn` |
| `realtime` | 2 containers, 2 chatters, 1 dashboard, 3 sockets, history of 2, 4 clicks or faults | `NothingMissed`: who has caught up shows the history; `ToldInOrder`: nothing twice, nothing out of order |
| `addressee_told` | as `realtime` | violation of `AddresseeIsTold` |

The runs take between seconds and two and a half minutes; the largest is `master_tables` with
1.25 million states.

The models of pages are cut off after `MaxClicks` clicks, expiries and faults, what
the system does by itself being free, and `MCLocoBookings` after `MaxCalls` calls;
hence `CHECK_DEADLOCK FALSE` there. In the runs of `EditLock` and `StaffBooking` a
deadlock would be reported.

Bounds. A tick of `EditLock` is 7.5 s, so a key lives for four ticks and a page beats
every two, the ratio of the code, and a browser's requests may take one; with delays of
any length a tick is 15 s. Two supervisors are an owner and one who takes over. One
request of each kind per supervisor is in flight at a time; more of a kind would need a
round trip longer than the heartbeat, or a page that is opened and left again within
one. A save is sent by a page that has had its first answer about the lock; the code
would let it go earlier (fault `"haste"`, which no run has). Saves do not touch the key
and are left out of `edit_lock_faulty`. In `StaffBooking` two saves are what a click with
two locomotives or two linked supervisors sends. Two days with two shifts each
are what a carry over midnight needs; one further time of day suffices to
distinguish a booking made on the booking page from a carried one; three tasks
are a task, its copy and the copy of that. Five calls reach create, load, an edit
by somebody else, submit and one more step.

The initial states of the page models are not empty where a few clicks would
otherwise be spent on getting there: `MCBookingDesk` starts with carried and
hand-made rows, `MCRegistration` with open requests in the list and in a dialog,
`MCMasterTables` with filled tables, `MCSessions` with people signed in or in the
middle of a set-up, `MCRealtime` with connected pages. They are all states that
the code reaches. From there a race takes two clicks and a consequence or a failure
one or two more. Two loads under way are what is needed for one to overtake another.
Two containers tell a local socket from a remote one, three sockets allow a page to
come back while another stays. `MCRealtime` explores chat and notices one at a time:
they share the containers and no state. One row on a page of a list makes a second
page out of two rows. In `Sessions` two browsers are a race or one person in both
portals, three nonces a person's row and two renewals.

Fairness, used by `Recovers` alone. Time passes; a handler that has begun runs to
its end; an open page keeps its interval timer (`setInterval`). Messages may be
lost again and again but not always: a request and an answer that are sent
infinitely often get through infinitely often, which is strong fairness of the
first Redis command and of the positive answer. The other models state no fairness:
their pages neither repeat a request nor connect again by themselves, so that
nothing that must eventually happen is promised by the code.

## 4. Disagreements found

Two have a run and an entry in `PROJECT.json` (1 and 2); for the others the property is
defined in the module named, and TLC refutes it when it is added to the
configuration of that module.

1. `addressee_told`: the listeners of all containers read the stream as one consumer
   group (`realtime/router.py` 38-41), so a notice reaches the sockets of one
   container only; the docstring (134) and README 32 promise all.
2. `lock_overlap`: a page that is opened sends an unlock and a lock request at once
   (`EmployeesBookingWizard.tsx` 374-389). Handled in the other order, the unlock deletes
   the key of a page that was told it has the lock; another supervisor opens the window,
   and both write in it, remarks without any check. README 33 promises that supervisors
   cannot conflict. In the same way `Exclusive` fails: `acquire_lock` reads the key,
   compares the owner and sets it unconditionally (185-191), and the caller's own unlock
   and another supervisor's lock fit in between.
3. `SavesHoldLock` (`EditLock`, fault `"delay"`): `save_bookings` lets a save through while the
   key does not exist (255), although it is to "make sure they currently hold it" (252); a
   heartbeat that is late or a slow request suffices.
4. `CarriedToNextShift` (`LocoBookings`): a carried task is stored at midnight although the
   booking of the next shift has another time of day (`employee_bookings/router.py` 917),
   and attaches to the finished shift's own booking, if the job has one at midnight;
   otherwise the submission fails.
5. `SavedAsShown` (`StaffBooking`, impatient user, a third slot): the button is enabled
   while saves of a failed click still run (`EmployeesBookingWizard.tsx` 535-544).
6. `NeverDoubleBooked` (`StaffBooking`): README 31 and 509 promise protection that
   `save_bookings` leaves to a warning on the page (383-384).
7. `CompletedStaysDone` (`LocoBookings`): the tasks to carry are selected without the
   shift (899-905).
8. `SavesOwnRatings` (`Assessments`): choosing another employee while ratings load
   leaves the ratings of one under the name of the other, and "Save" stores them
   (`StaffAssessmentUI.tsx` 103-135, 182).
9. `DeletesItsCard` (`BookingDesk`): the batch delete selects by date and time of day, so
   at midnight it also removes the carried bookings of the other shift
   (`bookings/router.py` 330), although the page asks about "this shift"
   (`LocoBookingUI.tsx` 340).
10. `PasswordEndsSessions` (`Sessions`): changing or resetting an employee's password
    keeps the nonce, so other sessions stay valid (`auth/router.py` 544-549, 578);
    README 545 says that they end.
11. `DespatchAlwaysFits` (`MasterTables`): `update_loco` checks the request and writes
    the columns that differ from the row it has read, so two updates at once leave a
    despatched locomotive at an earlier stage. In the same way two removals at once
    pass the last-administrator check (`admin/router.py` 1104-1115, 1129-1139).
12. `ShowsWhatItSays` (`MasterTables`): lists that come in pages are cut into pages once
    more (`MasterDataCrudWizard.tsx` 251 and 424, `MasterDataList.tsx` 93-95), so that
    every page after the first is empty under a line that says what it shows (518).
13. `EnabledOnce` (`Sessions`): enabling the employee portal reads its one-time flag and
    writes it with an await in between (`admin/router.py` 505, 525-531), so that two requests
    of an administrator who signs in a second time meanwhile are both accepted; the
    docstring (496) says that it cannot be used again. It needs a third click.

Also seen while modelling:

- Bookings: `DELETE /bookings/tasks/{id}` is shadowed by
  `DELETE /{loco_number}/{date_time}` (`bookings/router.py` 318 before 369), so that
  deleting a task fails, which is how `BookingDesk` has it. A job carried into both
  shifts of a day has a primary-key conflict, and its submission fails each time
  (886). The history is not reloaded after one's own edits, and the list headed
  "(Today)" shows the chosen day. Two `create_booking` at once both survive (97).
- Sessions: `AdminProfileView` sends no `email`, which the schema requires
  (`admin/schemas.py` 16). A sign-in that overlaps a set-up seeds the default
  administrator again (`admin/router.py` 36-58, 361), and two set-ups at once make two
  administrators. Enabling the employee portal renews the nonce of the employee and so
  ends sessions of the same person in that portal (`admin/router.py` 526); the attempt to
  prove `KeepsSignedIn` without that exception showed it. `logout` deletes the session whoever holds it, and where Redis
  fails clears the cookies, answers 200 and leaves the session valid (`auth/router.py`
  167-193; `admin/router.py` 459-477). The second read after a write may hit a replica that lags (`main.py` 84).
- Registration: a late listing that commits its expiries overwrites an approval
  (`admin/router.py` 555); a misspelt status code (635) turns a refusal into an error.
  A list with a filter may show requests as expired that its filter does not name
  (`FilteredExactly`): it chooses by the table and then shows late ones, and those it
  has just expired itself, as expired (578-594), while another administrator reopens or
  decides about them.
- Master data: `add_admin` with e-mail codes is reported as saved by the wizard
  (165-178), though only a code was sent.
- Assessments: a resubmission between the list and the approval is approved unseen
  and deleted (`assessments/router.py` 177).
- Chat: "Notify others that this user joined" (`chat/router.py` 185) notifies only the
  one who joins. A message that overtakes the history is wiped out by it
  (`ChatRoom.tsx` 78), one that arrives between registration and history comes twice.
  One that is stored and not published is seen only by those who join later. After
  an XACK that fails the rest of the batch is never read again. No page connects
  again. A socket that is refused before it is accepted closes without the code 4003
  that the page waits for.

## 5. What is proved

`StaffBooking_proofs` about `EditLock` (the names common to both specifications have
`Lock` in front in `EditLock`, so that one module extends both), for any set of
supervisors and any timing with `HeartbeatPeriod + Latency < LockTTL`:

- `LockTypeCorrect`, whatever the faults. In particular the key exists exactly while
  it has time left.
- `CalmInvariant`, `GrantsHold`, `SaversHold`, `CalmExclusive` and `CalmImplements`
  under `Faults = {}`, that is, with a browser's requests in order and within `Latency`.
  `GrantHolds` is not inductive: nothing in it says that a renewal or an unlock that has
  passed its check still owns the key, that the unlock of an opening page comes before
  its lock request, or that the key outlives the next heartbeat. `CalmInv` adds these:
  `HandlerOwns`, a handler between its GET and its SET or DELETE belongs to the owner;
  `UnlockFirst`, an unlock is under way only ahead of the first answer of its page, or
  when the page is gone; `EditorOwns`, a page that may edit owns a key with at least
  `LockTTL - HeartbeatPeriod + timer` ticks left, or, with a heartbeat or a save under
  way, `LockTTL - HeartbeatPeriod - age`, so that no tick expires it before the next
  heartbeat is handled. Exclusiveness and the refinement (each step is an `Open`, `Save`,
  `Close` or stutters) follow from it step by step.

Items 2 and 3 of section 4 show that the condition on faults is needed.

`LocoBookings_proofs`, for any number of jobs, days, tasks and times:

- `TypeCorrect`: types, the two primary keys and the foreign key (`Keys`). It is
  inductive as it stands; the lemma `InsertFacts` says what inserting a batch of tasks
  under fresh ids does, `SubmitFacts` what an accepted submission does.
- `NothingLost`: `CarryLosesNothing`, and `CarriedRight`: `CarriedInPlace`, from
  `SubmitFacts` and the type invariant.
- `ShiftsApart`: `EditsStayInShift`. A step that adds and removes bookings of one
  shift only, and tasks whose bookings are of that shift only, changes what at most
  that shift shows (`OneShift`). That a task has one booking, and so one shift, is the
  keys in `TypeOK`: the primary key has no shift in it, so it must not be shared by
  a row of another shift, before the step or after it.

`Assessments_proofs`, for any staff, questions, marks and timing:

- `TypeCorrect`, `SubmissionsKept` (`NeverVanishes`) and `CalmSupervisors`
  (`OwnWhenCalm`). `NeverVanishes` is inductive together with the types: whoever a
  submission is due from is between the two steps of the handler, for that very
  employee, and nobody else takes what is no longer in Redis. For `OwnWhenCalm` the
  invariant (`CalmPage`) adds what `calm` means while requests are under way: every
  load is for the employee who is chosen, and a review has none.

`MasterTables_proofs`, for any number of administrators, tabs, tables and rows:

- `TypeCorrect`.
- `AdministratorRemains`: `AdminRemains`. The check that one is left is made by the
  handler before it deletes, so the inductive `OneRemains` also says that a handler
  between the two is the only one there and that somebody else than the one it removes
  is an administrator, unless two were there at once (`tornAdmins`).
- `DespatchedAtNine`: `DespatchFits`, by `LocosInHand`: what a handler that has read
  the row of a locomotive holds is what the table says, unless another handler came
  in between (`tornLocos`).
- `CalmTabs`: `OwnTableWhenCalm`, by `CalmTables`: for a user who waits, all loads are
  of the tab that is shown, and so is a change under way.

`Registration_proofs`, for any people, managers, addresses and requests; every
property of the run is proved:

- `TypeCorrect`. The invariant is `Consistent`: the types, and for each applicant
  and each manager that the page, the request under way and the handler belong
  together (which step of which handler, for whose ticket).
- `SlipOwn`: the page of an applicant waits for the ticket that applicant entered.
- `ApprovedStaff`: `ApprovedIsStaff`. The account is written in the commit that
  approves the request (`CommitFacts`), and the only handlers that write an account that
  exists change its address or delete it.
- `CalmManager`: `FilteredWhenCalm`, by `CalmPages`: a list on its way to the page fits
  the filter it was asked for, but for what it shows as expired, and that filter is
  still the one on the screen.
- `AddressVerified`: `VerifiedAddress`. `TicketsOK` says, per ticket, what the two
  Redis keys and all handlers at work know: there is at most one; the two keys, where both exist, are of
  one address, except between the two writes of `register`; and a handler that has
  accepted a code holds the address the code was sent to, or finds no other. The lemmas `SendTicket`, `ServeTicket`, `ExpireTicket` and `FailTicket` show
  that each kind of step keeps it for the ticket it is about, `OwnTicket` that it is
  about one ticket only.

Every proof splits `Next` into its actions. Where an invariant looks at few variables
a lemma first classifies the actions by what they do to those (`RequestKinds`,
`PageKinds`, `KeyKinds`, ...), and the invariant is shown for each kind once.

`Realtime_proofs`, for any containers, pages, sockets, messages and bounds; every
property of the run is proved:

- `TypeCorrect`. The invariant is `Consistent`: a socket has one page and one
  container, the registries of a container hold sockets it has a handler for, and
  what is under way belongs to a connection that exists.
- `NeverOutOfOrder`: `ToldInOrder`, by `Ordered`. A message goes from the page that
  says it to a container, a handler, the history and the feed of every container,
  a listener that tells sockets one by one, the wire and the screen; a notice goes
  from the stream to a batch, and then the same way. The invariant orders what is at
  each of these stages before what is at the stage behind it, for every page.
- `NothingLost`: `NothingMissed`, by `Heard`: every message of the history is on the
  page, or in a history the page will still get, or on its wire behind any such
  history, or still to be told to it, or counted in `missed` or `unheard`. A page
  whose connection has ended knows it, or will when its wire is empty.

`StaffBooking_proofs` about `StaffBooking`:

- `TypeCorrect`, for any number of wizards, patient or not. That a new row gets a
  number no other has is a fact about cardinalities (`FreshId`): the table is finite.
- `TableInOrder` (`Orderly`) and `ReportsTruth` (`SavedAsShown`) for one wizard, which
  is what the lock is for, whose user waits for the whole of a click. The invariant
  is `InOrder`: the saves at work are about different parts of the table (`Apart`);
  what a save has found and is about to delete is what its part of the table still
  says; a save that has committed is stored; and a click waits for all saves at work,
  its other saves being stored. `Replace` says what one COMMIT does to the table,
  `Local` that saves which are `Apart` do not notice. Item 5 of section 4, and
  the lock that items 2 and 3 say can be missing, show why both conditions are needed.

`Sessions_proofs`, for any browsers, people, passwords, codes, nonces and times; every
property of the run is proved:

- `TypeCorrect`. The invariant is `Shape`: the types, with `Script`: a request under way
  stands at an await of its own handler, holds the token it was sent with, and has read
  what the handler has read by then. Without it nothing is known of what a handler
  writes.
- `ControlCenter`: `SetupFirst`. Somebody is `Cleared` who is an administrator with a
  finished set-up, or has been removed at some time (`revoked`). `Behind` says that whom
  the replica has as finished is cleared, `Guarded` that the answer of `/me` on its way
  to the control center was given for somebody cleared. Without `revoked` the statement
  is false of the code: a control center stays open until its next request, and the
  replica lets in whom the primary has removed.
- `NoDefaultLeft`: `DefaultRetired`, by `Retired`: with an administrator in the table the
  default one is gone and nobody is about to seed it, and it is gone before its successor
  is stored, unless a seeding and a set-up have `crossed`.
- `DefaultEnters`: `DefaultGetsIn`, by `Seeded`: a sign-in that is past the seeding
  finds the default administrator, or there is another by now.
- `StaysSignedIn`: `KeepsSignedIn`. `Fresh` says that a handler about to store a session
  holds a nonce that is accepted, and one that has stored it the session that is
  stored, unless somebody has overtaken it; `Kept` that the cookie of whoever is signed
  in is that session; `Moves` that two set-ups of the default administrator under way
  make different accounts, neither of which is in the table: who promotes or creates
  somebody whose rows a set-up has inserted waits for it (`Inserting`). `Managed` says
  what an administrator's step does: it touches the rows of one person, and leaves the
  nonces of whom it does not delete, promote or remove.
- `FirstReadOwn`: `FirstReadIsOwn`, on top of these. Who is turned away at a first read
  (`TurnedAway`), or was (`bounced`), has no account for that page or a set-up to do
  (`Owing`); a sign-in that leads to the set-up owes it (`Charged`), and only those who
  end its sessions finish it (`MustStays`).

`BookingDesk_proofs`, for any locomotives, jobs, texts and bounds, and whatever is
stored when the page is opened, as long as a time of day other than midnight is that
of one submission for its locomotive (the time is the moment of the submission, and
midnight that of all carried jobs) and earlier than the submissions to come; every
property of the run is proved:

- `TypeCorrect`, which has the primary key and the foreign key of the bookings in it:
  an accepted change never runs into a key. The invariant is `Stored`. A stamp is a
  locomotive, a day, a shift and a time that a row of the table or of a list on its
  way says, or a change that a modal is open for or that has been sent (`Stamps`).
  `OneShift`: stamps of one locomotive, day and time other than midnight are of one
  shift; `Past`: they are older than the next submission; `OwnTime`: no row has the
  time of a submission that is still to be handled; `Listed`: everything shown or
  meant is of a known locomotive. Without the lists and the changes among the stamps
  it is not inductive: a job may be added to a card whose rows were deleted meanwhile.
- `StoredShown`, `ReplacementAnnounced` and `CardsKeepToTheirShift`
  (`StoredWhenCalm`, `WarnedWhenCalm`, `ActsOnItsCard`) for a page that is waited for,
  while nobody else writes and nothing is lost. The invariant is `Calm`: at most one
  list or change is under way, of the page's day, and an answer on its way says what
  is stored (`Alone`, `ListOf`); where nothing is, the list, the locomotives and an
  untouched form are what is stored (`Loaded`), also for a locomotive that was just
  added (`Added`); what the shift has is announced, before a submission and with it
  (`Announced`, `Submitted`); a locomotive that cannot be booked has nothing stored,
  shown or meant (`Unbooked`: the page can have chosen one only as it added it); and
  the row that a modal or a request of a card has the key of is in the shift of the
  card (`ModalOwned`, `CallOwned`). The last needs `OneShift` for a card with a time,
  and `Greatest`, that the time of a card is that of its last row, for one at
  midnight: all its rows then have that time, so the key finds the row itself.
  Deleting a whole card is left out of `ActsOnItsCard`; item 9 of section 4 says why.

Assumptions are those on the constants in each module; TLC evaluates them in the
runs. The `NoneAssumption`s say that the value for "nothing" is none of the others,
which holds of `None` in Python and `null` in TypeScript; `PeopleAssumption` that
nobody is both staff and supervisor, which one `designation` per employee makes so;
`FiniteAssumption` that there are finitely many people and saves at a time.

Only model-checked: `Recovers`, since liveness is out of the prover's reach. Every
invariant and every action property that a run shows to hold is a theorem.

## 6. Not modelled, and the plan

Not modelled, with reasons in `PROJECT.json`: compiled views and the reading of
notifications (read-only), the audit trigger (same transaction), e-mail,
configuration, the encoding of locomotive numbers (a pure conversion, with numbers
from 2147484 on too large for the column, `core/loco_encoder.py` 39), layout.

Left out of components that are modelled:

- several tabs of one browser, leaving a page while its request is under way (except
  in `EditLock` and `Realtime`), captcha, rate limits;
- the countdown and the remarks of registration;
- names and the despatch date in the master tables;
- `is_default`, here and in `Sessions`: no handler writes a row that has it, so the
  branches for it (`admin/router.py` 310, 362-367, 1138-1144) serve older data only;
- the awaits of the handlers by which administrators change accounts, in `Sessions`:
  `MasterTables` has them, and the two removals at once that leave no administrator;
- folding, filtering and searching in lists, except where they choose the rows a
  button acts on; the change of day while a booking page is open;
- who may enter a chat room, beyond that a socket can be refused.

What would add most is the composition of `EditLock` and `StaffBooking`, with `Client`
the supervisors that pass the lock check.
