---------------------------- MODULE BookingDesk ----------------------------
(***************************************************************************)
(* The booking page of a supervisor, LocoBookingUI with its three tabs, on *)
(* top of the booking handlers, which other supervisors call as well.      *)
(*                                                                         *)
(* The form shows what a locomotive already has in the chosen shift, taken *)
(* from the list of the chosen day that the page has loaded, and its       *)
(* submission replaces what is stored.  The lists group the rows of a      *)
(* shift and give every button of a group the time of its first row,       *)
(* although the rows of a shift may have different times: a carried one    *)
(* has midnight.                                                           *)
(*                                                                         *)
(* The catalogue of jobs is constant.  A list of task texts is a set.      *)
(* Searching, hiding and folding parts of a list are left out, they change *)
(* no row that a button acts on.  The page sends one change at a time,     *)
(* while the user may go on with the form, the tabs and the days.          *)
(***************************************************************************)
EXTENDS Integers, FiniteSets, FiniteSetsExt, SequencesExt

CONSTANTS
    Loco,      \* locomotive numbers
    Job,       \* jobs of the catalogue
    Text,      \* task texts
    LastTime,  \* bounds the times of day that bookings are made at
    MaxLoads,  \* bounds the lists under way
    None

ASSUME BoundsAssumption == LastTime \in Nat /\ MaxLoads \in Nat \ {0}
Day      == {0, 1}          \* today and tomorrow
Shift    == {1, 2}
Midnight == 0
Time     == Midnight..LastTime

Row   == [loco : Loco, day : Day, shift : Shift, time : Time, job : Job, tasks : SUBSET Text]
Group == [loco : Loco, day : Day, shift : Shift]

\* The content of a form: which jobs, each with its task texts.
Content == UNION {[J -> SUBSET Text] : J \in SUBSET Job}

\* The locomotives that are known: is it despatched?
LocoTable == UNION {[L -> BOOLEAN] : L \in SUBSET Loco}

\* A change of what is stored: the request, and before it the modal with the
\* button that sends it.  What a kind of change does not have is None.
Kinds  == {"create", "deleteCard", "deleteJob", "deleteTask", "addJob", "addTask",
           "editJob", "editTask", "loco"}
Tabs   == {"booking", "list", "history"}
Change == [kind : Kinds, group : Group \union {None}, time : Time, loco : Loco \union {None},
           job : Job \union {None}, text : Text \union {None}, to : Job \union Text \union {None},
           content : Content, despatched : BOOLEAN, warned : BOOLEAN,
           at : {"open", "sent", "done", "refused", "lost"},
           from : Tabs, onDay : Day]

\* The answer to a list, and the list asked for.
Answer == [rows : SUBSET Row, locos : LocoTable \union {None}]
Load   == [what : {"data", "history"}, from : Day, to : Day, got : Answer \union {None}]

ASSUME NoneAssumption ==
    None \notin Loco \union Job \union Text \union Group \union Change \union Answer

VARIABLES
    rows,     \* loco_bookings with their tasks
    locos,    \* locos[l]: is locomotive l, which is known, despatched?
    now,      \* time of day of the next booking
    desk,     \* what the page shows
    loads,    \* lists under way, in the order in which they were asked for
    call,     \* the change that the page has sent, None if none
    touched,  \* has the user changed the form since it was last filled in?
    calm      \* the page was left to itself, and waited for

vars == <<rows, locos, now, desk, loads, call, touched, calm>>

SameKey(a, b) == a.loco = b.loco /\ a.day = b.day /\ a.time = b.time /\ a.job = b.job
GroupOf(r)    == [loco |-> r.loco, day |-> r.day, shift |-> r.shift]
In(R, g)      == {r \in R : GroupOf(r) = g}

Nothing   == [j \in {} |-> {}]
InForm(R) == [j \in {r.job : r \in R} |-> UNION {r.tasks : r \in {q \in R : q.job = j}}]

\* What the form is about.
Chosen == [loco |-> desk.loco, day |-> desk.day, shift |-> desk.shift]

\* What the page shows.
Page == [loco : Loco \union {None}, day : Day, shift : Shift, content : Content,
         hint : BOOLEAN, list : SUBSET Row, history : SUBSET Row, locos : LocoTable,
         tab : Tabs, from : Day, to : Day, editMode : BOOLEAN, adding : BOOLEAN,
         loading : BOOLEAN, modal : Change \union {None}]

\* The primary key and the foreign key of loco_bookings.
Keys ==
    /\ \A a, b \in rows : SameKey(a, b) => a = b
    /\ \A r \in rows : r.loco \in DOMAIN locos

TypeOK ==
    /\ rows \subseteq Row /\ locos \in LocoTable /\ Keys
    /\ now \in 1..(LastTime + 1)
    /\ desk \in Page
    /\ desk.loco = None => desk.content = Nothing /\ ~desk.hint /\ ~touched
    /\ desk.modal # None => desk.editMode /\ desk.modal.group # None
    /\ loads \in Seq(Load) /\ Len(loads) <= MaxLoads
    /\ call \in Change \union {None}
    /\ desk.loading => call # None
    /\ touched \in BOOLEAN /\ calm \in BOOLEAN

NewDesk ==
    [loco |-> None, day |-> 0, shift |-> 1, content |-> Nothing, hint |-> FALSE,
     list |-> {}, history |-> {}, locos |-> [l \in {} |-> FALSE], tab |-> "booking",
     from |-> 0, to |-> 0, editMode |-> FALSE, adding |-> FALSE, loading |-> FALSE,
     modal |-> None]

\* A list that the page asks for; got is the answer.
Data(d)       == [what |-> "data", from |-> d, to |-> d, got |-> None]
History(a, b) == [what |-> "history", from |-> a, to |-> b, got |-> None]

\* The page is opened, whatever is stored: a time of day other than midnight
\* is that of one submission for the locomotive.
Init ==
    /\ rows \subseteq Row /\ locos \in LocoTable /\ Keys
    /\ \A a, b \in rows :
         a.loco = b.loco /\ a.day = b.day /\ a.time = b.time /\ a.time # Midnight
           => a.shift = b.shift
    /\ now \in 1..(LastTime + 1) /\ \A r \in rows : r.time < now
    /\ \E s \in Shift : desk = [NewDesk EXCEPT !.shift = s]
    /\ loads = <<Data(0)>>
    /\ call = None
    /\ touched = FALSE
    /\ calm = TRUE

-----------------------------------------------------------------------------
(* The form.                                                               *)

\* The effect on date, shift, locomotive and lists: the form shows the loaded
\* booking, and says so, or is empty.
Filled(d) ==
    LET stored == In(d.list, [loco |-> d.loco, day |-> d.day, shift |-> d.shift]) IN
    IF d.loco = None THEN d
    ELSE [d EXCEPT !.content = InForm(stored), !.hint = stored # {}]

\* No answer is under way.
Idle == call = None /\ loads = <<>>

\* The user acts; an open modal covers the rest of the page.
Act == calm' = (calm /\ Idle) /\ desk.modal = None

Ask(l) == Len(loads) < MaxLoads /\ loads' = Append(loads, l)

OnForm == desk.tab = "booking"

\* The locomotives found by their numbers that can be clicked.
Found == {l \in DOMAIN desk.locos : desk.loco = None /\ ~desk.adding /\ ~desk.locos[l]}

PickLoco(l) ==
    /\ Act /\ OnForm /\ l \in Found
    /\ desk' = Filled([desk EXCEPT !.loco = l])
    /\ touched' = FALSE
    /\ UNCHANGED <<rows, locos, now, loads, call>>

\* Variant: the jobs stay.
EmptiedOfLoco(d) == [d EXCEPT !.loco = None, !.hint = FALSE]

Emptied(d) == [d EXCEPT !.loco = None, !.content = Nothing, !.hint = FALSE]

\* "Change", or another search.
DropLoco ==
    /\ Act /\ OnForm /\ desk.loco # None
    /\ desk' = Emptied(desk)
    /\ touched' = FALSE
    /\ UNCHANGED <<rows, locos, now, loads, call>>

DateShown == OnForm /\ desk.loco # None

ChooseDay(d) ==
    /\ Act /\ DateShown /\ d # desk.day
    /\ desk' = Filled([desk EXCEPT !.day = d])
    /\ Ask(Data(d))
    /\ touched' = FALSE
    /\ UNCHANGED <<rows, locos, now, call>>

ChooseShift(s) ==
    /\ Act /\ DateShown /\ s # desk.shift
    /\ desk' = Filled([desk EXCEPT !.shift = s])
    /\ touched' = FALSE
    /\ UNCHANGED <<rows, locos, now, loads, call>>

JobsShown == OnForm /\ desk.loco # None

\* Variant: a click on a job clears the message.
ToggleJobQuietly(j) ==
    /\ Act /\ JobsShown
    /\ LET J == DOMAIN desk.content IN
       desk' = [desk EXCEPT !.hint = FALSE,
                  !.content = IF j \in J THEN [k \in J \ {j} |-> @[k]]
                              ELSE [k \in J \union {j} |-> IF k = j THEN {} ELSE @[k]]]
    /\ touched' = TRUE
    /\ UNCHANGED <<rows, locos, now, loads, call>>

ToggleJob(j) ==
    /\ Act /\ JobsShown
    /\ LET J == DOMAIN desk.content IN
       desk' = [desk EXCEPT !.content =
                  IF j \in J THEN [k \in J \ {j} |-> @[k]]
                  ELSE [k \in J \union {j} |-> IF k = j THEN {} ELSE @[k]]]
    /\ touched' = TRUE
    /\ UNCHANGED <<rows, locos, now, loads, call>>

TasksShown(j) == JobsShown /\ j \in DOMAIN desk.content

\* handleAddTask, handleRemoveTask.
WriteTask(j, x) ==
    /\ Act /\ TasksShown(j)
    /\ desk' = [desk EXCEPT !.content[j] = SymDiff(@, {x})]
    /\ touched' = TRUE
    /\ UNCHANGED <<rows, locos, now, loads, call>>

\* A change of what is stored for the shift g, at time t.
Of(kind, g, t) ==
    [kind |-> kind, group |-> g, time |-> t, loco |-> None, job |-> None, text |-> None,
     to |-> None, content |-> Nothing, despatched |-> FALSE, warned |-> FALSE,
     at |-> "open", from |-> desk.tab, onDay |-> desk.day]

\* The page sends a change c.  What follows a success refers to the day that
\* was chosen when it was sent.
Send(c) ==
    /\ call = None
    /\ call' = [c EXCEPT !.at = "sent", !.from = desk.tab, !.onDay = desk.day]

SubmitShown == JobsShown /\ desk.content # Nothing /\ ~desk.loading

\* handleBookingSubmit.
Submit ==
    /\ Act /\ SubmitShown /\ now <= LastTime
    /\ Send([Of("create", Chosen, now) EXCEPT !.content = desk.content, !.warned = desk.hint])
    /\ desk' = [desk EXCEPT !.loading = TRUE, !.hint = FALSE]
    /\ now' = now + 1
    /\ UNCHANGED <<rows, locos, loads, touched>>

\* The form for a new locomotive, offered when a search finds none.
OpenAdding ==
    /\ Act /\ OnForm /\ desk.loco = None /\ ~desk.adding
    /\ desk' = [desk EXCEPT !.adding = TRUE]
    /\ UNCHANGED <<rows, locos, now, loads, call, touched>>

CancelAdding ==
    /\ Act /\ OnForm /\ desk.adding
    /\ desk' = [desk EXCEPT !.adding = FALSE]
    /\ UNCHANGED <<rows, locos, now, loads, call, touched>>

\* handleAddLocoSubmit; one of stage 9 is despatched.
AddLoco(l, despatched) ==
    /\ Act /\ OnForm /\ desk.adding /\ ~desk.loading
    /\ Send([Of("loco", None, Midnight) EXCEPT !.loco = l, !.despatched = despatched])
    /\ desk' = [desk EXCEPT !.loading = TRUE]
    /\ UNCHANGED <<rows, locos, now, loads, touched>>

-----------------------------------------------------------------------------
(* The lists.                                                              *)

SwitchTab(t) ==
    /\ Act /\ t # desk.tab
    /\ desk' = [desk EXCEPT !.tab = t]
    /\ IF t = "history" THEN Ask(History(desk.from, desk.to)) ELSE UNCHANGED loads
    /\ UNCHANGED <<rows, locos, now, call, touched>>

SetRange(a, b) ==
    /\ Act /\ desk.tab = "history" /\ <<a, b>> # <<desk.from, desk.to>>
    /\ desk' = [desk EXCEPT !.from = a, !.to = b]
    /\ Ask(History(a, b))
    /\ UNCHANGED <<rows, locos, now, call, touched>>

\* The switch is on the list, and the history obeys it too.
ToggleEditMode ==
    /\ Act /\ desk.tab = "list"
    /\ desk' = [desk EXCEPT !.editMode = ~@]
    /\ UNCHANGED <<rows, locos, now, loads, call, touched>>

Shown == IF desk.tab = "list" THEN desk.list ELSE IF desk.tab = "history" THEN desk.history ELSE {}

\* The cards with buttons in the list and in the history: one for each
\* locomotive of a shift, in it its jobs, in them their tasks.
ListCards    == {GroupOf(r) : r \in {q \in desk.list : desk.tab = "list" /\ desk.editMode}}
HistoryCards == {GroupOf(r) : r \in {q \in desk.history : desk.tab = "history" /\ desk.editMode}}
Cards        == ListCards \union HistoryCards

ListJobs(g)    == {r.job : r \in {q \in In(desk.list, g) : g \in ListCards}}
HistoryJobs(g) == {r.job : r \in {q \in In(desk.history, g) : g \in HistoryCards}}
JobsOf(g)      == ListJobs(g) \union HistoryJobs(g)

ListTasks(g)    == {t \in In(desk.list, g) \X Text : g \in ListCards /\ t[2] \in t[1].tasks}
HistoryTasks(g) == {t \in In(desk.history, g) \X Text : g \in HistoryCards /\ t[2] \in t[1].tasks}
TasksOf(g)      == ListTasks(g) \union HistoryTasks(g)

\* Variant: the time of the last row.
LastRowTime(g) == Min({r.time : r \in In(Shown, g)})

\* groupBookings: all buttons of a card have the time of the first row; the
\* latest comes first.
CardTime(g) == Max({r.time : r \in In(Shown, g)})

\* handleDeleteLocoBooking, handleDeleteJob.
DeleteCard(g) ==
    /\ Act /\ g \in Cards
    /\ Send(Of("deleteCard", g, CardTime(g)))
    /\ UNCHANGED <<rows, locos, now, desk, loads, touched>>

DeleteJob(g, j) ==
    /\ Act /\ j \in JobsOf(g)
    /\ Send([Of("deleteJob", g, CardTime(g)) EXCEPT !.job = j])
    /\ UNCHANGED <<rows, locos, now, desk, loads, touched>>

\* handleDeleteTask: a task has a key of its own.
DeleteTask(g, r, x) ==
    /\ Act /\ <<r, x>> \in TasksOf(g)
    /\ Send([Of("deleteTask", g, r.time) EXCEPT !.job = r.job, !.text = x])
    /\ UNCHANGED <<rows, locos, now, desk, loads, touched>>

\* handleAddSingleTask.
AddTask(g, j, x) ==
    /\ Act /\ j \in JobsOf(g)
    /\ Send([Of("addTask", g, CardTime(g)) EXCEPT !.job = j, !.to = x])
    /\ UNCHANGED <<rows, locos, now, desk, loads, touched>>

\* The modals of a job, of a task and of a new job.
OpenModal(m) ==
    /\ Act
    /\ desk' = [desk EXCEPT !.modal = m]
    /\ UNCHANGED <<rows, locos, now, loads, call, touched>>

EditJob(g, j) ==
    /\ j \in JobsOf(g)
    /\ OpenModal([Of("editJob", g, CardTime(g)) EXCEPT !.job = j])

EditTask(g, r, x) ==
    /\ <<r, x>> \in TasksOf(g)
    /\ OpenModal([Of("editTask", g, r.time) EXCEPT !.job = r.job, !.text = x])

AddJob(g) ==
    /\ g \in Cards
    /\ OpenModal(Of("addJob", g, CardTime(g)))

CloseModal ==
    /\ desk.modal # None
    /\ desk' = [desk EXCEPT !.modal = None]
    /\ calm' = (calm /\ Idle)
    /\ UNCHANGED <<rows, locos, now, loads, call, touched>>

\* The button of an open modal.
SaveJob(j) ==
    /\ desk.modal # None /\ desk.modal.kind = "editJob"
    /\ Send([desk.modal EXCEPT !.to = j])
    /\ calm' = (calm /\ Idle)
    /\ UNCHANGED <<rows, locos, now, desk, loads, touched>>

SaveTask(x) ==
    /\ desk.modal # None /\ desk.modal.kind = "editTask"
    /\ Send([desk.modal EXCEPT !.to = x])
    /\ calm' = (calm /\ Idle)
    /\ UNCHANGED <<rows, locos, now, desk, loads, touched>>

SaveNewJob(j) ==
    /\ desk.modal # None /\ desk.modal.kind = "addJob"
    /\ Send([desk.modal EXCEPT !.job = j])
    /\ calm' = (calm /\ Idle)
    /\ UNCHANGED <<rows, locos, now, desk, loads, touched>>

-----------------------------------------------------------------------------
(* The handlers.                                                           *)

\* The locomotives of f, and l.
With(f, l, despatched) ==
    [k \in DOMAIN f \union {l} |-> IF k = l THEN despatched ELSE f[k]]

AtTime(c) == {r \in rows : r.loco = c.group.loco /\ r.day = c.group.day /\ r.time = c.time}
Keyed(c)  == {r \in AtTime(c) : r.job = c.job}

Booked(g, t, j, T) ==
    [loco |-> g.loco, day |-> g.day, shift |-> g.shift, time |-> t, job |-> j, tasks |-> T]

\* rows after create_booking: it replaces what the shift has.
Replaced(g, t, content) ==
    (rows \ In(rows, g)) \union {Booked(g, t, j, content[j]) : j \in DOMAIN content}

Bookable(l) == l \in DOMAIN locos /\ ~locos[l]

\* The changes that are not refused.  A task is never deleted: the path
\* /tasks/{id} is one of /{loco_number}/{date_time}, whose route comes first
\* and fails, since "tasks" is no locomotive.
Accepted(c) ==
    \/ c.kind = "create" /\ Bookable(c.group.loco)
    \/ c.kind = "deleteCard" /\ AtTime(c) # {}
    \/ c.kind \in {"deleteJob", "addTask"} /\ Keyed(c) # {}
    \/ c.kind = "addJob" /\ Keyed(c) = {}
    \/ c.kind = "editJob" /\ Keyed(c) # {} /\ Keyed([c EXCEPT !.job = c.to]) = {}
    \/ c.kind = "editTask" /\ \E r \in Keyed(c) : c.text \in r.tasks
    \/ c.kind = "loco" /\ c.loco \notin DOMAIN locos

\* rows after an accepted change.
RowsAfter(c) ==
    CASE c.kind = "create"     -> Replaced(c.group, c.time, c.content)
      [] c.kind = "deleteCard" -> rows \ AtTime(c)
      [] c.kind = "deleteJob"  -> rows \ Keyed(c)
      [] c.kind = "addJob"     -> rows \union {Booked(c.group, c.time, c.job, {})}
      [] c.kind = "addTask"    -> (rows \ Keyed(c))
                                  \union {[r EXCEPT !.tasks = @ \union {c.to}] : r \in Keyed(c)}
      [] c.kind = "editJob"    -> (rows \ Keyed(c)) \union {[r EXCEPT !.job = c.to] : r \in Keyed(c)}
      [] c.kind = "editTask"   -> (rows \ Keyed(c))
                                  \union {[r EXCEPT !.tasks = (@ \ {c.text}) \union {c.to}] : r \in Keyed(c)}
      [] OTHER                 -> rows

Handle ==
    /\ call # None /\ call.at = "sent"
    /\ IF Accepted(call)
       THEN /\ rows' = RowsAfter(call)
            /\ locos' = IF call.kind = "loco" THEN With(locos, call.loco, call.despatched) ELSE locos
            /\ call' = [call EXCEPT !.at = "done"]
       ELSE /\ call' = [call EXCEPT !.at = "refused"]
            /\ UNCHANGED <<rows, locos>>
    /\ UNCHANGED <<now, desk, loads, touched, calm>>

\* Another supervisor books, deletes, despatches or submits the carry-forward
\* page of the shift before, which books jobs at midnight.
OtherBooks(g, content) ==
    /\ now <= LastTime /\ Bookable(g.loco)
    /\ rows' = Replaced(g, now, content)
    /\ now' = now + 1
    /\ calm' = FALSE
    /\ UNCHANGED <<locos, desk, loads, call, touched>>

OtherDeletes(g, t) ==
    /\ \E r \in In(rows, g) : r.time = t
    /\ rows' = {r \in rows : ~(r.loco = g.loco /\ r.day = g.day /\ r.time = t)}
    /\ calm' = FALSE
    /\ UNCHANGED <<locos, now, desk, loads, call, touched>>

OtherCarries(g, J, T) ==
    /\ g.loco \in DOMAIN locos
    /\ \A r \in rows : r.loco = g.loco /\ r.day = g.day /\ r.time = Midnight => r.job \notin J
    /\ LET fresh == {j \in J : \A r \in In(rows, g) : r.job # j} IN
       rows' = rows \union {Booked(g, Midnight, j, T) : j \in fresh}
    /\ calm' = FALSE
    /\ UNCHANGED <<locos, now, desk, loads, call, touched>>

OtherDespatches(l) ==
    /\ l \in DOMAIN locos
    /\ locos' = [locos EXCEPT ![l] = ~@]
    /\ calm' = FALSE
    /\ UNCHANGED <<rows, now, desk, loads, call, touched>>

-----------------------------------------------------------------------------
(* What comes back.                                                        *)

\* A request or its answer is lost.
LoseCall ==
    /\ call # None /\ call.at \in {"sent", "done"}
    /\ call' = [call EXCEPT !.at = "lost"]
    /\ calm' = FALSE
    /\ UNCHANGED <<rows, locos, now, desk, loads, touched>>

\* The handler of a submission, and of a new locomotive, ends the spinner.
Ready(d) == [d EXCEPT !.loading = FALSE]

BookingSaved ==
    /\ call.kind = "create"
    /\ desk' = Ready(Emptied(desk))
    /\ touched' = FALSE
    /\ Ask(Data(call.onDay))

LocoAdded ==
    /\ call.kind = "loco"
    /\ desk' = Ready(Filled([desk EXCEPT !.locos = With(@, call.loco, call.despatched),
                                         !.loco = call.loco, !.adding = FALSE]))
    /\ touched' = FALSE
    /\ UNCHANGED loads

\* Variant: the list is not loaded again.
ListUnrefreshed ==
    /\ call.kind \notin {"create", "loco"}
    /\ desk' = [desk EXCEPT !.modal = IF @ # None /\ @.kind = call.kind THEN None ELSE @]
    /\ UNCHANGED <<touched, loads>>

\* The list is loaded again, the history is not.
ListChanged ==
    /\ call.kind \notin {"create", "loco"}
    /\ desk' = [desk EXCEPT !.modal = IF @ # None /\ @.kind = call.kind THEN None ELSE @]
    /\ Ask(Data(call.onDay))
    /\ UNCHANGED touched

Failed ==
    /\ call.at \in {"refused", "lost"}
    /\ desk' = IF call.kind = "create" THEN Ready([desk EXCEPT !.hint = FALSE])
               ELSE IF call.kind = "loco" THEN Ready(desk) ELSE desk
    /\ UNCHANGED <<touched, loads>>

Answered ==
    /\ call # None
    /\ \/ call.at = "done" /\ (BookingSaved \/ LocoAdded \/ ListChanged)
       \/ Failed
    /\ call' = None
    /\ UNCHANGED <<rows, locos, now, calm>>

\* The queries of a list are answered together.
Read(i) ==
    /\ loads[i].got = None
    /\ loads' = [loads EXCEPT ![i].got =
                   [rows |-> {r \in rows : r.day \in loads[i].from..loads[i].to},
                    locos |-> IF loads[i].what = "data" THEN locos ELSE None]]
    /\ UNCHANGED <<rows, locos, now, desk, call, touched, calm>>

\* fetchData and fetchHistoryData take an answer whatever came before it.
Arrive(i) ==
    /\ loads[i].got # None
    /\ loads' = RemoveAt(loads, i)
    /\ IF loads[i].what = "data"
       THEN /\ desk' = Filled([desk EXCEPT !.list = loads[i].got.rows, !.locos = loads[i].got.locos])
            /\ touched' = FALSE
       ELSE /\ desk' = [desk EXCEPT !.history = loads[i].got.rows]
            /\ UNCHANGED touched
    /\ UNCHANGED <<rows, locos, now, call, calm>>

LoseLoad(i) ==
    /\ loads' = RemoveAt(loads, i)
    /\ calm' = FALSE
    /\ UNCHANGED <<rows, locos, now, desk, call, touched>>

FormStep ==
    \/ \E l \in Loco : PickLoco(l) \/ \E despatched \in BOOLEAN : AddLoco(l, despatched)
    \/ DropLoco \/ OpenAdding \/ CancelAdding \/ Submit
    \/ \E d \in Day : ChooseDay(d)
    \/ \E s \in Shift : ChooseShift(s)
    \/ \E j \in Job : ToggleJob(j) \/ \E x \in Text : WriteTask(j, x)

ListStep ==
    \/ \E t \in {"booking", "list", "history"} : SwitchTab(t)
    \/ \E a, b \in Day : SetRange(a, b)
    \/ ToggleEditMode
    \/ \E g \in Cards :
        \/ DeleteCard(g) \/ AddJob(g)
        \/ \E j \in Job : DeleteJob(g, j) \/ EditJob(g, j) \/ \E x \in Text : AddTask(g, j, x)
        \/ \E t \in TasksOf(g) : DeleteTask(g, t[1], t[2]) \/ EditTask(g, t[1], t[2])
    \/ CloseModal
    \/ \E j \in Job : SaveJob(j) \/ SaveNewJob(j)
    \/ \E x \in Text : SaveTask(x)

OtherStep ==
    \/ \E g \in Group : \/ \E content \in Content \ {Nothing} : OtherBooks(g, content)
                        \/ \E t \in Time : OtherDeletes(g, t)
                        \/ \E J \in SUBSET Job \ {{}}, T \in SUBSET Text : OtherCarries(g, J, T)
    \/ \E l \in Loco : OtherDespatches(l)

FaultStep == LoseCall \/ \E i \in DOMAIN loads : LoseLoad(i)

SystemStep == Handle \/ Answered \/ \E i \in DOMAIN loads : Read(i) \/ Arrive(i)

Next == FormStep \/ ListStep \/ OtherStep \/ FaultStep \/ SystemStep

Spec == Init /\ [][Next]_vars

-----------------------------------------------------------------------------
(* Properties.                                                             *)

\* A supervisor who waits for the page, while nobody else changes anything and
\* nothing fails, sees what is stored: the list is that of the chosen day, and
\* a form that was not changed by hand is what the shift has, so that saving
\* it as it is would change nothing.
StoredWhenCalm ==
    calm /\ Idle =>
        /\ desk.list = {r \in rows : r.day = desk.day}
        /\ desk.locos = locos
        /\ desk.loco # None /\ ~touched => desk.content = InForm(In(rows, Chosen))

\* "An existing booking for this date & shift will be replaced": under the
\* same conditions nothing is replaced that was not announced.
WarnedWhenCalm ==
    calm /\ call # None =>
        (call.kind = "create" /\ call.at = "sent" /\ In(rows, call.group) # {} => call.warned)

\* A button on a card of the daily list that belongs to one job or to one task
\* changes nothing but the shift of the card, although it has no shift in its
\* request and the times of the rows of a card differ.
ActsOnItsCard ==
    [][calm' /\ call # None /\ call.from = "list" /\ call.kind # "deleteCard" =>
        \A r \in (rows \ rows') \union (rows' \ rows) : GroupOf(r) = call.group]_vars

\* "Delete all bookings for Locomotive #... on this shift?": what is deleted
\* is the shift of the card.
DeletesItsCard ==
    [][calm' /\ call # None /\ call.kind = "deleteCard" /\ rows' # rows =>
        rows' = rows \ In(rows, call.group)]_vars
=============================================================================
