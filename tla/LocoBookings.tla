---------------------------- MODULE LocoBookings ----------------------------
(***************************************************************************)
(* The work booked on one locomotive: the jobs of every (date, shift),     *)
(* their tasks, the remarks of a finished shift, and the carry-forward of  *)
(* what it left undone to the next shift.                                  *)
(*                                                                         *)
(* loco_bookings has the primary key (loco_number, date_time, job_id): the *)
(* shift is not part of it.  A booking made on the booking page carries    *)
(* the time of day of the click, one that is carried forward the midnight  *)
(* its day begins with.                                                    *)
(*                                                                         *)
(* Every handler is one transaction and one step here.  A call that is     *)
(* refused (4xx) or fails (a key or an ambiguous row, 500) leaves nothing  *)
(* behind, so it is no step at all.                                        *)
(***************************************************************************)
EXTENDS Integers, FiniteSets, Functions

CONSTANTS
    LastDay,   \* bounds the calendar
    Job,       \* jobs of the catalogue
    TimeOfDay, \* times of day a click can happen at
    MaxTask,   \* bounds the tasks ever created
    MaxNew     \* bounds the jobs a submission adds by hand

ASSUME BoundsAssumption ==
    /\ LastDay \in Nat
    /\ MaxTask \in Nat
    /\ MaxNew \in Nat
    /\ TimeOfDay \subseteq Nat \ {0}

Day      == 0..LastDay
Midnight == 0
Time     == TimeOfDay \union {Midnight}
Shift    == {1, 2}
TaskId   == 1..MaxTask
NoTask   == 0

Booking == [day : Day, time : Time, job : Job, shift : Shift]

\* from is the task that this one carries forward, NoTask if none: the
\* source marks a copy by "(Carried Forward)" in its description.
Task == [id : TaskId, day : Day, time : Time, job : Job, from : TaskId \union {NoTask}]

\* A remark about a job (task = NoTask) or about one of its tasks.
Remark == [day : Day, shift : Shift, job : Job, task : TaskId \union {NoTask},
           completed : BOOLEAN]

\* What the carry-forward page has loaded: the jobs of a shift with their
\* tasks, and the old remarks about jobs that are no longer booked.
Page   == [day : Day, shift : Shift, jobs : SUBSET Job, tasks : SUBSET (TaskId \X Job),
           ghosts : SUBSET [job : Job, completed : BOOLEAN]]
NoPage == [day |-> LastDay + 1]

VARIABLES
    rows,        \* loco_bookings of the locomotive
    tasks,       \* booking_tasks of the locomotive
    nextId,      \* sequence of booking_tasks.task_id
    remarks,     \* loco_booking_remarks of the locomotive
    despatched,  \* loco.despatched
    today,       \* date in Asia/Kolkata
    page         \* the carry-forward page of a supervisor

vars == <<rows, tasks, nextId, remarks, despatched, today, page>>

SameKey(a, b) == a.day = b.day /\ a.time = b.time /\ a.job = b.job

Keys ==
    /\ \A a, b \in rows : SameKey(a, b) => a = b
    /\ \A a, b \in tasks : a.id = b.id => a = b
    /\ \A k \in tasks : \E b \in rows : SameKey(k, b)

TypeOK ==
    /\ rows \subseteq Booking
    /\ tasks \subseteq Task
    /\ nextId \in 1..(MaxTask + 1)
    /\ \A k \in tasks : k.id < nextId
    /\ remarks \subseteq Remark
    /\ despatched \in BOOLEAN
    /\ today \in Day
    /\ page \in Page \union {NoPage}
    /\ Keys

Init ==
    /\ rows = {}
    /\ tasks = {}
    /\ nextId = 1
    /\ remarks = {}
    /\ despatched = FALSE
    /\ today = 0
    /\ page = NoPage

-----------------------------------------------------------------------------
InShift(b, d, s) == b.day = d /\ b.shift = s

\* Variant: the query for the bookings of a shift forgets the shift.
RowsOfDay(d, s)  == {b \in rows : b.day = d}

RowsOf(d, s)     == {b \in rows : InShift(b, d, s)}
TasksOf(R)       == {k \in tasks : \E b \in R : SameKey(k, b)}

\* Insert one task per element of P, [job, from], at day d and time t, beside
\* the tasks kept.  The sequence numbers them in any order.
Insert(P, d, t, kept) ==
    \E last \in nextId..(MaxTask + 1) :
        /\ nextId' = last
        /\ \E f \in Bijection(P, nextId..(last - 1)) :
            tasks' = kept \union
                {[id |-> f[p], day |-> d, time |-> t, job |-> p.job, from |-> p.from] : p \in P}

Bookable(d) == d >= today /\ d <= today + 1

\* Variant: the query for the bookings to replace forgets the shift.
ReplacedAnyShift(d, s) == {b \in rows : b.day = d}

\* The bookings that create_booking replaces.
Replaced(d, s) == RowsOf(d, s)

\* create_booking: book the jobs J on a shift, those in T with a task.  It
\* replaces what the shift had.
CreateBooking(d, s, t, J, T) ==
    /\ Bookable(d)
    /\ ~despatched
    /\ LET old == Replaced(d, s)
           new == [day : {d}, time : {t}, job : J, shift : {s}]
       IN
       /\ \A b \in rows \ old, n \in new : ~SameKey(b, n)
       /\ rows' = (rows \ old) \union new
       /\ Insert([job : T, from : {NoTask}], d, t, tasks \ TasksOf(old))
    /\ UNCHANGED <<remarks, despatched, today, page>>

\* add_job_booking.  The booking page calls it with the time of a booking it
\* shows, which may be gone by then.
AddJob(d, s, t, j) ==
    /\ Bookable(d)
    /\ LET new == [day |-> d, time |-> t, job |-> j, shift |-> s] IN
       /\ \A b \in rows : ~SameKey(b, new)
       /\ rows' = rows \union {new}
    /\ UNCHANGED <<tasks, nextId, remarks, despatched, today, page>>

\* add_booking_task.
AddTask(b) ==
    /\ Insert({[job |-> b.job, from |-> NoTask]}, b.day, b.time, tasks)
    /\ UNCHANGED <<rows, remarks, despatched, today, page>>

\* Variant: the tasks stay behind.
DeleteNoCascade(R) ==
    /\ R # {}
    /\ rows' = rows \ R
    /\ UNCHANGED <<tasks, nextId, remarks, despatched, today, page>>

\* Delete the bookings R; their tasks go with them.
Delete(R) ==
    /\ R # {}
    /\ rows' = rows \ R
    /\ tasks' = tasks \ TasksOf(R)
    /\ UNCHANGED <<nextId, remarks, despatched, today, page>>

\* delete_loco_booking_batch, by date and time of day; delete_job_booking.
DeleteBatch(d, t) == Delete({b \in rows : b.day = d /\ b.time = t})
DeleteJob(b)      == Delete({b})

\* update_job_booking: the booking changes to job j, its tasks are copied.
UpdateJob(b, j) ==
    LET new == [b EXCEPT !.job = j]
        old == TasksOf({b})
    IN
    /\ \A c \in rows : ~SameKey(c, new)
    /\ rows' = (rows \ {b}) \union {new}
    /\ Insert({[job |-> j, from |-> k.from, copy |-> k.id] : k \in old}, b.day, b.time, tasks \ old)
    /\ UNCHANGED <<remarks, despatched, today, page>>

-----------------------------------------------------------------------------
(* The carry-forward page.                                                 *)

\* loadLocoJobs: bookings of the shift, and the remarks saved earlier.  The
\* page offers the locomotives booked for the shift.  A page that is loaded
\* again might as well be loaded for the first time.
LoadJobs(d, s) ==
    /\ page = NoPage
    /\ RowsOf(d, s) # {}
    /\ LET jobs == {b.job : b \in RowsOf(d, s)}
           old  == {r \in remarks : InShift(r, d, s) /\ r.task = NoTask /\ r.job \notin jobs}
       IN
       page' = [day |-> d, shift |-> s, jobs |-> jobs,
                tasks |-> {<<k.id, k.job>> : k \in TasksOf(RowsOf(d, s))},
                ghosts |-> {[job |-> r.job, completed |-> r.completed] : r \in old}]
    /\ UNCHANGED <<rows, tasks, nextId, remarks, despatched, today>>

\* get_next_shift_dt_shift.
NextDay(d, s)   == IF s = 1 THEN d ELSE d + 1
NextShift(s)    == IF s = 1 THEN 2 ELSE 1

\* job_remarks of a submission in which the user has ticked the jobs in done
\* and the tasks in doneTasks.
JobRemarks(done) ==
    {[job |-> j, completed |-> j \in done] : j \in page.jobs} \union page.ghosts

Remarks(done, doneTasks) ==
    {[day |-> page.day, shift |-> page.shift, job |-> r.job, task |-> NoTask,
      completed |-> r.completed] : r \in JobRemarks(done)}
    \union
    {[day |-> page.day, shift |-> page.shift, job |-> k[2], task |-> k[1],
      completed |-> k[1] \in doneTasks] : k \in page.tasks}

\* The jobs a submission reports as incomplete.
Undone(done) == {r.job : r \in {q \in JobRemarks(done) : ~q.completed}}

\* Variant: a task without a remark of its own counts as completed.
CarriedIfRemarked(J, doneTasks) ==
    {k \in tasks : k.day = page.day /\ k.job \in J /\ k.id \notin doneTasks
                   /\ <<k.id, k.job>> \in page.tasks}

\* The tasks carried forward for the incomplete jobs J: those of the day that
\* are not ticked.  The query does not ask for the shift.
Carried(J, doneTasks) ==
    {k \in tasks : k.day = page.day /\ k.job \in J /\ k.id \notin doneTasks}

\* submit_remarks, with the jobs in newJobs and one task for each job in
\* newTasks that the user adds for the next shift.
SubmitRemarks(done, doneTasks, newJobs, newTasks) ==
    LET d     == page.day
        s     == page.shift
        nd    == NextDay(d, s)
        ns    == NextShift(s)
        J     == Undone(done)
        asked == J \union newJobs \union newTasks
        Booked(j, e, u) == {b \in RowsOf(e, u) : b.job = j}
        fresh == {j \in asked : Booked(j, nd, ns) = {}}
        new   == [day : {nd}, time : {Midnight}, job : fresh, shift : {ns}]
        added == [job : newTasks, from : {NoTask}]
                 \union {[job |-> k.job, from |-> k.id] : k \in Carried(J, doneTasks)}
    IN
    /\ page # NoPage
    /\ nd <= LastDay
    /\ Cardinality(newJobs \union newTasks) <= MaxNew
    \* scalar_one_or_none raises MultipleResultsFound
    /\ \A j \in asked : Cardinality(Booked(j, nd, ns)) <= 1
    /\ \A j \in J \cap fresh : Cardinality(Booked(j, d, s)) <= 1
    \* primary key of loco_bookings, foreign key of booking_tasks
    /\ \A b \in rows, n \in new : ~SameKey(b, n)
    /\ rows' = rows \union new
    /\ \A p \in added : \E b \in rows' :
            b.day = nd /\ b.time = Midnight /\ b.job = p.job
    /\ Insert(added, nd, Midnight, tasks)
    /\ remarks' = {r \in remarks : ~InShift(r, d, s)} \union Remarks(done, doneTasks)
    /\ page' = NoPage
    /\ UNCHANGED <<despatched, today>>

-----------------------------------------------------------------------------
\* update_loco despatches the locomotive or takes it back.
Despatch ==
    /\ despatched' = ~despatched
    /\ UNCHANGED <<rows, tasks, nextId, remarks, today, page>>

DateChanges ==
    /\ today < LastDay
    /\ today' = today + 1
    /\ UNCHANGED <<rows, tasks, nextId, remarks, despatched, page>>

Create ==
    \E d \in Day, s \in Shift, t \in TimeOfDay :
        \E J \in SUBSET Job \ {{}} : \E T \in SUBSET J : CreateBooking(d, s, t, J, T)

Edit ==
    \/ \E d \in Day, s \in Shift, t \in Time, j \in Job : AddJob(d, s, t, j)
    \/ \E b \in rows : AddTask(b) \/ DeleteJob(b) \/ \E j \in Job : UpdateJob(b, j)

Remove == \E d \in Day, t \in Time : DeleteBatch(d, t)

Load == \E d \in Day, s \in Shift : LoadJobs(d, s)

Submit ==
    /\ page # NoPage
    /\ \E done \in SUBSET page.jobs, doneTasks \in SUBSET {k[1] : k \in page.tasks} :
        \E newJobs, newTasks \in SUBSET Job : SubmitRemarks(done, doneTasks, newJobs, newTasks)

Next == Create \/ Edit \/ Remove \/ Load \/ Submit \/ Despatch \/ DateChanges

Spec == Init /\ [][Next]_vars

-----------------------------------------------------------------------------
(* Properties.                                                             *)

\* What a shift shows: its bookings with their tasks.
Shown(d, s) == <<RowsOf(d, s), TasksOf(RowsOf(d, s))>>

\* The shifts a step changes.
Changed == {x \in Day \X Shift : Shown(x[1], x[2])' # Shown(x[1], x[2])}

\* Booking or editing the work of one shift never disturbs another shift:
\* only a submission and a batch delete may change more than one.
EditsStayInShift == [][Cardinality(Changed) > 1 => Submit \/ Remove]_vars

\* A submission of the carry-forward page was accepted.
Submitted == page # NoPage /\ page' = NoPage

\* What it reported as not completed.
Incomplete ==
    {r \in remarks' : InShift(r, page.day, page.shift) /\ r.task = NoTask /\ ~r.completed}

Ticked == {r.task : r \in {q \in remarks' : InShift(q, page.day, page.shift) /\ q.completed}}

\* The tasks that should be carried forward: those of the finished shift, for
\* jobs and tasks not reported as completed.
ToCarry ==
    {k \in TasksOf(RowsOf(page.day, page.shift)) :
        k.id \notin Ticked /\ \E r \in Incomplete : r.job = k.job}

\* An accepted submission loses nothing: whatever was booked stays, a job
\* reported as incomplete is booked in the next shift, each of its tasks that
\* was not ticked is copied, whoever changed the shift since the page was
\* loaded; and only the next shift gets new bookings.
CarryLosesNothing ==
    [][Submitted =>
        /\ rows \subseteq rows' /\ tasks \subseteq tasks'
        /\ \A r \in Incomplete : \E b \in rows' :
                InShift(b, NextDay(page.day, page.shift), NextShift(page.shift)) /\ b.job = r.job
        /\ \A k \in ToCarry : \E c \in tasks' \ tasks : c.from = k.id /\ c.job = k.job
        /\ \A b \in rows' \ rows :
                InShift(b, NextDay(page.day, page.shift), NextShift(page.shift))]_vars

\* What a submission adds belongs to a booking of the next shift, also where
\* the job is booked for both shifts of the day: only if the next shift has the
\* job at another time of day may it be put elsewhere.
CarriedInPlace ==
    [][Submitted =>
        \A k \in tasks' \ tasks :
            \/ \E b \in rows' :
                /\ InShift(b, NextDay(page.day, page.shift), NextShift(page.shift))
                /\ SameKey(k, b)
            \/ \E b \in rows :
                /\ InShift(b, NextDay(page.day, page.shift), NextShift(page.shift))
                /\ b.job = k.job /\ b.time # Midnight]_vars

\* "Submit completed task remarks and automatically carry forward incomplete
\* tasks/jobs to the next shift": a copy belongs to the next shift.
CarriedToNextShift ==
    [][Submitted =>
        \A k \in tasks' \ tasks : k.from # NoTask =>
            \E b \in rows' :
                /\ InShift(b, NextDay(page.day, page.shift), NextShift(page.shift))
                /\ SameKey(k, b)]_vars

\* "Carry forward incomplete tasks/jobs": a task that a remark reports as
\* completed is not put on the list of a later shift.
CompletedStaysDone ==
    [][Submitted =>
        \A c \in tasks' \ tasks, r \in remarks' :
            c.from # NoTask /\ c.from = r.task => ~r.completed]_vars
=============================================================================
