------------------------ MODULE LocoBookings_proofs ------------------------
(***************************************************************************)
(* Proofs about LocoBookings, for every calendar, catalogue of jobs and    *)
(* number of tasks.                                                        *)
(***************************************************************************)
EXTENDS LocoBookings, FiniteSetTheorems, TLAPS

-----------------------------------------------------------------------------
(* Inserting tasks.                                                        *)

\* What the INSERTs of a handler do to booking_tasks: new ids, each of them
\* for one of the tasks asked for, and every one asked for is there.
LEMMA InsertFacts ==
    ASSUME nextId \in 1..(MaxTask + 1), tasks \subseteq Task,
           \A k \in tasks : k.id < nextId,
           \A a, b \in tasks : a.id = b.id => a = b,
           NEW P, NEW d \in Day, NEW t \in Time, NEW kept \in SUBSET tasks,
           \A p \in P : p.job \in Job /\ p.from \in TaskId \union {NoTask},
           Insert(P, d, t, kept)
    PROVE  /\ nextId' \in 1..(MaxTask + 1)
           /\ kept \subseteq tasks'
           /\ tasks' \subseteq Task
           /\ \A k \in tasks' : k.id < nextId'
           /\ \A a, b \in tasks' : a.id = b.id => a = b
           /\ \A k \in tasks' \ kept :
                /\ k \notin tasks /\ k.day = d /\ k.time = t
                /\ \E p \in P : k.job = p.job /\ k.from = p.from
           /\ \A p \in P : \E k \in tasks' \ tasks : k.job = p.job /\ k.from = p.from
  <1> USE BoundsAssumption
  <1>0. PICK last \in nextId..(MaxTask + 1) :
            /\ nextId' = last
            /\ \E f \in Bijection(P, nextId..(last - 1)) :
                tasks' = kept \union
                    {[id |-> f[p], day |-> d, time |-> t, job |-> p.job, from |-> p.from] : p \in P}
    BY DEF Insert
  <1>1. PICK f \in Bijection(P, nextId..(last - 1)) :
            tasks' = kept \union
                {[id |-> f[p], day |-> d, time |-> t, job |-> p.job, from |-> p.from] : p \in P}
    BY <1>0
  <1> DEFINE row(p) == [id |-> f[p], day |-> d, time |-> t, job |-> p.job, from |-> p.from]
  <1>2. /\ f \in [P -> nextId..(last - 1)]
        /\ \A p, q \in P : f[p] = f[q] => p = q
    BY DEF Bijection, Injection, IsInjective
  <1>3. \A p \in P : f[p] \in nextId..(last - 1)
    BY <1>2
  <1>4. \A p \in P : /\ row(p) \in Task
                     /\ row(p).id = f[p]
                     /\ row(p).id >= nextId
                     /\ row(p).id < last
                     /\ row(p) \notin tasks
    BY <1>3 DEF Task, TaskId, NoTask
  <1>5. tasks' = kept \union {row(p) : p \in P}
    BY <1>1
  <1> HIDE DEF row
  <1>6. nextId' \in 1..(MaxTask + 1) /\ nextId' >= nextId
    BY <1>0
  <1>7. kept \subseteq tasks'
    BY <1>5
  <1>8. tasks' \subseteq Task
    BY <1>4, <1>5
  <1>9. \A k \in tasks' : k.id < nextId'
    <2>1. \A k \in kept : k.id \in Nat /\ k.id < nextId
      BY DEF Task, TaskId
    <2> QED BY <1>0, <1>4, <1>5, <1>6, <2>1
  <1>10. \A a, b \in tasks' : a.id = b.id => a = b
    <2> SUFFICES ASSUME NEW a \in tasks', NEW b \in tasks', a.id = b.id PROVE a = b
      OBVIOUS
    <2>1. \A k \in kept : k.id \in Nat /\ k.id < nextId
      BY DEF Task, TaskId
    <2>2. CASE a \in kept /\ b \in kept
      BY <2>2
    <2>3. CASE a \in kept /\ b \notin kept
      BY <1>3, <1>4, <1>5, <2>1, <2>3
    <2>4. CASE a \notin kept /\ b \in kept
      BY <1>3, <1>4, <1>5, <2>1, <2>4
    <2>5. CASE a \notin kept /\ b \notin kept
      <3>1. PICK p \in P : a = row(p)
        BY <1>5, <2>5
      <3>2. PICK q \in P : b = row(q)
        BY <1>5, <2>5
      <3> QED BY <1>2, <1>4, <3>1, <3>2
    <2> QED BY <2>2, <2>3, <2>4, <2>5
  <1>11. \A p \in P : /\ row(p).day = d
                      /\ row(p).time = t
                      /\ row(p).job = p.job
                      /\ row(p).from = p.from
    BY DEF row
  <1>12. \A k \in tasks' \ kept :
            /\ k \notin tasks /\ k.day = d /\ k.time = t
            /\ \E p \in P : k.job = p.job /\ k.from = p.from
    BY <1>4, <1>5, <1>11
  <1>13. \A p \in P : \E k \in tasks' \ tasks : k.job = p.job /\ k.from = p.from
    BY <1>4, <1>5, <1>11
  <1> QED BY <1>6, <1>7, <1>8, <1>9, <1>10, <1>12, <1>13

-----------------------------------------------------------------------------
(* Type correctness, with the keys of the two tables.                      *)

\* The bookings of create_booking: one row per job of J.
LEMMA NewRows ==
    ASSUME NEW d \in Day, NEW s \in Shift, NEW t \in Time, NEW J \in SUBSET Job
    PROVE  /\ [day : {d}, time : {t}, job : J, shift : {s}] \subseteq Booking
           /\ \A n \in [day : {d}, time : {t}, job : J, shift : {s}] :
                n.day = d /\ n.time = t /\ n.job \in J /\ n.shift = s
           /\ \A m, n \in [day : {d}, time : {t}, job : J, shift : {s}] :
                SameKey(m, n) => m = n
           /\ \A j \in J : \E n \in [day : {d}, time : {t}, job : J, shift : {s}] : n.job = j
  <1> DEFINE new == [day : {d}, time : {t}, job : J, shift : {s}]
  <1>1. new \subseteq Booking
    BY DEF Booking
  <1>2. \A n \in new : n.day = d /\ n.time = t /\ n.job \in J /\ n.shift = s
    OBVIOUS
  <1>3. \A m, n \in new : SameKey(m, n) => m = n
    BY DEF SameKey
  <1>4. ASSUME NEW j \in J PROVE \E n \in new : n.job = j
    <2> DEFINE n == [day |-> d, time |-> t, job |-> j, shift |-> s]
    <2>1. n \in new /\ n.job = j
      OBVIOUS
    <2> QED BY <2>1
  <1> QED BY <1>1, <1>2, <1>3, <1>4

\* create_booking.
LEMMA CreateType ==
    ASSUME TypeOK, NEW d \in Day, NEW s \in Shift, NEW t \in TimeOfDay,
           NEW J \in SUBSET Job, NEW T \in SUBSET J, CreateBooking(d, s, t, J, T)
    PROVE  TypeOK'
  <1> DEFINE old == RowsOf(d, s)
             new == [day : {d}, time : {t}, job : J, shift : {s}]
             P == [job : T, from : {NoTask}]
             kept == tasks \ TasksOf(old)
  <1>1. t \in Time
    BY DEF Time
  <1>2. /\ \A b \in rows \ old, n \in new : ~SameKey(b, n)
        /\ rows' = (rows \ old) \union new
        /\ Insert(P, d, t, kept)
        /\ UNCHANGED <<remarks, despatched, today, page>>
    BY DEF CreateBooking, Replaced
  <1>3. \A p \in P : p.job \in T /\ p.job \in Job /\ p.from \in TaskId \union {NoTask}
    OBVIOUS
  <1>4. /\ nextId' \in 1..(MaxTask + 1)
        /\ tasks' \subseteq Task
        /\ \A k \in tasks' : k.id < nextId'
        /\ \A a, b \in tasks' : a.id = b.id => a = b
        /\ \A k \in tasks' \ kept : k.day = d /\ k.time = t /\ \E p \in P : k.job = p.job
    <2>1. kept \in SUBSET tasks
      OBVIOUS
    <2> HIDE DEF P, kept
    <2>2. /\ nextId \in 1..(MaxTask + 1) /\ tasks \subseteq Task
          /\ \A k \in tasks : k.id < nextId
          /\ \A a, b \in tasks : a.id = b.id => a = b
      BY DEF TypeOK, Keys
    <2>3. Insert(P, d, t, kept) /\ \A p \in P : p.job \in Job /\ p.from \in TaskId \union {NoTask}
      BY <1>2, <1>3
    <2>4. /\ nextId' \in 1..(MaxTask + 1)
          /\ tasks' \subseteq Task
          /\ \A k \in tasks' : k.id < nextId'
          /\ \A a, b \in tasks' : a.id = b.id => a = b
          /\ \A k \in tasks' \ kept :
                /\ k \notin tasks /\ k.day = d /\ k.time = t
                /\ \E p \in P : k.job = p.job /\ k.from = p.from
      BY <1>1, <2>1, <2>2, <2>3, InsertFacts, SMTT(60)
    <2> QED BY <2>4
  <1>5. /\ new \subseteq Booking
        /\ \A m, n \in new : SameKey(m, n) => m = n
        /\ \A n \in new : n.day = d /\ n.time = t
        /\ \A j \in J : \E n \in new : n.job = j
    BY <1>1, NewRows
  <1> HIDE DEF new
  <1>6. rows' \subseteq Booking
    BY <1>2, <1>5 DEF TypeOK
  <1>7. \A a, b \in rows' : SameKey(a, b) => a = b
    BY <1>2, <1>5 DEF TypeOK, Keys, SameKey
  <1>8. \A k \in tasks' : \E b \in rows' : SameKey(k, b)
    <2> SUFFICES ASSUME NEW k \in tasks' PROVE \E b \in rows' : SameKey(k, b)
      OBVIOUS
    <2>1. CASE k \in kept
      <3>1. PICK b \in rows : SameKey(k, b)
        BY <2>1 DEF TypeOK, Keys
      <3>2. b \notin old
        BY <2>1, <3>1 DEF TasksOf
      <3> QED BY <1>2, <3>1, <3>2
    <2>2. CASE k \notin kept
      <3>1. k.day = d /\ k.time = t /\ k.job \in J
        BY <1>3, <1>4, <2>2
      <3> QED BY <1>2, <1>5, <3>1 DEF SameKey
    <2> QED BY <2>1, <2>2
  <1> QED BY <1>2, <1>4, <1>6, <1>7, <1>8 DEF TypeOK, Keys

\* add_job_booking.
LEMMA AddJobType ==
    ASSUME TypeOK, NEW d \in Day, NEW s \in Shift, NEW t \in Time, NEW j \in Job,
           AddJob(d, s, t, j)
    PROVE  TypeOK'
  <1> DEFINE new == [day |-> d, time |-> t, job |-> j, shift |-> s]
  <1>1. /\ \A b \in rows : ~SameKey(b, new)
        /\ rows' = rows \union {new}
        /\ UNCHANGED <<tasks, nextId, remarks, despatched, today, page>>
    BY DEF AddJob
  <1>2. new \in Booking
    BY DEF Booking
  <1> HIDE DEF new
  <1>3. \A a, b \in rows' : SameKey(a, b) => a = b
    BY <1>1 DEF TypeOK, Keys, SameKey
  <1> QED BY <1>1, <1>2, <1>3 DEF TypeOK, Keys

\* add_booking_task.
LEMMA AddTaskType ==
    ASSUME TypeOK, NEW b \in rows, AddTask(b)
    PROVE  TypeOK'
  <1> DEFINE P == {[job |-> b.job, from |-> NoTask]}
  <1>1. b.day \in Day /\ b.time \in Time /\ b.job \in Job
    BY DEF TypeOK, Booking
  <1>2. Insert(P, b.day, b.time, tasks) /\ UNCHANGED <<rows, remarks, despatched, today, page>>
    BY DEF AddTask
  <1>3. \A p \in P : p.job \in Job /\ p.from \in TaskId \union {NoTask} /\ p.job = b.job
    BY <1>1
  <1> HIDE DEF P
  <1>4. /\ nextId' \in 1..(MaxTask + 1)
        /\ tasks' \subseteq Task
        /\ \A k \in tasks' : k.id < nextId'
        /\ \A x, y \in tasks' : x.id = y.id => x = y
        /\ \A k \in tasks' \ tasks : k.day = b.day /\ k.time = b.time /\ \E p \in P : k.job = p.job
    <2> DEFINE kept == tasks
    <2>1. kept \in SUBSET tasks /\ Insert(P, b.day, b.time, kept)
      BY <1>2
    <2> HIDE DEF kept
    <2>2. \A p \in P : p.job \in Job /\ p.from \in TaskId \union {NoTask}
      BY <1>3
    <2>3. /\ nextId' \in 1..(MaxTask + 1)
          /\ tasks' \subseteq Task
          /\ \A k \in tasks' : k.id < nextId'
          /\ \A x, y \in tasks' : x.id = y.id => x = y
          /\ \A k \in tasks' \ kept : k.day = b.day /\ k.time = b.time /\ \E p \in P : k.job = p.job
      <3>1. /\ nextId \in 1..(MaxTask + 1) /\ tasks \subseteq Task
            /\ \A k \in tasks : k.id < nextId
            /\ \A x, y \in tasks : x.id = y.id => x = y
        BY DEF TypeOK, Keys
      <3>2. b.day \in Day /\ b.time \in Time
        BY <1>1
      <3> QED BY <2>1, <2>2, <3>1, <3>2, InsertFacts, SMTT(60)
    <2> QED BY <2>3 DEF kept
  <1>5. \A k \in tasks' : \E c \in rows' : SameKey(k, c)
    BY <1>2, <1>3, <1>4 DEF TypeOK, Keys, SameKey
  <1> QED BY <1>2, <1>4, <1>5 DEF TypeOK, Keys

\* delete_loco_booking_batch and delete_job_booking.
LEMMA DeleteType ==
    ASSUME TypeOK, NEW R \in SUBSET rows, Delete(R)
    PROVE  TypeOK'
  <1>1. /\ rows' = rows \ R
        /\ tasks' = tasks \ TasksOf(R)
        /\ UNCHANGED <<nextId, remarks, despatched, today, page>>
    BY DEF Delete
  <1>2. \A k \in tasks' : \E b \in rows' : SameKey(k, b)
    BY <1>1 DEF TypeOK, Keys, TasksOf
  <1> QED BY <1>1, <1>2 DEF TypeOK, Keys

\* update_job_booking.
LEMMA UpdateJobType ==
    ASSUME TypeOK, NEW b \in rows, NEW j \in Job, UpdateJob(b, j)
    PROVE  TypeOK'
  <1> DEFINE new == [b EXCEPT !.job = j]
             old == TasksOf({b})
             P == {[job |-> j, from |-> k.from, copy |-> k.id] : k \in old}
             kept == tasks \ old
  <1>1. /\ \A c \in rows : ~SameKey(c, new)
        /\ rows' = (rows \ {b}) \union {new}
        /\ Insert(P, b.day, b.time, kept)
        /\ UNCHANGED <<remarks, despatched, today, page>>
    BY DEF UpdateJob
  <1>2. /\ b.day \in Day /\ b.time \in Time /\ new \in Booking
        /\ new.day = b.day /\ new.time = b.time /\ new.job = j
    BY DEF TypeOK, Booking
  <1>3. old \subseteq Task
    BY DEF TypeOK, TasksOf
  <1>4. \A p \in P : p.job \in Job /\ p.from \in TaskId \union {NoTask} /\ p.job = j
    BY <1>3 DEF Task
  <1>5. kept \in SUBSET tasks
    OBVIOUS
  <1> HIDE DEF new, P
  <1>6. /\ nextId' \in 1..(MaxTask + 1)
        /\ tasks' \subseteq Task
        /\ \A k \in tasks' : k.id < nextId'
        /\ \A x, y \in tasks' : x.id = y.id => x = y
        /\ \A k \in tasks' \ kept : k.day = b.day /\ k.time = b.time /\ \E p \in P : k.job = p.job
    <2> HIDE DEF kept
    <2> QED BY <1>1, <1>2, <1>4, <1>5, InsertFacts, SMTT(60) DEF TypeOK, Keys
  <1>7. \A x, y \in rows' : SameKey(x, y) => x = y
    BY <1>1 DEF TypeOK, Keys, SameKey
  <1>8. \A k \in tasks' : \E c \in rows' : SameKey(k, c)
    <2> SUFFICES ASSUME NEW k \in tasks' PROVE \E c \in rows' : SameKey(k, c)
      OBVIOUS
    <2>1. CASE k \in kept
      <3>1. PICK c \in rows : SameKey(k, c)
        BY <2>1 DEF TypeOK, Keys
      <3>2. c # b
        BY <2>1, <3>1 DEF TasksOf
      <3> QED BY <1>1, <3>1, <3>2
    <2>2. CASE k \notin kept
      BY <1>1, <1>2, <1>4, <1>6, <2>2 DEF SameKey
    <2> QED BY <2>1, <2>2
  <1> QED BY <1>1, <1>2, <1>6, <1>7, <1>8 DEF TypeOK, Keys

\* get_next_shift_dt_shift names a shift.
LEMMA NextShiftType ==
    ASSUME NEW d \in Day, NEW s \in Shift, NextDay(d, s) <= LastDay
    PROVE  NextDay(d, s) \in Day /\ NextShift(s) \in Shift
  BY BoundsAssumption DEF Day, Shift, NextDay, NextShift

\* What an accepted submission does, step by step: J are the jobs it reports
\* as incomplete.
LEMMA SubmitFacts ==
    ASSUME TypeOK, page # NoPage, NEW done \in SUBSET page.jobs,
           NEW doneTasks \in SUBSET {k[1] : k \in page.tasks},
           NEW newJobs \in SUBSET Job, NEW newTasks \in SUBSET Job,
           SubmitRemarks(done, doneTasks, newJobs, newTasks)
    PROVE  /\ TypeOK'
           /\ rows \subseteq rows' /\ tasks \subseteq tasks'
           /\ \A b \in rows' \ rows :
                InShift(b, NextDay(page.day, page.shift), NextShift(page.shift))
           /\ \A j \in Undone(done) : \E b \in rows' :
                /\ InShift(b, NextDay(page.day, page.shift), NextShift(page.shift))
                /\ b.job = j
           /\ \A k \in Carried(Undone(done), doneTasks) : \E c \in tasks' \ tasks :
                c.from = k.id /\ c.job = k.job
           /\ remarks' = {r \in remarks : ~InShift(r, page.day, page.shift)}
                         \union Remarks(done, doneTasks)
           /\ \A k \in tasks' \ tasks :
                \/ \E b \in rows' :
                    /\ InShift(b, NextDay(page.day, page.shift), NextShift(page.shift))
                    /\ SameKey(k, b)
                \/ \E b \in rows :
                    /\ InShift(b, NextDay(page.day, page.shift), NextShift(page.shift))
                    /\ b.job = k.job /\ b.time # Midnight
  <1> DEFINE J == Undone(done)
             d == page.day
             s == page.shift
             nd == NextDay(d, s)
             ns == NextShift(s)
             asked == J \union newJobs \union newTasks
             Booked(j, e, u) == {b \in RowsOf(e, u) : b.job = j}
             fresh == {j \in asked : Booked(j, nd, ns) = {}}
             new == [day : {nd}, time : {Midnight}, job : fresh, shift : {ns}]
             added == [job : newTasks, from : {NoTask}]
                      \union {[job |-> k.job, from |-> k.id] : k \in Carried(Undone(done), doneTasks)}
  <1>1. /\ nd <= LastDay
        /\ \A b \in rows, n \in new : ~SameKey(b, n)
        /\ rows' = rows \union new
        /\ \A p \in added : \E b \in rows' :
                b.day = nd /\ b.time = Midnight /\ b.job = p.job
        /\ Insert(added, nd, Midnight, tasks)
        /\ remarks' = {r \in remarks : ~InShift(r, d, s)} \union Remarks(done, doneTasks)
        /\ page' = NoPage
        /\ UNCHANGED <<despatched, today>>
    BY DEF SubmitRemarks
  <1>2. page \in Page
    BY DEF TypeOK
  <1>3. d \in Day /\ s \in Shift /\ page.jobs \subseteq Job
    BY <1>2 DEF Page
  <1>4. nd \in Day /\ ns \in Shift
    BY <1>1, <1>3, NextShiftType
  <1>5. JobRemarks(done) \subseteq [job : Job, completed : BOOLEAN]
    <2>1. page.ghosts \subseteq [job : Job, completed : BOOLEAN]
      BY <1>2 DEF Page
    <2>2. ASSUME NEW j \in page.jobs
          PROVE  [job |-> j, completed |-> j \in done] \in [job : Job, completed : BOOLEAN]
      <3> DEFINE ticked == j \in done
      <3>1. ticked \in BOOLEAN /\ j \in Job
        BY <1>3
      <3> HIDE DEF ticked
      <3>2. [job |-> j, completed |-> ticked] \in [job : Job, completed : BOOLEAN]
        BY <3>1
      <3> QED BY <3>2 DEF ticked
    <2> QED BY <2>1, <2>2, Zenon DEF JobRemarks
  <1>6. J \subseteq Job
    BY <1>5 DEF Undone
  <1>7. Midnight \in Time
    BY DEF Time
  <1>8. /\ new \subseteq Booking
        /\ \A m, n \in new : SameKey(m, n) => m = n
        /\ \A n \in new : n.day = nd /\ n.shift = ns
        /\ \A j \in fresh : \E n \in new : n.job = j
    <2>1. fresh \in SUBSET Job
      BY <1>6
    <2> HIDE DEF fresh, nd, ns
    <2> QED BY <1>4, <1>7, <2>1, NewRows
  <1>8a. \A n \in new : n.time = Midnight
    <2> HIDE DEF fresh, nd, ns
    <2> QED OBVIOUS
  <1>9. /\ \A p \in added : p.job \in Job /\ p.from \in TaskId \union {NoTask}
        /\ \A k \in Carried(Undone(done), doneTasks) : \E p \in added : p.job = k.job /\ p.from = k.id
    <2>1. Carried(Undone(done), doneTasks) \subseteq Task
      BY DEF Carried, TypeOK
    <2>2. \A k \in Carried(Undone(done), doneTasks) : k.job \in Job /\ k.id \in TaskId
      BY <2>1 DEF Task
    <2>3. \A p \in [job : newTasks, from : {NoTask}] : p.job \in Job /\ p.from = NoTask
      OBVIOUS
    <2>4. \A k \in Carried(Undone(done), doneTasks) :
            /\ [job |-> k.job, from |-> k.id] \in added
            /\ [job |-> k.job, from |-> k.id].job = k.job
            /\ [job |-> k.job, from |-> k.id].from = k.id
      OBVIOUS
    <2>5. ASSUME NEW p \in added, p \notin [job : newTasks, from : {NoTask}]
          PROVE  \E k \in Carried(Undone(done), doneTasks) : p.job = k.job /\ p.from = k.id
      <3>1. PICK k \in Carried(Undone(done), doneTasks) : p = [job |-> k.job, from |-> k.id]
        BY <2>5, Zenon
      <3> QED BY <3>1
    <2> HIDE DEF added
    <2> QED BY <2>2, <2>3, <2>4, <2>5
  <1>9a. \A p \in added : p.job \in asked
    <2>1. \A k \in Carried(J, doneTasks) : k.job \in J
      BY DEF Carried
    <2>2. ASSUME NEW k \in Carried(J, doneTasks)
          PROVE  [job |-> k.job, from |-> k.id].job \in J
      BY <2>1
    <2>3. ASSUME NEW p \in added PROVE p.job \in asked
      <3>1. CASE p \in [job : newTasks, from : {NoTask}]
        BY <3>1
      <3>2. CASE p \in {[job |-> k.job, from |-> k.id] : k \in Carried(J, doneTasks)}
        BY <2>2, <3>2
      <3> QED BY <3>1, <3>2
    <2> QED BY <2>3
  <1> HIDE DEF new, added, nd, ns
  <1>10. /\ nextId' \in 1..(MaxTask + 1)
         /\ tasks \subseteq tasks'
         /\ tasks' \subseteq Task
         /\ \A k \in tasks' : k.id < nextId'
         /\ \A x, y \in tasks' : x.id = y.id => x = y
         /\ \A k \in tasks' \ tasks :
                k.day = nd /\ k.time = Midnight /\ \E p \in added : k.job = p.job
         /\ \A p \in added : \E k \in tasks' \ tasks : k.job = p.job /\ k.from = p.from
    <2>1. /\ nextId \in 1..(MaxTask + 1) /\ tasks \subseteq Task
          /\ \A k \in tasks : k.id < nextId
          /\ \A x, y \in tasks : x.id = y.id => x = y
      BY DEF TypeOK, Keys
    <2> DEFINE kept == tasks
    <2>2. kept \in SUBSET tasks /\ Insert(added, nd, Midnight, kept)
      BY <1>1
    <2>3. \A p \in added : p.job \in Job /\ p.from \in TaskId \union {NoTask}
      BY <1>9
    <2> HIDE DEF kept
    <2>4. /\ nextId' \in 1..(MaxTask + 1)
          /\ kept \subseteq tasks'
          /\ tasks' \subseteq Task
          /\ \A k \in tasks' : k.id < nextId'
          /\ \A x, y \in tasks' : x.id = y.id => x = y
          /\ \A k \in tasks' \ kept :
                /\ k \notin tasks /\ k.day = nd /\ k.time = Midnight
                /\ \E p \in added : k.job = p.job /\ k.from = p.from
          /\ \A p \in added : \E k \in tasks' \ tasks : k.job = p.job /\ k.from = p.from
      BY <1>4, <1>7, <2>1, <2>2, <2>3, InsertFacts
    <2> QED BY <2>4 DEF kept
  <1>11. rows' \subseteq Booking /\ \A x, y \in rows' : SameKey(x, y) => x = y
    BY <1>1, <1>8 DEF TypeOK, Keys, SameKey
  <1>12. \A k \in tasks' : \E b \in rows' : SameKey(k, b)
    <2>1. \A k \in tasks : \E b \in rows' : SameKey(k, b)
      BY <1>1 DEF TypeOK, Keys
    <2>2. \A k \in tasks' \ tasks : \E b \in rows' : SameKey(k, b)
      BY <1>1, <1>10 DEF SameKey
    <2> QED BY <2>1, <2>2
  <1>13. Remarks(done, doneTasks) \subseteq Remark
    <2>1. \A k \in page.tasks : k[1] \in TaskId /\ k[2] \in Job
      BY <1>2 DEF Page
    <2>2. \A r \in JobRemarks(done) :
            [day |-> d, shift |-> s, job |-> r.job, task |-> NoTask, completed |-> r.completed]
                \in Remark
      BY <1>3, <1>5 DEF Remark
    <2>3. ASSUME NEW k \in page.tasks
          PROVE  [day |-> d, shift |-> s, job |-> k[2], task |-> k[1],
                  completed |-> k[1] \in doneTasks] \in Remark
      <3> DEFINE ticked == k[1] \in doneTasks
      <3>1. ticked \in BOOLEAN
        OBVIOUS
      <3> HIDE DEF ticked
      <3>2. [day |-> d, shift |-> s, job |-> k[2], task |-> k[1], completed |-> ticked] \in Remark
        BY <1>3, <2>1, <3>1 DEF Remark
      <3> QED BY <3>2 DEF ticked
    <2> HIDE DEF d, s
    <2>4. Remarks(done, doneTasks) =
            {[day |-> d, shift |-> s, job |-> r.job, task |-> NoTask,
              completed |-> r.completed] : r \in JobRemarks(done)}
            \union
            {[day |-> d, shift |-> s, job |-> k[2], task |-> k[1],
              completed |-> k[1] \in doneTasks] : k \in page.tasks}
      BY Zenon DEF Remarks, d, s
    <2> QED BY <2>2, <2>3, <2>4, Zenon
  <1>14. TypeOK'
    BY <1>1, <1>10, <1>11, <1>12, <1>13 DEF TypeOK, Keys
  <1>15. \A j \in Undone(done) : \E b \in rows' : InShift(b, nd, ns) /\ b.job = j
    <2> SUFFICES ASSUME NEW j \in J PROVE \E b \in rows' : InShift(b, nd, ns) /\ b.job = j
      OBVIOUS
    <2>1. CASE j \in fresh
      BY <1>1, <1>8, <2>1 DEF InShift
    <2>2. CASE j \notin fresh
      BY <1>1, <2>2 DEF RowsOf
    <2> QED BY <2>1, <2>2
  <1>16. \A b \in rows' \ rows : InShift(b, nd, ns)
    BY <1>1, <1>8 DEF InShift
  <1>17. \A k \in Carried(Undone(done), doneTasks) : \E c \in tasks' \ tasks : c.from = k.id /\ c.job = k.job
    BY <1>9, <1>10
  <1>18. ASSUME NEW k \in tasks' \ tasks
         PROVE  \/ \E b \in rows' : InShift(b, nd, ns) /\ SameKey(k, b)
                \/ \E b \in rows : InShift(b, nd, ns) /\ b.job = k.job /\ b.time # Midnight
    <2>1. k.day = nd /\ k.time = Midnight /\ k.job \in asked
      BY <1>10, <1>9a
    <2>2. CASE k.job \in fresh
      <3>1. PICK n \in new : n.job = k.job
        BY <1>8, <2>2
      <3> QED BY <1>1, <1>8, <1>8a, <2>1, <3>1 DEF InShift, SameKey
    <2>3. CASE k.job \notin fresh
      <3>1. PICK b \in RowsOf(nd, ns) : b.job = k.job
        BY <2>1, <2>3
      <3> QED BY <1>1, <2>1, <3>1 DEF RowsOf, InShift, SameKey
    <2> QED BY <2>2, <2>3
  <1> QED BY <1>1, <1>10, <1>14, <1>15, <1>16, <1>17, <1>18 DEF nd, ns

\* loadLocoJobs.
LEMMA LoadType ==
    ASSUME TypeOK, NEW d \in Day, NEW s \in Shift, LoadJobs(d, s)
    PROVE  TypeOK'
  <1> DEFINE jobs == {b.job : b \in RowsOf(d, s)}
             old == {r \in remarks : InShift(r, d, s) /\ r.task = NoTask /\ r.job \notin jobs}
             its == {<<k.id, k.job>> : k \in TasksOf(RowsOf(d, s))}
             ghosts == {[job |-> r.job, completed |-> r.completed] : r \in old}
  <1>1. /\ page' = [day |-> d, shift |-> s, jobs |-> jobs, tasks |-> its, ghosts |-> ghosts]
        /\ UNCHANGED <<rows, tasks, nextId, remarks, despatched, today>>
    BY DEF LoadJobs
  <1>2. jobs \subseteq Job
    BY DEF TypeOK, RowsOf, Booking
  <1>3. its \subseteq TaskId \X Job
    <2>1. \A k \in TasksOf(RowsOf(d, s)) : k.id \in TaskId /\ k.job \in Job
      BY DEF TypeOK, TasksOf, Task
    <2> QED BY <2>1
  <1>4. ghosts \subseteq [job : Job, completed : BOOLEAN]
    <2>1. \A r \in old : r.job \in Job /\ r.completed \in BOOLEAN
      BY DEF TypeOK, Remark
    <2> QED BY <2>1
  <1> HIDE DEF jobs, its, ghosts
  <1>5. page' \in Page
    BY <1>1, <1>2, <1>3, <1>4 DEF Page
  <1> QED BY <1>1, <1>5 DEF TypeOK, Keys, SameKey

\* No step leaves the types or breaks a key.
LEMMA TypeStep == TypeOK /\ [Next]_vars => TypeOK'
  <1> SUFFICES ASSUME TypeOK, [Next]_vars PROVE TypeOK'
    OBVIOUS
  <1>1. CASE Create
    <2>1. PICK d \in Day, s \in Shift, t \in TimeOfDay :
            \E J \in SUBSET Job \ {{}} : \E T \in SUBSET J : CreateBooking(d, s, t, J, T)
      BY <1>1 DEF Create
    <2>2. PICK J \in SUBSET Job : \E T \in SUBSET J : CreateBooking(d, s, t, J, T)
      BY <2>1
    <2> QED BY <2>2, CreateType
  <1>2. CASE Edit
    <2>1. CASE \E d \in Day, s \in Shift, t \in Time, j \in Job : AddJob(d, s, t, j)
      BY <2>1, AddJobType
    <2>2. CASE \E b \in rows : AddTask(b)
      BY <2>2, AddTaskType
    <2>3. CASE \E b \in rows : DeleteJob(b)
      <3>1. PICK b \in rows : Delete({b})
        BY <2>3 DEF DeleteJob
      <3> QED BY <3>1, DeleteType
    <2>4. CASE \E b \in rows : \E j \in Job : UpdateJob(b, j)
      BY <2>4, UpdateJobType
    <2> QED BY <1>2, <2>1, <2>2, <2>3, <2>4 DEF Edit
  <1>3. CASE Remove
    <2>1. PICK d \in Day, t \in Time : Delete({b \in rows : b.day = d /\ b.time = t})
      BY <1>3 DEF Remove, DeleteBatch
    <2> DEFINE R == {b \in rows : b.day = d /\ b.time = t}
    <2>2. R \in SUBSET rows /\ Delete(R)
      BY <2>1
    <2> HIDE DEF R
    <2> QED BY <2>2, DeleteType
  <1>4. CASE Load
    BY <1>4, LoadType DEF Load
  <1>5. CASE Submit
    <2>1. PICK done \in SUBSET page.jobs, doneTasks \in SUBSET {k[1] : k \in page.tasks},
               newJobs \in SUBSET Job, newTasks \in SUBSET Job :
            SubmitRemarks(done, doneTasks, newJobs, newTasks)
      BY <1>5 DEF Submit
    <2> QED BY <1>5, <2>1, SubmitFacts DEF Submit
  <1>6. CASE Despatch
    BY <1>6 DEF Despatch, TypeOK, Keys, SameKey
  <1>7. CASE DateChanges
    BY <1>7, BoundsAssumption DEF DateChanges, TypeOK, Keys, SameKey, Day
  <1>8. CASE UNCHANGED vars
    BY <1>8 DEF vars, TypeOK, Keys, SameKey
  <1> QED BY <1>1, <1>2, <1>3, <1>4, <1>5, <1>6, <1>7, <1>8 DEF Next

\* Whatever the supervisors do, the rows stay well formed: no two bookings
\* of a job at the same date and time, no two tasks with the same id, no
\* task without its booking.
THEOREM TypeCorrect == Spec => []TypeOK
  <1>1. ASSUME Init PROVE TypeOK
    <2>1. nextId \in 1..(MaxTask + 1) /\ today \in Day
      BY <1>1, BoundsAssumption DEF Init, Day
    <2>2. rows = {} /\ tasks = {} /\ remarks = {} /\ despatched \in BOOLEAN /\ page = NoPage
      BY <1>1 DEF Init
    <2> QED BY <2>1, <2>2 DEF TypeOK, Keys
  <1> QED BY <1>1, TypeStep, PTL DEF Spec

-----------------------------------------------------------------------------
(* Carry-forward.                                                          *)

\* The safety part of CarryLosesNothing, for one step.
LEMMA CarryStep ==
    ASSUME TypeOK, [Next]_vars, Submitted
    PROVE  /\ rows \subseteq rows' /\ tasks \subseteq tasks'
           /\ \A r \in Incomplete : \E b \in rows' :
                InShift(b, NextDay(page.day, page.shift), NextShift(page.shift)) /\ b.job = r.job
           /\ \A k \in ToCarry : \E c \in tasks' \ tasks : c.from = k.id /\ c.job = k.job
           /\ \A b \in rows' \ rows :
                InShift(b, NextDay(page.day, page.shift), NextShift(page.shift))
           /\ \A k \in tasks' \ tasks :
                \/ \E b \in rows' :
                    /\ InShift(b, NextDay(page.day, page.shift), NextShift(page.shift))
                    /\ SameKey(k, b)
                \/ \E b \in rows :
                    /\ InShift(b, NextDay(page.day, page.shift), NextShift(page.shift))
                    /\ b.job = k.job /\ b.time # Midnight
  <1>1. Submit
    BY ZenonT(60) DEF Submitted, Next, vars, Create, CreateBooking, Edit, AddJob, AddTask, DeleteJob,
           UpdateJob, Remove, DeleteBatch, Delete, Load, LoadJobs, Despatch, DateChanges
  <1>2. PICK done \in SUBSET page.jobs, doneTasks \in SUBSET {k[1] : k \in page.tasks},
             newJobs \in SUBSET Job, newTasks \in SUBSET Job :
            SubmitRemarks(done, doneTasks, newJobs, newTasks)
    BY <1>1 DEF Submit
  <1> DEFINE J == Undone(done)
             d == page.day
             s == page.shift
  <1>3. page # NoPage /\ page \in Page
    BY DEF Submitted, TypeOK
  <1>4. /\ rows \subseteq rows' /\ tasks \subseteq tasks'
        /\ \A b \in rows' \ rows : InShift(b, NextDay(d, s), NextShift(s))
        /\ \A j \in J : \E b \in rows' : InShift(b, NextDay(d, s), NextShift(s)) /\ b.job = j
        /\ \A k \in Carried(J, doneTasks) : \E c \in tasks' \ tasks : c.from = k.id /\ c.job = k.job
        /\ remarks' = {r \in remarks : ~InShift(r, d, s)} \union Remarks(done, doneTasks)
    <2>1. /\ rows \subseteq rows' /\ tasks \subseteq tasks'
          /\ \A b \in rows' \ rows :
                InShift(b, NextDay(page.day, page.shift), NextShift(page.shift))
          /\ \A j \in J : \E b \in rows' :
                InShift(b, NextDay(page.day, page.shift), NextShift(page.shift)) /\ b.job = j
          /\ \A k \in Carried(J, doneTasks) : \E c \in tasks' \ tasks :
                c.from = k.id /\ c.job = k.job
          /\ remarks' = {r \in remarks : ~InShift(r, page.day, page.shift)}
                        \union Remarks(done, doneTasks)
      BY <1>2, <1>3, SubmitFacts
    <2> QED BY <2>1
  <1>5. \A k \in page.tasks : k[1] # NoTask
    BY <1>3 DEF Page, TaskId, NoTask
  <1>6. \A r \in Incomplete : r.job \in J
    <2> SUFFICES ASSUME NEW r \in Incomplete PROVE r.job \in J
      OBVIOUS
    <2>1. r \in Remarks(done, doneTasks) /\ r.task = NoTask /\ ~r.completed
      BY <1>4 DEF Incomplete
    <2>2. PICK q \in JobRemarks(done) : r.job = q.job /\ r.completed = q.completed
      BY <1>5, <2>1 DEF Remarks
    <2> QED BY <2>1, <2>2 DEF Undone
  <1>7. \A k \in ToCarry : k \in Carried(J, doneTasks)
    <2> SUFFICES ASSUME NEW k \in ToCarry PROVE k \in Carried(J, doneTasks)
      OBVIOUS
    <2>1. k \in tasks /\ k.day = d /\ k.job \in J
      BY <1>6 DEF ToCarry, TasksOf, RowsOf, InShift, SameKey
    <2>2. ASSUME k.id \in doneTasks PROVE FALSE
      <3>1. PICK x \in page.tasks : k.id = x[1]
        BY <2>2
      <3> DEFINE q == [day |-> d, shift |-> s, job |-> x[2], task |-> x[1],
                       completed |-> x[1] \in doneTasks]
      <3>2. q \in remarks'
        BY <1>4, Zenon DEF Remarks
      <3>3. q.day = d /\ q.shift = s /\ q.task = k.id /\ q.completed
        BY <2>2, <3>1
      <3> HIDE DEF q
      <3>4. k.id \in Ticked
        BY <3>2, <3>3 DEF Ticked, InShift
      <3> QED BY <3>4 DEF ToCarry
    <2> QED BY <2>1, <2>2 DEF Carried
  <1>8. \A k \in tasks' \ tasks :
          \/ \E b \in rows' :
              /\ InShift(b, NextDay(page.day, page.shift), NextShift(page.shift))
              /\ SameKey(k, b)
          \/ \E b \in rows :
              /\ InShift(b, NextDay(page.day, page.shift), NextShift(page.shift))
              /\ b.job = k.job /\ b.time # Midnight
    BY <1>2, <1>3, SubmitFacts
  <1> QED BY <1>4, <1>6, <1>7, <1>8

\* An accepted submission loses nothing, whatever others changed between the
\* loading of the page and its submission.
THEOREM NothingLost == Spec => CarryLosesNothing
  <1>1. TypeOK /\ [Next]_vars =>
            [Submitted =>
                /\ rows \subseteq rows' /\ tasks \subseteq tasks'
                /\ \A r \in Incomplete : \E b \in rows' :
                        InShift(b, NextDay(page.day, page.shift), NextShift(page.shift)) /\ b.job = r.job
                /\ \A k \in ToCarry : \E c \in tasks' \ tasks : c.from = k.id /\ c.job = k.job
                /\ \A b \in rows' \ rows :
                        InShift(b, NextDay(page.day, page.shift), NextShift(page.shift))]_vars
    BY CarryStep
  <1> QED BY <1>1, TypeCorrect, PTL DEF Spec, CarryLosesNothing

\* The bookings of the next shift are looked up by day and shift, so that the
\* tasks of a submission are in it, unless its booking has another time.
THEOREM CarriedRight == Spec => CarriedInPlace
  <1>1. TypeOK /\ [Next]_vars =>
            [Submitted =>
                \A k \in tasks' \ tasks :
                    \/ \E b \in rows' :
                        /\ InShift(b, NextDay(page.day, page.shift), NextShift(page.shift))
                        /\ SameKey(k, b)
                    \/ \E b \in rows :
                        /\ InShift(b, NextDay(page.day, page.shift), NextShift(page.shift))
                        /\ b.job = k.job /\ b.time # Midnight]_vars
    BY CarryStep
  <1> QED BY <1>1, TypeCorrect, PTL DEF Spec, CarriedInPlace
-----------------------------------------------------------------------------
(* Edits stay in their shift.                                              *)

\* A step that adds and removes only bookings of one shift, and only tasks
\* whose bookings are of that shift, changes what no other shift shows.
LEMMA OneShift ==
    ASSUME NEW d \in Day, NEW s \in Shift,
           \A b \in (rows' \ rows) \union (rows \ rows') : InShift(b, d, s),
           \A k \in (tasks' \ tasks) \union (tasks \ tasks'), b \in rows \intersect rows' :
                SameKey(k, b) => InShift(b, d, s)
    PROVE  ~(Cardinality(Changed) > 1)
  <1>1. ASSUME NEW x \in Day \X Shift, x # <<d, s>>
        PROVE  Shown(x[1], x[2])' = Shown(x[1], x[2])
    <2>1. \A b : InShift(b, d, s) => ~InShift(b, x[1], x[2])
      BY <1>1 DEF InShift
    <2>2. RowsOf(x[1], x[2])' = RowsOf(x[1], x[2])
      BY <2>1 DEF RowsOf
    <2> DEFINE R == RowsOf(x[1], x[2])
    <2>3. R \subseteq rows \intersect rows'
      BY <2>2 DEF RowsOf
    <2>4. \A b \in R : ~InShift(b, d, s)
      BY <2>1 DEF RowsOf
    <2>5. TasksOf(RowsOf(x[1], x[2]))' = {k \in tasks' : \E b \in R : SameKey(k, b)}
      BY <2>2 DEF TasksOf, SameKey
    <2>6. TasksOf(RowsOf(x[1], x[2])) = {k \in tasks : \E b \in R : SameKey(k, b)}
      BY DEF TasksOf
    <2> HIDE DEF R
    <2>7. {k \in tasks' : \E b \in R : SameKey(k, b)} = {k \in tasks : \E b \in R : SameKey(k, b)}
      BY <2>3, <2>4
    <2> QED BY <2>2, <2>5, <2>6, <2>7 DEF Shown
  <1>2. Changed \subseteq {<<d, s>>}
    BY <1>1 DEF Changed
  <1>3. Changed = {} \/ Changed = {<<d, s>>}
    BY <1>2
  <1>4. Cardinality(Changed) = 0 \/ Cardinality(Changed) = 1
    BY <1>3, FS_EmptySet, FS_Singleton
  <1> QED BY <1>4

\* create_booking.
LEMMA CreateInShift ==
    ASSUME TypeOK, TypeOK', NEW d \in Day, NEW s \in Shift, NEW t \in TimeOfDay,
           NEW J \in SUBSET Job, NEW T \in SUBSET J, CreateBooking(d, s, t, J, T)
    PROVE  ~(Cardinality(Changed) > 1)
  <1> DEFINE old == RowsOf(d, s)
             new == [day : {d}, time : {t}, job : J, shift : {s}]
             P == [job : T, from : {NoTask}]
             kept == tasks \ TasksOf(old)
  <1>1. t \in Time
    BY DEF Time
  <1>2. rows' = (rows \ old) \union new /\ Insert(P, d, t, kept)
    BY DEF CreateBooking, Replaced
  <1>3. /\ \A n \in new : n.day = d /\ n.time = t /\ n.job \in J /\ n.shift = s
        /\ \A j \in J : \E n \in new : n.job = j
    BY <1>1, NewRows
  <1>4. \A p \in P : p.job \in T /\ p.job \in Job /\ p.from \in TaskId \union {NoTask}
    OBVIOUS
  <1>5. kept \in SUBSET tasks
    OBVIOUS
  <1>6. \A k \in tasks \ kept : \E b \in old : SameKey(k, b)
    BY DEF TasksOf
  <1>7. \A b \in old : b \in rows /\ InShift(b, d, s)
    BY DEF RowsOf
  <1> HIDE DEF old, new, P, kept
  <1>8. /\ kept \subseteq tasks'
        /\ \A k \in tasks' \ kept : k.day = d /\ k.time = t /\ k.job \in T
    BY <1>1, <1>2, <1>4, <1>5, InsertFacts DEF TypeOK, Keys
  <1>9. \A b \in (rows' \ rows) \union (rows \ rows') : InShift(b, d, s)
    BY <1>2, <1>3, <1>7 DEF InShift
  <1>10. ASSUME NEW k \in (tasks' \ tasks) \union (tasks \ tasks'),
                NEW b \in rows \intersect rows', SameKey(k, b)
         PROVE  InShift(b, d, s)
    <2>1. CASE k \in tasks' \ tasks
      <3>1. k.day = d /\ k.time = t /\ k.job \in J
        BY <1>5, <1>8, <2>1
      <3>2. PICK n \in new : n.job = k.job
        BY <1>3, <3>1
      <3>3. SameKey(b, n) /\ n \in rows'
        BY <1>2, <1>3, <1>10, <3>1, <3>2 DEF SameKey
      <3>4. b = n
        BY <3>3 DEF TypeOK, Keys
      <3> QED BY <1>3, <3>4 DEF InShift
    <2>2. CASE k \in tasks \ tasks'
      <3>1. PICK c \in old : SameKey(k, c)
        BY <1>6, <1>8, <2>2
      <3>2. SameKey(b, c)
        BY <1>10, <3>1 DEF SameKey
      <3>3. b = c
        BY <1>7, <3>2 DEF TypeOK, Keys
      <3> QED BY <1>7, <3>3
    <2> QED BY <2>1, <2>2
  <1> QED BY <1>9, <1>10, OneShift

\* An edit of the tasks of one booking b, or of b itself: the tasks it adds
\* and removes have the key of b, or of a booking new that takes its place.
LEMMA EditInShift ==
    ASSUME TypeOK, TypeOK', NEW b \in rows, NEW new,
           \A c \in (rows' \ rows) \union (rows \ rows') : InShift(c, b.day, b.shift),
           \A k \in tasks \ tasks' : SameKey(k, b),
           \A k \in tasks' \ tasks : SameKey(k, new),
           tasks' \subseteq tasks \/ (new \in rows' /\ InShift(new, b.day, b.shift))
    PROVE  ~(Cardinality(Changed) > 1)
  <1>1. b.day \in Day /\ b.shift \in Shift
    BY DEF TypeOK, Booking
  <1>2. ASSUME NEW k \in (tasks' \ tasks) \union (tasks \ tasks'),
               NEW c \in rows \intersect rows', SameKey(k, c)
        PROVE  InShift(c, b.day, b.shift)
    <2>1. CASE k \in tasks \ tasks'
      <3>1. SameKey(c, b)
        BY <1>2, <2>1 DEF SameKey
      <3>2. c = b
        BY <3>1 DEF TypeOK, Keys
      <3> QED BY <3>2 DEF InShift
    <2>2. CASE k \in tasks' \ tasks
      <3>1. SameKey(c, new) /\ new \in rows' /\ InShift(new, b.day, b.shift)
        BY <1>2, <2>2 DEF SameKey
      <3>2. c = new
        BY <3>1 DEF TypeOK, Keys
      <3> QED BY <3>1, <3>2
    <2> QED BY <2>1, <2>2
  <1> QED BY <1>1, <1>2, OneShift

\* add_booking_task: the new task has the key of b.
LEMMA AddTaskInShift ==
    ASSUME TypeOK, TypeOK', NEW b \in rows, AddTask(b)
    PROVE  ~(Cardinality(Changed) > 1)
  <1> DEFINE P == {[job |-> b.job, from |-> NoTask]}
             kept == tasks
  <1>1. Insert(P, b.day, b.time, kept) /\ rows' = rows
    BY DEF AddTask
  <1>2. b.day \in Day /\ b.time \in Time /\ b.job \in Job
    BY DEF TypeOK, Booking
  <1>3. \A p \in P : p.job = b.job /\ p.job \in Job /\ p.from \in TaskId \union {NoTask}
    BY <1>2
  <1>4. kept \in SUBSET tasks
    OBVIOUS
  <1> HIDE DEF P
  <1>5. kept \subseteq tasks' /\ \A k \in tasks' \ kept : SameKey(k, b)
    <2> HIDE DEF kept
    <2> QED BY <1>1, <1>2, <1>3, <1>4, InsertFacts DEF TypeOK, Keys, SameKey
  <1> QED BY <1>1, <1>5, EditInShift DEF InShift

\* update_job_booking: the tasks of b give way to tasks of its successor.
LEMMA UpdateJobInShift ==
    ASSUME TypeOK, TypeOK', NEW b \in rows, NEW j \in Job, UpdateJob(b, j)
    PROVE  ~(Cardinality(Changed) > 1)
  <1> DEFINE new == [b EXCEPT !.job = j]
             old == TasksOf({b})
             P == {[job |-> j, from |-> k.from, copy |-> k.id] : k \in old}
             kept == tasks \ old
  <1>1. rows' = (rows \ {b}) \union {new} /\ Insert(P, b.day, b.time, kept)
    BY DEF UpdateJob
  <1>2. /\ b.day \in Day /\ b.time \in Time
        /\ new.day = b.day /\ new.time = b.time /\ new.job = j /\ new.shift = b.shift
    BY DEF TypeOK, Booking
  <1>3. old \subseteq Task
    BY DEF TypeOK, TasksOf
  <1>4. \A p \in P : p.job = j /\ p.job \in Job /\ p.from \in TaskId \union {NoTask}
    BY <1>3, SMTT(60) DEF Task
  <1>5. kept \in SUBSET tasks
    OBVIOUS
  <1> HIDE DEF new, P
  <1>6. kept \subseteq tasks' /\ \A k \in tasks' \ kept : SameKey(k, new)
    <2> HIDE DEF kept
    <2> QED BY <1>1, <1>2, <1>4, <1>5, InsertFacts, SMTT(60) DEF TypeOK, Keys, SameKey
  <1>7. \A k \in tasks \ tasks' : SameKey(k, b)
    BY <1>6 DEF TasksOf
  <1>8. \A k \in tasks' \ tasks : SameKey(k, new)
    BY <1>6
  <1>9. /\ \A c \in (rows' \ rows) \union (rows \ rows') : InShift(c, b.day, b.shift)
        /\ new \in rows' /\ InShift(new, b.day, b.shift)
    BY <1>1, <1>2 DEF InShift
  <1> QED BY <1>7, <1>8, <1>9, EditInShift

LEMMA ShiftStep ==
    ASSUME TypeOK, [Next]_vars, ~Submit, ~Remove
    PROVE  ~(Cardinality(Changed) > 1)
  <1>1. TypeOK'
    BY TypeStep
  <1>2. CASE rows' = rows /\ tasks' = tasks
    <2>1. 0 \in Day /\ 1 \in Shift
      BY BoundsAssumption DEF Day, Shift
    <2> QED BY <1>2, <2>1, OneShift
  <1>3. CASE Create
    <2>1. PICK d \in Day, s \in Shift, t \in TimeOfDay :
            \E J \in SUBSET Job \ {{}} : \E T \in SUBSET J : CreateBooking(d, s, t, J, T)
      BY <1>3 DEF Create
    <2>2. PICK J \in SUBSET Job : \E T \in SUBSET J : CreateBooking(d, s, t, J, T)
      BY <2>1
    <2> QED BY <1>1, <2>2, CreateInShift
  <1>4. CASE Edit
    <2>1. CASE \E d \in Day, s \in Shift, t \in Time, j \in Job : AddJob(d, s, t, j)
      <3>1. PICK d \in Day, s \in Shift, t \in Time, j \in Job : AddJob(d, s, t, j)
        BY <2>1
      <3>2. tasks' = tasks /\ \A b \in (rows' \ rows) \union (rows \ rows') : InShift(b, d, s)
        BY <3>1 DEF AddJob, InShift
      <3> QED BY <3>2, OneShift
    <2>2. ASSUME NEW b \in rows, AddTask(b) PROVE ~(Cardinality(Changed) > 1)
      BY <1>1, <2>2, AddTaskInShift
    <2>3. ASSUME NEW b \in rows, DeleteJob(b) PROVE ~(Cardinality(Changed) > 1)
      <3>1. rows' = rows \ {b} /\ tasks' = tasks \ TasksOf({b})
        BY <2>3 DEF DeleteJob, Delete
      <3>2. tasks' \subseteq tasks /\ \A k \in tasks \ tasks' : SameKey(k, b)
        BY <3>1 DEF TasksOf
      <3>3. \A c \in (rows' \ rows) \union (rows \ rows') : InShift(c, b.day, b.shift)
        BY <3>1 DEF InShift
      <3> QED BY <1>1, <3>2, <3>3, EditInShift
    <2>4. ASSUME NEW b \in rows, NEW j \in Job, UpdateJob(b, j)
          PROVE  ~(Cardinality(Changed) > 1)
      BY <1>1, <2>4, UpdateJobInShift
    <2> QED BY <1>4, <2>1, <2>2, <2>3, <2>4 DEF Edit
  <1> QED BY <1>2, <1>3, <1>4 DEF Next, vars, Load, LoadJobs, Despatch, DateChanges

\* Booking or editing the work of one shift never disturbs another shift:
\* whatever the handlers of the booking page do, at most one shift shows
\* something else afterwards.
THEOREM ShiftsApart == Spec => EditsStayInShift
  <1>1. TypeOK /\ [Next]_vars => [Cardinality(Changed) > 1 => Submit \/ Remove]_vars
    BY ShiftStep
  <1> QED BY <1>1, TypeCorrect, PTL DEF Spec, EditsStayInShift
=============================================================================
