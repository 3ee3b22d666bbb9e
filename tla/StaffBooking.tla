---------------------------- MODULE StaffBooking ----------------------------
(***************************************************************************)
(* save_bookings and update_availabilities: who works on which locomotive  *)
(* in one (date, shift) window, and what the booking wizard tells its user *)
(* about it.                                                               *)
(*                                                                         *)
(* A click on "save" sends several saves at once: one per locomotive when  *)
(* supervisors are booked, one per supervisor when the staff of a          *)
(* locomotive is.  Promise.all reports success when all of them succeed    *)
(* and failure with the first that fails, while the others still run.      *)
(*                                                                         *)
(* A save is one PostgreSQL transaction at READ COMMITTED: a statement     *)
(* sees what is committed when it starts, and other saves run between two  *)
(* of its statements.                                                      *)
(*                                                                         *)
(* Client is the set of wizards whose saves pass the lock check: one when  *)
(* the editing lock is held, two when it is lost (see EditLock).           *)
(***************************************************************************)
EXTENDS Naturals, FiniteSets

CONSTANTS
    Client,     \* wizards whose saves pass the lock check
    Patient,    \* does a user wait for the rest of a click that failed?
    Loco,       \* locomotives booked for the window
    Sup,        \* supervisors (designation SSE or JE)
    Staff,      \* other employees
    NoStaff,    \* staff_ticket_number IS NULL: the supervisor's own row
    Absentee,   \* employees that update_availabilities may mark absent
    Slot,       \* bounds the saves in flight at any time
    Nothing     \* no click, no payload

ASSUME KindsAssumption ==
    /\ Patient \in BOOLEAN
    /\ Sup \cap Staff = {}
    /\ NoStaff \notin Staff
    /\ Absentee \subseteq Sup \union Staff

ASSUME FiniteAssumption ==
    IsFiniteSet(Slot) /\ IsFiniteSet(Sup) /\ IsFiniteSet(Staff)

\* A row of employee_bookings.  The table has no unique constraint: two rows
\* that say the same differ in their booking_id.
Row == [loco : Loco, sup : Sup, staff : Staff \union {NoStaff}, id : Nat]

(* The payload of one save.  Case A names the supervisors of a locomotive, *)
(* case B the staff of one supervisor on a locomotive.                     *)
SupsAsk  == [kind : {"sups"}, loco : Loco, sups : SUBSET Sup]
StaffAsk == [kind : {"staff"}, loco : Loco, sup : Sup, staff : SUBSET Staff]

(* What the user sees on the screen when clicking: the supervisors chosen  *)
(* for every locomotive, or the staff chosen for one of them together with *)
(* the supervisors linked to it on the screen, saved or not.               *)
SupsClick  == [kind : {"sups"}, chosen : [Loco -> SUBSET Sup]]
StaffClick == [kind : {"staff"}, loco : Loco, sups : SUBSET Sup \ {{}}, staff : SUBSET Staff]
Click      == SupsClick \union StaffClick

\* handleSaveSupervisors and handleSaveStaff: the saves of a click.
SavesOf(k) ==
    IF k.kind = "sups"
    THEN {[kind |-> "sups", loco |-> l, sups |-> k.chosen[l]] : l \in Loco}
    ELSE {[kind |-> "staff", loco |-> k.loco, sup |-> s, staff |-> k.staff] : s \in k.sups}

VARIABLES
    rows,     \* employee_bookings of the window, committed
    absent,   \* employee_availability of the window, committed
    click,    \* click[c]: the click whose spinner turns in wizard c
    batch,    \* batch[c]: its saves not answered yet
    pc,       \* pc[r]: the next statement of the save in slot r
    owner,    \* owner[r]: the wizard that sent it
    ask,      \* ask[r]: its payload
    seen,     \* seen[r]: supervisors its SELECT found assigned
    doomed    \* doomed[r]: rows it has deleted but not committed

vars == <<rows, absent, click, batch, pc, owner, ask, seen, doomed>>
save == <<pc, owner, ask, seen, doomed>>

TypeOK ==
    /\ rows \subseteq Row
    /\ absent \subseteq Absentee
    /\ click \in [Client -> Click \union {Nothing}]
    /\ batch \in [Client -> SUBSET Slot]
    /\ pc \in [Slot -> {"free", "check", "read", "delete", "locking", "commit", "publish"}]
    /\ owner \in [Slot -> Client \union {Nothing}]
    /\ ask \in [Slot -> SupsAsk \union StaffAsk \union {Nothing}]
    /\ seen \in [Slot -> SUBSET Sup]
    /\ doomed \in [Slot -> SUBSET Row]
    /\ \A r \in Slot : pc[r] = "free" => ask[r] = Nothing /\ doomed[r] = {}
    /\ \A c \in Client : \A r \in batch[c] : pc[r] # "free" /\ owner[r] = c

Init ==
    /\ rows = {}
    /\ absent = {}
    /\ click = [c \in Client |-> Nothing]
    /\ batch = [c \in Client |-> {}]
    /\ pc = [r \in Slot |-> "free"]
    /\ owner = [r \in Slot |-> Nothing]
    /\ ask = [r \in Slot |-> Nothing]
    /\ seen = [r \in Slot |-> {}]
    /\ doomed = [r \in Slot |-> {}]

-----------------------------------------------------------------------------
(* The wizard.                                                             *)

\* handleSaveSupervisors, handleSaveStaff: every save of the click is sent.
\* The button is disabled while a click is being saved, not afterwards.
Save(c, k) ==
    /\ click[c] = Nothing
    /\ Patient => \A r \in Slot : owner[r] # c
    /\ \E R \in SUBSET {r \in Slot : pc[r] = "free"} :
        /\ Cardinality(R) = Cardinality(SavesOf(k))
        /\ \E f \in [R -> SavesOf(k)] :
            /\ \A a \in SavesOf(k) : \E r \in R : f[r] = a
            /\ ask' = [r \in Slot |-> IF r \in R THEN f[r] ELSE ask[r]]
        /\ pc' = [r \in Slot |-> IF r \in R THEN "check" ELSE pc[r]]
        /\ owner' = [r \in Slot |-> IF r \in R THEN c ELSE owner[r]]
        /\ batch' = [batch EXCEPT ![c] = R]
    /\ click' = [click EXCEPT ![c] = k]
    /\ UNCHANGED <<rows, absent, seen, doomed>>

\* The save in slot r is answered.  With the last 200 the wizard reports
\* success, with the first error failure.
Answer(r, ok) ==
    LET c    == owner[r]
        rest == batch[c] \ {r}
    IN
    /\ pc' = [pc EXCEPT ![r] = "free"]
    /\ owner' = [owner EXCEPT ![r] = Nothing]
    /\ ask' = [ask EXCEPT ![r] = Nothing]
    /\ seen' = [seen EXCEPT ![r] = {}]
    /\ doomed' = [doomed EXCEPT ![r] = {}]
    /\ IF r \in batch[c]
       THEN /\ batch' = [batch EXCEPT ![c] = IF ok THEN rest ELSE {}]
            /\ click' = [click EXCEPT ![c] = IF ok /\ rest # {} THEN @ ELSE Nothing]
       ELSE UNCHANGED <<batch, click>>

\* update_availabilities replaces the absences of the window, lock or no
\* lock.
UpdateAvailabilities ==
    /\ absent' \in SUBSET Absentee
    /\ UNCHANGED <<rows, click, batch, save>>

-----------------------------------------------------------------------------
(* save_bookings, statement by statement.                                  *)

\* Whom the save in slot r would put to work.
Wanted(r) == IF ask[r].kind = "sups" THEN ask[r].sups ELSE ask[r].staff

\* SELECT the absent employees: a save that names one of them is refused
\* before it writes anything.  So is every save once the window is locked
\* by somebody else.
CheckAbsent(r) ==
    /\ pc[r] = "check"
    /\ IF Wanted(r) \cap absent = {}
       THEN pc' = [pc EXCEPT ![r] = "read"] /\ UNCHANGED <<click, batch, owner, ask, seen, doomed>>
       ELSE Answer(r, FALSE)
    /\ UNCHANGED <<rows, absent>>

LockedOut(r) ==
    /\ pc[r] = "check"
    /\ Answer(r, FALSE)
    /\ UNCHANGED <<rows, absent>>

\* The supervisors of a locomotive that a row of R names.
Assigned(R, l) == {b.sup : b \in {c \in R : c.loco = l}}

\* SELECT who is assigned already.  Case A looks at every row of the
\* locomotive, case B for the supervisor's own row only.
ReadAssigned(r) ==
    /\ pc[r] = "read"
    /\ LET l == ask[r].loco IN
       seen' = [seen EXCEPT ![r] =
           IF ask[r].kind = "sups"
           THEN Assigned(rows, l)
           ELSE Assigned({b \in rows : b.staff = NoStaff}, l) \cap {ask[r].sup}]
    /\ pc' = [pc EXCEPT ![r] = "delete"]
    /\ UNCHANGED <<rows, absent, click, batch, owner, ask, doomed>>

\* Variant: the DELETE of case B without "staff_ticket_number IS NOT NULL".
MatchingOwnRow(r) ==
    {b \in rows :
        /\ b.loco = ask[r].loco
        /\ \/ ask[r].kind = "sups" /\ b.sup \in seen[r] \ ask[r].sups
           \/ ask[r].kind = "staff" /\ b.sup = ask[r].sup}

\* Variant: the DELETE of case B without the supervisor.
MatchingAnySup(r) ==
    {b \in rows :
        /\ b.loco = ask[r].loco
        /\ \/ ask[r].kind = "sups" /\ b.sup \in seen[r] \ ask[r].sups
           \/ ask[r].kind = "staff" /\ b.staff # NoStaff}

\* The rows the DELETE of r matches: case A drops the supervisors no longer
\* selected with their staff, case B the staff of its supervisor.
Matching(r) ==
    {b \in rows :
        /\ b.loco = ask[r].loco
        /\ \/ ask[r].kind = "sups" /\ b.sup \in seen[r] \ ask[r].sups
           \/ ask[r].kind = "staff" /\ b.sup = ask[r].sup /\ b.staff # NoStaff}

\* DELETE starts: it finds the rows committed by now ...
DeleteStart(r) ==
    /\ pc[r] = "delete"
    /\ doomed' = [doomed EXCEPT ![r] = Matching(r)]
    /\ pc' = [pc EXCEPT ![r] = "locking"]
    /\ UNCHANGED <<rows, absent, click, batch, owner, ask, seen>>

\* ... waits for the transactions that have deleted one of them, and leaves
\* out the rows that are gone when those transactions have ended.
DeleteLock(r) ==
    /\ pc[r] = "locking"
    /\ \A q \in Slot : pc[q] = "commit" => doomed[q] \cap doomed[r] = {}
    /\ doomed' = [doomed EXCEPT ![r] = @ \cap rows]
    /\ pc' = [pc EXCEPT ![r] = "commit"]
    /\ UNCHANGED <<rows, absent, click, batch, owner, ask, seen>>

\* The assignments save r inserts: own rows for the supervisors it did not
\* find, and the staff it was asked to book.
Inserted(r) ==
    LET a == ask[r]
        New(s, e) == [loco |-> a.loco, sup |-> s, staff |-> e]
    IN
    IF a.kind = "sups"
    THEN {New(s, NoStaff) : s \in a.sups \ seen[r]}
    ELSE {New(a.sup, NoStaff) : s \in {a.sup} \ seen[r]}
         \union {New(a.sup, e) : e \in a.staff}

Assignment(b) == [loco |-> b.loco, sup |-> b.sup, staff |-> b.staff]

\* A row for assignment n with an id that no other row for it has, be it
\* committed or about to be deleted.
NewRow(n) ==
    LET used == {b.id : b \in {c \in rows \union UNION {doomed[q] : q \in Slot} : Assignment(c) = n}}
        id   == CHOOSE i \in 0..Cardinality(used) : i \notin used
    IN [loco |-> n.loco, sup |-> n.sup, staff |-> n.staff, id |-> id]

\* COMMIT.  The notifications are stored with it and broadcast after it.
Commit(r) ==
    /\ pc[r] = "commit"
    /\ rows' = (rows \ doomed[r]) \union {NewRow(n) : n \in Inserted(r)}
    /\ doomed' = [doomed EXCEPT ![r] = {}]
    /\ pc' = [pc EXCEPT ![r] = "publish"]
    /\ UNCHANGED <<absent, click, batch, owner, ask, seen>>

\* Variant: the failed save keeps its row locks.
AbortNoRollback(r) ==
    /\ pc[r] \in {"check", "read", "delete", "locking", "commit"}
    /\ pc' = [pc EXCEPT ![r] = "free"]
    /\ ask' = [ask EXCEPT ![r] = Nothing]
    /\ owner' = [owner EXCEPT ![r] = Nothing]
    /\ batch' = [batch EXCEPT ![owner[r]] = {}]
    /\ click' = [click EXCEPT ![owner[r]] = Nothing]
    /\ UNCHANGED <<rows, absent, seen, doomed>>

\* A statement or the COMMIT fails: rollback, 500.
Abort(r) ==
    /\ pc[r] \in {"check", "read", "delete", "locking", "commit"}
    /\ Answer(r, FALSE)
    /\ UNCHANGED <<rows, absent>>

\* broadcast_event of every notification: 200; or Redis refuses one: the
\* rollback of the committed transaction changes nothing, and the answer
\* is the same 500.
Publish(r) ==
    /\ pc[r] = "publish"
    /\ \E accepted \in BOOLEAN : Answer(r, accepted)
    /\ UNCHANGED <<rows, absent>>

-----------------------------------------------------------------------------
Progress(r) ==
    \/ CheckAbsent(r) \/ ReadAssigned(r) \/ DeleteStart(r)
    \/ DeleteLock(r) \/ Commit(r) \/ Publish(r)

Next ==
    \/ \E c \in Client, k \in Click : Save(c, k)
    \/ \E r \in Slot : Progress(r) \/ LockedOut(r) \/ Abort(r)
    \/ UpdateAvailabilities

Spec == Init /\ [][Next]_vars

-----------------------------------------------------------------------------
(* Properties.                                                             *)

\* While the lock keeps other wizards out, the table stays in good order
\* although the saves of a click interleave and some of them fail: no
\* assignment is there twice, and no staff is booked under a supervisor
\* without a row.
Orderly ==
    /\ \A b, c \in rows : Assignment(b) = Assignment(c) => b = c
    /\ \A b \in rows : \E c \in rows :
        c.loco = b.loco /\ c.sup = b.sup /\ c.staff = NoStaff

\* The table says what the user saw when clicking k.
Shows(k) ==
    IF k.kind = "sups"
    THEN \A l \in Loco : Assigned(rows, l) = k.chosen[l]
    ELSE \A s \in k.sups :
            {b.staff : b \in {d \in rows : d.loco = k.loco /\ d.sup = s}}
                = k.staff \union {NoStaff}

\* Wizard c reports that its click was saved.
Succeeds(c) ==
    /\ click[c] # Nothing
    /\ \E r \in Slot : /\ batch[c] = {r}
                       /\ pc[r] = "publish"
                       /\ Answer(r, TRUE)

\* "All supervisor assignments saved successfully": when the wizard says so,
\* the assignments of every locomotive are those on the screen; no save of
\* this click or of an earlier one has undone what another one did.
SavedAsShown == [][\A c \in Client : Succeeds(c) => Shows(click[c])]_vars

\* "Staff are never double-booked across different locomotives in the same
\* shift."
NeverDoubleBooked ==
    \A b, c \in rows : b.staff # NoStaff /\ b.staff = c.staff => b.loco = c.loco
=============================================================================
