--------------------------- MODULE MasterTables ---------------------------
(***************************************************************************)
(* The master tables and the three pages that edit them:                   *)
(*   - MasterDataCrudWizard of an administrator, over all tables;          *)
(*   - MasterDataPage of a supervisor, over types, locomotives and jobs;   *)
(*   - AdminStaffManager, over the administrators.                         *)
(*                                                                         *)
(* A page has one list, whatever the table, and builds the address of a    *)
(* row from the tab it shows and a field of the listed item.  Rows are     *)
(* records here, so that this field can be another table's foreign key.    *)
(* Names, e-mail addresses and passwords are left out, and so is the       *)
(* despatch date, which is written together with "despatched".             *)
(*                                                                         *)
(* A handler reads in one step and commits in another.  A page has one     *)
(* change under way at a time; a second one is left to another page.       *)
(***************************************************************************)
EXTENDS Naturals, FiniteSets

CONSTANTS
    Wizard,       \* pages of administrators
    Yard,         \* pages of supervisors
    Personnel,    \* pages of administrators about administrators
    Id,           \* primary keys, of every table
    Stage,        \* stages a locomotive can have; 9 is the last
    PerPage,      \* rows on one page of a list
    MaxLoads,     \* bounds the lists of one page that are under way
    None

ASSUME IdAssumption == Id \subseteq Nat /\ None \notin Id
ASSUME PerPageAssumption == PerPage \in Nat \ {0}
ASSUME StageAssumption == 9 \in Stage
ASSUME PageAssumption == Wizard \cap Yard = {} /\ (Wizard \union Yard) \cap Personnel = {}

Page == Wizard \union Yard \union Personnel

Key == [categories |-> "category_id", designations |-> "designation_id",
        employees |-> "ticket_number", admins |-> "ticket_number",
        types |-> "loco_type_id", locos |-> "loco_number", jobs |-> "job_id"]

Tab == DOMAIN Key

\* The table a row of t refers to, by a field with the name of its key.
Up == [designations |-> "categories", employees |-> "designations",
       admins |-> "employees", locos |-> "types"]

Row(t) ==
    CASE t = "categories"   -> [category_id : Id]
      [] t = "designations" -> [designation_id : Id, category_id : Id]
      [] t = "employees"    -> [ticket_number : Id, designation_id : Id]
      [] t = "admins"       -> [ticket_number : Id]
      [] t = "types"        -> [loco_type_id : Id]
      [] t = "locos"        -> [loco_number : Id, loco_type_id : Id,
                                stage : Stage, despatched : BOOLEAN]
      [] t = "jobs"         -> [job_id : Id]

\* An employee is listed with the category of their designation.
Item(t) ==
    IF t = "employees" THEN [ticket_number : Id, designation_id : Id, category_id : Id]
                       ELSE Row(t)

AnyItem == UNION {Row(t) \union Item(t) : t \in Tab}

\* The tabs of a page.
Tabs(u) ==
    IF u \in Wizard THEN Tab ELSE IF u \in Yard THEN {"types", "locos", "jobs"} ELSE {"admins"}

VARIABLES
    emailOtp,     \* the setting ENABLE_EMAIL_OTP
    table,        \* table[t]: the rows of t
    promo,        \* employees with a Redis key otp:admin_reg
    page,         \* page[u]: what page u shows
    loads,        \* loads[u]: lists of u that are under way
    act,          \* act[u]: the change by u that is being handled
    tornLocos,    \* locomotives two handlers have had in hand at a time
    tornAdmins,   \* two handlers have taken administrators away at a time
    calm          \* calm[u]: the lists of u came one at a time, and none failed

vars == <<emailOtp, table, promo, page, loads, act, tornLocos, tornAdmins, calm>>

\* "of" is the table the items come from.  A form is {} for a new row, {r} for
\* the listed item r.
NewPage(t) == [tab |-> t, of |-> t, items |-> {}, form |-> None, loading |-> TRUE,
               otpFor |-> None, no |-> 1]

\* Items(t) is what a load of t answers.
Items(t) ==
    IF t = "employees"
    THEN {[ticket_number |-> e.ticket_number, designation_id |-> e.designation_id,
           category_id |-> (CHOOSE d \in table["designations"] :
                              d.designation_id = e.designation_id).category_id] :
            e \in table["employees"]}
    ELSE table[t]

Keyed(t, k) == {r \in table[t] : r[Key[t]] = k}

\* What a page shows, a list that is under way, and a change.
Shown == [tab : Tab, of : Tab, items : SUBSET AnyItem, form : {None} \union SUBSET AnyItem,
          loading : BOOLEAN, otpFor : Id \union {None}, no : Nat \ {0}]
Load == [tab : Tab, rows : {None} \union SUBSET AnyItem]
Change == [op : {"post", "put", "delete", "verify"}, tab : Tab, key : Id \union {None},
           row : SUBSET AnyItem, seen : SUBSET AnyItem, at : {"sent", "read"}]

\* A page shows its own tabs, and only a page of Personnel asks for a code.
PageOK(u) ==
    /\ page[u].tab \in Tabs(u) /\ page[u].of \in Tabs(u)
    /\ page[u].items \subseteq Item(page[u].of)
    /\ page[u].otpFor # None => u \in Personnel /\ emailOtp

LoadsOK(u) ==
    \A l \in loads[u] : l.tab \in Tabs(u) /\ (l.rows = None \/ l.rows \subseteq Item(l.tab))

\* A change carries the row it writes, and is sent to the address of that row
\* unless the item edited has no such key.
ChangeOK(u) ==
    act[u] # None =>
        /\ act[u].tab \in Tabs(u)
        /\ act[u].op = "put" => act[u].tab # "admins"
        /\ act[u].op = "verify" => act[u].tab = "admins"
        /\ IF act[u].op = "delete" THEN act[u].row = {}
           ELSE \E r \in Row(act[u].tab) :
                  /\ act[u].row = {r}
                  /\ act[u].key \in {r[Key[act[u].tab]], None}
                  /\ act[u].key = None => act[u].op = "put"
        /\ \A o \in act[u].seen : o \in Row(act[u].tab) /\ o[Key[act[u].tab]] = act[u].key

\* What PostgreSQL sees to.
PrimaryKeys == \A t \in Tab : \A r, q \in table[t] : r[Key[t]] = q[Key[t]] => r = q
ForeignKeys == \A t \in DOMAIN Up : \A r \in table[t] : Keyed(Up[t], r[Key[Up[t]]]) # {}

TypeOK ==
    /\ emailOtp \in BOOLEAN
    /\ table \in [Tab -> SUBSET AnyItem] /\ \A t \in Tab : table[t] \subseteq Row(t)
    /\ promo \subseteq Id
    /\ page \in [Page -> Shown]
    /\ loads \in [Page -> SUBSET Load]
    /\ act \in [Page -> {None} \union Change]
    /\ \A u \in Page : PageOK(u) /\ LoadsOK(u) /\ ChangeOK(u)
    /\ tornLocos \subseteq Id
    /\ tornAdmins \in BOOLEAN
    /\ calm \in [Page -> BOOLEAN]
    /\ PrimaryKeys /\ ForeignKeys

\* A locomotive at stage 9 has left, and no other.
Fits(r) == (r.stage = 9) = r.despatched

Init ==
    /\ emailOtp \in BOOLEAN
    /\ table \in {f \in [Tab -> SUBSET AnyItem] : \A t \in Tab : f[t] \subseteq Row(t)}
    /\ PrimaryKeys /\ ForeignKeys
    /\ \A r \in table["locos"] : Fits(r)
    /\ table["admins"] # {}
    /\ promo = {}
    /\ page = [u \in Page |-> NewPage(IF u \in Wizard THEN "categories"
                                      ELSE IF u \in Yard THEN "types" ELSE "admins")]
    /\ loads = [u \in Page |-> {[tab |-> page[u].tab, rows |-> None]}]
    /\ act = [u \in Page |-> None]
    /\ tornLocos = {}
    /\ tornAdmins = FALSE
    /\ calm = [u \in Page |-> TRUE]

-----------------------------------------------------------------------------
(* The pages.                                                              *)

\* The n-th page of rows in the order of their keys.
Slice(rows, key, n) ==
    {r \in rows : Cardinality({x \in rows : x[key] < r[key]})
                   \in (n - 1) * PerPage .. n * PerPage - 1}

\* MasterDataList cuts a page out of the rows it is given; the page of an
\* administrator has already cut it out.
Listed(u) ==
    LET key  == Key[page[u].of]
        rows == Slice(page[u].items, key, page[u].no)
    IN  IF u \in Wizard /\ page[u].tab \in {"types", "locos", "jobs"}
        THEN Slice(rows, key, page[u].no) ELSE rows

Pages(u) == (Cardinality(page[u].items) + PerPage - 1) \div PerPage

\* What the pages offer: the tabs and "Add" unless a form covers them, the
\* buttons of a row unless the list is loading, and no deletion of the only
\* administrator of the list.
CanSwitch(u)    == u \notin Personnel /\ page[u].form = None
RowsShown(u)    == page[u].form = None /\ ~page[u].loading
CanEdit(u)      == CanSwitch(u) /\ RowsShown(u) /\ page[u].tab # "admins"
CanDelete(u)    == RowsShown(u) /\ (page[u].tab = "admins" => Cardinality(page[u].items) > 1)
CanSubmit(u)    == page[u].form # None /\ ~page[u].loading
OtpShown(u)     == page[u].otpFor # None

StartLoad(u, t) ==
    /\ Cardinality(loads[u]) < MaxLoads
    /\ loads' = [loads EXCEPT ![u] = @ \union {[tab |-> t, rows |-> None]}]

\* Variant: the effect loads the tab that was shown before.
SwitchTabStale(u, t) ==
    /\ CanSwitch(u)
    /\ t \in Tabs(u) \ {page[u].tab}
    /\ StartLoad(u, page[u].tab)
    /\ page' = [page EXCEPT ![u].tab = t, ![u].loading = TRUE, ![u].no = 1]
    /\ calm' = [calm EXCEPT ![u] = @ /\ loads[u] = {} /\ act[u] = None]
    /\ UNCHANGED <<emailOtp, table, promo, act, tornLocos, tornAdmins>>

\* A tab is loaded without cancelling the load of the last one.
SwitchTab(u, t) ==
    /\ CanSwitch(u)
    /\ t \in Tabs(u) \ {page[u].tab}
    /\ StartLoad(u, t)
    /\ page' = [page EXCEPT ![u].tab = t, ![u].loading = TRUE, ![u].no = 1]
    /\ calm' = [calm EXCEPT ![u] = @ /\ loads[u] = {} /\ act[u] = None]
    /\ UNCHANGED <<emailOtp, table, promo, act, tornLocos, tornAdmins>>

\* The list handlers.
ServeLoad(u, l) ==
    /\ l \in loads[u] /\ l.rows = None
    /\ loads' = [loads EXCEPT ![u] = (@ \ {l}) \union {[l EXCEPT !.rows = Items(l.tab)]}]
    /\ UNCHANGED <<emailOtp, table, promo, page, act, tornLocos, tornAdmins, calm>>

\* fetchData of either page, fetchAdmins.
LoadArrives(u, l) ==
    /\ l \in loads[u] /\ l.rows # None
    /\ loads' = [loads EXCEPT ![u] = @ \ {l}]
    /\ page' = [page EXCEPT ![u].items = l.rows, ![u].of = l.tab, ![u].loading = FALSE]
    /\ UNCHANGED <<emailOtp, table, promo, act, tornLocos, tornAdmins, calm>>

LoadFails(u, l) ==
    /\ l \in loads[u]
    /\ loads' = [loads EXCEPT ![u] = @ \ {l}]
    /\ page' = [page EXCEPT ![u].loading = FALSE]
    /\ calm' = [calm EXCEPT ![u] = FALSE]
    /\ UNCHANGED <<emailOtp, table, promo, act, tornLocos, tornAdmins>>

\* The buttons "Previous" and "Next".
TurnPage(u, n) ==
    /\ page[u].form = None
    /\ n \in 1 .. Pages(u) /\ n \in {page[u].no - 1, page[u].no + 1}
    /\ page' = [page EXCEPT ![u].no = n]
    /\ UNCHANGED <<emailOtp, table, promo, loads, act, tornLocos, tornAdmins, calm>>

SetForm(u, f) ==
    /\ page' = [page EXCEPT ![u].form = f]
    /\ UNCHANGED <<emailOtp, table, promo, loads, act, tornLocos, tornAdmins, calm>>

OpenNew(u) == CanSwitch(u) /\ SetForm(u, {})

OpenEdit(u, r) == CanEdit(u) /\ r \in Listed(u) /\ SetForm(u, {r})

\* The form can be closed while it is being saved.
CancelForm(u) == page[u].form # None /\ SetForm(u, None)

Send(u, op, k, row) ==
    /\ act[u] = None
    /\ act' = [act EXCEPT ![u] = [op |-> op, tab |-> page[u].tab, key |-> k, row |-> row,
                                  seen |-> {}, at |-> "sent"]]
    /\ UNCHANGED <<emailOtp, table, promo, loads, tornLocos, tornAdmins, calm>>

\* The field of an item that a page takes for the key of the table it shows.
KeyOf(u, r) == IF Key[page[u].tab] \in DOMAIN r THEN r[Key[page[u].tab]] ELSE None

\* What a form can be filled with: any row of the table shown, the key being
\* that of the item when one is edited.
Filled(u, row) ==
    /\ row \in Row(page[u].tab)
    /\ \A r \in page[u].form : KeyOf(u, r) \in {row[Key[page[u].tab]], None}

Submit(u, row) ==
    /\ CanSubmit(u) /\ Filled(u, row)
    /\ page' = [page EXCEPT ![u].loading = TRUE]
    /\ IF page[u].form = {} \/ page[u].tab = "admins"
       THEN Send(u, "post", row[Key[page[u].tab]], {row})
       ELSE \E r \in page[u].form : Send(u, "put", KeyOf(u, r), {row})

\* handleDelete, handleRevokeAdmin.
Delete(u, r) ==
    /\ CanDelete(u)
    /\ r \in Listed(u)
    /\ page' = [page EXCEPT ![u].loading = TRUE]
    /\ Send(u, "delete", KeyOf(u, r), {})

Grant(u, k) ==
    /\ u \in Personnel /\ ~OtpShown(u)
    /\ Send(u, "post", k, {[ticket_number |-> k]})
    /\ UNCHANGED page

\* The code was e-mailed to the employee, who tells it.
Verify(u) ==
    /\ OtpShown(u)
    /\ Send(u, "verify", page[u].otpFor, {[ticket_number |-> page[u].otpFor]})
    /\ UNCHANGED page

CancelOtp(u) ==
    /\ OtpShown(u)
    /\ page' = [page EXCEPT ![u].otpFor = None]
    /\ UNCHANGED <<emailOtp, table, promo, loads, act, tornLocos, tornAdmins, calm>>

-----------------------------------------------------------------------------
(* The handlers.                                                           *)

\* What a page does with the answer: a saved form is closed, whatever has been
\* opened since, and the list loaded anew, without hiding the old one.
Done(u) ==
    /\ StartLoad(u, act[u].tab)
    /\ act' = [act EXCEPT ![u] = None]
    /\ page' = [page EXCEPT ![u].form = IF act[u].op = "delete" THEN @ ELSE None,
                            ![u].loading = u \in Personnel /\ act[u].op # "delete",
                            ![u].otpFor = IF act[u].op = "verify" THEN None ELSE @]

Failed(u) ==
    /\ act' = [act EXCEPT ![u] = None]
    /\ page' = [page EXCEPT ![u].loading = IF u \in Personnel /\ act[u].op # "delete"
                                           THEN @ ELSE FALSE]
    /\ UNCHANGED loads

\* The changes that take an administrator away, and have read that one remains.
RemovesAdmin(v) ==
    act[v] # None /\ act[v].op = "delete" /\ act[v].at = "read"
                  /\ act[v].tab \in {"admins", "employees"}

\* Variant: an employee is deleted without asking who remains.
TakesLastUnasked(a) ==
    /\ a.op = "delete" /\ a.tab = "admins"
    /\ Keyed("admins", a.key) # {} /\ Cardinality(table["admins"]) <= 1

\* The deletion of an administrator, or of the employee they are, counts them.
TakesLast(a) ==
    /\ a.op = "delete" /\ a.tab \in {"admins", "employees"}
    /\ Keyed("admins", a.key) # {} /\ Cardinality(table["admins"]) <= 1

\* Variant: only one direction is asked for.
UnfitOneWay(a) ==
    a.op # "delete" /\ a.tab = "locos" /\ \E r \in a.row : r.despatched /\ r.stage # 9

Unfit(a) == a.op # "delete" /\ a.tab = "locos" /\ \E r \in a.row : ~Fits(r)

\* What the queries before a change have to find, or not.
Missed(a) ==
    LET found == Keyed(a.tab, a.key) IN
    \/ a.op \in {"put", "delete"} /\ found = {}
    \/ a.op = "post" /\ a.tab = "employees" /\ found # {}
    \/ a.op \in {"post", "verify"} /\ a.tab = "admins"
           /\ (found # {} \/ Keyed("employees", a.key) = {})
    \/ a.op = "verify" /\ a.key \notin promo

Refused(a) == Missed(a) \/ Unfit(a) \/ TakesLast(a)

Refuse(u) ==
    /\ act[u] # None /\ act[u].at = "sent" /\ Refused(act[u])
    /\ Failed(u)
    /\ UNCHANGED <<emailOtp, table, promo, tornLocos, tornAdmins, calm>>

\* With e-mail codes an administrator is not made yet.
MailsCode(a) == emailOtp /\ a.op = "post" /\ a.tab = "admins"

\* The queries before a change.
Read(u) ==
    /\ act[u] # None /\ act[u].at = "sent" /\ ~Refused(act[u]) /\ ~MailsCode(act[u])
    /\ act' = [act EXCEPT ![u].at = "read", ![u].seen = Keyed(act[u].tab, act[u].key)]
    /\ tornLocos' = IF act[u].tab = "locos" /\ \E v \in Page :
                          act[v] # None /\ act[v].tab = "locos" /\ act[v].at = "read"
                                       /\ act[v].key = act[u].key
                    THEN tornLocos \union {act[u].key} ELSE tornLocos
    /\ tornAdmins' = (tornAdmins \/
                        /\ act[u].op = "delete" /\ act[u].tab \in {"admins", "employees"}
                        /\ \E v \in Page : RemovesAdmin(v))
    /\ UNCHANGED <<emailOtp, table, promo, page, loads, calm>>

\* add_admin with e-mail codes: one page asks for the code, the other takes the
\* answer for a saved row.
SendCode(u) ==
    /\ act[u] # None /\ act[u].at = "sent" /\ ~Refused(act[u]) /\ MailsCode(act[u])
    /\ promo' = promo \union {act[u].key}
    /\ IF u \in Personnel
       THEN /\ act' = [act EXCEPT ![u] = None]
            /\ page' = [page EXCEPT ![u].otpFor = act[u].key]
            /\ UNCHANGED loads
       ELSE Done(u)
    /\ UNCHANGED <<emailOtp, table, tornLocos, tornAdmins, calm>>

\* Variant: nothing does.
HoldingNothing(t, k) == {}

\* Rows that keep row k of t from being deleted: all that refer to it but the
\* administrators, who go with the employee.
Holding(t, k) ==
    UNION {{r \in table[x] : r[Key[t]] = k} : x \in {y \in DOMAIN Up \ {"admins"} : Up[y] = t}}

\* What a change leaves behind: the tables, or {} when PostgreSQL refuses.
\* Of a changed row only the columns that differ from the row read are written.
Written(a) ==
    LET now    == Keyed(a.tab, a.key)
        merged == {[f \in DOMAIN r |-> IF \E o \in a.seen : o[f] = r[f] THEN n[f] ELSE r[f]] :
                     r \in a.row, n \in now}
        new    == IF a.op = "put" THEN merged ELSE a.row
        gone   == a.op = "delete" /\ Holding(a.tab, a.key) # {}
        taken  == a.op \in {"post", "verify"} /\ now # {}
        lost   == a.op = "put" /\ now = {}
        loose  == a.tab \in DOMAIN Up
                  /\ \E r \in new : Keyed(Up[a.tab], r[Key[Up[a.tab]]]) = {}
        after  == [table EXCEPT ![a.tab] = (@ \ now) \union new]
    IN  IF gone \/ taken \/ lost \/ loose THEN {}
        ELSE {IF a.op = "delete" /\ a.tab = "employees"
              THEN [after EXCEPT !["admins"] = @ \ Keyed("admins", a.key)] ELSE after}

Commit(u) ==
    /\ act[u] # None /\ act[u].at = "read"
    /\ \/ /\ table' \in Written(act[u])
          /\ promo' = IF act[u].op = "verify" THEN promo \ {act[u].key} ELSE promo
          /\ Done(u)
       \/ /\ Written(act[u]) = {}
          /\ Failed(u)
          /\ UNCHANGED <<table, promo>>
    /\ UNCHANGED <<emailOtp, tornLocos, tornAdmins, calm>>

\* The database fails, or holds the row for a table that is not modelled: the
\* bookings and the ratings refer to employees, jobs and designations.
Abort(u) ==
    /\ act[u] # None
    /\ Failed(u)
    /\ UNCHANGED <<emailOtp, table, promo, tornLocos, tornAdmins, calm>>

\* The Redis key lives for five minutes.
CodeExpires(k) ==
    /\ k \in promo
    /\ promo' = promo \ {k}
    /\ UNCHANGED <<emailOtp, table, page, loads, act, tornLocos, tornAdmins, calm>>

UserStep ==
    \E u \in Page :
        \/ \E t \in Tab : SwitchTab(u, t)
        \/ \E n \in 1 .. Pages(u) : TurnPage(u, n)
        \/ OpenNew(u)
        \/ \E r \in page[u].items : OpenEdit(u, r) \/ Delete(u, r)
        \/ CancelForm(u)
        \/ \E row \in Row(page[u].tab) : Submit(u, row)
        \/ \E k \in Id : Grant(u, k)
        \/ Verify(u)
        \/ CancelOtp(u)

SystemStep ==
    \E u \in Page :
        \/ \E l \in loads[u] : ServeLoad(u, l) \/ LoadArrives(u, l)
        \/ Refuse(u) \/ Read(u) \/ SendCode(u) \/ Commit(u)

FaultStep ==
    \/ \E u \in Page : Abort(u) \/ \E l \in loads[u] : LoadFails(u, l)
    \/ \E k \in Id : CodeExpires(k)

Next == UserStep \/ SystemStep \/ FaultStep

Spec == Init /\ [][Next]_vars

-----------------------------------------------------------------------------
\* Someone can always administer the system.  The handlers count the
\* administrators before they take one away ("Ensures last administrator
\* account is protected"), which is enough unless two of them count at a time.
AdminRemains == tornAdmins \/ table["admins"] # {}

\* "A despatched locomotive must have stage set to 9", and the converse: every
\* request is held against this, but only the changed columns are written, so
\* a row in the hands of two handlers is a mixture of both.
DespatchFits == \A r \in table["locos"] : r.loco_number \in tornLocos \/ Fits(r)

\* The same for every locomotive: what the code promises of the table.
DespatchAlwaysFits == \A r \in table["locos"] : Fits(r)

\* A page whose lists came one at a time shows the table its tab names, so
\* that the buttons act on the rows they stand in.
OwnTableWhenCalm == \A u \in Page : calm[u] /\ loads[u] = {} => page[u].of = page[u].tab

\* A page shows the rows it says it shows: "Showing 16 to 30 of 40 entries".
ShowsWhatItSays ==
    \A u \in Page :
        RowsShown(u) => Listed(u) = Slice(page[u].items, Key[page[u].of], page[u].no)

=============================================================================
