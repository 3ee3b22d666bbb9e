------------------------ MODULE MasterTables_proofs ------------------------
(***************************************************************************)
(* Proofs about MasterTables, for any number of pages, of every kind, any  *)
(* set of primary keys and stages, and any number of rows on a page.       *)
(***************************************************************************)
EXTENDS MasterTables, FiniteSetTheorems, TLAPS

-----------------------------------------------------------------------------
(* The tables and their rows.                                              *)

LEMMA TabFacts ==
    /\ Tab = {"categories", "designations", "employees", "admins", "types", "locos", "jobs"}
    /\ Key["categories"] = "category_id" /\ Key["designations"] = "designation_id"
    /\ Key["employees"] = "ticket_number" /\ Key["admins"] = "ticket_number"
    /\ Key["types"] = "loco_type_id" /\ Key["locos"] = "loco_number" /\ Key["jobs"] = "job_id"
    /\ DOMAIN Up = {"designations", "employees", "admins", "locos"}
    /\ Up["designations"] = "categories" /\ Up["employees"] = "designations"
    /\ Up["admins"] = "employees" /\ Up["locos"] = "types"
  BY DEF Tab, Key, Up

LEMMA RowFacts ==
    /\ \A r \in Row("categories") :
        /\ DOMAIN r = {"category_id"}
        /\ r["category_id"] \in Id
    /\ \A r \in Row("designations") :
        /\ DOMAIN r = {"designation_id", "category_id"}
        /\ r["designation_id"] \in Id /\ r["category_id"] \in Id
    /\ \A r \in Row("employees") :
        /\ DOMAIN r = {"ticket_number", "designation_id"}
        /\ r["ticket_number"] \in Id /\ r["designation_id"] \in Id
    /\ \A r \in Row("admins") :
        /\ DOMAIN r = {"ticket_number"}
        /\ r["ticket_number"] \in Id
    /\ \A r \in Row("types") :
        /\ DOMAIN r = {"loco_type_id"}
        /\ r["loco_type_id"] \in Id
    /\ \A r \in Row("locos") :
        /\ DOMAIN r = {"loco_number", "loco_type_id", "stage", "despatched"}
        /\ r["loco_number"] \in Id /\ r["loco_type_id"] \in Id
    /\ \A r \in Row("jobs") :
        /\ DOMAIN r = {"job_id"}
        /\ r["job_id"] \in Id
  BY DEF Row

LEMMA AnyItemFacts ==
    ASSUME NEW t \in Tab
    PROVE  Row(t) \subseteq AnyItem /\ Item(t) \subseteq AnyItem
  BY DEF AnyItem

\* Every row has the key of its table, and that of the table it refers to.
LEMMA KeyFacts ==
    ASSUME NEW t \in Tab, NEW r \in Row(t)
    PROVE  /\ Key[t] \in DOMAIN r /\ r[Key[t]] \in Id
           /\ t \in DOMAIN Up => Up[t] \in Tab /\ r[Key[Up[t]]] \in Id
  <1>1. CASE t = "categories"
    BY <1>1, TabFacts, RowFacts
  <1>2. CASE t = "designations"
    BY <1>2, TabFacts, RowFacts
  <1>3. CASE t = "employees"
    BY <1>3, TabFacts, RowFacts
  <1>4. CASE t = "admins"
    BY <1>4, TabFacts, RowFacts
  <1>5. CASE t = "types"
    BY <1>5, TabFacts, RowFacts
  <1>6. CASE t = "locos"
    BY <1>6, TabFacts, RowFacts
  <1>7. CASE t = "jobs"
    BY <1>7, TabFacts, RowFacts
  <1> QED BY <1>1, <1>2, <1>3, <1>4, <1>5, <1>6, <1>7, TabFacts

\* A field of an item that has the name of a key is a key.
LEMMA FieldFacts ==
    ASSUME NEW r \in AnyItem, NEW t \in Tab, Key[t] \in DOMAIN r
    PROVE  r[Key[t]] \in Id
  <1>1. PICK x \in Tab : r \in Row(x) \/ r \in Item(x)
    BY DEF AnyItem
  <1>2. r \in Row(x) \/ r \in [ticket_number : Id, designation_id : Id, category_id : Id]
    BY <1>1 DEF Item
  <1>3. CASE r \in [ticket_number : Id, designation_id : Id, category_id : Id]
    BY <1>3, TabFacts
  <1>4. CASE r \in Row(x)
    <2>1. CASE x = "categories"
      BY <1>4, <2>1, TabFacts, RowFacts
    <2>2. CASE x = "designations"
      BY <1>4, <2>2, TabFacts, RowFacts
    <2>3. CASE x = "employees"
      BY <1>4, <2>3, TabFacts, RowFacts
    <2>4. CASE x = "admins"
      BY <1>4, <2>4, TabFacts, RowFacts
    <2>5. CASE x = "types"
      BY <1>4, <2>5, TabFacts, RowFacts
    <2>6. CASE x = "locos"
      BY <1>4, <2>6, TabFacts, RowFacts
    <2>7. CASE x = "jobs"
      BY <1>4, <2>7, TabFacts, RowFacts
    <2> QED BY <2>1, <2>2, <2>3, <2>4, <2>5, <2>6, <2>7, TabFacts
  <1> QED BY <1>2, <1>3, <1>4

LEMMA TabsFacts ==
    ASSUME NEW u
    PROVE  /\ Tabs(u) \subseteq Tab
           /\ u \in Personnel /\ u \in Page => Tabs(u) = {"admins"}
  BY TabFacts, PageAssumption DEF Tabs

-----------------------------------------------------------------------------
(* Type correctness.                                                       *)

TablesOK ==
    /\ table \in [Tab -> SUBSET AnyItem]
    /\ \A t \in Tab : table[t] \subseteq Row(t)
    /\ PrimaryKeys /\ ForeignKeys

RestOK ==
    /\ emailOtp \in BOOLEAN /\ promo \subseteq Id
    /\ tornLocos \subseteq Id /\ tornAdmins \in BOOLEAN
    /\ calm \in [Page -> BOOLEAN]

LEMMA TypeParts ==
    TypeOK <=> /\ TablesOK /\ RestOK
               /\ page \in [Page -> Shown]
               /\ loads \in [Page -> SUBSET Load]
               /\ act \in [Page -> {None} \union Change]
               /\ \A u \in Page : PageOK(u) /\ LoadsOK(u) /\ ChangeOK(u)
  BY DEF TypeOK, TablesOK, RestOK

LEMMA InitType == Init => TypeOK
  <1> SUFFICES ASSUME Init PROVE TypeOK
    OBVIOUS
  <1>1. TablesOK /\ RestOK
    BY DEF Init, TablesOK, RestOK
  <1>2. \A u \in Page : page[u].tab \in Tabs(u) /\ page[u].tab \in Tab
                        /\ page[u] = NewPage(page[u].tab)
                        /\ page[u].of = page[u].tab /\ page[u].items = {} /\ page[u].otpFor = None
    <2> SUFFICES ASSUME NEW u \in Page
                 PROVE  /\ page[u].tab \in Tabs(u)
                        /\ page[u] = NewPage(page[u].tab)
                        /\ page[u].of = page[u].tab /\ page[u].items = {} /\ page[u].otpFor = None
      BY TabsFacts
    <2> DEFINE t == IF u \in Wizard THEN "categories" ELSE IF u \in Yard THEN "types" ELSE "admins"
    <2>1. /\ page[u] = NewPage(t) /\ NewPage(t).tab = t
          /\ NewPage(t).of = t /\ NewPage(t).items = {} /\ NewPage(t).otpFor = None
      BY DEF Init, NewPage
    <2>2. t \in Tabs(u)
      BY TabFacts DEF Tabs
    <2> HIDE DEF t
    <2> QED BY <2>1, <2>2
  <1>3. \A t \in Tab : NewPage(t) \in Shown
    BY DEF NewPage, Shown
  <1>4. page \in [Page -> Shown]
    BY <1>2, <1>3 DEF Init
  <1>5. \A u \in Page : PageOK(u)
    BY <1>2 DEF PageOK
  <1>6. /\ loads \in [Page -> SUBSET Load]
        /\ \A u \in Page : LoadsOK(u)
    BY <1>2 DEF Init, Load, LoadsOK
  <1>7. act \in [Page -> {None} \union Change] /\ \A u \in Page : ChangeOK(u)
    BY DEF Init, ChangeOK
  <1> QED BY <1>1, <1>4, <1>5, <1>6, <1>7, TypeParts

\* What a step that is about page u has to keep.
LEMMA PageStep ==
    ASSUME TypeOK, NEW u \in Page, UNCHANGED emailOtp, TablesOK', RestOK',
           page' \in [Page -> Shown], PageOK(u)',
           loads' \in [Page -> SUBSET Load], LoadsOK(u)',
           act' \in [Page -> {None} \union Change], ChangeOK(u)',
           \A v \in Page : v # u => page'[v] = page[v] /\ loads'[v] = loads[v] /\ act'[v] = act[v]
    PROVE  TypeOK'
  <1>1. ASSUME NEW v \in Page, v # u PROVE PageOK(v)' /\ LoadsOK(v)' /\ ChangeOK(v)'
    <2>1. PageOK(v) /\ LoadsOK(v) /\ ChangeOK(v)
      BY TypeParts
    <2>2. page'[v] = page[v] /\ loads'[v] = loads[v] /\ act'[v] = act[v]
      BY <1>1
    <2>3. PageOK(v)'
      BY <2>1, <2>2 DEF PageOK
    <2>4. LoadsOK(v)'
      BY <2>1, <2>2 DEF LoadsOK
    <2>5. ChangeOK(v)'
      BY <2>1, <2>2 DEF ChangeOK
    <2> QED BY <2>3, <2>4, <2>5
  <1>2. \A v \in Page : PageOK(v)' /\ LoadsOK(v)' /\ ChangeOK(v)'
    BY <1>1
  <1> QED BY <1>2 DEF TypeOK, TablesOK, RestOK

LEMMA SameTables ==
    ASSUME TypeOK, UNCHANGED table
    PROVE  TablesOK'
  BY DEF TypeOK, TablesOK, PrimaryKeys, ForeignKeys, Keyed

LEMMA LoadType ==
    ASSUME TypeOK, NEW u \in Page, NEW t \in Tabs(u), StartLoad(u, t)
    PROVE  /\ loads' \in [Page -> SUBSET Load] /\ LoadsOK(u)'
           /\ \A v \in Page : v # u => loads'[v] = loads[v]
  <1> DEFINE new == [tab |-> t, rows |-> None]
  <1>1. new \in Load /\ new.tab = t /\ new.rows = None
    BY TabsFacts DEF Load
  <1>2. loads \in [Page -> SUBSET Load] /\ LoadsOK(u)
    BY TypeParts
  <1>3. loads' = [loads EXCEPT ![u] = loads[u] \union {new}]
    BY DEF StartLoad
  <1> HIDE DEF new
  <1> QED BY <1>1, <1>2, <1>3 DEF LoadsOK

\* Nothing is handled for u any more.
LEMMA ActFreed ==
    ASSUME TypeOK, NEW u \in Page, act' = [act EXCEPT ![u] = None]
    PROVE  /\ act' \in [Page -> {None} \union Change] /\ ChangeOK(u)'
           /\ \A v \in Page : v # u => act'[v] = act[v]
  BY DEF TypeOK, ChangeOK

\* Of a page, all may change but the items with their table.
LEMMA PageType ==
    ASSUME TypeOK, NEW u \in Page, UNCHANGED emailOtp,
           NEW t \in Tabs(u), NEW f \in {None} \union SUBSET AnyItem, NEW b \in BOOLEAN,
           NEW o \in {None} \union Id, o # None => u \in Personnel /\ emailOtp,
           NEW n \in Nat \ {0},
           page' = [page EXCEPT ![u].tab = t, ![u].form = f, ![u].loading = b,
                                ![u].otpFor = o, ![u].no = n]
    PROVE  /\ page' \in [Page -> Shown] /\ PageOK(u)'
           /\ \A v \in Page : v # u => page'[v] = page[v]
  <1>1. page \in [Page -> Shown] /\ page[u] \in Shown /\ PageOK(u) /\ t \in Tab
    BY TabsFacts DEF TypeOK
  <1>2. page' \in [Page -> Shown]
    BY <1>1 DEF Shown
  <1>3. /\ page'[u].tab = t /\ page'[u].of = page[u].of
        /\ page'[u].items = page[u].items /\ page'[u].otpFor = o
    BY <1>1 DEF Shown
  <1>4. PageOK(u)'
    BY <1>1, <1>3 DEF PageOK
  <1> QED BY <1>1, <1>2, <1>4

\* The parts of a page, for the steps that change some of them.
LEMMA Parts ==
    ASSUME TypeOK, NEW u \in Page
    PROVE  /\ page \in [Page -> Shown]
           /\ page[u].tab \in Tabs(u) /\ page[u].of \in Tabs(u)
           /\ page[u].tab \in Tab /\ page[u].of \in Tab
           /\ page[u].items \subseteq Item(page[u].of)
           /\ page[u].form \in {None} \union SUBSET AnyItem
           /\ page[u].loading \in BOOLEAN
           /\ page[u].otpFor \in {None} \union Id
           /\ page[u].otpFor # None => u \in Personnel /\ emailOtp
           /\ page[u].no \in Nat \ {0}
           /\ loads \in [Page -> SUBSET Load] /\ LoadsOK(u)
           /\ act \in [Page -> {None} \union Change] /\ ChangeOK(u)
           /\ emailOtp \in BOOLEAN /\ RestOK /\ TablesOK
  <1>1. page[u] \in Shown /\ PageOK(u) /\ LoadsOK(u) /\ ChangeOK(u)
    BY DEF TypeOK
  <1>2. page[u].items \subseteq Item(page[u].of)
    BY <1>1 DEF PageOK
  <1>3. page[u].otpFor # None => u \in Personnel /\ emailOtp
    BY <1>1 DEF PageOK
  <1> QED BY <1>1, <1>2, <1>3 DEF TypeOK, Shown, PageOK, RestOK, TablesOK

LEMMA DoneType ==
    ASSUME TypeOK, NEW u \in Page, act[u] # None, Done(u),
           UNCHANGED emailOtp, TablesOK', RestOK'
    PROVE  TypeOK'
  <1>1. act[u].tab \in Tabs(u)
    BY Parts DEF ChangeOK
  <1>2. StartLoad(u, act[u].tab) /\ act' = [act EXCEPT ![u] = None]
    BY DEF Done
  <1> DEFINE form == IF act[u].op = "delete" THEN page[u].form ELSE None
             loading == (u \in Personnel /\ act[u].op # "delete")
             otp == IF act[u].op = "verify" THEN None ELSE page[u].otpFor
  <1>3. page' = [page EXCEPT ![u].form = form, ![u].loading = loading, ![u].otpFor = otp]
    BY DEF Done
  <1>4. /\ form \in {None} \union SUBSET AnyItem /\ loading \in BOOLEAN
        /\ otp \in {None} \union Id /\ (otp # None => u \in Personnel /\ emailOtp)
    BY Parts
  <1> HIDE DEF form, loading, otp
  <1>5. page' = [page EXCEPT ![u].tab = page[u].tab, ![u].form = form, ![u].loading = loading,
                             ![u].otpFor = otp, ![u].no = page[u].no]
    BY <1>3, Parts DEF Shown
  <1>6. /\ page' \in [Page -> Shown] /\ PageOK(u)'
        /\ \A v \in Page : v # u => page'[v] = page[v]
    BY <1>4, <1>5, Parts, PageType
  <1>7. /\ loads' \in [Page -> SUBSET Load] /\ LoadsOK(u)'
        /\ \A v \in Page : v # u => loads'[v] = loads[v]
    BY <1>1, <1>2, LoadType
  <1> QED BY <1>2, <1>6, <1>7, ActFreed, PageStep

LEMMA FailedType ==
    ASSUME TypeOK, NEW u \in Page, Failed(u), UNCHANGED <<emailOtp, table>>, RestOK'
    PROVE  TypeOK'
  <1>1. act' = [act EXCEPT ![u] = None] /\ UNCHANGED loads
    BY DEF Failed
  <1> DEFINE loading == IF u \in Personnel /\ act[u].op # "delete" THEN page[u].loading ELSE FALSE
  <1>2. page' = [page EXCEPT ![u].loading = loading]
    BY DEF Failed
  <1>3. loading \in BOOLEAN
    BY Parts
  <1> HIDE DEF loading
  <1>4. page' = [page EXCEPT ![u].tab = page[u].tab, ![u].form = page[u].form, ![u].loading = loading,
                             ![u].otpFor = page[u].otpFor, ![u].no = page[u].no]
    BY <1>2, Parts DEF Shown
  <1>5. /\ page' \in [Page -> Shown] /\ PageOK(u)'
        /\ \A v \in Page : v # u => page'[v] = page[v]
    BY <1>3, <1>4, Parts, PageType
  <1>6. LoadsOK(u)'
    BY <1>1, Parts DEF LoadsOK
  <1> QED BY <1>1, <1>5, <1>6, Parts, ActFreed, SameTables, PageStep

LEMMA CalmType ==
    ASSUME TypeOK, NEW u \in Page, NEW c \in BOOLEAN,
           calm' = calm \/ calm' = [calm EXCEPT ![u] = c],
           UNCHANGED <<emailOtp, promo, tornLocos, tornAdmins>>
    PROVE  RestOK'
  BY DEF TypeOK, RestOK

\* The steps that change one page, and nothing else but its calm.
LEMMA ViewType ==
    ASSUME TypeOK, NEW u \in Page,
           \/ \E n \in 1..Pages(u) : TurnPage(u, n)
           \/ OpenNew(u) \/ CancelForm(u) \/ CancelOtp(u)
           \/ \E r \in page[u].items : OpenEdit(u, r)
    PROVE  TypeOK'
  <1>1. UNCHANGED <<emailOtp, table, promo, loads, act, tornLocos, tornAdmins, calm>>
    BY DEF TurnPage, OpenNew, CancelForm, CancelOtp, OpenEdit, SetForm
  <1>2. RestOK' /\ TablesOK' /\ LoadsOK(u)' /\ ChangeOK(u)'
    BY <1>1, Parts, SameTables, SMTT(60) DEF RestOK, LoadsOK, ChangeOK
  <1>3. PICK n \in Nat \ {0}, f \in {None} \union SUBSET AnyItem, o \in {None, page[u].otpFor} :
          page' = [page EXCEPT ![u].form = f, ![u].otpFor = o, ![u].no = n]
    <2>1. CASE \E n \in 1..Pages(u) : TurnPage(u, n)
      <3>1. PICK n \in 1..Pages(u) : page' = [page EXCEPT ![u].no = n]
        BY <2>1 DEF TurnPage
      <3>2. n \in Nat \ {0}
        OBVIOUS
      <3>3. page' = [page EXCEPT ![u].form = page[u].form, ![u].otpFor = page[u].otpFor, ![u].no = n]
        BY <3>1, Parts DEF Shown
      <3> QED BY <3>2, <3>3, Parts
    <2>2. ASSUME NEW f \in {None} \union SUBSET AnyItem, SetForm(u, f)
          PROVE  page' = [page EXCEPT ![u].form = f, ![u].otpFor = page[u].otpFor, ![u].no = page[u].no]
      BY <2>2, Parts DEF SetForm, Shown
    <2>3. CASE OpenNew(u) \/ CancelForm(u)
      BY <2>2, <2>3, Parts, ZenonT(60) DEF OpenNew, CancelForm
    <2>4. CASE \E r \in page[u].items : OpenEdit(u, r)
      <3>1. PICK r \in page[u].items : SetForm(u, {r})
        BY <2>4 DEF OpenEdit
      <3>2. {r} \in SUBSET AnyItem
        BY Parts, AnyItemFacts
      <3> QED BY <2>2, <3>1, <3>2, Parts
    <2>5. CASE CancelOtp(u)
      <3>1. page' = [page EXCEPT ![u].form = page[u].form, ![u].otpFor = None, ![u].no = page[u].no]
        BY <2>5, Parts DEF CancelOtp, Shown
      <3> QED BY <3>1, Parts
    <2> QED BY <2>1, <2>3, <2>4, <2>5
  <1>4. page' = [page EXCEPT ![u].tab = page[u].tab, ![u].form = f, ![u].loading = page[u].loading,
                             ![u].otpFor = o, ![u].no = n]
    BY <1>3, Parts DEF Shown
  <1>5. /\ page' \in [Page -> Shown] /\ PageOK(u)'
        /\ \A v \in Page : v # u => page'[v] = page[v]
    BY <1>1, <1>4, Parts, PageType, ZenonT(60)
  <1> QED BY <1>1, <1>2, <1>5, Parts, PageStep

LEMMA SwitchType ==
    ASSUME TypeOK, NEW u \in Page, NEW t \in Tab, SwitchTab(u, t)
    PROVE  TypeOK'
  <1>1. /\ t \in Tabs(u) /\ StartLoad(u, t)
        /\ page' = [page EXCEPT ![u].tab = t, ![u].loading = TRUE, ![u].no = 1]
        /\ UNCHANGED <<emailOtp, table, promo, act, tornLocos, tornAdmins>>
    BY DEF SwitchTab
  <1>2. page' = [page EXCEPT ![u].tab = t, ![u].form = page[u].form, ![u].loading = TRUE,
                             ![u].otpFor = page[u].otpFor, ![u].no = 1]
    BY <1>1, Parts DEF Shown
  <1>3. /\ page' \in [Page -> Shown] /\ PageOK(u)'
        /\ \A v \in Page : v # u => page'[v] = page[v]
    <2>1. TRUE \in BOOLEAN /\ 1 \in Nat \ {0} /\ t \in Tabs(u) /\ emailOtp' = emailOtp
      BY <1>1
    <2>2. /\ page[u].form \in {None} \union SUBSET AnyItem
          /\ page[u].otpFor \in {None} \union Id
          /\ page[u].otpFor # None => u \in Personnel /\ emailOtp
      BY Parts
    <2> QED BY <1>2, <2>1, <2>2, PageType
  <1>4. RestOK'
    <2>1. calm' = [calm EXCEPT ![u] = (calm[u] /\ loads[u] = {} /\ act[u] = None)]
      BY DEF SwitchTab
    <2>2. (calm[u] /\ loads[u] = {} /\ act[u] = None) \in BOOLEAN
      OBVIOUS
    <2> QED BY <1>1, <2>1, <2>2, CalmType
  <1>5. ChangeOK(u)'
    BY <1>1, Parts DEF ChangeOK
  <1> QED BY <1>1, <1>3, <1>4, <1>5, LoadType, SameTables, Parts, PageStep

\* A click that sends a change.
LEMMA SendType ==
    ASSUME TypeOK, NEW u \in Page, NEW op \in {"post", "put", "delete", "verify"},
           NEW k \in Id \union {None}, NEW row \in SUBSET AnyItem, Send(u, op, k, row),
           op = "put" => page[u].tab # "admins",
           op = "verify" => page[u].tab = "admins",
           IF op = "delete" THEN row = {}
           ELSE \E r \in Row(page[u].tab) :
                  row = {r} /\ k \in {r[Key[page[u].tab]], None} /\ (k = None => op = "put"),
           page' = page \/ page' = [page EXCEPT ![u].loading = TRUE]
    PROVE  TypeOK'
  <1> DEFINE new == [op |-> op, tab |-> page[u].tab, key |-> k, row |-> row,
                     seen |-> {}, at |-> "sent"]
  <1>1. new \in Change
    BY Parts DEF Change
  <1>2. /\ new.op = op /\ new.tab = page[u].tab /\ new.key = k /\ new.row = row
        /\ new.seen = {} /\ new.at = "sent"
    OBVIOUS
  <1>3. /\ act' = [act EXCEPT ![u] = new]
        /\ UNCHANGED <<emailOtp, table, promo, loads, tornLocos, tornAdmins, calm>>
    BY DEF Send
  <1> HIDE DEF new
  <1>4. act' \in [Page -> {None} \union Change] /\ act'[u] = new
        /\ \A v \in Page : v # u => act'[v] = act[v]
    BY <1>1, <1>3, Parts
  <1>5. ChangeOK(u)'
    BY <1>2, <1>4, Parts DEF ChangeOK
  <1>6. PICK b \in BOOLEAN : page' = [page EXCEPT ![u].loading = b]
    <2>1. page = [page EXCEPT ![u].loading = page[u].loading]
      BY Parts DEF Shown
    <2> QED BY <2>1, Parts
  <1>7. page' = [page EXCEPT ![u].tab = page[u].tab, ![u].form = page[u].form, ![u].loading = b,
                             ![u].otpFor = page[u].otpFor, ![u].no = page[u].no]
    BY <1>6, Parts DEF Shown
  <1>8. /\ page' \in [Page -> Shown] /\ PageOK(u)'
        /\ \A v \in Page : v # u => page'[v] = page[v]
    BY <1>3, <1>7, Parts, PageType
  <1>9. RestOK' /\ LoadsOK(u)'
    BY <1>3, Parts DEF RestOK, LoadsOK
  <1> QED BY <1>3, <1>4, <1>5, <1>8, <1>9, SameTables, Parts, PageStep

LEMMA ChangeType ==
    ASSUME TypeOK, NEW u \in Page,
           \/ \E row \in Row(page[u].tab) : Submit(u, row)
           \/ \E r \in page[u].items : Delete(u, r)
           \/ \E k \in Id : Grant(u, k)
           \/ Verify(u)
    PROVE  TypeOK'
  <1>1. \A r \in AnyItem : KeyOf(u, r) \in Id \union {None}
    BY Parts, FieldFacts DEF KeyOf
  <1>2. ASSUME NEW row \in Row(page[u].tab), Submit(u, row) PROVE TypeOK'
    <2>1. /\ page[u].form \in SUBSET AnyItem /\ Filled(u, row)
          /\ page' = [page EXCEPT ![u].loading = TRUE]
      BY <1>2, Parts DEF Submit, CanSubmit
    <2>2. {row} \in SUBSET AnyItem
      BY Parts, AnyItemFacts
    <2>3. row[Key[page[u].tab]] \in Id /\ row[Key[page[u].tab]] # None
      BY Parts, KeyFacts, IdAssumption
    <2>4. CASE page[u].form = {} \/ page[u].tab = "admins"
      <3>1. Send(u, "post", row[Key[page[u].tab]], {row})
        BY <1>2, <2>4 DEF Submit
      <3> QED BY <2>1, <2>2, <2>3, <3>1, SendType
    <2>5. CASE ~(page[u].form = {} \/ page[u].tab = "admins")
      <3>1. PICK r \in page[u].form : Send(u, "put", KeyOf(u, r), {row})
        BY <1>2, <2>5 DEF Submit
      <3>2. KeyOf(u, r) \in {row[Key[page[u].tab]], None}
        BY <2>1 DEF Filled
      <3> QED BY <1>1, <2>1, <2>2, <2>5, <3>1, <3>2, SendType
    <2> QED BY <2>4, <2>5
  <1>3. ASSUME NEW r \in page[u].items, Delete(u, r) PROVE TypeOK'
    <2>1. KeyOf(u, r) \in Id \union {None}
      BY <1>1, Parts, AnyItemFacts
    <2>2. Send(u, "delete", KeyOf(u, r), {}) /\ page' = [page EXCEPT ![u].loading = TRUE]
      BY <1>3 DEF Delete
    <2>3. {} \in SUBSET AnyItem
      OBVIOUS
    <2> QED BY <2>1, <2>2, <2>3, SendType
  <1>4. ASSUME NEW k \in Id, u \in Personnel, NEW op \in {"post", "verify"},
               Send(u, op, k, {[ticket_number |-> k]}), page' = page
        PROVE  TypeOK'
    <2> DEFINE row == [ticket_number |-> k]
    <2>1. page[u].tab = "admins"
      BY <1>4, Parts, TabsFacts
    <2>2. row \in Row("admins") /\ row["ticket_number"] = k
      BY DEF Row
    <2>3. k # None
      BY IdAssumption
    <2> HIDE DEF row
    <2>4. {row} \in SUBSET AnyItem
      BY <2>2, AnyItemFacts, TabFacts
    <2>5. k = row[Key[page[u].tab]]
      BY <2>1, <2>2, TabFacts
    <2> QED BY <1>4, <2>1, <2>2, <2>3, <2>4, <2>5, SendType DEF row
  <1>5. ASSUME NEW k \in Id, Grant(u, k) PROVE TypeOK'
    BY <1>4, <1>5 DEF Grant
  <1>6. ASSUME Verify(u) PROVE TypeOK'
    <2>1. page[u].otpFor \in Id /\ u \in Personnel
      BY <1>6, Parts DEF Verify, OtpShown
    <2> QED BY <1>4, <1>6, <2>1 DEF Verify
  <1> QED BY <1>2, <1>3, <1>5, <1>6

\* What the list handlers answer are items of the table.
LEMMA ItemsType ==
    ASSUME TypeOK, NEW t \in Tab
    PROVE  Items(t) \subseteq Item(t)
  <1>1. table[t] \subseteq Row(t)
    BY DEF TypeOK
  <1>2. CASE t # "employees"
    BY <1>1, <1>2 DEF Items, Item
  <1>3. CASE t = "employees"
    <2> SUFFICES ASSUME NEW e \in table["employees"]
                 PROVE  [ticket_number |-> e.ticket_number, designation_id |-> e.designation_id,
                         category_id |-> (CHOOSE d \in table["designations"] :
                              d.designation_id = e.designation_id).category_id] \in Item(t)
      BY <1>3 DEF Items
    <2>1. e.ticket_number \in Id /\ e.designation_id \in Id
      BY <1>1, <1>3, RowFacts
    <2>2. Keyed("designations", e.designation_id) # {}
      BY TabFacts DEF TypeOK, ForeignKeys
    <2>3. \E d \in table["designations"] : d.designation_id = e.designation_id
      BY <2>2, TabFacts DEF Keyed
    <2>4. \A d \in table["designations"] : d.category_id \in Id
      BY RowFacts, TabFacts DEF TypeOK
    <2>5. (CHOOSE d \in table["designations"] :
              d.designation_id = e.designation_id).category_id \in Id
      BY <2>3, <2>4
    <2> QED BY <1>3, <2>1, <2>5 DEF Item
  <1> QED BY <1>2, <1>3

LEMMA ListType ==
    ASSUME TypeOK, NEW u \in Page, NEW l \in loads[u],
           ServeLoad(u, l) \/ LoadArrives(u, l) \/ LoadFails(u, l)
    PROVE  TypeOK'
  <1>1. /\ loads \in [Page -> SUBSET Load] /\ l \in Load
        /\ l.tab \in Tab /\ l.rows \in {None} \union SUBSET AnyItem
        /\ l.tab \in Tabs(u) /\ (l.rows = None \/ l.rows \subseteq Item(l.tab))
    BY Parts DEF LoadsOK, Load
  <1>2. /\ page \in [Page -> Shown] /\ page[u] \in Shown /\ PageOK(u)
        /\ act \in [Page -> {None} \union Change] /\ ChangeOK(u)
    BY DEF TypeOK
  <1>3. CASE ServeLoad(u, l)
    <2> DEFINE got == [l EXCEPT !.rows = Items(l.tab)]
    <2>1. /\ loads' = [loads EXCEPT ![u] = (loads[u] \ {l}) \union {got}]
          /\ UNCHANGED <<emailOtp, table, promo, page, act, tornLocos, tornAdmins, calm>>
      BY <1>3 DEF ServeLoad
    <2>2. Items(l.tab) \subseteq Item(l.tab) /\ Items(l.tab) \in SUBSET AnyItem
      BY <1>1, ItemsType, AnyItemFacts
    <2>3. got \in Load /\ got.tab = l.tab /\ got.rows = Items(l.tab)
      BY <1>1, <2>2 DEF Load
    <2> HIDE DEF got
    <2>4. loads' \in [Page -> SUBSET Load] /\ \A v \in Page : v # u => loads'[v] = loads[v]
      BY <1>1, <2>1, <2>3
    <2>5. LoadsOK(u)'
      BY <1>1, <2>1, <2>2, <2>3, Parts DEF LoadsOK
    <2>6. PageOK(u)' /\ ChangeOK(u)' /\ RestOK'
      BY <1>2, <2>1, Parts DEF PageOK, ChangeOK, RestOK
    <2> QED BY <1>2, <2>1, <2>4, <2>5, <2>6, SameTables, PageStep
  <1>4. CASE LoadArrives(u, l) \/ LoadFails(u, l)
    <2>1. /\ loads' = [loads EXCEPT ![u] = loads[u] \ {l}]
          /\ UNCHANGED <<emailOtp, table, promo, act, tornLocos, tornAdmins>>
      BY <1>4 DEF LoadArrives, LoadFails
    <2>2. /\ loads' \in [Page -> SUBSET Load] /\ LoadsOK(u)'
          /\ \A v \in Page : v # u => loads'[v] = loads[v]
      BY <1>1, <2>1, Parts DEF LoadsOK
    <2>3. RestOK'
      <3>1. calm' = calm \/ calm' = [calm EXCEPT ![u] = FALSE]
        BY <1>4 DEF LoadArrives, LoadFails
      <3>2. FALSE \in BOOLEAN /\ UNCHANGED <<emailOtp, promo, tornLocos, tornAdmins>>
        BY <2>1
      <3> QED BY <3>1, <3>2, CalmType
    <2>4. ChangeOK(u)'
      BY <1>2, <2>1 DEF ChangeOK
    <2>5. /\ page' \in [Page -> Shown] /\ PageOK(u)'
          /\ \A v \in Page : v # u => page'[v] = page[v]
      <3>1. CASE LoadArrives(u, l)
        <4>1. /\ page' = [page EXCEPT ![u].items = l.rows, ![u].of = l.tab, ![u].loading = FALSE]
              /\ l.rows # None
          BY <3>1 DEF LoadArrives
        <4>2. l.rows \in SUBSET AnyItem /\ l.rows \subseteq Item(l.tab)
          BY <1>1, <4>1
        <4>3. page' \in [Page -> Shown] /\ \A v \in Page : v # u => page'[v] = page[v]
          BY <1>1, <1>2, <4>1, <4>2 DEF Shown
        <4>4. /\ page'[u].tab = page[u].tab /\ page'[u].of = l.tab
              /\ page'[u].items = l.rows /\ page'[u].otpFor = page[u].otpFor
          BY <1>2, <4>1 DEF Shown
        <4> QED BY <1>1, <1>2, <2>1, <4>2, <4>3, <4>4 DEF PageOK
      <3>2. CASE LoadFails(u, l)
        <4>1. page' = [page EXCEPT ![u].loading = FALSE]
          BY <3>2 DEF LoadFails
        <4>2. page' \in [Page -> Shown] /\ \A v \in Page : v # u => page'[v] = page[v]
          BY <1>2, <4>1 DEF Shown
        <4>3. /\ page'[u].tab = page[u].tab /\ page'[u].of = page[u].of
              /\ page'[u].items = page[u].items /\ page'[u].otpFor = page[u].otpFor
          BY <1>2, <4>1 DEF Shown
        <4> QED BY <1>2, <2>1, <4>2, <4>3 DEF PageOK
      <3> QED BY <1>4, <3>1, <3>2
    <2> QED BY <1>2, <2>1, <2>2, <2>3, <2>4, <2>5, SameTables, PageStep
  <1> QED BY <1>3, <1>4

\* What the queries before a change have found.
LEMMA FoundKey ==
    ASSUME TypeOK, NEW u \in Page, act[u] # None, ~Missed(act[u])
    PROVE  act[u].key \in Id
  <1>1. act[u] \in Change /\ ChangeOK(u) /\ act[u].key \in Id \union {None}
    BY Parts DEF Change
  <1>2. act[u].tab \in Tab
    BY <1>1 DEF Change
  <1>3. CASE act[u].op \in {"post", "verify"}
    BY <1>1, <1>3 DEF ChangeOK
  <1>4. CASE act[u].op \in {"put", "delete"}
    <2>1. PICK r \in table[act[u].tab] : r[Key[act[u].tab]] = act[u].key
      BY <1>4 DEF Missed, Keyed
    <2> QED BY <1>2, <2>1, KeyFacts DEF TypeOK
  <1> QED BY <1>1, <1>3, <1>4 DEF Change

LEMMA ReadType ==
    ASSUME TypeOK, NEW u \in Page, Read(u)
    PROVE  TypeOK'
  <1> DEFINE found == Keyed(act[u].tab, act[u].key)
  <1>1. /\ act[u] # None /\ act[u] \in Change /\ ChangeOK(u) /\ PageOK(u) /\ LoadsOK(u)
        /\ act' = [act EXCEPT ![u].at = "read", ![u].seen = found]
        /\ UNCHANGED <<emailOtp, table, promo, page, loads, calm>>
    BY DEF Read, TypeOK
  <1>2. act[u].key \in Id /\ act[u].tab \in Tab
    BY <1>1, FoundKey DEF Read, Refused, Change
  <1>3. \A o \in found : o \in Row(act[u].tab) /\ o[Key[act[u].tab]] = act[u].key
    BY <1>2 DEF TypeOK, Keyed
  <1>4. found \in SUBSET AnyItem
    BY <1>2, <1>3, AnyItemFacts
  <1> HIDE DEF found
  <1>5. act' \in [Page -> {None} \union Change] /\ \A v \in Page : v # u => act'[v] = act[v]
    BY <1>1, <1>4 DEF TypeOK, Change
  <1>6. /\ act'[u].op = act[u].op /\ act'[u].tab = act[u].tab /\ act'[u].key = act[u].key
        /\ act'[u].row = act[u].row /\ act'[u].seen = found
    BY <1>1 DEF TypeOK, Change
  <1>7. ChangeOK(u)'
    BY <1>1, <1>3, <1>6 DEF ChangeOK
  <1>8. RestOK'
    <2>1. tornLocos' \subseteq Id
      BY <1>2 DEF Read, TypeOK
    <2>2. tornAdmins' \in BOOLEAN
      BY DEF Read
    <2> QED BY <1>1, <2>1, <2>2 DEF RestOK, TypeOK
  <1>9. PageOK(u)' /\ LoadsOK(u)' /\ TablesOK'
    BY <1>1, SameTables DEF PageOK, LoadsOK
  <1> QED BY <1>1, <1>5, <1>7, <1>8, <1>9, PageStep DEF TypeOK

LEMMA HandlerType ==
    ASSUME TypeOK, NEW u \in Page, Refuse(u) \/ SendCode(u) \/ Abort(u)
    PROVE  TypeOK'
  <1>1. CASE Refuse(u) \/ Abort(u)
    <2>1. Failed(u) /\ UNCHANGED <<emailOtp, table, promo, tornLocos, tornAdmins, calm>>
      BY <1>1 DEF Refuse, Abort
    <2> QED BY <2>1, FailedType, Parts DEF RestOK
  <1>2. CASE SendCode(u)
    <2>1. /\ act[u] # None /\ ~Missed(act[u]) /\ MailsCode(act[u])
          /\ promo' = promo \union {act[u].key}
          /\ UNCHANGED <<emailOtp, table, tornLocos, tornAdmins, calm>>
      BY <1>2 DEF SendCode, Refused
    <2>2. act[u].key \in Id
      BY <2>1, FoundKey
    <2>3. RestOK' /\ TablesOK'
      BY <2>1, <2>2, Parts, SameTables DEF RestOK
    <2>4. CASE u \notin Personnel
      <3>1. Done(u)
        BY <1>2, <2>4 DEF SendCode
      <3> QED BY <2>1, <2>3, <3>1, DoneType
    <2>5. CASE u \in Personnel
      <3>1. /\ act' = [act EXCEPT ![u] = None]
            /\ page' = [page EXCEPT ![u].otpFor = act[u].key]
            /\ UNCHANGED loads
        BY <1>2, <2>5 DEF SendCode
      <3>2. page' = [page EXCEPT ![u].tab = page[u].tab, ![u].form = page[u].form,
                                 ![u].loading = page[u].loading,
                                 ![u].otpFor = act[u].key, ![u].no = page[u].no]
        BY <3>1, Parts DEF Shown
      <3>3. emailOtp
        BY <2>1 DEF MailsCode
      <3>4. /\ page' \in [Page -> Shown] /\ PageOK(u)'
            /\ \A v \in Page : v # u => page'[v] = page[v]
        BY <2>1, <2>2, <2>5, <3>2, <3>3, Parts, PageType
      <3>5. LoadsOK(u)'
        BY <3>1, Parts DEF LoadsOK
      <3> QED BY <2>1, <2>3, <3>1, <3>4, <3>5, Parts, ActFreed, PageStep
    <2> QED BY <2>4, <2>5
  <1> QED BY <1>1, <1>2

-----------------------------------------------------------------------------
(* What a commit does to the tables.                                       *)

\* A row that has every field of one of two rows is a row.
LEMMA MixedRow ==
    ASSUME NEW t \in Tab, NEW r \in Row(t), NEW n \in Row(t), NEW m,
           m = [f \in DOMAIN r |-> m[f]],
           \A f \in DOMAIN r : m[f] \in {n[f], r[f]}
    PROVE  m \in Row(t)
  <1>1. CASE t = "categories"
    BY <1>1 DEF Row
  <1>2. CASE t = "designations"
    BY <1>2 DEF Row
  <1>3. CASE t = "employees"
    BY <1>3 DEF Row
  <1>4. CASE t = "admins"
    BY <1>4 DEF Row
  <1>5. CASE t = "types"
    BY <1>5 DEF Row
  <1>6. CASE t = "locos"
    BY <1>6 DEF Row
  <1>7. CASE t = "jobs"
    BY <1>7 DEF Row
  <1> QED BY <1>1, <1>2, <1>3, <1>4, <1>5, <1>6, <1>7, TabFacts

\* The rows a change puts in place of those with its key.
NewRows(a) ==
    IF a.op = "put"
    THEN {[f \in DOMAIN r |-> IF \E o \in a.seen : o[f] = r[f] THEN n[f] ELSE r[f]] :
             r \in a.row, n \in Keyed(a.tab, a.key)}
    ELSE a.row

Replacing(a) == [table EXCEPT ![a.tab] = (@ \ Keyed(a.tab, a.key)) \union NewRows(a)]

\* The code's cases, one by one.
LEMMA WrittenFacts ==
    ASSUME NEW a, table' \in Written(a)
    PROVE  /\ a.op = "delete" => Holding(a.tab, a.key) = {}
           /\ a.op \in {"post", "verify"} => Keyed(a.tab, a.key) = {}
           /\ a.op = "put" => Keyed(a.tab, a.key) # {}
           /\ a.tab \in DOMAIN Up =>
                \A r \in NewRows(a) : Keyed(Up[a.tab], r[Key[Up[a.tab]]]) # {}
           /\ table' = IF a.op = "delete" /\ a.tab = "employees"
                       THEN [Replacing(a) EXCEPT !["admins"] = @ \ Keyed("admins", a.key)]
                       ELSE Replacing(a)
  BY DEF Written, NewRows, Replacing

LEMMA NewRowsFacts ==
    ASSUME TypeOK, NEW u \in Page, act[u] # None, table' \in Written(act[u])
    PROVE  /\ \A m \in NewRows(act[u]) :
                m \in Row(act[u].tab) /\ m[Key[act[u].tab]] = act[u].key
           /\ \A m, q \in NewRows(act[u]) : m = q
           /\ IF act[u].op = "delete" THEN NewRows(act[u]) = {} ELSE NewRows(act[u]) # {}
  <1> DEFINE a == act[u]
             t == a.tab
             k == a.key
             now == Keyed(t, k)
  <1>1. a \in Change /\ ChangeOK(u) /\ t \in Tab
    BY DEF TypeOK, Change
  <1>2. CASE a.op = "delete"
    BY <1>1, <1>2 DEF ChangeOK, NewRows
  <1>3. ASSUME a.op # "delete"
        PROVE  \E r \in Row(t) : a.row = {r} /\ k \in {r[Key[t]], None} /\ (k = None => a.op = "put")
    BY <1>1, <1>3 DEF ChangeOK
  <1>4. CASE a.op \in {"post", "verify"}
    <2>1. PICK r \in Row(t) : a.row = {r} /\ k = r[Key[t]]
      BY <1>3, <1>4
    <2>2. NewRows(a) = {r}
      BY <1>4, <2>1 DEF NewRows
    <2> QED BY <1>4, <2>1, <2>2
  <1>5. CASE a.op = "put"
    <2>1. now # {}
      BY <1>5, WrittenFacts
    <2>2. \A n \in now : n \in Row(t) /\ n[Key[t]] = k /\ k # None
      BY <1>1, KeyFacts, IdAssumption DEF Keyed, TypeOK
    <2>3. \A n, o \in now : n = o
      BY <1>1 DEF Keyed, TypeOK, PrimaryKeys
    <2>4. PICK r \in Row(t) : a.row = {r} /\ k = r[Key[t]]
      BY <1>3, <1>5, <2>1, <2>2
    <2> DEFINE mix(n) == [f \in DOMAIN r |-> IF \E o \in a.seen : o[f] = r[f] THEN n[f] ELSE r[f]]
    <2>5. NewRows(a) = {mix(n) : n \in now}
      BY <1>5, <2>4 DEF NewRows
    <2>6. ASSUME NEW n \in now
          PROVE  mix(n) \in Row(t) /\ mix(n)[Key[t]] = k
      <3>1. mix(n) = [f \in DOMAIN r |-> mix(n)[f]] /\ \A f \in DOMAIN r : mix(n)[f] \in {n[f], r[f]}
        OBVIOUS
      <3>2. Key[t] \in DOMAIN r
        BY <1>1, <2>4, KeyFacts
      <3> HIDE DEF mix, now, t, k
      <3>3. mix(n) \in Row(t)
        BY <1>1, <2>2, <2>4, <2>6, <3>1, MixedRow
      <3>4. mix(n)[Key[t]] = k
        BY <2>2, <2>4, <2>6, <3>1, <3>2
      <3> QED BY <3>3, <3>4
    <2> HIDE DEF mix
    <2> QED BY <1>5, <2>1, <2>3, <2>5, <2>6
  <1> QED BY <1>1, <1>2, <1>4, <1>5 DEF Change

\* Table by table.
LEMMA TableFacts ==
    ASSUME TypeOK, NEW u \in Page, act[u] # None, table' \in Written(act[u]), NEW y \in Tab
    PROVE  /\ y = act[u].tab =>
                table'[y] = (table[y] \ Keyed(y, act[u].key)) \union NewRows(act[u])
           /\ y # act[u].tab =>
                \/ table'[y] = table[y]
                \/ /\ y = "admins" /\ act[u].op = "delete" /\ act[u].tab = "employees"
                   /\ table'[y] = table[y] \ Keyed(y, act[u].key)
           /\ act[u].op = "delete" /\ act[u].tab = "employees" =>
                table'["admins"] = table["admins"] \ Keyed("admins", act[u].key)
           /\ DOMAIN table' = Tab
  <1> DEFINE a == act[u]
  <1>1. a.tab \in Tab /\ table \in [Tab -> SUBSET AnyItem] /\ "admins" \in Tab
    BY TabFacts DEF TypeOK, Change
  <1>2. Replacing(a) = [table EXCEPT ![a.tab] = (table[a.tab] \ Keyed(a.tab, a.key)) \union NewRows(a)]
    BY DEF Replacing
  <1>3. CASE a.op = "delete" /\ a.tab = "employees"
    <2>1. table' = [Replacing(a) EXCEPT !["admins"] = Replacing(a)["admins"] \ Keyed("admins", a.key)]
      BY <1>3, WrittenFacts
    <2>2. Replacing(a)["admins"] = table["admins"]
      BY <1>1, <1>2, <1>3
    <2> QED BY <1>1, <1>2, <1>3, <2>1, <2>2
  <1>4. CASE ~(a.op = "delete" /\ a.tab = "employees")
    <2>1. table' = Replacing(a)
      BY <1>4, WrittenFacts
    <2> QED BY <1>1, <1>2, <1>4, <2>1
  <1> QED BY <1>3, <1>4

LEMMA CommitTables ==
    ASSUME TypeOK, NEW u \in Page, act[u] # None, table' \in Written(act[u])
    PROVE  TablesOK'
  <1> DEFINE a == act[u]
             t == a.tab
             k == a.key
             now == Keyed(t, k)
             new == NewRows(a)
  <1>1. /\ t \in Tab /\ a \in Change /\ ChangeOK(u)
        /\ \A y \in Tab : table[y] \subseteq Row(y)
        /\ PrimaryKeys /\ ForeignKeys
    BY DEF TypeOK, Change
  <1>2. /\ \A m \in new : m \in Row(t) /\ m[Key[t]] = k
        /\ \A m, q \in new : m = q
        /\ IF a.op = "delete" THEN new = {} ELSE new # {}
    BY NewRowsFacts
  \* A row is an old one or a new one.
  <1>3. ASSUME NEW y \in Tab, NEW r \in table'[y]
        PROVE  \/ r \in table[y] /\ (y = t => r \notin now)
               \/ r \in new /\ y = t
    BY <1>3, TableFacts
  <1>4. \A y \in Tab : table'[y] \subseteq Row(y)
    BY <1>1, <1>2, <1>3
  <1>5. table' \in [Tab -> SUBSET AnyItem]
    <2>1. table' = [y \in Tab |-> table'[y]]
      <3>1. DOMAIN table' = Tab
        BY <1>1, TableFacts
      <3>2. table' = Replacing(a) \/ table' = [Replacing(a) EXCEPT !["admins"] = @ \ Keyed("admins", k)]
        BY WrittenFacts
      <3> QED BY <3>1, <3>2 DEF Replacing, TypeOK
    <2> QED BY <1>4, <2>1, AnyItemFacts
  <1>6. PrimaryKeys'
    <2> SUFFICES ASSUME NEW y \in Tab, NEW r \in table'[y], NEW q \in table'[y],
                        r[Key[y]] = q[Key[y]]
                 PROVE  r = q
      BY DEF PrimaryKeys
    <2>1. CASE r \in table[y] /\ q \in table[y]
      BY <1>1, <2>1 DEF PrimaryKeys
    <2>2. CASE r \in new /\ q \in new /\ y = t
      BY <1>2, <2>2
    <2>3. ASSUME y = t, NEW x \in new, NEW z \in table[y], z \notin now PROVE x[Key[y]] # z[Key[y]]
      BY <1>2, <2>3 DEF Keyed
    <2> QED BY <1>3, <2>1, <2>2, <2>3
  <1>7. ForeignKeys'
    <2> SUFFICES ASSUME NEW x \in DOMAIN Up, NEW r \in table'[x]
                 PROVE  \E q \in table'[Up[x]] : q[Key[Up[x]]] = r[Key[Up[x]]]
      BY DEF ForeignKeys, Keyed
    <2>1. x \in Tab /\ Up[x] \in Tab /\ Up[x] # "admins"
      BY TabFacts
    \* The row that r refers to was there.
    <2>2. PICK q \in table[Up[x]] : q[Key[Up[x]]] = r[Key[Up[x]]]
      <3>1. CASE r \in table[x]
        BY <1>1, <3>1 DEF ForeignKeys, Keyed
      <3>2. CASE r \in new /\ x = t
        BY <3>2, WrittenFacts DEF Keyed
      <3> QED BY <1>3, <2>1, <3>1, <3>2
    <2>3. CASE a.op # "delete"
      <3>1. CASE Up[x] # t
        <4>1. table'[Up[x]] = table[Up[x]]
          BY <2>1, <3>1, TableFacts
        <4> QED BY <2>2, <4>1
      <3>2. CASE Up[x] = t
        <4>1. table'[t] = (table[t] \ now) \union new
          BY <1>1, TableFacts
        <4>2. CASE q \in now
          BY <1>2, <2>2, <2>3, <3>2, <4>1, <4>2 DEF Keyed
        <4>3. CASE q \notin now
          BY <2>2, <3>2, <4>1, <4>3
        <4> QED BY <4>2, <4>3
      <3> QED BY <3>1, <3>2
    <2>4. CASE a.op = "delete"
      <3>1. r \in table[x]
        BY <1>2, <1>3, <2>1, <2>4
      <3>2. CASE Up[x] # t
        <4>1. table'[Up[x]] = table[Up[x]]
          BY <2>1, <3>2, TableFacts
        <4> QED BY <2>2, <4>1
      <3>3. CASE Up[x] = t
        <4>1. r[Key[t]] # k
          <5>1. CASE x # "admins"
            <6>1. Holding(t, k) = {}
              BY <2>4, WrittenFacts
            <6> QED BY <3>1, <3>3, <5>1, <6>1 DEF Holding
          <5>2. CASE x = "admins"
            <6>1. t = "employees" /\ Key[t] = Key["admins"]
              BY <3>3, <5>2, TabFacts
            <6>2. table'["admins"] = table["admins"] \ Keyed("admins", k)
              BY <1>1, <2>4, <6>1, TableFacts
            <6> QED BY <3>1, <5>2, <6>1, <6>2 DEF Keyed
          <5> QED BY <5>1, <5>2
        <4>2. table'[t] = (table[t] \ now) \union new
          BY <1>1, TableFacts
        <4> QED BY <2>2, <3>3, <4>1, <4>2 DEF Keyed
      <3> QED BY <3>2, <3>3
    <2> QED BY <2>3, <2>4
  <1> QED BY <1>4, <1>5, <1>6, <1>7 DEF TablesOK

LEMMA CommitType ==
    ASSUME TypeOK, NEW u \in Page, Commit(u)
    PROVE  TypeOK'
  <1>1. act[u] # None /\ UNCHANGED <<emailOtp, tornLocos, tornAdmins, calm>>
    BY DEF Commit
  <1>2. CASE table' \in Written(act[u]) /\ Done(u) /\ promo' \in SUBSET promo
    <2>1. RestOK'
      BY <1>1, <1>2, Parts DEF RestOK
    <2> QED BY <1>1, <1>2, <2>1, CommitTables, DoneType
  <1>3. CASE Failed(u) /\ UNCHANGED <<table, promo>>
    <2>1. RestOK'
      BY <1>1, <1>3, Parts DEF RestOK
    <2> QED BY <1>1, <1>3, <2>1, FailedType
  <1>4. \/ table' \in Written(act[u]) /\ Done(u) /\ promo' \in SUBSET promo
        \/ Failed(u) /\ UNCHANGED <<table, promo>>
    BY DEF Commit
  <1> QED BY <1>2, <1>3, <1>4

\* Whatever the pages do, and whatever handlers overlap and fail, every row
\* has a primary key of its own and refers to a row that is there; pages show
\* their own tabs, and a change carries the row it is for.
THEOREM TypeCorrect == Spec => []TypeOK
  <1>1. TypeOK /\ [Next]_vars => TypeOK'
    <2> SUFFICES ASSUME TypeOK, [Next]_vars PROVE TypeOK'
      OBVIOUS
    <2>1. CASE UNCHANGED vars
      BY <2>1 DEF TypeOK, vars, PageOK, LoadsOK, ChangeOK, PrimaryKeys, ForeignKeys, Keyed
    <2>2. CASE UserStep
      <3>1. PICK u \in Page :
              \/ \E t \in Tab : SwitchTab(u, t)
              \/ \E n \in 1 .. Pages(u) : TurnPage(u, n)
              \/ OpenNew(u)
              \/ \E r \in page[u].items : OpenEdit(u, r) \/ Delete(u, r)
              \/ CancelForm(u)
              \/ \E row \in Row(page[u].tab) : Submit(u, row)
              \/ \E k \in Id : Grant(u, k)
              \/ Verify(u)
              \/ CancelOtp(u)
        BY <2>2 DEF UserStep
      <3> QED BY <3>1, SwitchType, ViewType, ChangeType
    <2>3. CASE SystemStep
      BY <2>3, ListType, HandlerType, ReadType, CommitType DEF SystemStep
    <2>4. CASE FaultStep
      <3>1. ASSUME NEW k \in Id, CodeExpires(k) PROVE TypeOK'
        BY <3>1 DEF CodeExpires, TypeOK, PageOK, LoadsOK, ChangeOK, PrimaryKeys, ForeignKeys, Keyed
      <3> QED BY <2>4, <3>1, HandlerType, ListType DEF FaultStep
    <2> QED BY <2>1, <2>2, <2>3, <2>4 DEF Next
  <1> QED BY <1>1, InitType, PTL DEF Spec

-----------------------------------------------------------------------------
(* Administrators and locomotives in the hands of handlers.                *)

\* For the tables there are three kinds of steps: the queries of a handler,
\* its commit, and all others, which take no change any further.
LEMMA StepKinds ==
    ASSUME TypeOK, Next
    PROVE  \/ \E u \in Page : Read(u)
           \/ \E u \in Page :
                /\ act[u] # None /\ act[u].at = "read"
                /\ table' \in Written(act[u])
                /\ act' = [act EXCEPT ![u] = None]
                /\ UNCHANGED <<tornLocos, tornAdmins>>
           \/ /\ UNCHANGED <<table, tornLocos, tornAdmins>>
              /\ \A v \in Page : act'[v] \in {act[v], None} \/ act'[v].at = "sent"
  <1> DEFINE Others == /\ UNCHANGED <<table, tornLocos, tornAdmins>>
                       /\ \A v \in Page : act'[v] \in {act[v], None} \/ act'[v].at = "sent"
  <1>1. act \in [Page -> {None} \union Change]
    BY DEF TypeOK
  <1>2. ASSUME UNCHANGED <<table, act, tornLocos, tornAdmins>> PROVE Others
    BY <1>2
  <1>3. ASSUME NEW u \in Page, NEW op, NEW k, NEW row, Send(u, op, k, row), UNCHANGED table
        PROVE  Others
    <2>1. act'[u].at = "sent" /\ \A v \in Page : v # u => act'[v] = act[v]
      BY <1>1, <1>3 DEF Send
    <2> QED BY <1>3, <2>1 DEF Send
  <1>4. ASSUME NEW u \in Page, act' = [act EXCEPT ![u] = None],
               UNCHANGED <<table, tornLocos, tornAdmins>>
        PROVE  Others
    BY <1>1, <1>4
  <1> HIDE DEF Others
  <1>5. CASE UserStep
    <2>1. ASSUME NEW u \in Page, NEW t \in Tab, SwitchTab(u, t) PROVE Others
      BY <1>2, <2>1 DEF SwitchTab
    <2>2. ASSUME NEW u \in Page, NEW n, TurnPage(u, n) PROVE Others
      BY <1>2, <2>2 DEF TurnPage
    <2>3. ASSUME NEW u \in Page, NEW r,
                 OpenNew(u) \/ CancelForm(u) \/ CancelOtp(u) \/ OpenEdit(u, r)
          PROVE  Others
      BY <1>2, <2>3 DEF OpenNew, CancelForm, CancelOtp, OpenEdit, SetForm
    <2>4. ASSUME NEW u \in Page, NEW r, Delete(u, r) PROVE Others
      BY <1>3, <2>4 DEF Delete, Send
    <2>5. ASSUME NEW u \in Page, NEW row, Submit(u, row) PROVE Others
      <3>1. \E op, k, x : Send(u, op, k, x)
        BY <2>5 DEF Submit
      <3> QED BY <1>3, <3>1 DEF Send
    <2>6. ASSUME NEW u \in Page, NEW k, Grant(u, k) \/ Verify(u) PROVE Others
      BY <1>3, <2>6 DEF Grant, Verify, Send
    <2> QED BY <1>5, <2>1, <2>2, <2>3, <2>4, <2>5, <2>6 DEF UserStep, Others
  <1>6. ASSUME NEW u \in Page, Refuse(u) \/ SendCode(u) \/ Abort(u) PROVE Others
    <2>1. act' = [act EXCEPT ![u] = None] /\ UNCHANGED <<table, tornLocos, tornAdmins>>
      BY <1>6 DEF Refuse, SendCode, Abort, Failed, Done
    <2> QED BY <1>4, <2>1
  <1>7. ASSUME NEW u \in Page, NEW l, ServeLoad(u, l) \/ LoadArrives(u, l) \/ LoadFails(u, l)
        PROVE  Others
    BY <1>2, <1>7 DEF ServeLoad, LoadArrives, LoadFails
  <1>8. ASSUME NEW u \in Page, Commit(u)
        PROVE  \/ /\ act[u] # None /\ act[u].at = "read"
                  /\ table' \in Written(act[u])
                  /\ act' = [act EXCEPT ![u] = None]
                  /\ UNCHANGED <<tornLocos, tornAdmins>>
               \/ Others
    <2>1. CASE Failed(u) /\ UNCHANGED table
      BY <1>4, <1>8, <2>1 DEF Commit, Failed
    <2> QED BY <1>8, <2>1 DEF Commit, Done
  <1>9. CASE SystemStep
    BY <1>6, <1>7, <1>8, <1>9 DEF SystemStep, Others
  <1>10. CASE FaultStep
    <2>1. ASSUME NEW k, CodeExpires(k) PROVE Others
      BY <1>2, <2>1 DEF CodeExpires
    <2> QED BY <1>6, <1>7, <1>10, <2>1 DEF FaultStep, Others
  <1> QED BY <1>5, <1>9, <1>10 DEF Next

\* Unless two handlers have taken administrators away at a time, at most one
\* does, and somebody else is an administrator then.
OneRemains ==
    tornAdmins \/
        /\ table["admins"] # {}
        /\ \A u, v \in Page : RemovesAdmin(u) /\ RemovesAdmin(v) => u = v
        /\ \A u \in Page :
            RemovesAdmin(u) => \E r \in table["admins"] : r["ticket_number"] # act[u].key

LEMMA OneRemainsStep ==
    ASSUME TypeOK, OneRemains, Next
    PROVE  OneRemains'
  <1>1. /\ act \in [Page -> {None} \union Change] /\ "admins" \in Tab
        /\ \A u \in Page : ChangeOK(u)
        /\ tornAdmins \in BOOLEAN
    BY TabFacts DEF TypeOK
  \* Steps that take away nobody, and begin to take away nobody.
  <1>2. ASSUME tornAdmins => tornAdmins', table["admins"] \subseteq table'["admins"],
               \A v \in Page : RemovesAdmin(v)' => RemovesAdmin(v) /\ act'[v].key = act[v].key
        PROVE  OneRemains'
    BY <1>2 DEF OneRemains
  <1>3. ASSUME NEW u \in Page, Read(u) PROVE OneRemains'
    <2>1. /\ act[u] # None /\ act[u] \in Change /\ act[u].at = "sent" /\ ~TakesLast(act[u])
          /\ act' = [act EXCEPT ![u].at = "read", ![u].seen = Keyed(act[u].tab, act[u].key)]
          /\ UNCHANGED table
      BY <1>1, <1>3 DEF Read, Refused
    <2>2. tornAdmins' <=> \/ tornAdmins
                          \/ /\ act[u].op = "delete" /\ act[u].tab \in {"admins", "employees"}
                             /\ \E v \in Page : RemovesAdmin(v)
      BY <1>3 DEF Read
    <2>3. \A v \in Page : v # u => act'[v] = act[v]
      BY <1>1, <2>1
    <2>4. act'[u].op = act[u].op /\ act'[u].tab = act[u].tab /\ act'[u].key = act[u].key
      BY <1>1, <2>1 DEF Change
    <2>5. CASE ~(act[u].op = "delete" /\ act[u].tab \in {"admins", "employees"})
      <3>1. \A v \in Page : RemovesAdmin(v)' => RemovesAdmin(v) /\ act'[v].key = act[v].key
        BY <2>3, <2>4, <2>5 DEF RemovesAdmin
      <3> QED BY <1>2, <2>1, <2>2, <3>1
    <2>6. CASE act[u].op = "delete" /\ act[u].tab \in {"admins", "employees"}
      <3> SUFFICES ASSUME ~tornAdmins' PROVE OneRemains'
        BY DEF OneRemains
      <3>1. ~tornAdmins /\ table["admins"] # {} /\ \A v \in Page : ~RemovesAdmin(v)
        BY <2>2, <2>6 DEF OneRemains
      <3>2. \A v \in Page : RemovesAdmin(v)' => v = u
        BY <2>3, <3>1 DEF RemovesAdmin
      <3>3. \E r \in table["admins"] : r["ticket_number"] # act[u].key
        <4> SUFFICES ASSUME \A r \in table["admins"] : r["ticket_number"] = act[u].key
                     PROVE  FALSE
          OBVIOUS
        <4>1. PICK r \in table["admins"] : TRUE
          BY <3>1
        <4>2. \A q \in table["admins"] : q = r
          BY TabFacts DEF TypeOK, PrimaryKeys
        <4>3. table["admins"] = {r}
          BY <4>1, <4>2
        <4>4. Cardinality(table["admins"]) <= 1
          BY <4>3, FS_Singleton, SMTT(60)
        <4>5. Keyed("admins", act[u].key) # {}
          BY <4>1, TabFacts DEF Keyed
        <4> QED BY <2>1, <2>6, <4>4, <4>5 DEF TakesLast
      <3> QED BY <2>1, <2>4, <3>1, <3>2, <3>3 DEF OneRemains
    <2> QED BY <2>5, <2>6
  <1>4. ASSUME NEW u \in Page, act[u] # None, act[u].at = "read", table' \in Written(act[u]),
               act' = [act EXCEPT ![u] = None], UNCHANGED tornAdmins
        PROVE  OneRemains'
    <2>1. \A v \in Page : RemovesAdmin(v)' => RemovesAdmin(v) /\ act'[v] = act[v] /\ v # u
      BY <1>1, <1>4 DEF RemovesAdmin
    <2>2. CASE RemovesAdmin(u)
      <3> SUFFICES ASSUME ~tornAdmins PROVE OneRemains'
        BY <1>4 DEF OneRemains
      <3>1. \A v \in Page : ~RemovesAdmin(v)'
        BY <2>1, <2>2 DEF OneRemains
      <3>2. PICK r \in table["admins"] : r["ticket_number"] # act[u].key
        BY <2>2 DEF OneRemains
      <3>3. r \in table'["admins"]
        <4>1. r \notin Keyed("admins", act[u].key)
          BY <3>2, TabFacts DEF Keyed
        <4> QED BY <1>1, <1>4, <2>2, <4>1, TableFacts DEF RemovesAdmin
      <3> QED BY <3>1, <3>3 DEF OneRemains
    <2>3. CASE ~RemovesAdmin(u)
      <3>1. table["admins"] \subseteq table'["admins"]
        <4>1. CASE act[u].tab = "admins"
          <5>1. act[u].op \in {"post", "verify"}
            BY <1>1, <1>4, <2>3, <4>1 DEF RemovesAdmin, ChangeOK, Change
          <5>2. Keyed("admins", act[u].key) = {}
            BY <1>4, <4>1, <5>1, WrittenFacts
          <5> QED BY <1>1, <1>4, <4>1, <5>2, TableFacts
        <4>2. CASE act[u].tab # "admins"
          BY <1>1, <1>4, <2>3, <4>2, TableFacts DEF RemovesAdmin
        <4> QED BY <4>1, <4>2
      <3> QED BY <1>2, <1>4, <2>1, <3>1
    <2> QED BY <2>2, <2>3
  <1>5. ASSUME UNCHANGED <<table, tornAdmins>>,
               \A v \in Page : act'[v] \in {act[v], None} \/ act'[v].at = "sent"
        PROVE  OneRemains'
    <2>1. \A v \in Page : RemovesAdmin(v)' => RemovesAdmin(v) /\ act'[v].key = act[v].key
      BY <1>5 DEF RemovesAdmin
    <2> QED BY <1>2, <1>5, <2>1
  <1> QED BY <1>3, <1>4, <1>5, StepKinds

\* Someone can always administer the system, unless two handlers have
\* counted the administrators at a time: whoever is deleted, as an
\* administrator or as an employee, from whichever page.
THEOREM AdministratorRemains == Spec => []AdminRemains
  <1>1. Init => OneRemains
    BY DEF Init, OneRemains, RemovesAdmin
  <1>2. TypeOK /\ OneRemains /\ [Next]_vars => OneRemains'
    <2>1. CASE UNCHANGED vars
      BY <2>1 DEF OneRemains, RemovesAdmin, vars
    <2> QED BY <2>1, OneRemainsStep
  <1>3. OneRemains => AdminRemains
    BY DEF OneRemains, AdminRemains
  <1> QED BY <1>1, <1>2, <1>3, TypeCorrect, PTL DEF Spec

\* The handler of u has locomotive k in hand.
HasLoco(u, k) ==
    act[u] # None /\ act[u].tab = "locos" /\ act[u].at = "read" /\ act[u].key = k

\* A locomotive that two handlers have never had in hand at a time is as the
\* handler that has it read it, and that handler writes a row that fits.
LocosInHand ==
    \A k \in Id \ tornLocos :
        /\ \A r \in Keyed("locos", k) : Fits(r)
        /\ \A u, v \in Page : HasLoco(u, k) /\ HasLoco(v, k) => u = v
        /\ \A u \in Page : HasLoco(u, k) =>
            act[u].seen = Keyed("locos", k) /\ \A r \in act[u].row : Fits(r)

\* When the row has not changed since it was read, it is written as asked for.
LEMMA WrittenAsAsked ==
    ASSUME TypeOK, NEW u \in Page, act[u] # None, table' \in Written(act[u]),
           act[u].seen = Keyed(act[u].tab, act[u].key)
    PROVE  NewRows(act[u]) \subseteq act[u].row
  <1> DEFINE a == act[u]
             now == Keyed(a.tab, a.key)
  <1>1. a.tab \in Tab /\ ChangeOK(u)
    BY DEF TypeOK, Change
  <1>2. CASE a.op # "put"
    BY <1>2 DEF NewRows
  <1>3. CASE a.op = "put"
    <2>1. PICK r \in Row(a.tab) : a.row = {r}
      BY <1>1, <1>3 DEF ChangeOK
    <2>2. \A n, o \in now : n = o
      BY <1>1 DEF Keyed, TypeOK, PrimaryKeys
    <2> DEFINE mix(n) == [f \in DOMAIN r |-> IF \E o \in a.seen : o[f] = r[f] THEN n[f] ELSE r[f]]
    <2>3. NewRows(a) = {mix(n) : n \in now}
      BY <1>3, <2>1 DEF NewRows
    <2>4. ASSUME NEW n \in now PROVE mix(n) = r
      <3>1. \A f \in DOMAIN r : mix(n)[f] = r[f]
        <4> SUFFICES ASSUME NEW f \in DOMAIN r, \E o \in a.seen : o[f] = r[f] PROVE n[f] = r[f]
          OBVIOUS
        <4> QED BY <2>2
      <3>2. r = [f \in DOMAIN r |-> r[f]]
        <4> HIDE DEF mix, now, a
        <4>1. \A t \in Tab : \A x \in Row(t) : x = [f \in DOMAIN x |-> x[f]]
          BY TabFacts DEF Row
        <4> QED BY <1>1, <2>1, <4>1
      <3> QED BY <3>1, <3>2
    <2> HIDE DEF mix
    <2> QED BY <2>1, <2>3, <2>4
  <1> QED BY <1>2, <1>3

LEMMA LocosStep ==
    ASSUME TypeOK, LocosInHand, Next
    PROVE  LocosInHand'
  <1>1. /\ act \in [Page -> {None} \union Change] /\ "locos" \in Tab
        /\ \A u \in Page : ChangeOK(u)
        /\ Key["locos"] = "loco_number"
    BY TabFacts DEF TypeOK
  <1>2. ASSUME NEW u \in Page, Read(u) PROVE LocosInHand'
    <2>1. /\ act[u] # None /\ act[u] \in Change /\ act[u].at = "sent" /\ ~Unfit(act[u])
          /\ act' = [act EXCEPT ![u].at = "read", ![u].seen = Keyed(act[u].tab, act[u].key)]
          /\ UNCHANGED table
      BY <1>1, <1>2 DEF Read, Refused
    <2>2. /\ act'[u].tab = act[u].tab /\ act'[u].key = act[u].key /\ act'[u].row = act[u].row
          /\ act'[u].seen = Keyed(act[u].tab, act[u].key)
          /\ \A v \in Page : v # u => act'[v] = act[v]
      BY <1>1, <2>1 DEF Change
    <2>3. tornLocos \subseteq tornLocos'
      BY <1>2 DEF Read
    <2>4. act[u].tab = "locos" /\ act[u].key \notin tornLocos'
            => \A v \in Page : ~HasLoco(v, act[u].key)
      BY <1>2 DEF Read, HasLoco
    <2> SUFFICES ASSUME NEW k \in Id, k \notin tornLocos'
                 PROVE  /\ \A r \in Keyed("locos", k)' : Fits(r)
                        /\ \A x, v \in Page : HasLoco(x, k)' /\ HasLoco(v, k)' => x = v
                        /\ \A v \in Page : HasLoco(v, k)' =>
                            act'[v].seen = Keyed("locos", k)' /\ \A r \in act'[v].row : Fits(r)
      BY DEF LocosInHand
    <2>5. Keyed("locos", k)' = Keyed("locos", k) /\ \A r \in Keyed("locos", k) : Fits(r)
      BY <2>1, <2>3 DEF Keyed, LocosInHand
    <2>6. \A v \in Page : v # u /\ HasLoco(v, k)' => HasLoco(v, k)
      BY <2>2 DEF HasLoco
    <2>7. HasLoco(u, k)' => \A v \in Page : ~HasLoco(v, k)
      BY <2>2, <2>4 DEF HasLoco
    <2>8. HasLoco(u, k)' => act'[u].seen = Keyed("locos", k) /\ \A r \in act'[u].row : Fits(r)
      BY <1>1, <2>1, <2>2 DEF HasLoco, Unfit, ChangeOK
    <2>9. \A v \in Page : v # u /\ HasLoco(v, k)' =>
            act'[v].seen = Keyed("locos", k) /\ \A r \in act'[v].row : Fits(r)
      BY <2>2, <2>3, <2>6 DEF LocosInHand
    <2>10. \A x, v \in Page : HasLoco(x, k) /\ HasLoco(v, k) => x = v
      BY <2>3 DEF LocosInHand
    <2> QED BY <2>5, <2>6, <2>7, <2>8, <2>9, <2>10
  <1>3. ASSUME NEW u \in Page, act[u] # None, act[u].at = "read", table' \in Written(act[u]),
               act' = [act EXCEPT ![u] = None], UNCHANGED tornLocos
        PROVE  LocosInHand'
    <2> SUFFICES ASSUME NEW k \in Id, k \notin tornLocos
                 PROVE  /\ \A r \in Keyed("locos", k)' : Fits(r)
                        /\ \A x, v \in Page : HasLoco(x, k)' /\ HasLoco(v, k)' => x = v
                        /\ \A v \in Page : HasLoco(v, k)' =>
                            act'[v].seen = Keyed("locos", k)' /\ \A r \in act'[v].row : Fits(r)
      BY <1>3 DEF LocosInHand
    <2>1. \A v \in Page : HasLoco(v, k)' => HasLoco(v, k) /\ act'[v] = act[v] /\ v # u
      BY <1>1, <1>3 DEF HasLoco
    <2>2. /\ \A x, v \in Page : HasLoco(x, k) /\ HasLoco(v, k) => x = v
          /\ \A v \in Page : HasLoco(v, k) =>
              act[v].seen = Keyed("locos", k) /\ \A r \in act[v].row : Fits(r)
          /\ \A r \in Keyed("locos", k) : Fits(r)
      BY DEF LocosInHand
    <2>3. CASE HasLoco(u, k)
      <3>1. \A r \in Keyed("locos", k)' : r \in NewRows(act[u])
        BY <1>1, <1>3, <2>3, TableFacts DEF HasLoco, Keyed
      <3>2. NewRows(act[u]) \subseteq act[u].row
        BY <1>3, <2>2, <2>3, WrittenAsAsked DEF HasLoco
      <3>3. \A v \in Page : ~HasLoco(v, k)'
        BY <2>1, <2>2, <2>3
      <3> QED BY <2>2, <2>3, <3>1, <3>2, <3>3
    <2>4. CASE ~HasLoco(u, k)
      <3>1. Keyed("locos", k)' = Keyed("locos", k)
        <4>1. CASE act[u].tab # "locos"
          BY <1>1, <1>3, <4>1, TableFacts DEF Keyed
        <4>2. CASE act[u].tab = "locos"
          <5>1. act[u].key # k
            BY <1>3, <2>4, <4>2 DEF HasLoco
          <5>2. \A m \in NewRows(act[u]) : m[Key["locos"]] # k
            BY <1>3, <4>2, <5>1, NewRowsFacts
          <5>3. table'["locos"] = (table["locos"] \ Keyed("locos", act[u].key)) \union NewRows(act[u])
            BY <1>1, <1>3, <4>2, TableFacts
          <5> QED BY <5>1, <5>2, <5>3 DEF Keyed
        <4> QED BY <4>1, <4>2
      <3> QED BY <2>1, <2>2, <3>1
    <2> QED BY <2>3, <2>4
  <1>4. ASSUME UNCHANGED <<table, tornLocos>>,
               \A v \in Page : act'[v] \in {act[v], None} \/ act'[v].at = "sent"
        PROVE  LocosInHand'
    <2>1. \A v \in Page, k \in Id : HasLoco(v, k)' => HasLoco(v, k) /\ act'[v] = act[v]
      BY <1>4 DEF HasLoco
    <2>2. \A k \in Id : Keyed("locos", k)' = Keyed("locos", k)
      BY <1>4 DEF Keyed
    <2> QED BY <1>4, <2>1, <2>2 DEF LocosInHand
  <1> QED BY <1>2, <1>3, <1>4, StepKinds

\* A despatched locomotive is at stage 9, and no other is, unless two
\* handlers have had it in hand at a time: that only the changed columns are
\* written does no harm by itself.
THEOREM DespatchedAtNine == Spec => []DespatchFits
  <1>1. Init => LocosInHand
    BY DEF Init, LocosInHand, HasLoco, Keyed
  <1>2. TypeOK /\ LocosInHand /\ [Next]_vars => LocosInHand'
    <2>1. CASE UNCHANGED vars
      BY <2>1 DEF LocosInHand, HasLoco, Keyed, vars
    <2> QED BY <2>1, LocosStep
  <1>3. TypeOK /\ LocosInHand => DespatchFits
    <2> SUFFICES ASSUME TypeOK, LocosInHand, NEW r \in table["locos"]
                 PROVE  r["loco_number"] \in tornLocos \/ Fits(r)
      BY DEF DespatchFits
    <2>1. r["loco_number"] \in Id
      BY RowFacts, TabFacts DEF TypeOK
    <2>2. r \in Keyed("locos", r["loco_number"])
      BY TabFacts DEF Keyed
    <2> QED BY <2>1, <2>2 DEF LocosInHand
  <1> QED BY <1>1, <1>2, <1>3, TypeCorrect, PTL DEF Spec

-----------------------------------------------------------------------------
(* A page whose lists come one at a time.                                  *)

\* While u is calm, the lists under way and the change being handled are of
\* the tab it shows.
CalmPage(u) ==
    calm[u] =>
        /\ loads[u] = {} => page[u].of = page[u].tab
        /\ \A l \in loads[u] : l.tab = page[u].tab
        /\ act[u] # None => act[u].tab = page[u].tab

CalmTables == \A u \in Page : CalmPage(u)

\* What a step has to keep that is about page u, and lets it be calm only
\* when it was.
LEMMA CalmAfter ==
    ASSUME CalmTables, NEW u \in Page, CalmPage(u)',
           \A v \in Page : v # u => /\ page'[v] = page[v] /\ loads'[v] = loads[v]
                                    /\ act'[v] = act[v] /\ calm'[v] = calm[v]
    PROVE  CalmTables'
  <1>1. ASSUME NEW v \in Page, v # u PROVE CalmPage(v)'
    <2>1. CalmPage(v)
      BY DEF CalmTables
    <2>2. /\ page'[v] = page[v] /\ loads'[v] = loads[v]
          /\ act'[v] = act[v] /\ calm'[v] = calm[v]
      BY <1>1
    <2> QED BY <2>1, <2>2 DEF CalmPage
  <1> QED BY <1>1 DEF CalmTables

\* A page is as it was but for parts that CalmPage does not look at, and the
\* change that is handled is the same, done with, or one of the tab shown.
LEMMA SameView ==
    ASSUME TypeOK, CalmTables, NEW u \in Page, UNCHANGED <<loads, calm>>,
           page'[u].tab = page[u].tab, page'[u].of = page[u].of,
           \/ act'[u] = None \/ act'[u].tab = page[u].tab
           \/ act[u] # None /\ act'[u].tab = act[u].tab,
           \A v \in Page : v # u => page'[v] = page[v] /\ act'[v] = act[v]
    PROVE  CalmTables'
  <1>1. CalmPage(u)'
    BY DEF CalmTables, CalmPage
  <1> QED BY <1>1, CalmAfter

LEMMA CalmDone ==
    ASSUME TypeOK, CalmTables, NEW u \in Page, act[u] # None, Done(u), UNCHANGED calm
    PROVE  CalmTables'
  <1> DEFINE new == [tab |-> act[u].tab, rows |-> None]
  <1>1. page \in [Page -> Shown] /\ loads \in [Page -> SUBSET Load]
        /\ act \in [Page -> {None} \union Change]
    BY DEF TypeOK
  <1>2. loads' = [loads EXCEPT ![u] = loads[u] \union {new}] /\ new.tab = act[u].tab
    BY DEF Done, StartLoad
  <1> HIDE DEF new
  <1>3. act' = [act EXCEPT ![u] = None]
    BY DEF Done
  <1>4. /\ page'[u].tab = page[u].tab
        /\ \A v \in Page : v # u => page'[v] = page[v]
    BY <1>1 DEF Done, Shown
  <1>5. CalmPage(u)'
    BY <1>1, <1>2, <1>3, <1>4 DEF CalmTables, CalmPage
  <1> QED BY <1>1, <1>2, <1>3, <1>4, <1>5, CalmAfter

LEMMA CalmStep ==
    ASSUME TypeOK, CalmTables, Next
    PROVE  CalmTables'
  <1>1. /\ page \in [Page -> Shown] /\ loads \in [Page -> SUBSET Load]
        /\ act \in [Page -> {None} \union Change] /\ calm \in [Page -> BOOLEAN]
    BY DEF TypeOK
  <1>2. ASSUME UNCHANGED <<page, loads, act, calm>> PROVE CalmTables'
    BY <1>2 DEF CalmTables, CalmPage
  <1>3. ASSUME NEW u \in Page, NEW t \in Tab, SwitchTab(u, t) PROVE CalmTables'
    <2> DEFINE new == [tab |-> t, rows |-> None]
    <2>1. loads' = [loads EXCEPT ![u] = loads[u] \union {new}] /\ new.tab = t
      BY <1>3 DEF SwitchTab, StartLoad
    <2> HIDE DEF new
    <2>2. /\ page'[u].tab = t
          /\ calm'[u] => loads[u] = {} /\ act[u] = None
          /\ act' = act
      BY <1>1, <1>3 DEF SwitchTab, Shown
    <2>3. CalmPage(u)'
      BY <1>1, <2>1, <2>2 DEF CalmPage
    <2>4. \A v \in Page : v # u => page'[v] = page[v] /\ calm'[v] = calm[v]
      BY <1>1, <1>3 DEF SwitchTab
    <2> QED BY <1>1, <2>1, <2>2, <2>3, <2>4, CalmAfter
  <1>4. ASSUME NEW u \in Page, NEW n, NEW r,
               \/ TurnPage(u, n) \/ OpenNew(u) \/ CancelForm(u) \/ CancelOtp(u) \/ OpenEdit(u, r)
        PROVE  CalmTables'
    <2>1. UNCHANGED <<loads, act, calm>>
      BY <1>4 DEF TurnPage, OpenNew, CancelForm, CancelOtp, OpenEdit, SetForm
    <2>2. /\ page'[u].tab = page[u].tab /\ page'[u].of = page[u].of
          /\ \A v \in Page : v # u => page'[v] = page[v]
      BY <1>1, <1>4 DEF TurnPage, OpenNew, CancelForm, CancelOtp, OpenEdit, SetForm, Shown
    <2> QED BY <2>1, <2>2, SameView
  <1>5. ASSUME NEW u \in Page, NEW op, NEW k, NEW row, Send(u, op, k, row),
               page' = page \/ page' = [page EXCEPT ![u].loading = TRUE]
        PROVE  CalmTables'
    <2>1. /\ act'[u].tab = page[u].tab /\ UNCHANGED <<loads, calm>>
          /\ \A v \in Page : v # u => act'[v] = act[v]
      BY <1>1, <1>5 DEF Send
    <2>2. /\ page'[u].tab = page[u].tab /\ page'[u].of = page[u].of
          /\ \A v \in Page : v # u => page'[v] = page[v]
      BY <1>1, <1>5 DEF Shown
    <2> QED BY <2>1, <2>2, SameView
  <1>6. ASSUME NEW u \in Page, NEW l \in loads[u], ServeLoad(u, l) PROVE CalmTables'
    <2> DEFINE got == [l EXCEPT !.rows = Items(l.tab)]
    <2>1. /\ loads' = [loads EXCEPT ![u] = (loads[u] \ {l}) \union {got}]
          /\ got.tab = l.tab /\ UNCHANGED <<page, act, calm>>
      BY <1>1, <1>6 DEF ServeLoad, Load
    <2> HIDE DEF got
    <2>2. CalmPage(u)'
      BY <1>1, <2>1 DEF CalmTables, CalmPage
    <2> QED BY <1>1, <2>1, <2>2, CalmAfter
  <1>7. ASSUME NEW u \in Page, NEW l \in loads[u], LoadArrives(u, l) PROVE CalmTables'
    <2>1. /\ loads' = [loads EXCEPT ![u] = loads[u] \ {l}] /\ UNCHANGED <<act, calm>>
          /\ page'[u].tab = page[u].tab /\ page'[u].of = l.tab
          /\ \A v \in Page : v # u => page'[v] = page[v]
      BY <1>1, <1>7 DEF LoadArrives, Shown
    <2>2. CalmPage(u)'
      BY <1>1, <2>1 DEF CalmTables, CalmPage
    <2> QED BY <1>1, <2>1, <2>2, CalmAfter
  <1>8. ASSUME NEW u \in Page, NEW l \in loads[u], LoadFails(u, l) PROVE CalmTables'
    <2>1. CalmPage(u)'
      BY <1>1, <1>8 DEF LoadFails, CalmPage
    <2> QED BY <1>1, <1>8, <2>1, CalmAfter DEF LoadFails
  <1>9. ASSUME NEW u \in Page, Failed(u), UNCHANGED calm PROVE CalmTables'
    <2>1. /\ act' = [act EXCEPT ![u] = None] /\ UNCHANGED loads
          /\ page'[u].tab = page[u].tab /\ page'[u].of = page[u].of
          /\ \A v \in Page : v # u => page'[v] = page[v]
      BY <1>1, <1>9 DEF Failed, Shown
    <2> QED BY <1>1, <1>9, <2>1, SameView
  <1>10. ASSUME NEW u \in Page, Read(u) PROVE CalmTables'
    <2>1. /\ act[u] # None /\ act'[u].tab = act[u].tab /\ UNCHANGED <<page, loads, calm>>
          /\ \A v \in Page : v # u => act'[v] = act[v]
      BY <1>1, <1>10 DEF Read, Change
    <2> QED BY <2>1, SameView
  <1>11. ASSUME NEW u \in Page, SendCode(u) PROVE CalmTables'
    <2>1. act[u] # None /\ UNCHANGED calm
      BY <1>11 DEF SendCode
    <2>2. CASE u \notin Personnel
      BY <1>11, <2>1, <2>2, CalmDone DEF SendCode
    <2>3. CASE u \in Personnel
      <3>1. /\ act' = [act EXCEPT ![u] = None] /\ UNCHANGED loads
            /\ page'[u].tab = page[u].tab /\ page'[u].of = page[u].of
            /\ \A v \in Page : v # u => page'[v] = page[v]
        BY <1>1, <1>11, <2>3 DEF SendCode, Shown
      <3> QED BY <1>1, <2>1, <3>1, SameView
    <2> QED BY <2>2, <2>3
  <1>12. ASSUME NEW u \in Page, Commit(u) PROVE CalmTables'
    <2>1. act[u] # None /\ UNCHANGED calm /\ (Done(u) \/ Failed(u))
      BY <1>12 DEF Commit
    <2> QED BY <1>9, <2>1, CalmDone
  <1>13. CASE UserStep
    <2>1. ASSUME NEW u \in Page, NEW r, Delete(u, r) PROVE CalmTables'
      BY <1>5, <2>1 DEF Delete
    <2>2. ASSUME NEW u \in Page, NEW row, Submit(u, row) PROVE CalmTables'
      <3>1. \E op, k, x : Send(u, op, k, x)
        BY <2>2 DEF Submit
      <3> QED BY <1>5, <2>2, <3>1 DEF Submit
    <2>3. ASSUME NEW u \in Page, NEW k, Grant(u, k) \/ Verify(u) PROVE CalmTables'
      BY <1>5, <2>3 DEF Grant, Verify
    <2> QED BY <1>3, <1>4, <1>13, <2>1, <2>2, <2>3 DEF UserStep
  <1>14. CASE SystemStep
    BY <1>6, <1>7, <1>9, <1>10, <1>11, <1>12, <1>14 DEF SystemStep, Refuse
  <1>15. CASE FaultStep
    BY <1>2, <1>8, <1>9, <1>15 DEF FaultStep, Abort, CodeExpires
  <1> QED BY <1>13, <1>14, <1>15 DEF Next

\* A page whose lists came one at a time, none of them failing, acts on rows
\* of the table its tab names: saved forms, codes and failures do not bring in
\* another table's.
THEOREM CalmTabs == Spec => []OwnTableWhenCalm
  <1>1. Init => CalmTables
    <2> SUFFICES ASSUME Init, NEW u \in Page PROVE CalmPage(u)
      BY DEF CalmTables
    <2> DEFINE first == [tab |-> page[u].tab, rows |-> None]
    <2>1. loads[u] = {first} /\ act[u] = None
      BY DEF Init
    <2>2. first.tab = page[u].tab
      OBVIOUS
    <2> HIDE DEF first
    <2> QED BY <2>1, <2>2 DEF CalmPage
  <1>2. TypeOK /\ CalmTables /\ [Next]_vars => CalmTables'
    <2>1. CASE UNCHANGED vars
      BY <2>1 DEF CalmTables, CalmPage, vars
    <2> QED BY <2>1, CalmStep
  <1>3. CalmTables => OwnTableWhenCalm
    BY DEF CalmTables, CalmPage, OwnTableWhenCalm
  <1> QED BY <1>1, <1>2, <1>3, TypeCorrect, PTL DEF Spec

=============================================================================
