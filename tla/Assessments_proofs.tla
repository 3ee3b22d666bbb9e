------------------------- MODULE Assessments_proofs -------------------------
(***************************************************************************)
(* Proofs about Assessments, for any number of employees, supervisors,     *)
(* jobs and stars.                                                         *)
(***************************************************************************)
EXTENDS Assessments, TLAPS

-----------------------------------------------------------------------------
(* What the operations on ratings return.                                  *)

LEMMA StarFacts == 0 \in Star /\ Star \subseteq Nat
  BY StarAssumption DEF Star

\* A sheet is a function from some of the jobs to stars.
LEMMA SheetIntro ==
    ASSUME NEW J \in SUBSET Job, NEW f \in [J -> Star]
    PROVE  f \in Sheet
  BY DEF Sheet

LEMMA SheetElim ==
    ASSUME NEW s \in Sheet
    PROVE  DOMAIN s \subseteq Job /\ s \in [DOMAIN s -> Star]
  BY DEF Sheet

LEMMA BlankSheet == Blank \in Sheet
  <1>1. Blank \in [{} -> Star]
    BY DEF Blank
  <1> QED BY <1>1, SheetIntro

LEMMA FilledSheet ==
    ASSUME NEW s \in Sheet
    PROVE  Filled(s) \in Sheet
  <1>1. Filled(s) \in [Job -> Star]
    BY SheetElim, StarFacts DEF Filled
  <1> QED BY <1>1, SheetIntro

LEMMA OverSheet ==
    ASSUME NEW s \in Sheet, NEW t \in Sheet
    PROVE  Over(s, t) \in Sheet
  <1>1. Over(s, t) \in [DOMAIN s \union DOMAIN t -> Star]
    BY SheetElim DEF Over
  <1>2. DOMAIN s \union DOMAIN t \subseteq Job
    BY SheetElim
  <1> QED BY <1>1, <1>2, SheetIntro

LEMMA ClickedSheet ==
    ASSUME NEW s \in Sheet, NEW j \in Job, NEW n \in Star
    PROVE  Clicked(s, j, n) \in Sheet
  <1> DEFINE old == IF j \in DOMAIN s THEN s[j] ELSE 0
             one == [k \in {j} |-> IF old = n THEN 0 ELSE n]
  <1>1. one \in [{j} -> Star]
    BY StarFacts
  <1>2. one \in Sheet
    BY <1>1, SheetIntro
  <1>3. Clicked(s, j, n) = Over(s, one)
    BY DEF Clicked
  <1> QED BY <1>2, <1>3, OverSheet

\* Some rows of a sheet.
LEMMA PartSheet ==
    ASSUME NEW s \in Sheet, NEW J \in SUBSET DOMAIN s
    PROVE  [j \in J |-> s[j]] \in Sheet
  <1>1. [j \in J |-> s[j]] \in [J -> Star] /\ J \subseteq Job
    BY SheetElim
  <1> QED BY <1>1, SheetIntro

LEMMA FormFacts ==
    /\ [sheet |-> Blank, of |-> None] \in Form
    /\ [sheet |-> Filled(Blank), of |-> None] \in Form
    /\ \A r \in Review \union {None} : ReviewForm(r) \in Form
    /\ \A s \in Sheet, x \in Staff : [sheet |-> s, of |-> x] \in Form
  <1>1. \A r \in Review : Filled(r.sheet) \in Sheet /\ r.who \in Staff
    BY FilledSheet DEF Review
  <1> QED BY <1>1, BlankSheet, FilledSheet DEF Form, ReviewForm

-----------------------------------------------------------------------------
(* Type correctness.                                                       *)

LEMMA InitType == Init => TypeOK
  <1> SUFFICES ASSUME Init PROVE TypeOK
    OBVIOUS
  <1>1. Closed \in SelfPage
    BY BlankSheet DEF Closed, SelfPage
  <1>2. NewPage \in StaffPage
    BY FormFacts DEF NewPage, StaffPage
  <1> QED BY <1>1, <1>2, BlankSheet DEF Init, TypeOK, NewPage

LEMMA SelfType ==
    ASSUME TypeOK, NEW s \in Staff,
           \/ OpenSelf(s) \/ RateSelf(s) \/ ResetSelf(s) \/ SubmitSelf(s)
           \/ GetSelf(s) \/ ShowSelf(s) \/ StoreSelf(s) \/ FailSelf(s)
    PROVE  TypeOK'
  <1>1. Closed \in SelfPage
    BY BlankSheet DEF Closed, SelfPage
  <1>2. mine[s] \in SelfPage /\ mine \in [Staff -> SelfPage]
    BY DEF TypeOK
  <1>3. mine[s].form \in Sheet /\ mine[s].pend \in Sheet \union {None} /\ mine[s].appr \in Sheet
    BY <1>2 DEF SelfPage
  <1>4. pending[s] \in Sheet \union {None} /\ ratings[s] \in Sheet
    BY DEF TypeOK
  <1>5. CASE OpenSelf(s)
    BY <1>1, <1>2, <1>5 DEF TypeOK, OpenSelf, SelfPage
  <1>6. CASE RateSelf(s)
    <2>1. PICK j \in Job, n \in Star \ {0} :
            mine' = [mine EXCEPT ![s].form = Clicked(@, j, n)]
      BY <1>6 DEF RateSelf
    <2>2. Clicked(mine[s].form, j, n) \in Sheet
      BY <1>3, ClickedSheet
    <2>3. mine' \in [Staff -> SelfPage]
      BY <1>2, <2>1, <2>2 DEF SelfPage
    <2> QED BY <1>6, <2>3 DEF TypeOK, RateSelf
  <1>7. CASE ResetSelf(s)
    <2>1. Filled(mine[s].appr) \in Sheet
      BY <1>3, FilledSheet
    <2>2. mine' \in [Staff -> SelfPage]
      BY <1>2, <1>7, <2>1 DEF SelfPage, ResetSelf
    <2> QED BY <1>7, <2>2 DEF TypeOK, ResetSelf
  <1>8. CASE SubmitSelf(s)
    BY <1>2, <1>8 DEF TypeOK, SubmitSelf, SelfPage
  <1>9. CASE GetSelf(s)
    BY <1>2, <1>4, <1>9 DEF TypeOK, GetSelf, SelfPage
  <1>10. CASE ShowSelf(s)
    <2> DEFINE p == mine[s].pend
               approved == Filled(ratings[s])
               form == IF p = None THEN approved ELSE Over(approved, p)
    <2>1. form \in Sheet
      BY <1>3, <1>4, FilledSheet, OverSheet
    <2>2. mine' = [mine EXCEPT ![s].appr = ratings[s], ![s].form = form, ![s].at = "idle"]
      BY <1>10 DEF ShowSelf
    <2> HIDE DEF form
    <2>3. mine' \in [Staff -> SelfPage]
      BY <1>2, <1>4, <2>1, <2>2 DEF SelfPage
    <2> QED BY <1>10, <2>3 DEF TypeOK, ShowSelf
  <1>11. CASE StoreSelf(s)
    BY <1>2, <1>3, <1>11 DEF TypeOK, StoreSelf, SelfPage
  <1>12. CASE FailSelf(s)
    BY <1>2, <1>12 DEF TypeOK, FailSelf, SelfPage
  <1> QED BY <1>5, <1>6, <1>7, <1>8, <1>9, <1>10, <1>11, <1>12

LEMMA PageType ==
    ASSUME TypeOK, NEW u \in Supervisor,
           \/ OpenPage(u) \/ SwitchTab(u) \/ RateStaff(u) \/ OpenDialog(u) \/ CancelDialog(u)
           \/ \E s \in Staff : SelectStaff(u, s)
           \/ \E r \in page[u].list : SelectReview(u, r)
    PROVE  TypeOK'
  <1>1. /\ page \in [Supervisor -> StaffPage] /\ page[u] \in StaffPage
        /\ loads \in [Supervisor -> SUBSET Load] /\ loads[u] \subseteq Load
        /\ calm \in [Supervisor -> BOOLEAN]
    BY DEF TypeOK
  <1>2. /\ page[u].form \in Form /\ page[u].form.sheet \in Sheet
        /\ page[u].staff \in Staff \union {None} /\ page[u].review \in Review \union {None}
        /\ page[u].list \subseteq Review
    BY <1>1 DEF StaffPage, Form
  <1>3. ASSUME NEW s \in Staff PROVE [who |-> s, got |-> None] \in Load
    BY DEF Load
  <1>4. CASE OpenPage(u)
    <2>1. NewPage \in StaffPage
      BY FormFacts DEF NewPage, StaffPage
    <2> QED BY <1>1, <1>4, <2>1 DEF TypeOK, OpenPage, NewPage
  <1>5. CASE SwitchTab(u)
    <2>1. page' \in [Supervisor -> StaffPage]
      BY <1>1, <1>2, <1>5, FormFacts DEF SwitchTab, StaffPage
    <2> QED BY <1>1, <1>5, <2>1, ZenonT(60) DEF TypeOK, SwitchTab, StaffPage
  <1>6. CASE RateStaff(u)
    <2>1. PICK j \in Job, n \in Star \ {0} :
            page' = [page EXCEPT ![u].form =
                [sheet |-> Clicked(@.sheet, j, n), of |-> IF @.of = None THEN Named(u) ELSE @.of]]
      BY <1>6 DEF RateStaff
    <2>2. Clicked(page[u].form.sheet, j, n) \in Sheet
      BY <1>2, ClickedSheet
    <2>3. Named(u) \in Staff
      BY <1>2, <1>6 DEF RateStaff, EditorOpen, ReviewOpen, Named, Review
    <2>4. page' \in [Supervisor -> StaffPage]
      BY <1>1, <1>2, <2>1, <2>2, <2>3 DEF StaffPage, Form
    <2>5. \A v \in Supervisor : /\ page'[v].staff = page[v].staff
                                /\ page'[v].review = page[v].review
                                /\ page'[v].tab = page[v].tab /\ page'[v].busy = page[v].busy
      BY <1>1, <2>1 DEF StaffPage
    <2> QED BY <1>6, <2>4, <2>5 DEF TypeOK, RateStaff
  <1>7. CASE OpenDialog(u)
    <2>1. page' \in [Supervisor -> StaffPage]
      BY <1>1, <1>7 DEF OpenDialog, StaffPage
    <2> QED BY <1>1, <1>7, <2>1 DEF TypeOK, OpenDialog, StaffPage
  <1>8. CASE CancelDialog(u)
    <2>1. page' \in [Supervisor -> StaffPage]
      BY <1>1, <1>8 DEF CancelDialog, StaffPage
    <2> QED BY <1>1, <1>8, <2>1 DEF TypeOK, CancelDialog, StaffPage
  <1>9. ASSUME NEW s \in Staff, SelectStaff(u, s) PROVE TypeOK'
    <2>1. page' \in [Supervisor -> StaffPage]
      BY <1>1, <1>9 DEF SelectStaff, StaffPage
    <2>2. loads' \in [Supervisor -> SUBSET Load]
      BY <1>1, <1>3, <1>9 DEF SelectStaff, StartLoad
    <2>3. calm' \in [Supervisor -> BOOLEAN]
      BY <1>1, <1>9 DEF SelectStaff
    <2> QED BY <1>1, <1>9, <2>1, <2>2, <2>3 DEF TypeOK, SelectStaff, CanSelect, StaffPage
  <1>10. ASSUME NEW r \in page[u].list, SelectReview(u, r) PROVE TypeOK'
    <2>1. r \in Review /\ ReviewForm(r) \in Form
      BY <1>2, FormFacts
    <2>2. page' \in [Supervisor -> StaffPage]
      BY <1>1, <1>10, <2>1 DEF SelectReview, StaffPage
    <2>3. calm' \in [Supervisor -> BOOLEAN]
      BY <1>1, <1>10 DEF SelectReview
    <2> QED BY <1>1, <1>10, <2>2, <2>3, ZenonT(60) DEF TypeOK, SelectReview, CanReview, StaffPage
  <1> QED BY <1>4, <1>5, <1>6, <1>7, <1>8, <1>9, <1>10

LEMMA LoadType ==
    ASSUME TypeOK, NEW u \in Supervisor,
           \/ ReloadJobs(u) \/ ReloadList(u) \/ ReloadFails(u)
           \/ \E m \in loads[u] : ServeLoad(u, m) \/ LoadArrives(u, m) \/ LoadFails(u, m)
    PROVE  TypeOK'
  <1>1. /\ page \in [Supervisor -> StaffPage] /\ page[u] \in StaffPage
        /\ loads \in [Supervisor -> SUBSET Load] /\ loads[u] \subseteq Load
        /\ calm \in [Supervisor -> BOOLEAN]
    BY DEF TypeOK
  <1>2. CASE ReloadJobs(u)
    <2>1. /\ page[u].review \in Review \union {None} /\ page[u].staff \in Staff \union {None}
      BY <1>1 DEF StaffPage
    <2>2. ReviewForm(page[u].review) \in Form
      BY <2>1, FormFacts
    <2>3. page' \in [Supervisor -> StaffPage]
      BY <1>1, <1>2, <2>2 DEF ReloadJobs, StaffPage
    <2>4. loads' \in [Supervisor -> SUBSET Load]
      BY <1>1, <1>2, <2>1 DEF ReloadJobs, StartLoad, Load
    <2> QED BY <1>1, <1>2, <2>3, <2>4 DEF TypeOK, ReloadJobs, StaffPage
  <1>3. CASE ReloadList(u)
    <2> DEFINE list == {[who |-> s, sheet |-> pending[s]] : s \in {t \in Staff : pending[t] # None}}
    <2>1. list \subseteq Review
      BY DEF TypeOK, Review
    <2> HIDE DEF list
    <2>2. page' = [page EXCEPT ![u].reload = "idle", ![u].busy = serve[u] # None, ![u].list = list]
      BY <1>3 DEF ReloadList, list
    <2>3. page' \in [Supervisor -> StaffPage]
      BY <1>1, <2>1, <2>2 DEF StaffPage
    <2>4. \A v \in Supervisor : /\ page'[v].staff = page[v].staff
                                /\ page'[v].review = page[v].review
                                /\ page'[v].tab = page[v].tab
                                /\ v # u => page'[v] = page[v]
      BY <1>1, <2>2 DEF StaffPage
    <2>5. serve[u] # None => page'[u].busy
      BY <1>1, <2>2 DEF StaffPage
    <2>6. UNCHANGED <<pending, ratings, mine, loads, serve, due, calm>>
      BY <1>3 DEF ReloadList
    <2> QED BY <2>3, <2>4, <2>5, <2>6 DEF TypeOK
  <1>4. CASE ReloadFails(u)
    <2>1. page' \in [Supervisor -> StaffPage]
      BY <1>1, <1>4 DEF ReloadFails, StaffPage
    <2> QED BY <1>1, <1>4, <2>1 DEF TypeOK, ReloadFails, StaffPage
  <1>5. ASSUME NEW m \in loads[u], ServeLoad(u, m) PROVE TypeOK'
    <2>1. [m EXCEPT !.got = ratings[m.who]] \in Load
      BY <1>1 DEF TypeOK, Load
    <2>2. loads' \in [Supervisor -> SUBSET Load]
      BY <1>1, <1>5, <2>1 DEF ServeLoad
    <2> QED BY <1>5, <2>2 DEF TypeOK, ServeLoad
  <1>6. ASSUME NEW m \in loads[u], LoadArrives(u, m) PROVE TypeOK'
    <2>1. m.who \in Staff /\ m.got \in Sheet
      BY <1>1, <1>6 DEF LoadArrives, Load
    <2>2. [sheet |-> Filled(m.got), of |-> m.who] \in Form
      BY <2>1, FilledSheet DEF Form
    <2>3. page' \in [Supervisor -> StaffPage]
      BY <1>1, <1>6, <2>2 DEF LoadArrives, StaffPage
    <2>4. loads' \in [Supervisor -> SUBSET Load]
      BY <1>1, <1>6 DEF LoadArrives
    <2> QED BY <1>1, <1>6, <2>3, <2>4 DEF TypeOK, LoadArrives, StaffPage
  <1>7. ASSUME NEW m \in loads[u], LoadFails(u, m) PROVE TypeOK'
    BY <1>1, <1>7 DEF TypeOK, LoadFails
  <1> QED BY <1>2, <1>3, <1>4, <1>5, <1>6, <1>7

\* The rows a handler commits.
LEMMA WrittenSheet ==
    ASSUME TypeOK, NEW u \in Supervisor, serve[u] # None
    PROVE  Written(u) \in Sheet
  <1> DEFINE old == ratings[serve[u].who]
             new == serve[u].sheet
             J == Inserts(u) \union Updates(u)
  <1>1. serve[u] \in Request
    BY DEF TypeOK
  <1>2. old \in Sheet /\ new \in Sheet
    BY <1>1 DEF TypeOK, Request
  <1>3. [j \in DOMAIN old \ DOMAIN serve[u].seen |-> old[j]] \in Sheet
    BY <1>2, PartSheet
  <1>4. J \subseteq DOMAIN new
    BY DEF Inserts, Updates
  <1>5. [j \in J |-> new[j]] \in Sheet
    <2> HIDE DEF J, new
    <2> QED BY <1>2, <1>4, PartSheet
  <1>6. Over(old, [j \in J |-> new[j]]) \in Sheet
    BY <1>2, <1>5, OverSheet
  <1> QED BY <1>2, <1>3, <1>6 DEF Written

LEMMA HandlerType ==
    ASSUME TypeOK, NEW u \in Supervisor,
           \/ \E op \in {"approve", "reject", "save", "clear"} : Ask(u, op)
           \/ Handler(u) \/ Abort(u) \/ Succeeded(u) \/ Failed(u, "failed") \/ Failed(u, "done")
    PROVE  TypeOK'
  <1>1. /\ page \in [Supervisor -> StaffPage] /\ page[u] \in StaffPage
        /\ serve \in [Supervisor -> Request \union {None}]
        /\ due \in [Staff -> Supervisor \union {"redis", None}]
        /\ pending \in [Staff -> Sheet \union {None}]
        /\ ratings \in [Staff -> Sheet]
    BY DEF TypeOK
  <1>2. serve[u] # None => serve[u] \in Request /\ serve[u].who \in Staff
    BY <1>1 DEF Request
  <1>3. Discharged(u) \in [Staff -> Supervisor \union {"redis", None}]
    BY <1>1 DEF Discharged
  <1>4. ASSUME NEW op \in {"approve", "reject", "save", "clear"}, Ask(u, op) PROVE TypeOK'
    <2>1. Named(u) \in Staff
      BY <1>1, <1>4 DEF Ask, EditorOpen, ReviewOpen, DialogOpen, Named, StaffPage, Review, TypeOK
    <2>2. page[u].form.sheet \in Sheet
      BY <1>1 DEF StaffPage, Form
    <2>3. serve' \in [Supervisor -> Request \union {None}]
      BY <1>1, <1>4, <2>1, <2>2, BlankSheet DEF Ask, Request
    <2>4. page' \in [Supervisor -> StaffPage]
      BY <1>1, <1>4 DEF Ask, StaffPage
    <2> QED BY <1>1, <1>4, <2>3, <2>4 DEF TypeOK, Ask, StaffPage
  <1>5. CASE CheckExists(u)
    <2>1. serve' \in [Supervisor -> Request \union {None}]
      BY <1>1, <1>2, <1>5 DEF CheckExists, Request
    <2> QED BY <1>1, <1>5, <2>1 DEF TypeOK, CheckExists
  <1>6. CASE ReadRatings(u)
    <2>1. serve' \in [Supervisor -> Request \union {None}]
      BY <1>1, <1>2, <1>6 DEF ReadRatings, Request
    <2> QED BY <1>1, <1>6, <2>1 DEF TypeOK, ReadRatings
  <1>7. CASE TakePending(u)
    <2>1. serve' \in [Supervisor -> Request \union {None}]
      BY <1>1, <1>2, <1>7 DEF TakePending, Request
    <2>2. /\ pending' \in [Staff -> Sheet \union {None}]
          /\ due' \in [Staff -> Supervisor \union {"redis", None}]
      BY <1>1, <1>2, <1>7 DEF TakePending
    <2> QED BY <1>1, <1>7, <2>1, <2>2 DEF TypeOK, TakePending
  <1>8. CASE Commit(u)
    <2>1. serve' \in [Supervisor -> Request \union {None}]
      BY <1>1, <1>2, <1>8 DEF Commit, Request
    <2>2. ratings' \in [Staff -> Sheet]
      BY <1>1, <1>2, <1>8, WrittenSheet DEF Commit
    <2> QED BY <1>1, <1>3, <1>8, <2>1, <2>2 DEF TypeOK, Commit
  <1>9. CASE Abort(u)
    <2>1. serve' \in [Supervisor -> Request \union {None}]
      BY <1>1, <1>2, <1>9 DEF Abort, Request
    <2> QED BY <1>1, <1>3, <1>9, <2>1 DEF TypeOK, Abort
  <1>10. CASE Succeeded(u)
    <2> DEFINE form == CASE serve[u].op = "clear" -> [sheet |-> Filled(Blank), of |-> None]
                         [] serve[u].op \in {"approve", "reject"} /\ page[u].review # None ->
                              [sheet |-> Blank, of |-> None]
                         [] OTHER -> page[u].form
               review == IF serve[u].op \in {"approve", "reject"} THEN None ELSE page[u].review
               dialog == IF serve[u].op = "reject" THEN FALSE ELSE page[u].dialog
    <2>1. form \in Form /\ review \in {page[u].review, None} /\ dialog \in BOOLEAN
      BY <1>1, FormFacts DEF StaffPage
    <2>2. page' = [page EXCEPT ![u].review = review, ![u].form = form, ![u].dialog = dialog,
                               ![u].reload = "jobs"]
      BY <1>10 DEF Succeeded
    <2> HIDE DEF form, review, dialog
    <2>3. page' \in [Supervisor -> StaffPage]
      BY <1>1, <2>1, <2>2 DEF StaffPage
    <2>4. \A v \in Supervisor : /\ page'[v].staff = page[v].staff
                                /\ page'[v].review \in {page[v].review, None}
                                /\ page'[v].tab = page[v].tab /\ (page[v].busy => page'[v].busy)
      BY <1>1, <2>1, <2>2 DEF StaffPage
    <2>5. serve' = [serve EXCEPT ![u] = None]
      BY <1>10 DEF Succeeded
    <2>6. serve' \in [Supervisor -> Request \union {None}]
      BY <1>1, <2>5
    <2>7. UNCHANGED <<pending, ratings, mine, loads, due, calm>>
      BY <1>10 DEF Succeeded
    <2>8. \A v \in Supervisor : serve'[v] # None => serve[v] # None
      BY <1>1, <2>5
    <2> QED BY <2>3, <2>4, <2>6, <2>7, <2>8 DEF TypeOK
  <1>11. ASSUME NEW at, Failed(u, at) PROVE TypeOK'
    <2>1. page' \in [Supervisor -> StaffPage]
      BY <1>1, <1>11 DEF Failed, StaffPage
    <2> QED BY <1>1, <1>11, <2>1, ZenonT(60) DEF TypeOK, Failed, StaffPage
  <1> QED BY <1>4, <1>5, <1>6, <1>7, <1>8, <1>9, <1>10, <1>11 DEF Handler

LEMMA DeleteType ==
    ASSUME TypeOK, NEW s \in Staff, NEW j \in Job, DeleteRating(s, j)
    PROVE  TypeOK'
  <1> DEFINE J == DOMAIN ratings[s] \ {j}
  <1>1. ratings \in [Staff -> Sheet] /\ ratings[s] \in Sheet /\ J \subseteq DOMAIN ratings[s]
    BY DEF TypeOK
  <1>2. [k \in J |-> ratings[s][k]] \in Sheet
    <2> HIDE DEF J
    <2> QED BY <1>1, PartSheet
  <1>3. ratings' = [ratings EXCEPT ![s] = [k \in J |-> ratings[s][k]]]
    BY DEF DeleteRating
  <1>4. ratings' \in [Staff -> Sheet]
    BY <1>1, <1>2, <1>3
  <1> QED BY <1>4 DEF TypeOK, DeleteRating

\* Whatever the users and the failures do, the pages, the requests and the
\* stored ratings are well formed, and the controls of a tab are those of
\* its own selection.
THEOREM TypeCorrect == Spec => []TypeOK
  <1>1. TypeOK /\ [Next]_vars => TypeOK'
    <2> SUFFICES ASSUME TypeOK, [Next]_vars PROVE TypeOK'
      OBVIOUS
    <2>1. CASE UNCHANGED vars
      BY <2>1 DEF TypeOK, vars
    <2>2. CASE UserStep
      BY <2>2, SelfType, PageType, HandlerType, DeleteType DEF UserStep
    <2>3. CASE SystemStep
      BY <2>3, SelfType, LoadType, HandlerType DEF SystemStep
    <2>4. CASE FaultStep
      BY <2>4, SelfType, LoadType, HandlerType DEF FaultStep
    <2> QED BY <2>1, <2>2, <2>3, <2>4 DEF Next
  <1> QED BY <1>1, InitType, PTL DEF Spec

-----------------------------------------------------------------------------
(* No submission vanishes.                                                 *)

LEMMA VanishStep ==
    ASSUME TypeOK, NeverVanishes, Next
    PROVE  NeverVanishes'
  <1>1. /\ pending \in [Staff -> Sheet \union {None}]
        /\ due \in [Staff -> Supervisor \union {"redis", None}]
        /\ serve \in [Supervisor -> Request \union {None}]
    BY DEF TypeOK
  <1>2. CASE UNCHANGED <<pending, serve, due>>
    BY <1>2 DEF NeverVanishes
  <1>3. ASSUME NEW s \in Staff, StoreSelf(s) PROVE NeverVanishes'
    <2>1. mine[s].form \in Sheet /\ mine[s].form # None
      BY NoneAssumption DEF TypeOK, SelfPage
    <2>2. /\ pending' = [pending EXCEPT ![s] = mine[s].form]
          /\ due' = [due EXCEPT ![s] = "redis"]
          /\ UNCHANGED serve
      BY <1>3 DEF StoreSelf
    <2> QED BY <1>1, <2>1, <2>2, PeopleAssumption DEF NeverVanishes
  <1>4. ASSUME NEW u \in Supervisor, NEW op, Ask(u, op) PROVE NeverVanishes'
    <2>1. page[u].busy = FALSE
      BY <1>4 DEF Ask, TypeOK, StaffPage
    <2>2. serve[u] = None
      BY <2>1 DEF TypeOK
    <2>3. /\ UNCHANGED <<pending, due>>
          /\ \A v \in Supervisor : v # u => serve'[v] = serve[v]
      BY <1>1, <1>4 DEF Ask
    <2> QED BY <2>2, <2>3 DEF NeverVanishes
  \* A request that is not at "taken" owes nothing, before or after.
  <1>5. ASSUME NEW u \in Supervisor, serve[u] # None, serve[u].at # "taken",
               UNCHANGED <<pending, due>>,
               \A v \in Supervisor : v # u => serve'[v] = serve[v]
        PROVE  NeverVanishes'
    BY <1>5 DEF NeverVanishes
  <1>6. ASSUME NEW u \in Supervisor, CheckExists(u) PROVE NeverVanishes'
    BY <1>1, <1>5, <1>6 DEF CheckExists
  <1>7. ASSUME NEW u \in Supervisor, ReadRatings(u) PROVE NeverVanishes'
    BY <1>1, <1>5, <1>7 DEF ReadRatings
  <1>8. ASSUME NEW u \in Supervisor, Succeeded(u) PROVE NeverVanishes'
    <2>1. /\ serve[u] # None /\ serve[u].at = "done"
          /\ serve' = [serve EXCEPT ![u] = None]
          /\ UNCHANGED <<pending, due>>
      BY <1>8 DEF Succeeded
    <2> QED BY <1>1, <1>5, <2>1
  <1>9. ASSUME NEW u \in Supervisor, NEW at \in {"done", "failed"}, Failed(u, at)
        PROVE  NeverVanishes'
    BY <1>1, <1>5, <1>9 DEF Failed
  <1>10. ASSUME NEW u \in Supervisor, TakePending(u) PROVE NeverVanishes'
    <2> DEFINE s == serve[u].who
    <2>1. /\ serve[u] \in Request /\ s \in Staff /\ serve[u].at = "read"
          /\ serve' = [serve EXCEPT ![u].at = "taken"]
          /\ pending' = [pending EXCEPT ![s] = None]
          /\ due' = [due EXCEPT ![s] = IF pending[s] = None THEN due[s] ELSE u]
      BY <1>1, <1>10 DEF TakePending, Request
    <2>2. \A x \in Staff : due[x] # u
      BY <2>1 DEF NeverVanishes
    <2>3. serve'[u] \in Request /\ serve'[u].at = "taken" /\ serve'[u].who = s
      BY <1>1, <2>1 DEF Request
    <2>4. \A v \in Supervisor : v # u => serve'[v] = serve[v]
      BY <1>1, <2>1
    <2>5. ASSUME NEW x \in Staff, x # s
          PROVE  /\ due'[x] = "redis" => pending'[x] # None
                 /\ \A v \in Supervisor :
                     due'[x] = v => serve'[v] # None /\ serve'[v].at = "taken" /\ serve'[v].who = x
      BY <1>1, <2>1, <2>2, <2>4, <2>5 DEF NeverVanishes
    <2>6. CASE pending[s] = None
      <3>1. due'[s] = due[s] /\ due[s] # "redis"
        BY <1>1, <2>1, <2>6 DEF NeverVanishes
      <3> QED BY <2>1, <2>2, <2>4, <2>5, <3>1 DEF NeverVanishes
    <2>7. CASE pending[s] # None
      <3>1. due'[s] = u /\ u # "redis"
        BY <1>1, <2>1, <2>7, PeopleAssumption
      <3> QED BY <2>1, <2>3, <2>5, <3>1, NoneAssumption DEF NeverVanishes
    <2> QED BY <2>6, <2>7
  \* The handler of u ends and owes nothing afterwards.
  <1>11. ASSUME NEW u \in Supervisor, serve[u] # None, due' = Discharged(u), UNCHANGED pending,
                \A v \in Supervisor : v # u => serve'[v] = serve[v]
         PROVE  NeverVanishes'
    <2> DEFINE s == serve[u].who
    <2>1. s \in Staff
      BY <1>1, <1>11 DEF Request
    <2>2. \A x \in Staff : due'[x] = IF x = s /\ due[s] = u THEN None ELSE due[x]
      BY <1>1, <1>11, <2>1 DEF Discharged
    <2>3. \A x \in Staff : due[x] = u => x = s
      BY DEF NeverVanishes
    <2> QED BY <1>11, <2>2, <2>3, PeopleAssumption DEF NeverVanishes
  <1>12. ASSUME NEW u \in Supervisor, Commit(u) \/ Abort(u) PROVE NeverVanishes'
    <2>1. /\ serve[u] # None /\ due' = Discharged(u) /\ UNCHANGED pending
          /\ \A v \in Supervisor : v # u => serve'[v] = serve[v]
      BY <1>1, <1>12 DEF Commit, Abort
    <2> QED BY <1>11, <2>1
  <1>13. CASE UserStep
    BY <1>2, <1>4, <1>13, ZenonT(60) DEF UserStep, OpenSelf, RateSelf, ResetSelf, SubmitSelf, DeleteRating,
        OpenPage, SwitchTab, RateStaff, OpenDialog, CancelDialog, SelectStaff, SelectReview
  <1>14. CASE SystemStep
    BY <1>2, <1>3, <1>6, <1>7, <1>8, <1>9, <1>10, <1>12, <1>14 DEF SystemStep, Handler,
        GetSelf, ShowSelf, ReloadJobs, ReloadList, ServeLoad, LoadArrives
  <1>15. CASE FaultStep
    BY <1>2, <1>9, <1>12, <1>15 DEF FaultStep, FailSelf, ReloadFails, LoadFails
  <1> QED BY <1>13, <1>14, <1>15 DEF Next

\* Whatever handlers overlap, and wherever they fail, a submission is in
\* Redis, replaced, or in the hands of the one handler that will answer for
\* it.
THEOREM SubmissionsKept == Spec => []NeverVanishes
  <1>1. Init => NeverVanishes
    BY PeopleAssumption DEF Init, NeverVanishes
  <1>2. TypeOK /\ NeverVanishes /\ [Next]_vars => NeverVanishes'
    <2>1. CASE UNCHANGED vars
      BY <2>1 DEF NeverVanishes, vars
    <2> QED BY <2>1, VanishStep
  <1> QED BY <1>1, <1>2, TypeCorrect, PTL DEF Spec

-----------------------------------------------------------------------------
(* A supervisor who waits sees the right employee's ratings.               *)

\* While u waits for loads, those under way are for the employee chosen; a
\* review, which loads nothing, has none.
CalmPage(u) ==
    calm[u] =>
        /\ EditorOpen(u) => /\ \A m \in loads[u] : m.who = page[u].staff
                            /\ loads[u] = {} => page[u].form.of \in {page[u].staff, None}
        /\ ReviewOpen(u) => loads[u] = {} /\ page[u].form.of \in {page[u].review.who, None}

CalmPages == \A u \in Supervisor : CalmPage(u)

\* What CalmPage looks at.
LEMMA SameCalmPage ==
    ASSUME NEW u \in Supervisor, CalmPage(u),
           calm'[u] => calm[u], loads'[u] = loads[u],
           page'[u].tab = page[u].tab, page'[u].form.of = page[u].form.of,
           page'[u].staff = page[u].staff, page'[u].review = page[u].review
    PROVE  CalmPage(u)'
  BY DEF CalmPage, EditorOpen, ReviewOpen

LEMMA CalmStep ==
    ASSUME TypeOK, CalmPages, Next
    PROVE  CalmPages'
  <1>1. /\ page \in [Supervisor -> StaffPage]
        /\ loads \in [Supervisor -> SUBSET Load]
        /\ calm \in [Supervisor -> BOOLEAN]
    BY DEF TypeOK
  \* A page that nothing happens to.
  <1>2. ASSUME NEW v \in Supervisor, page'[v] = page[v], loads'[v] = loads[v], calm'[v] = calm[v]
        PROVE  CalmPage(v)'
    BY <1>2 DEF CalmPages, CalmPage, EditorOpen, ReviewOpen
  <1>3. CASE UNCHANGED <<page, loads, calm>>
    BY <1>2, <1>3 DEF CalmPages
  <1>4. ASSUME NEW u \in Supervisor, CalmPage(u)',
               \A v \in Supervisor : v # u =>
                   page'[v] = page[v] /\ loads'[v] = loads[v] /\ calm'[v] = calm[v]
        PROVE  CalmPages'
    BY <1>2, <1>4 DEF CalmPages
  <1>5. ASSUME NEW u \in Supervisor, OpenPage(u) PROVE CalmPages'
    <2>1. CalmPage(u)'
      BY <1>1, <1>5 DEF OpenPage, CalmPage, EditorOpen, ReviewOpen, NewPage
    <2> QED BY <1>1, <1>4, <1>5, <2>1 DEF OpenPage
  <1>6. ASSUME NEW u \in Supervisor, SwitchTab(u) PROVE CalmPages'
    <2>1. CalmPage(u)'
      BY <1>1, <1>6 DEF SwitchTab, CalmPage, EditorOpen, ReviewOpen, StaffPage
    <2> QED BY <1>1, <1>4, <1>6, <2>1 DEF SwitchTab
  <1>7. ASSUME NEW u \in Supervisor, NEW s \in Staff, SelectStaff(u, s) PROVE CalmPages'
    <2>1. s # None
      BY PeopleAssumption
    <2>2. /\ calm'[u] => loads[u] = {}
          /\ page'[u].staff = s /\ page'[u].tab = "approved"
          /\ loads'[u] = loads[u] \union {[who |-> s, got |-> None]}
      BY <1>1, <1>7, <2>1 DEF SelectStaff, CanSelect, StartLoad, StaffPage
    <2>3. loads'[u] # {} /\ (calm'[u] => \A m \in loads'[u] : m.who = s)
      <3> DEFINE new == [who |-> s, got |-> None]
      <3>1. new.who = s
        OBVIOUS
      <3> HIDE DEF new
      <3>2. loads'[u] = loads[u] \union {new}
        BY <2>2 DEF new
      <3> QED BY <2>2, <3>1, <3>2
    <2>4. CalmPage(u)'
      BY <2>2, <2>3 DEF CalmPage, EditorOpen, ReviewOpen
    <2> QED BY <1>1, <1>4, <1>7, <2>1, <2>4 DEF SelectStaff, StartLoad
  <1>8. ASSUME NEW u \in Supervisor, NEW r \in page[u].list, SelectReview(u, r) PROVE CalmPages'
    <2>1. r \in Review /\ r.who \in Staff
      BY <1>1 DEF StaffPage, Review
    <2>2. /\ calm'[u] = (loads[u] = {}) /\ page'[u].review = r /\ page'[u].tab = "pending"
          /\ page'[u].form.of \in {r.who, None} /\ loads'[u] = loads[u]
      BY <1>1, <1>8, <2>1 DEF SelectReview, CanReview, ReviewForm, StaffPage
    <2>3. CalmPage(u)'
      BY <2>2 DEF CalmPage, EditorOpen, ReviewOpen
    <2> QED BY <1>1, <1>4, <1>8, <2>3 DEF SelectReview
  <1>9. ASSUME NEW u \in Supervisor, NEW m \in loads[u], ServeLoad(u, m) PROVE CalmPages'
    <2>1. loads'[u] = (loads[u] \ {m}) \union {[m EXCEPT !.got = ratings[m.who]]}
      BY <1>1, <1>9 DEF ServeLoad
    <2>2. [m EXCEPT !.got = ratings[m.who]].who = m.who
      BY <1>1 DEF Load
    <2>3. \A l \in loads'[u] : \E k \in loads[u] : l.who = k.who
      BY <2>1, <2>2
    <2>4. loads[u] # {} /\ loads'[u] # {}
      BY <1>9, <2>1
    <2>5. page' = page /\ calm' = calm
      BY <1>9 DEF ServeLoad
    <2>6. CalmPage(u)'
      BY <2>3, <2>4, <2>5 DEF CalmPages, CalmPage, EditorOpen, ReviewOpen
    <2> QED BY <1>1, <1>4, <1>9, <2>6 DEF ServeLoad
  <1>10. ASSUME NEW u \in Supervisor, NEW m \in loads[u], LoadArrives(u, m) PROVE CalmPages'
    <2>1. /\ page'[u].form.of = m.who /\ page'[u].tab = page[u].tab
          /\ page'[u].staff = page[u].staff /\ page'[u].review = page[u].review
          /\ loads'[u] = loads[u] \ {m} /\ calm' = calm
      BY <1>1, <1>10 DEF LoadArrives, StaffPage
    <2>2. CalmPage(u)'
      BY <2>1 DEF CalmPages, CalmPage, EditorOpen, ReviewOpen
    <2> QED BY <1>1, <1>4, <1>10, <2>2 DEF LoadArrives
  <1>11. ASSUME NEW u \in Supervisor, NEW m \in loads[u], LoadFails(u, m) PROVE CalmPages'
    <2>1. CalmPage(u)'
      BY <1>1, <1>11 DEF LoadFails, CalmPage
    <2> QED BY <1>1, <1>4, <1>11, <2>1 DEF LoadFails
  <1>12. ASSUME NEW u \in Supervisor, ReloadJobs(u) PROVE CalmPages'
    <2>1. /\ page'[u].form = ReviewForm(page[u].review) /\ page'[u].tab = page[u].tab
          /\ page'[u].staff = page[u].staff /\ page'[u].review = page[u].review
          /\ calm' = calm /\ StartLoad(u, page[u].staff)
      BY <1>1, <1>12 DEF ReloadJobs, StaffPage
    <2>2. ASSUME EditorOpen(u) PROVE CalmPage(u)'
      <3>1. page[u].review = None /\ page[u].staff # None /\ page[u].tab = "approved"
        BY <2>2 DEF TypeOK, EditorOpen
      <3>2. page'[u].form.of = None
        BY <2>1, <3>1 DEF ReviewForm
      <3>3. loads'[u] = loads[u] \union {[who |-> page[u].staff, got |-> None]}
        BY <1>1, <2>1, <3>1 DEF StartLoad
      <3> QED BY <2>1, <2>2, <3>1, <3>2, <3>3 DEF CalmPages, CalmPage, EditorOpen, ReviewOpen
    <2>3. ASSUME ReviewOpen(u) PROVE CalmPage(u)'
      <3>1. page[u].staff = None /\ page[u].review # None /\ page[u].tab = "pending"
        BY <2>3 DEF TypeOK, ReviewOpen
      <3>2. page'[u].form.of = page[u].review.who
        BY <2>1, <3>1 DEF ReviewForm
      <3>3. loads'[u] = loads[u]
        BY <2>1, <3>1 DEF StartLoad
      <3> QED BY <2>1, <2>3, <3>1, <3>2, <3>3 DEF CalmPages, CalmPage, EditorOpen, ReviewOpen
    <2>4. ASSUME ~EditorOpen(u), ~ReviewOpen(u) PROVE CalmPage(u)'
      BY <2>1, <2>4 DEF CalmPage, EditorOpen, ReviewOpen
    <2>5. CalmPage(u)'
      BY <2>2, <2>3, <2>4
    <2>6. \A v \in Supervisor : v # u => loads'[v] = loads[v]
      BY <1>1, <2>1 DEF StartLoad
    <2> QED BY <1>1, <1>4, <1>12, <2>1, <2>5, <2>6 DEF ReloadJobs
  \* Steps that change neither the selection nor whose ratings the form has.
  <1>13. ASSUME NEW u \in Supervisor, UNCHANGED <<loads, calm>>,
                page'[u].tab = page[u].tab, page'[u].form.of = page[u].form.of,
                page'[u].staff = page[u].staff, page'[u].review = page[u].review,
                \A v \in Supervisor : v # u => page'[v] = page[v]
         PROVE  CalmPages'
    BY <1>4, <1>13, SameCalmPage DEF CalmPages
  <1>14. ASSUME NEW u \in Supervisor,
                \/ ReloadList(u) \/ ReloadFails(u) \/ OpenDialog(u) \/ CancelDialog(u)
                \/ \E op \in {"approve", "reject", "save", "clear"} : Ask(u, op)
                \/ Failed(u, "failed") \/ Failed(u, "done")
         PROVE  CalmPages'
    <2>1. UNCHANGED <<loads, calm>>
      BY <1>14 DEF ReloadList, ReloadFails, OpenDialog, CancelDialog, Ask, Failed
    <2>2. /\ page'[u].tab = page[u].tab /\ page'[u].form.of = page[u].form.of
          /\ page'[u].staff = page[u].staff /\ page'[u].review = page[u].review
          /\ \A v \in Supervisor : v # u => page'[v] = page[v]
      BY <1>1, <1>14 DEF ReloadList, ReloadFails, OpenDialog, CancelDialog, Ask, Failed, StaffPage
    <2> QED BY <1>13, <2>1, <2>2
  <1>15. ASSUME NEW u \in Supervisor, RateStaff(u) PROVE CalmPages'
    <2>1. UNCHANGED <<loads, calm>>
      BY <1>15 DEF RateStaff
    <2>2. /\ page'[u].form.of = IF page[u].form.of = None THEN Named(u) ELSE page[u].form.of
          /\ page'[u].tab = page[u].tab
          /\ page'[u].staff = page[u].staff /\ page'[u].review = page[u].review
          /\ \A v \in Supervisor : v # u => page'[v] = page[v]
      BY <1>1, <1>15 DEF RateStaff, StaffPage
    <2>3. CalmPage(u)'
      BY <2>1, <2>2 DEF CalmPages, CalmPage, EditorOpen, ReviewOpen, Named
    <2> QED BY <1>4, <2>1, <2>2, <2>3
  <1>16. ASSUME NEW u \in Supervisor, Succeeded(u) PROVE CalmPages'
    <2>1. UNCHANGED <<loads, calm>>
      BY <1>16 DEF Succeeded
    <2>2. /\ page'[u].tab = page[u].tab /\ page'[u].staff = page[u].staff
          /\ page'[u].review \in {page[u].review, None}
          /\ page'[u].form.of \in {page[u].form.of, None}
          /\ \A v \in Supervisor : v # u => page'[v] = page[v]
      BY <1>1, <1>16 DEF Succeeded, StaffPage
    <2>3. CalmPage(u)'
      BY <2>1, <2>2 DEF CalmPages, CalmPage, EditorOpen, ReviewOpen
    <2> QED BY <1>4, <2>1, <2>2, <2>3
  <1>17. CASE UserStep
    BY <1>3, <1>5, <1>6, <1>7, <1>8, <1>14, <1>15, <1>17 DEF UserStep, OpenSelf, RateSelf,
        ResetSelf, SubmitSelf, DeleteRating
  <1>18. CASE SystemStep
    BY <1>3, <1>9, <1>10, <1>12, <1>14, <1>16, <1>18 DEF SystemStep, Handler, GetSelf, ShowSelf,
        StoreSelf, CheckExists, ReadRatings, TakePending, Commit
  <1>19. CASE FaultStep
    BY <1>3, <1>11, <1>14, <1>19 DEF FaultStep, FailSelf, Abort
  <1> QED BY <1>17, <1>18, <1>19 DEF Next

\* Whoever lets loads end before choosing again, and gets no error, is shown
\* and saves the ratings of the employee whose name is shown.
THEOREM CalmSupervisors == Spec => []OwnWhenCalm
  <1>1. Init => CalmPages
    <2> SUFFICES ASSUME Init, NEW u \in Supervisor PROVE CalmPage(u)
      BY DEF CalmPages
    <2> QED BY DEF Init, CalmPage, EditorOpen, ReviewOpen, NewPage
  <1>2. TypeOK /\ CalmPages /\ [Next]_vars => CalmPages'
    <2>1. CASE UNCHANGED vars
      BY <2>1 DEF CalmPages, CalmPage, EditorOpen, ReviewOpen, vars
    <2> QED BY <2>1, CalmStep
  <1>3. TypeOK /\ CalmPages => OwnWhenCalm
    BY DEF TypeOK, CalmPages, CalmPage, OwnWhenCalm, EditorOpen, ReviewOpen, Named
  <1> QED BY <1>1, <1>2, <1>3, TypeCorrect, PTL DEF Spec
=============================================================================
