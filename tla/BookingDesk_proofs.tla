------------------------- MODULE BookingDesk_proofs -------------------------
(***************************************************************************)
(* Proofs about BookingDesk, for any locomotives, jobs, texts and bounds,  *)
(* whatever is stored when the page is opened.                             *)
(***************************************************************************)
EXTENDS BookingDesk, SequenceTheorems, WellFoundedInduction, TLAPS

LEMMA Least ==
  ASSUME NEW T \in SUBSET Nat, T # {}
  PROVE  \E x \in T : \A y \in T : ~(y < x)
<1>1. IsWellFoundedOn(OpToRel(<, Nat), Nat)
  BY NatLessThanWellFounded
<1>2. \E x \in T : \A y \in T : <<y, x>> \notin OpToRel(<, Nat)
  BY <1>1, WFMin
<1> QED BY <1>2 DEF OpToRel

(* The greatest of some numbers up to n is one of them.                    *)
LEMMA Greatest ==
  ASSUME NEW n \in Nat, NEW T \in SUBSET (0..n), T # {}
  PROVE  Max(T) \in T /\ \A y \in T : y <= Max(T)
<1> DEFINE U == {n - t : t \in T}
<1>0. \A t \in T : t \in Nat /\ n - t \in Nat
  OBVIOUS
<1>1. U \in SUBSET Nat /\ U # {}
  BY <1>0, Zenon
<1>2. PICK u \in U : \A y \in U : ~(y < u)
  BY <1>1, Least
<1>3. PICK x \in T : u = n - x
  BY DEF U
<1>4. \A y \in T : x >= y
  <2> TAKE y \in T
  <2>1. n - y \in U /\ ~(n - y < n - x)
    BY <1>2, <1>3
  <2> HIDE DEF U
  <2> QED BY <1>0, <2>1, SMT
<1>5. \E z \in T : \A y \in T : z >= y
  BY <1>4
<1>6. Max(T) \in T /\ \A y \in T : Max(T) >= y
  <2> HIDE DEF U
  <2> QED BY <1>5, Zenon DEF Max
<1> QED BY <1>0, <1>6

(* What is left of a sequence was there before.                            *)
LEMMA RemoveAtFacts ==
  ASSUME NEW S, NEW s \in Seq(S), NEW i \in 1..Len(s)
  PROVE  /\ RemoveAt(s, i) \in Seq(S) /\ Len(RemoveAt(s, i)) = Len(s) - 1
         /\ \A k \in DOMAIN RemoveAt(s, i) : \E j \in DOMAIN s : RemoveAt(s, i)[k] = s[j]
<1> DEFINE a == SubSeq(s, 1, i - 1)
           b == SubSeq(s, i + 1, Len(s))
<1>0. PICK n \in Nat : n = Len(s) /\ i \in 1..n /\ DOMAIN s = 1..n /\ \A k \in 1..n : s[k] \in S
  BY LenProperties, ElementOfSeq
<1>1. a \in Seq(S) /\ Len(a) = i - 1 /\ \A k \in 1..(i - 1) : a[k] = s[k]
  <2>1. /\ a \in Seq(S) /\ Len(a) = IF 1 <= i - 1 THEN i - 1 - 1 + 1 ELSE 0
        /\ \A k \in 1..(i - 1 - 1 + 1) : a[k] = s[1 + k - 1]
    BY <1>0, SubSeqProperties, SMTT(30)
  <2> HIDE DEF a
  <2> QED BY <2>1, <1>0
<1>2. b \in Seq(S) /\ Len(b) = n - i /\ \A k \in 1..(n - i) : b[k] = s[i + k]
  <2>1. /\ b \in Seq(S) /\ Len(b) = IF i + 1 <= n THEN n - (i + 1) + 1 ELSE 0
        /\ \A k \in 1..(n - (i + 1) + 1) : b[k] = s[i + 1 + k - 1]
    BY <1>0, SubSeqProperties, SMTT(30)
  <2>2. n - (i + 1) + 1 = n - i /\ \A k \in 1..(n - i) : i + 1 + k - 1 = i + k
    BY <1>0
  <2>3. (IF i + 1 <= n THEN n - (i + 1) + 1 ELSE 0) = n - i
    BY <1>0
  <2> HIDE DEF b
  <2> QED BY <2>1, <2>2, <2>3, Zenon
<1> HIDE DEF a, b
<1>3. /\ a \o b \in Seq(S) /\ Len(a \o b) = Len(a) + Len(b)
      /\ \A k \in 1..(Len(a) + Len(b)) : (a \o b)[k] = IF k <= Len(a) THEN a[k] ELSE b[k - Len(a)]
  BY <1>1, <1>2, ConcatProperties
<1>4. RemoveAt(s, i) = a \o b
  BY DEF RemoveAt, a, b
<1> DEFINE c == a \o b
<1> HIDE DEF c
<1>5. /\ c \in Seq(S) /\ Len(c) = n - 1 /\ DOMAIN c = 1..(n - 1)
      /\ \A k \in 1..(n - 1) : c[k] = IF k <= i - 1 THEN a[k] ELSE b[k - (i - 1)]
  <2>1. c \in Seq(S) /\ Len(c) = n - 1
    BY <1>0, <1>1, <1>2, <1>3 DEF c
  <2>2. DOMAIN c = 1..(n - 1)
    BY <2>1, LenProperties, Zenon
  <2>3. Len(a) = i - 1 /\ Len(a) + Len(b) = n - 1
    BY <1>0, <1>1, <1>2
  <2> QED BY <1>3, <2>1, <2>2, <2>3, Zenon DEF c
<1>6. ASSUME NEW k \in 1..(n - 1)
      PROVE  \E j \in 1..n : c[k] = s[j]
  <2>1. CASE k <= i - 1
    BY <1>0, <1>1, <1>5, <2>1
  <2>2. CASE ~(k <= i - 1)
    <3>1. k - (i - 1) \in 1..(n - i) /\ i + (k - (i - 1)) = k + 1 /\ k + 1 \in 1..n
      BY <1>0, <2>2
    <3>2. c[k] = s[k + 1]
      BY <1>2, <1>5, <2>2, <3>1
    <3> QED BY <3>1, <3>2
  <2> QED BY <2>1, <2>2
<1>7. RemoveAt(s, i) = c
  BY <1>4 DEF c
<1> QED BY <1>0, <1>5, <1>6, <1>7, Zenon

(* Requests and modals say what their kind needs.                          *)
Complete(c) ==
  /\ c.kind = "loco" => c.loco # None
  /\ c.kind # "loco" => c.group # None
  /\ c.kind \in {"deleteJob", "deleteTask", "addTask", "editJob", "editTask"} => c.job # None

ModalShape(m) == m.kind \in {"editJob", "editTask", "addJob"} /\ m.at = "open" /\ Complete(m)

CallShape(c) ==
  /\ Complete(c) /\ c.at # "open"
  /\ c.kind \in {"create", "loco"} => c.from = "booking"
  /\ c.kind = "addJob" => c.job # None
  /\ c.kind = "editJob" => c.to \in Job
  /\ c.kind \in {"addTask", "editTask"} => c.to \in Text

DataShape(l) == l.what = "data" /\ l.got # None => l.got.locos \in LocoTable

Shape ==
  /\ TypeOK
  /\ desk.modal # None => ModalShape(desk.modal)
  /\ call # None => CallShape(call)
  /\ desk.loading => call.kind \in {"create", "loco"}
  /\ \A i \in DOMAIN loads : DataShape(loads[i])

Answers == {loads[i].got : i \in DOMAIN loads} \ {None}

(* The rows that the table has or the page has seen.                       *)
Seen == rows \union desk.list \union desk.history \union UNION {a.rows : a \in Answers}

(* The changes of a shift that a modal is open for, or that are under way. *)
Meant == {c \in {desk.modal, call} : c # None /\ c.kind # "loco"}

Stamp(g, t) == [loco |-> g.loco, day |-> g.day, shift |-> g.shift, time |-> t]
Stamps == {Stamp(r, r.time) : r \in Seen} \union {Stamp(c.group, c.time) : c \in Meant}

(* A time of day other than midnight is that of one shift.                 *)
OneShift == \A a, b \in Stamps :
  a.loco = b.loco /\ a.day = b.day /\ a.time = b.time /\ a.time # Midnight => a.shift = b.shift

Past == \A s \in Stamps : s.time < now

(* All locomotives that are shown, or meant, are known.                    *)
Listed == /\ \A r \in Seen : r.loco \in DOMAIN locos
         /\ \A c \in Meant : c.kind # "create" => c.group.loco \in DOMAIN locos

(* No row has the time of a submission that is still to be handled.        *)
OwnTime == call # None /\ call.kind = "create" /\ call.at = "sent" =>
             call.time # Midnight /\ \A r \in rows : r.time # call.time

Stored == Shape /\ OneShift /\ Past /\ Listed /\ OwnTime

Today == {r \in rows : r.day = desk.day}

(* Nothing is under way that would change what the form and the list show. *)
Settled == /\ \A i \in DOMAIN loads : loads[i].what = "history"
           /\ call # None => call.at # "done"

(* What a card, or a modal, of the list is about is a row of its shift.    *)
OwnRow(c) == \A r \in rows :
  r.loco = c.group.loco /\ r.day = c.group.day /\ r.time = c.time /\ r.job = c.job
    => r.shift = c.group.shift

ToRow == {"deleteJob", "addTask", "editJob", "editTask"}

(* Nothing that is stored, shown or meant is of locomotive l.              *)
Unused(l) == /\ \A r \in Seen : r.loco # l
             /\ \A c \in Meant : c.kind # "create" => c.group.loco # l

Alone == /\ call = None \/ loads = <<>>
         /\ Len(loads) <= 1
         /\ call # None => call.onDay = desk.day /\ call.at # "lost"
         /\ call # None /\ desk.modal # None => call.kind = desk.modal.kind

ListOf(d) == \A i \in DOMAIN loads : loads[i].what = "data" =>
  /\ loads[i].from = d /\ loads[i].to = d
  /\ loads[i].got # None => loads[i].got.rows = Today /\ loads[i].got.locos = locos

(* What the page shows is what is stored.                                  *)
Loaded == Settled => /\ desk.list = Today /\ desk.locos = locos
                     /\ desk.loco # None /\ ~touched => desk.content = InForm(In(rows, Chosen))

Added == call # None /\ call.at = "done" /\ call.kind = "loco" =>
           /\ desk.list = Today /\ locos = With(desk.locos, call.loco, call.despatched)
           /\ Unused(call.loco)

(* What the shift has is announced, before and with a submission.          *)
Announced == desk.loco # None /\ (call # None => call.kind # "create") /\ Settled
             /\ In(rows, Chosen) # {} => desk.hint

Unbooked == desk.loco # None /\ ~Bookable(desk.loco) => Unused(desk.loco)

Submitted == call # None /\ call.kind = "create" =>
               /\ call.group = Chosen /\ desk.loco # None
               /\ call.at = "sent" /\ In(rows, Chosen) # {} => call.warned
               /\ call.at = "refused" => In(rows, Chosen) = {}

CallOwned == call # None /\ call.at = "sent" /\ call.from = "list" /\ call.kind \in ToRow
               => OwnRow(call)

ModalOwned == desk.modal # None /\ desk.tab = "list" /\ desk.modal.kind \in ToRow
              /\ (call # None => call.at # "done") => OwnRow(desk.modal)

Calm == calm => /\ Alone /\ ListOf(desk.day) /\ Loaded /\ Added
                /\ Announced /\ Unbooked /\ Submitted /\ CallOwned /\ ModalOwned

-----------------------------------------------------------------------------
(* The tables.                                                             *)

(* Only these steps change what is stored.                                 *)
LEMMA TableKinds ==
  ASSUME Next
  PROVE  \/ UNCHANGED <<rows, locos, now>>
         \/ Submit \/ Handle
         \/ \E g \in Group : \/ \E content \in Content \ {Nothing} : OtherBooks(g, content)
                             \/ \E t \in Time : OtherDeletes(g, t)
                             \/ \E J \in SUBSET Job \ {{}}, T \in SUBSET Text : OtherCarries(g, J, T)
         \/ \E l \in Loco : OtherDespatches(l)
<1>1. CASE FormStep
  BY <1>1 DEF FormStep, PickLoco, AddLoco, DropLoco, OpenAdding, CancelAdding, ChooseDay,
              ChooseShift, ToggleJob, WriteTask
<1>2. CASE ListStep
  BY <1>2 DEF ListStep, SwitchTab, SetRange, ToggleEditMode, DeleteCard, AddJob, DeleteJob,
              EditJob, AddTask, DeleteTask, EditTask, OpenModal, CloseModal, SaveJob,
              SaveNewJob, SaveTask
<1>3. CASE OtherStep
  BY <1>3 DEF OtherStep
<1>4. CASE FaultStep
  BY <1>4 DEF FaultStep, LoseCall, LoseLoad
<1>5. CASE SystemStep
  BY <1>5 DEF SystemStep, Answered, Read, Arrive
<1> QED BY <1>1, <1>2, <1>3, <1>4, <1>5 DEF Next

LEMMA ContentIs ==
  ASSUME NEW f
  PROVE  f \in Content <=> DOMAIN f \subseteq Job /\ f \in [DOMAIN f -> SUBSET Text]
BY DEF Content

LEMMA WithType ==
  ASSUME NEW f \in LocoTable, NEW l \in Loco, NEW v \in BOOLEAN
  PROVE  With(f, l, v) \in LocoTable
<1>1. PICK L \in SUBSET Loco : f \in [L -> BOOLEAN]
  BY DEF LocoTable
<1>2. With(f, l, v) \in [L \union {l} -> BOOLEAN]
  BY <1>1 DEF With
<1> QED BY <1>2, Zenon DEF LocoTable

(* Rows of a submission: one for each job, with the time of the submission. *)
LEMMA BookedIs ==
  ASSUME NEW g \in Group, NEW t \in Time, NEW j \in Job, NEW T \in SUBSET Text
  PROVE  LET r == Booked(g, t, j, T)
         IN /\ r \in Row /\ r.loco = g.loco /\ r.day = g.day /\ r.shift = g.shift
            /\ r.time = t /\ r.job = j /\ r.tasks = T /\ GroupOf(r) = g
BY DEF Booked, Row, Group, GroupOf

LEMMA GroupIs ==
  ASSUME NEW r \in Row
  PROVE  /\ GroupOf(r) \in Group
         /\ \A g \in Group : GroupOf(r) = g <=> r.loco = g.loco /\ r.day = g.day /\ r.shift = g.shift
BY DEF Row, Group, GroupOf

(* Booking a shift at a time that no other row has keeps the keys.         *)
LEMMA ReplacedKeys ==
  ASSUME rows \subseteq Row, Keys, NEW g \in Group, NEW t \in Time, NEW content \in Content,
         g.loco \in DOMAIN locos, \A r \in rows : r.time # t
  PROVE  LET R == Replaced(g, t, content)
         IN /\ R \subseteq Row
            /\ \A a, b \in R : SameKey(a, b) => a = b
            /\ \A r \in R : r.loco \in DOMAIN locos
<1> DEFINE R == Replaced(g, t, content)
<1>1. /\ DOMAIN content \subseteq Job
      /\ \A j \in DOMAIN content : content[j] \in SUBSET Text
  BY ContentIs
<1>2. ASSUME NEW r \in R
      PROVE  \/ r \in rows
             \/ \E j \in DOMAIN content : r = Booked(g, t, j, content[j])
  BY DEF Replaced
<1>3. ASSUME NEW j \in DOMAIN content
      PROVE  LET r == Booked(g, t, j, content[j])
             IN r \in Row /\ r.loco = g.loco /\ r.time = t /\ r.job = j
  BY <1>1, BookedIs
<1>4. ASSUME NEW a \in R, NEW b \in R, SameKey(a, b)
      PROVE  a = b
  <2>1. a.time = b.time /\ a.job = b.job
    BY <1>4 DEF SameKey
  <2>2. CASE a \in rows /\ b \in rows
    BY <1>4, <2>2 DEF Keys
  <2>3. CASE a \notin rows \/ b \notin rows
    <3>1. a.time = t /\ b.time = t
      BY <1>2, <1>3, <2>1, <2>3
    <3> QED BY <1>2, <1>3, <2>1, <3>1
  <2> QED BY <2>2, <2>3
<1> HIDE DEF R
<1>5. R \subseteq Row /\ \A r \in R : r.loco \in DOMAIN locos
  BY <1>2, <1>3 DEF Keys
<1> QED BY <1>4, <1>5 DEF R

(* A row of a known locomotive is added, whose key is free.                *)
LEMMA AddedKeys ==
  ASSUME NEW R \in SUBSET Row, \A a, b \in R : SameKey(a, b) => a = b,
         \A r \in R : r.loco \in DOMAIN locos,
         NEW q \in Row, q.loco \in DOMAIN locos, \A r \in R : ~SameKey(r, q)
  PROVE  /\ R \union {q} \subseteq Row
         /\ \A a, b \in R \union {q} : SameKey(a, b) => a = b
         /\ \A r \in R \union {q} : r.loco \in DOMAIN locos
<1>1. \A r \in R : ~SameKey(q, r)
  BY DEF SameKey
<1> QED BY <1>1

LEMMA KeyedIs ==
  ASSUME rows \subseteq Row, Keys, NEW c, NEW r \in Keyed(c)
  PROVE  /\ Keyed(c) = {r} /\ r \in rows
         /\ r.loco = c.group.loco /\ r.day = c.group.day /\ r.time = c.time /\ r.job = c.job
<1>1. \A q \in Keyed(c) : SameKey(q, r) /\ q \in rows
  BY DEF Keyed, AtTime, SameKey
<1> QED BY <1>1 DEF Keys, Keyed, AtTime

(* The row of a change is replaced by one for a job that is free.          *)
LEMMA SwappedKeys ==
  ASSUME rows \subseteq Row, Keys, NEW c, NEW r \in Keyed(c),
         NEW q \in Row, q.loco = r.loco, \A x \in rows \ {r} : ~SameKey(x, q)
  PROVE  LET R == (rows \ Keyed(c)) \union {q}
         IN /\ R \subseteq Row
            /\ \A a, b \in R : SameKey(a, b) => a = b
            /\ \A x \in R : x.loco \in DOMAIN locos
<1>1. Keyed(c) = {r} /\ r \in rows
  BY KeyedIs
<1>2. /\ rows \ {r} \in SUBSET Row
      /\ \A a, b \in rows \ {r} : SameKey(a, b) => a = b
      /\ \A x \in rows \ {r} : x.loco \in DOMAIN locos
      /\ q.loco \in DOMAIN locos
  BY <1>1 DEF Keys
<1> QED BY <1>1, <1>2, AddedKeys

(* A row of an accepted change is one that was stored or of the shift, day *)
(* and time of the change.                                                 *)
Own(c, r) == r.loco = c.group.loco /\ r.day = c.group.day /\ r.shift = c.group.shift /\ r.time = c.time

Kin(R, c) == \A r \in R : r \in rows \/ Own(c, r) \/ \E q \in rows : Stamp(r, r.time) = Stamp(q, q.time)

LEMMA CreateTables ==
  ASSUME Stored, call # None, call.at = "sent", Accepted(call), call.kind = "create"
  PROVE  LET R == RowsAfter(call)
         IN /\ R \subseteq Row
            /\ \A a, b \in R : SameKey(a, b) => a = b
            /\ \A r \in R : r.loco \in DOMAIN locos
            /\ Kin(R, call)
<1>1. /\ rows \subseteq Row /\ Keys /\ call \in Change /\ CallShape(call)
      /\ \A r \in rows : r.time # call.time
  BY DEF Stored, Shape, TypeOK, OwnTime
<1>2. /\ call.group \in Group /\ call.time \in Time /\ call.content \in Content
      /\ call.group.loco \in DOMAIN locos
  BY <1>1 DEF Change, CallShape, Complete, Accepted, Bookable
<1>3. RowsAfter(call) = Replaced(call.group, call.time, call.content)
  BY DEF RowsAfter
<1>4. \A j \in DOMAIN call.content : j \in Job /\ call.content[j] \in SUBSET Text
  BY <1>2, ContentIs
<1>5. \A j \in DOMAIN call.content : Own(call, Booked(call.group, call.time, j, call.content[j]))
  BY <1>2, <1>4, BookedIs DEF Own
<1>6. Kin(RowsAfter(call), call)
  BY <1>3, <1>5, Zenon DEF Kin, Replaced
<1> QED BY <1>1, <1>2, <1>3, <1>6, ReplacedKeys

LEMMA AddTables ==
  ASSUME Stored, call # None, call.at = "sent", Accepted(call), call.kind = "addJob"
  PROVE  LET R == RowsAfter(call)
         IN /\ R \subseteq Row
            /\ \A a, b \in R : SameKey(a, b) => a = b
            /\ \A r \in R : r.loco \in DOMAIN locos
            /\ Kin(R, call)
<1> DEFINE q == Booked(call.group, call.time, call.job, {})
<1>1. /\ rows \in SUBSET Row /\ Keys /\ call \in Change /\ CallShape(call)
      /\ Keyed(call) = {} /\ call \in Meant
  BY DEF Stored, Shape, TypeOK, Accepted, Meant
<1>2. call.group \in Group /\ call.time \in Time /\ call.job \in Job
  BY <1>1 DEF Change, CallShape, Complete
<1>3. /\ q \in Row /\ Own(call, q) /\ q.loco = call.group.loco /\ q.day = call.group.day
      /\ q.time = call.time /\ q.job = call.job
  BY <1>2, BookedIs DEF Own
<1>4. q.loco \in DOMAIN locos
  BY <1>1, <1>3 DEF Stored, Listed
<1>5. \A r \in rows : ~SameKey(r, q)
  <2> SUFFICES ASSUME NEW r \in rows, SameKey(r, q)
               PROVE  FALSE
    OBVIOUS
  <2>1. r \in Keyed(call)
    BY <1>3 DEF SameKey, Keyed, AtTime
  <2> QED BY <1>1, <2>1
<1>6. RowsAfter(call) = rows \union {q}
  BY DEF RowsAfter
<1> HIDE DEF q
<1> QED BY <1>1, <1>3, <1>4, <1>5, <1>6, AddedKeys DEF Keys, Kin

LEMMA EditTables ==
  ASSUME Stored, call # None, call.at = "sent", Accepted(call),
         call.kind \in {"addTask", "editTask", "editJob"}
  PROVE  LET R == RowsAfter(call)
         IN /\ R \subseteq Row
            /\ \A a, b \in R : SameKey(a, b) => a = b
            /\ \A r \in R : r.loco \in DOMAIN locos
            /\ Kin(R, call)
<1>1. /\ rows \subseteq Row /\ Keys /\ call \in Change /\ CallShape(call)
  BY DEF Stored, Shape, TypeOK
<1>2. PICK r : r \in Keyed(call)
  BY DEF Accepted
<1>3. /\ Keyed(call) = {r} /\ r \in rows /\ r \in Row
      /\ r.loco = call.group.loco /\ r.day = call.group.day /\ r.time = call.time /\ r.job = call.job
  BY <1>1, <1>2, KeyedIs
<1>4. PICK q \in Row : /\ RowsAfter(call) = (rows \ Keyed(call)) \union {q}
                       /\ Stamp(q, q.time) = Stamp(r, r.time) /\ q.loco = r.loco
                       /\ \A x \in rows \ {r} : ~SameKey(x, q)
  <2>1. CASE call.kind = "addTask"
    <3> DEFINE q == [r EXCEPT !.tasks = @ \union {call.to}]
    <3>1. q \in Row /\ Stamp(q, q.time) = Stamp(r, r.time) /\ q.loco = r.loco /\ q.day = r.day
          /\ q.time = r.time /\ q.job = r.job
      BY <1>1, <1>3, <2>1 DEF CallShape, Row, Stamp
    <3>2. RowsAfter(call) = (rows \ Keyed(call)) \union {q}
      BY <1>3, <2>1 DEF RowsAfter
    <3> HIDE DEF q
    <3>3. \A x \in rows \ {r} : ~SameKey(x, q)
      BY <1>1, <1>3, <3>1 DEF Keys, SameKey
    <3> QED BY <3>1, <3>2, <3>3
  <2>2. CASE call.kind = "editTask"
    <3> DEFINE q == [r EXCEPT !.tasks = (@ \ {call.text}) \union {call.to}]
    <3>1. q \in Row /\ Stamp(q, q.time) = Stamp(r, r.time) /\ q.loco = r.loco /\ q.day = r.day
          /\ q.time = r.time /\ q.job = r.job
      BY <1>1, <1>3, <2>2 DEF CallShape, Row, Stamp
    <3>2. RowsAfter(call) = (rows \ Keyed(call)) \union {q}
      BY <1>3, <2>2 DEF RowsAfter
    <3> HIDE DEF q
    <3>3. \A x \in rows \ {r} : ~SameKey(x, q)
      BY <1>1, <1>3, <3>1 DEF Keys, SameKey
    <3> QED BY <3>1, <3>2, <3>3
  <2>3. CASE call.kind = "editJob"
    <3> DEFINE q == [r EXCEPT !.job = call.to]
    <3>1. q \in Row /\ Stamp(q, q.time) = Stamp(r, r.time) /\ q.loco = r.loco /\ q.day = r.day
          /\ q.time = r.time /\ q.job = call.to
      BY <1>1, <1>3, <2>3 DEF CallShape, Row, Stamp
    <3>2. RowsAfter(call) = (rows \ Keyed(call)) \union {q}
      BY <1>3, <2>3 DEF RowsAfter
    <3> HIDE DEF q
    <3> DEFINE d == [call EXCEPT !.job = call.to]
    <3>3. Keyed(d) = {} /\ d.group = call.group /\ d.time = call.time /\ d.job = call.to
      BY <1>1, <2>3 DEF Accepted, Change
    <3> HIDE DEF d
    <3>4. ASSUME NEW x \in rows, SameKey(x, q)
          PROVE  FALSE
      <4>1. x \in Keyed(d)
        BY <1>3, <3>1, <3>3, <3>4 DEF Keyed, AtTime, SameKey
      <4> QED BY <3>3, <4>1
    <3> QED BY <3>1, <3>2, <3>4
  <2> QED BY <2>1, <2>2, <2>3
<1>5. Kin(RowsAfter(call), call)
  BY <1>3, <1>4 DEF Kin
<1> QED BY <1>1, <1>2, <1>4, <1>5, SwappedKeys

(* A change that is accepted keeps the keys.                               *)
LEMMA AcceptedTables ==
  ASSUME Stored, call # None, call.at = "sent", Accepted(call)
  PROVE  LET R == RowsAfter(call)
         IN /\ R \subseteq Row
            /\ \A a, b \in R : SameKey(a, b) => a = b
            /\ \A r \in R : r.loco \in DOMAIN locos
            /\ Kin(R, call)
<1>1. rows \subseteq Row /\ Keys
  BY DEF Stored, Shape, TypeOK
<1>2. CASE call.kind \in {"deleteCard", "deleteJob", "loco"}
  <2>1. RowsAfter(call) \subseteq rows
    BY <1>2 DEF RowsAfter
  <2> QED BY <1>1, <2>1 DEF Keys, Kin
<1> QED BY <1>2, CreateTables, AddTables, EditTables DEF Accepted

(* What every step does to the tables.                                     *)
LEMMA TablesStep ==
  ASSUME Stored, Next
  PROVE  /\ rows' \subseteq Row /\ locos' \in LocoTable /\ Keys'
         /\ now' \in 1..(LastTime + 1) /\ now <= now' /\ DOMAIN locos \subseteq DOMAIN locos'
<1> USE BoundsAssumption
<1>1. rows \subseteq Row /\ locos \in LocoTable /\ Keys /\ now \in 1..(LastTime + 1)
  BY DEF Stored, Shape, TypeOK
<1>2. CASE UNCHANGED <<rows, locos, now>>
  BY <1>1, <1>2 DEF Keys
<1>3. CASE Submit
  BY <1>1, <1>3 DEF Submit, Keys
<1>4. CASE Handle
  <2>1. CASE ~Accepted(call)
    BY <1>1, <1>4, <2>1 DEF Handle, Keys
  <2>2. CASE Accepted(call)
    <3> DEFINE R == RowsAfter(call)
    <3>1. /\ rows' = R /\ now' = now
          /\ R \subseteq Row /\ \A a, b \in R : SameKey(a, b) => a = b
          /\ \A r \in R : r.loco \in DOMAIN locos
      BY <1>4, <2>2, AcceptedTables DEF Handle
    <3>2. locos' \in LocoTable /\ DOMAIN locos \subseteq DOMAIN locos'
      <4>1. CASE call.kind # "loco"
        BY <1>1, <1>4, <2>2, <4>1 DEF Handle
      <4>2. CASE call.kind = "loco"
        <5>1. call.loco \in Loco /\ call.despatched \in BOOLEAN
          BY <1>4, <4>2 DEF Handle, Stored, Shape, TypeOK, CallShape, Complete, Change
        <5>2. locos' = With(locos, call.loco, call.despatched)
          BY <1>4, <2>2, <4>2 DEF Handle
        <5>3. /\ With(locos, call.loco, call.despatched) \in LocoTable
              /\ DOMAIN locos \subseteq DOMAIN With(locos, call.loco, call.despatched)
          <6>1. locos \in LocoTable
            BY <1>1
          <6>2. With(locos, call.loco, call.despatched) \in LocoTable
            BY <6>1, <5>1, WithType, Zenon
          <6>3. DOMAIN locos \subseteq DOMAIN With(locos, call.loco, call.despatched)
            BY DEF With
          <6> QED BY <6>2, <6>3, Zenon
        <5> QED BY <5>2, <5>3, Zenon
      <4> QED BY <4>1, <4>2
    <3> HIDE DEF R
    <3> QED BY <1>1, <3>1, <3>2 DEF Keys
  <2> QED BY <2>1, <2>2
<1>5. ASSUME NEW g \in Group, NEW content \in Content, OtherBooks(g, content)
      PROVE  rows' \subseteq Row /\ Keys' /\ UNCHANGED locos /\ now' = now + 1 /\ now <= LastTime
  <2>1. /\ now \in Time /\ g.loco \in DOMAIN locos /\ rows' = Replaced(g, now, content)
        /\ UNCHANGED locos /\ now' = now + 1 /\ now <= LastTime
    BY <1>1, <1>5 DEF OtherBooks, Bookable, Time, Midnight
  <2>2. \A r \in rows : r.time # now
    <3> SUFFICES ASSUME NEW r \in rows PROVE r.time # now
      OBVIOUS
    <3>1. Stamp(r, r.time) \in Stamps /\ r.time \in Time
      BY <1>1 DEF Stamps, Seen, Row
    <3>2. r.time < now
      BY <3>1 DEF Stored, Past, Stamp
    <3> QED BY <1>1, <3>1, <3>2 DEF Time, Midnight
  <2> QED BY <1>1, <2>1, <2>2, ReplacedKeys DEF Keys
<1>6. ASSUME NEW g \in Group, NEW t \in Time, OtherDeletes(g, t)
      PROVE  rows' \subseteq rows /\ UNCHANGED <<locos, now>>
  BY <1>6 DEF OtherDeletes
<1>7. ASSUME NEW g \in Group, NEW J \in SUBSET Job, NEW T \in SUBSET Text, OtherCarries(g, J, T)
      PROVE  rows' \subseteq Row /\ Keys' /\ UNCHANGED <<locos, now>>
  <2> DEFINE fresh == {j \in J : \A r \in In(rows, g) : r.job # j}
             New == {Booked(g, Midnight, j, T) : j \in fresh}
  <2>1. /\ rows' = rows \union New /\ UNCHANGED <<locos, now>> /\ g.loco \in DOMAIN locos
        /\ \A r \in rows : r.loco = g.loco /\ r.day = g.day /\ r.time = Midnight => r.job \notin J
    BY <1>7 DEF OtherCarries
  <2>2. Midnight \in Time
    BY DEF Time, Midnight
  <2>3. \A q \in New : \E j \in J : q = Booked(g, Midnight, j, T)
    OBVIOUS
  <2>4. \A q \in New : q \in Row /\ q.loco = g.loco /\ q.day = g.day /\ q.time = Midnight /\ q.job \in J
    BY <2>2, <2>3, BookedIs
  <2>5. \A q, p \in New : q.job = p.job => q = p
    BY <2>2, BookedIs
  <2> HIDE DEF New
  <2>6. \A a, b \in rows \union New : SameKey(a, b) => a = b
    BY <1>1, <2>1, <2>4, <2>5 DEF Keys, SameKey
  <2> QED BY <1>1, <2>1, <2>4, <2>6 DEF Keys
<1>8. ASSUME NEW l \in Loco, OtherDespatches(l)
      PROVE  locos' \in LocoTable /\ DOMAIN locos' = DOMAIN locos /\ UNCHANGED <<rows, now>>
  <2>1. PICK L \in SUBSET Loco : locos \in [L -> BOOLEAN]
    BY <1>1 DEF LocoTable
  <2>2. locos' \in [L -> BOOLEAN] /\ UNCHANGED <<rows, now>>
    BY <1>8, <2>1 DEF OtherDespatches
  <2> QED BY <2>1, <2>2 DEF LocoTable
<1> QED
  <2>1. ASSUME NEW g \in Group, NEW content \in Content, OtherBooks(g, content)
        PROVE  /\ rows' \subseteq Row /\ locos' \in LocoTable /\ Keys'
               /\ now' \in 1..(LastTime + 1) /\ now <= now' /\ DOMAIN locos \subseteq DOMAIN locos'
    BY <1>1, <1>5, <2>1
  <2>2. ASSUME NEW g \in Group, NEW t \in Time, OtherDeletes(g, t)
        PROVE  /\ rows' \subseteq Row /\ locos' \in LocoTable /\ Keys'
               /\ now' \in 1..(LastTime + 1) /\ now <= now' /\ DOMAIN locos \subseteq DOMAIN locos'
    BY <1>1, <1>6, <2>2 DEF Keys
  <2>3. ASSUME NEW g \in Group, NEW J \in SUBSET Job, NEW T \in SUBSET Text, OtherCarries(g, J, T)
        PROVE  /\ rows' \subseteq Row /\ locos' \in LocoTable /\ Keys'
               /\ now' \in 1..(LastTime + 1) /\ now <= now' /\ DOMAIN locos \subseteq DOMAIN locos'
    BY <1>1, <1>7, <2>3
  <2>4. ASSUME NEW l \in Loco, OtherDespatches(l)
        PROVE  /\ rows' \subseteq Row /\ locos' \in LocoTable /\ Keys'
               /\ now' \in 1..(LastTime + 1) /\ now <= now' /\ DOMAIN locos \subseteq DOMAIN locos'
    BY <1>1, <1>8, <2>4 DEF Keys
  <2> QED BY <1>2, <1>3, <1>4, <2>1, <2>2, <2>3, <2>4, TableKinds

-----------------------------------------------------------------------------
(* The lists under way.                                                    *)

LEMMA AskFacts ==
  ASSUME loads \in Seq(Load), NEW l \in Load, Ask(l)
  PROVE  /\ loads' \in Seq(Load) /\ Len(loads') <= MaxLoads /\ Len(loads') = Len(loads) + 1
         /\ \A i \in DOMAIN loads' : loads'[i] = l \/ \E j \in DOMAIN loads : loads'[i] = loads[j]
         /\ loads = <<>> => \A i \in DOMAIN loads' : loads'[i] = l
<1>1. /\ loads' \in Seq(Load) /\ Len(loads') = Len(loads) + 1
      /\ \A i \in 1..Len(loads) : loads'[i] = loads[i]
      /\ loads'[Len(loads) + 1] = l
  BY AppendProperties DEF Ask
<1>2. /\ Len(loads) \in Nat /\ Len(loads) < MaxLoads
      /\ DOMAIN loads = 1..Len(loads) /\ DOMAIN loads' = 1..Len(loads')
  BY <1>1, LenProperties DEF Ask
<1>3. \A i \in DOMAIN loads' : i = Len(loads) + 1 \/ i \in DOMAIN loads
  BY <1>1, <1>2
<1>4. loads = <<>> => Len(loads) = 0
  OBVIOUS
<1> QED BY BoundsAssumption, <1>1, <1>2, <1>3, <1>4

LEMMA LoadIs ==
  ASSUME NEW a \in Day, NEW b \in Day
  PROVE  /\ Data(a) \in Load /\ Data(a).what = "data" /\ Data(a).from = a /\ Data(a).to = a
         /\ Data(a).got = None
         /\ History(a, b) \in Load /\ History(a, b).what = "history" /\ History(a, b).got = None
BY DEF Data, History, Load

(* What a list is answered with.                                           *)
Reply(l) == [rows |-> {r \in rows : r.day \in l.from..l.to},
             locos |-> IF l.what = "data" THEN locos ELSE None]

LEMMA ReadFacts ==
  ASSUME loads \in Seq(Load), rows \subseteq Row, locos \in LocoTable,
         NEW i \in DOMAIN loads, Read(i)
  PROVE  /\ loads' \in Seq(Load) /\ Len(loads') = Len(loads) /\ DOMAIN loads' = DOMAIN loads
         /\ \A j \in DOMAIN loads : j # i => loads'[j] = loads[j]
         /\ loads'[i] = [loads[i] EXCEPT !.got = Reply(loads[i])]
         /\ Reply(loads[i]) \in Answer /\ DataShape(loads'[i])
<1>1. loads[i] \in Load /\ DOMAIN loads = 1..Len(loads)
  BY LenProperties, ElementOfSeq
<1>2. loads' = [loads EXCEPT ![i] = [loads[i] EXCEPT !.got = Reply(loads[i])]]
  BY DEF Read, Reply
<1>3. Reply(loads[i]) \in Answer
  BY DEF Reply, Answer
<1>4. [loads[i] EXCEPT !.got = Reply(loads[i])] \in Load
  BY <1>1, <1>3 DEF Load
<1> DEFINE e == [loads[i] EXCEPT !.got = Reply(loads[i])]
<1> HIDE DEF e
<1>5. loads' = [loads EXCEPT ![i] = e] /\ e \in Load
  BY <1>2, <1>4 DEF e
<1>6. loads' \in Seq(Load) /\ Len(loads') = Len(loads) /\ DOMAIN loads' = DOMAIN loads
  BY <1>1, <1>5, ExceptSeq, LenProperties
<1>7. loads'[i] = e /\ \A j \in DOMAIN loads : j # i => loads'[j] = loads[j]
  BY <1>5, Zenon
<1>8. DataShape(e)
  BY <1>1 DEF e, DataShape, Load, Reply
<1> QED BY <1>3, <1>6, <1>7, <1>8 DEF e

(* A list that has come, or was lost, is taken off.                        *)
LEMMA TakenOff ==
  ASSUME loads \in Seq(Load), NEW i \in DOMAIN loads, loads' = RemoveAt(loads, i)
  PROVE  /\ loads' \in Seq(Load) /\ Len(loads') = Len(loads) - 1
         /\ \A k \in DOMAIN loads' : \E j \in DOMAIN loads : loads'[k] = loads[j]
<1>1. i \in 1..Len(loads)
  BY LenProperties
<1> QED BY <1>1, RemoveAtFacts

(* Only these steps change the lists under way.                            *)
LEMMA LoadKinds ==
  ASSUME Next
  PROVE  \/ UNCHANGED loads
         \/ \E d \in Day : ChooseDay(d)
         \/ \E t \in Tabs : SwitchTab(t)
         \/ \E a, b \in Day : SetRange(a, b)
         \/ Answered
         \/ \E i \in DOMAIN loads : Read(i) \/ Arrive(i) \/ LoseLoad(i)
<1>1. CASE FormStep
  BY <1>1 DEF FormStep, PickLoco, AddLoco, DropLoco, OpenAdding, CancelAdding, ChooseShift,
              ToggleJob, WriteTask, Submit
<1>2. CASE ListStep
  BY <1>2 DEF ListStep, ToggleEditMode, DeleteCard, AddJob, DeleteJob, EditJob, AddTask,
              DeleteTask, EditTask, OpenModal, CloseModal, SaveJob, SaveNewJob, SaveTask, Tabs
<1>3. CASE OtherStep
  BY <1>3 DEF OtherStep, OtherBooks, OtherDeletes, OtherCarries, OtherDespatches
<1>4. CASE FaultStep
  BY <1>4 DEF FaultStep, LoseCall
<1>5. CASE SystemStep
  BY <1>5 DEF SystemStep, Handle
<1> QED BY <1>1, <1>2, <1>3, <1>4, <1>5 DEF Next

(* A list that is asked for, if any, is new; all else was there.           *)
LEMMA ListsStep ==
  ASSUME Shape, Next
  PROVE  /\ loads' \in Seq(Load) /\ Len(loads') <= MaxLoads
         /\ \A i \in DOMAIN loads' : DataShape(loads'[i])
         /\ \A a \in Answers' : a \in Answers \/ a.rows \subseteq rows
<1> USE BoundsAssumption
<1>1. /\ loads \in Seq(Load) /\ Len(loads) <= MaxLoads /\ rows \subseteq Row /\ locos \in LocoTable
      /\ desk \in Page /\ call \in Change \union {None}
      /\ \A i \in DOMAIN loads : DataShape(loads[i])
  BY DEF Shape, TypeOK
<1>2. Len(loads) \in Nat
  BY <1>1, LenProperties
<1>3. ASSUME NEW l \in Load, Ask(l), l.got = None
      PROVE  /\ loads' \in Seq(Load) /\ Len(loads') <= MaxLoads
             /\ \A i \in DOMAIN loads' : DataShape(loads'[i])
             /\ \A a \in Answers' : a \in Answers \/ a.rows \subseteq rows
  <2>1. DataShape(l)
    BY <1>3 DEF DataShape
  <2>2. \A i \in DOMAIN loads' : DataShape(loads'[i])
    BY <1>1, <1>3, <2>1, AskFacts
  <2> QED BY <1>1, <1>3, <2>2, AskFacts DEF Answers
<1>4. CASE UNCHANGED loads
  BY <1>1, <1>4 DEF Answers
<1>5. ASSUME NEW d \in Day, ChooseDay(d)
      PROVE  Ask(Data(d))
  BY <1>5 DEF ChooseDay
<1>6. ASSUME NEW t \in Tabs, SwitchTab(t)
      PROVE  UNCHANGED loads \/ Ask(History(desk.from, desk.to))
  BY <1>6 DEF SwitchTab
<1>7. ASSUME NEW a \in Day, NEW b \in Day, SetRange(a, b)
      PROVE  Ask(History(a, b))
  BY <1>7 DEF SetRange
<1>9. ASSUME NEW i \in DOMAIN loads, Read(i)
      PROVE  /\ loads' \in Seq(Load) /\ Len(loads') <= MaxLoads
             /\ \A j \in DOMAIN loads' : DataShape(loads'[j])
             /\ \A a \in Answers' : a \in Answers \/ a.rows \subseteq rows
  <2>1. loads[i] \in Load
    BY <1>1, LenProperties, ElementOfSeq
  <2>2. loads'[i].got = Reply(loads[i]) /\ Reply(loads[i]).rows \subseteq rows
    BY <1>1, <1>9, <2>1, ReadFacts DEF Load, Reply
  <2>3. /\ loads' \in Seq(Load) /\ Len(loads') = Len(loads) /\ DOMAIN loads' = DOMAIN loads
        /\ \A j \in DOMAIN loads : j # i => loads'[j] = loads[j]
    BY <1>1, <1>9, ReadFacts
  <2>4. ASSUME NEW a \in Answers'
        PROVE  a \in Answers \/ a.rows \subseteq rows
    <3>1. a # None /\ \E j \in DOMAIN loads' : a = loads'[j].got
      BY <2>4 DEF Answers
    <3>2. PICK j \in DOMAIN loads : a = loads'[j].got
      BY <2>3, <3>1
    <3>3. CASE j = i
      BY <2>2, <3>2, <3>3
    <3>4. CASE j # i
      BY <2>3, <3>1, <3>2, <3>4 DEF Answers
    <3> QED BY <3>3, <3>4
  <2>5. \A j \in DOMAIN loads' : DataShape(loads'[j])
    BY <1>1, <1>9, <2>3, ReadFacts
  <2> QED BY <1>1, <2>3, <2>4, <2>5
<1>10. ASSUME NEW i \in DOMAIN loads, Arrive(i) \/ LoseLoad(i)
       PROVE  /\ loads' \in Seq(Load) /\ Len(loads') <= MaxLoads
              /\ \A j \in DOMAIN loads' : DataShape(loads'[j])
              /\ \A a \in Answers' : a \in Answers \/ a.rows \subseteq rows
  <2>1. loads' = RemoveAt(loads, i)
    BY <1>10 DEF Arrive, LoseLoad
  <2> QED BY <1>1, <1>2, <2>1, TakenOff DEF Answers
<1>11. desk.from \in Day /\ desk.to \in Day /\ (call # None => call.onDay \in Day)
  BY <1>1 DEF Page, Change
<1>12. CASE Answered
  <2>1. CASE Ask(Data(call.onDay))
    BY <1>3, <1>11, <1>12, <2>1, LoadIs DEF Answered
  <2> QED BY <1>4, <1>12, <2>1 DEF Answered, BookingSaved, LocoAdded, ListChanged, Failed
<1> QED BY <1>3, <1>4, <1>5, <1>6, <1>7, <1>9, <1>10, <1>11, <1>12, LoadIs, LoadKinds

-----------------------------------------------------------------------------
(* Requests and modals.                                                    *)

LEMMA NothingIs == Nothing \in Content
<1>1. DOMAIN Nothing = {} /\ Nothing \in [{} -> SUBSET Text]
  BY DEF Nothing
<1> QED BY <1>1, ContentIs

LEMMA OfIs ==
  ASSUME desk \in Page, NEW k \in Kinds, NEW g \in Group \union {None}, NEW t \in Time
  PROVE  LET c == Of(k, g, t)
         IN /\ c \in Change /\ c.kind = k /\ c.group = g /\ c.time = t /\ c.at = "open"
            /\ c.loco = None /\ c.job = None /\ c.from = desk.tab /\ c.onDay = desk.day
BY NothingIs DEF Of, Change, Page

LEMMA SendIs ==
  ASSUME desk \in Page, NEW c \in Change, Send(c)
  PROVE  /\ call = None /\ call' \in Change /\ call' # None
         /\ call'.at = "sent" /\ call'.from = desk.tab /\ call'.onDay = desk.day
         /\ call'.kind = c.kind /\ call'.group = c.group /\ call'.time = c.time
         /\ call'.loco = c.loco /\ call'.job = c.job /\ call'.to = c.to
         /\ call'.despatched = c.despatched /\ call'.warned = c.warned
<1>1. call = None /\ call' = [c EXCEPT !.at = "sent", !.from = desk.tab, !.onDay = desk.day]
  BY DEF Send
<1>2. desk.tab \in Tabs /\ desk.day \in Day
  BY DEF Page
<1>3. call' \in Change
  BY <1>1, <1>2 DEF Change
<1> QED BY <1>1, <1>3, NoneAssumption DEF Change

(* A card is about a shift that the page has rows of, and has the time of  *)
(* the last of them.                                                       *)
LEMMA CardIs ==
  ASSUME Shape, NEW g \in Cards
  PROVE  /\ g \in Group /\ CardTime(g) \in Time
         /\ desk.tab \in {"list", "history"} /\ desk.editMode
         /\ \A q \in In(Shown, g) : q.time <= CardTime(g)
         /\ \E r \in In(Shown, g) : r \in Seen /\ r \in Row /\ r.time = CardTime(g)
<1>1. desk.list \subseteq Row /\ desk.history \subseteq Row /\ LastTime \in Nat
  BY BoundsAssumption DEF Shape, TypeOK, Page
<1>2. PICK r : /\ \/ r \in desk.list /\ desk.tab = "list"
                  \/ r \in desk.history /\ desk.tab = "history"
               /\ GroupOf(r) = g /\ desk.editMode
  BY DEF Cards, ListCards, HistoryCards
<1>3. Shown \subseteq Row /\ Shown \subseteq Seen /\ r \in In(Shown, g)
  BY <1>1, <1>2 DEF Shown, In, Seen
<1> DEFINE T == {q.time : q \in In(Shown, g)}
<1>4. \A q \in In(Shown, g) : q \in Row /\ q \in Seen /\ q.time \in 0..LastTime
  BY <1>3 DEF In, Row, Time, Midnight
<1>5. T \in SUBSET (0..LastTime) /\ T # {}
  BY <1>3, <1>4
<1>6. Max(T) \in T /\ \A t \in T : t <= Max(T)
  <2> HIDE DEF T
  <2> QED BY <1>1, <1>5, Greatest
<1>7. CardTime(g) = Max(T)
  BY DEF CardTime
<1>8. g \in Group
  BY <1>2, <1>3, GroupIs DEF In
<1>9. PICK p \in In(Shown, g) : p.time = CardTime(g)
  BY <1>6, <1>7
<1>10. \A q \in In(Shown, g) : q.time <= CardTime(g)
  BY <1>6, <1>7
<1> HIDE DEF T
<1> QED BY <1>2, <1>4, <1>8, <1>9, <1>10 DEF Time, Midnight

LEMMA JobIs ==
  ASSUME Shape, NEW g, NEW j \in JobsOf(g)
  PROVE  g \in Cards /\ j \in Job /\ \E r \in In(Shown, g) : r.job = j
<1>1. desk.list \subseteq Row /\ desk.history \subseteq Row
  BY DEF Shape, TypeOK, Page
<1>2. CASE j \in ListJobs(g)
  BY <1>1, <1>2 DEF ListJobs, Cards, ListCards, Shown, In, Row
<1>3. CASE j \in HistoryJobs(g)
  BY <1>1, <1>3 DEF HistoryJobs, Cards, HistoryCards, Shown, In, Row
<1> QED BY <1>2, <1>3 DEF JobsOf

LEMMA TaskIs ==
  ASSUME Shape, NEW g, NEW r, NEW x, <<r, x>> \in TasksOf(g)
  PROVE  g \in Cards /\ r \in In(Shown, g) /\ r \in Seen /\ r \in Row /\ x \in Text
<1>1. desk.list \subseteq Row /\ desk.history \subseteq Row
  BY DEF Shape, TypeOK, Page
<1>2. CASE <<r, x>> \in ListTasks(g)
  <2>1. r \in In(desk.list, g) /\ x \in Text /\ g \in ListCards
    BY <1>2 DEF ListTasks
  <2> QED BY <1>1, <2>1 DEF Cards, ListCards, Shown, In, Seen
<1>3. CASE <<r, x>> \in HistoryTasks(g)
  <2>1. r \in In(desk.history, g) /\ x \in Text /\ g \in HistoryCards
    BY <1>3 DEF HistoryTasks
  <2> QED BY <1>1, <2>1 DEF Cards, HistoryCards, Shown, In, Seen
<1> QED BY <1>2, <1>3 DEF TasksOf

(* A change that a button of a card, or its modal, stands for: the shift   *)
(* and the time are those of a row that the page has seen.                 *)
OfCard(c) ==
  /\ c \in Change /\ c.kind \in Kinds \ {"create", "loco"} /\ c.group \in Group
  /\ \E r \in Seen \intersect Row : GroupOf(r) = c.group /\ r.time = c.time

LEMMA ButtonIs ==
  ASSUME Shape, NEW g \in Cards, NEW k \in Kinds \ {"create", "loco"}, NEW t,
         t = CardTime(g) \/ \E r \in In(Shown, g) : t = r.time
  PROVE  /\ g \in Group /\ t \in Time /\ OfCard(Of(k, g, t))
         /\ \E r \in In(Shown, g) \intersect Seen \intersect Row : GroupOf(r) = g /\ r.time = t
<1>1. desk \in Page /\ desk.list \subseteq Row /\ desk.history \subseteq Row
  BY DEF Shape, TypeOK, Page
<1>2. \A r \in In(Shown, g) : r \in Row /\ r \in Seen /\ GroupOf(r) = g
  BY <1>1 DEF In, Shown, Seen
<1>3. PICK r \in In(Shown, g) : r.time = t
  BY CardIs
<1>4. g \in Group /\ t \in Time
  BY <1>2, <1>3, CardIs DEF Row
<1>5. /\ Of(k, g, t) \in Change /\ Of(k, g, t).kind = k /\ Of(k, g, t).group = g
      /\ Of(k, g, t).time = t
  BY <1>1, <1>4, OfIs
<1> QED BY <1>2, <1>3, <1>4, <1>5 DEF OfCard

(* Only these steps change the request under way.                          *)
LEMMA CallKinds ==
  ASSUME Next
  PROVE  \/ UNCHANGED call \/ call' = None
         \/ Submit \/ \E l \in Loco, despatched \in BOOLEAN : AddLoco(l, despatched)
         \/ \E g \in Cards :
              \/ DeleteCard(g)
              \/ \E j \in Job : DeleteJob(g, j) \/ \E x \in Text : AddTask(g, j, x)
              \/ \E t \in TasksOf(g) : DeleteTask(g, t[1], t[2])
         \/ \E j \in Job : SaveJob(j) \/ SaveNewJob(j)
         \/ \E x \in Text : SaveTask(x)
         \/ Handle \/ LoseCall
<1>1. CASE FormStep
  BY <1>1 DEF FormStep, PickLoco, DropLoco, OpenAdding, CancelAdding, ChooseDay,
              ChooseShift, ToggleJob, WriteTask
<1>2. CASE ListStep
  BY <1>2 DEF ListStep, SwitchTab, SetRange, ToggleEditMode, AddJob, EditJob, EditTask,
              OpenModal, CloseModal
<1>3. CASE OtherStep
  BY <1>3 DEF OtherStep, OtherBooks, OtherDeletes, OtherCarries, OtherDespatches
<1>4. CASE FaultStep
  BY <1>4 DEF FaultStep, LoseLoad
<1>5. CASE SystemStep
  BY <1>5 DEF SystemStep, Answered, Read, Arrive
<1> QED BY <1>1, <1>2, <1>3, <1>4, <1>5 DEF Next

Same(c, d) == d # None /\ c.kind = d.kind /\ c.group = d.group /\ c.time = d.time

(* A request is a submission, adds a locomotive, is that of a button, or   *)
(* was already there, maybe as a modal.                                    *)
Requested ==
  /\ call' \in Change /\ CallShape(call')
  /\ \/ call'.kind = "loco"
     \/ /\ call'.kind = "create" /\ call'.group = Chosen /\ Chosen \in Group
        /\ call'.time = now /\ now <= LastTime /\ now' = now + 1 /\ rows' = rows
     \/ OfCard(call')
     \/ Same(call', desk.modal) /\ call'.kind # "create"
     \/ Same(call', call) /\ (call' = call \/ call'.at # "sent")

LEMMA CardRequest ==
  ASSUME Shape, NEW g \in Cards, NEW k \in Kinds \ {"create", "loco"}, NEW t,
         t = CardTime(g) \/ \E r \in In(Shown, g) : t = r.time,
         NEW c \in Change, c.kind = k, c.group = g, c.time = t, Send(c), Complete(c),
         k = "addJob" => c.job # None,
         k = "editJob" => c.to \in Job,
         k \in {"addTask", "editTask"} => c.to \in Text
  PROVE  Requested
<1>1. OfCard(Of(k, g, t)) /\ desk \in Page /\ g \in Group
  BY ButtonIs DEF Shape, TypeOK
<1>2. \E r \in Seen \intersect Row : GroupOf(r) = g /\ r.time = t
  BY ButtonIs
<1>3. /\ call' \in Change /\ call'.at = "sent"
      /\ call'.kind = k /\ call'.group = g /\ call'.time = t
      /\ call'.loco = c.loco /\ call'.job = c.job /\ call'.to = c.to
  BY <1>1, SendIs
<1>4. OfCard(call')
  BY <1>1, <1>2, <1>3 DEF OfCard
<1>5. CallShape(call')
  BY <1>3 DEF CallShape, Complete
<1> QED BY <1>3, <1>4, <1>5 DEF Requested

LEMMA RequestStep ==
  ASSUME Stored, Next, call' # None
  PROVE  Requested
<1>1. /\ Shape /\ desk \in Page /\ call \in Change \union {None} /\ now \in 1..(LastTime + 1)
      /\ call # None => CallShape(call)
  BY DEF Stored, Shape, TypeOK
<1>2. CASE UNCHANGED call
  BY <1>1, <1>2 DEF Requested, Same
<1>3. CASE Submit
  <2> DEFINE o == Of("create", Chosen, now)
             c == [o EXCEPT !.content = desk.content, !.warned = desk.hint]
  <2>1. /\ Send(c) /\ now <= LastTime /\ now' = now + 1 /\ rows' = rows /\ desk.loco # None
        /\ desk.tab = "booking"
    BY <1>3 DEF Submit, SubmitShown, JobsShown, OnForm
  <2>2. Chosen \in Group /\ now \in Time
    BY <1>1, <2>1 DEF Chosen, Group, Page, Time, Midnight
  <2>3. o \in Change /\ o.kind = "create" /\ o.group = Chosen /\ o.time = now
    BY <1>1, <2>2, OfIs DEF Kinds
  <2>4. desk.content \in Content /\ desk.hint \in BOOLEAN
    BY <1>1 DEF Page
  <2> HIDE DEF o
  <2>5. c \in Change /\ c.kind = "create" /\ c.group = Chosen /\ c.time = now
    BY <2>3, <2>4 DEF Change
  <2> HIDE DEF c
  <2>6. /\ call' \in Change /\ call'.kind = "create" /\ call'.group = Chosen /\ call'.time = now
        /\ call'.at = "sent" /\ call'.from = "booking"
    BY <1>1, <2>1, <2>5, SendIs
  <2>7. Chosen # None
    BY <2>2, NoneAssumption DEF Change
  <2>8. CallShape(call')
    BY <2>6, <2>7 DEF CallShape, Complete
  <2> QED BY <2>1, <2>2, <2>6, <2>8 DEF Requested
<1>4. ASSUME NEW l \in Loco, NEW v \in BOOLEAN, AddLoco(l, v)
      PROVE  Requested
  <2> DEFINE o == Of("loco", None, Midnight)
             c == [o EXCEPT !.loco = l, !.despatched = v]
  <2>1. Send(c) /\ desk.tab = "booking"
    BY <1>4 DEF AddLoco, OnForm
  <2>2. Midnight \in Time
    BY BoundsAssumption DEF Time, Midnight
  <2>3. o \in Change /\ o.kind = "loco"
    BY <1>1, <2>2, OfIs DEF Kinds
  <2> HIDE DEF o
  <2>4. c \in Change /\ c.kind = "loco" /\ c.loco = l
    BY <2>3 DEF Change
  <2> HIDE DEF c
  <2>5. /\ call' \in Change /\ call'.kind = "loco" /\ call'.loco = l
        /\ call'.at = "sent" /\ call'.from = "booking"
    BY <1>1, <2>1, <2>4, SendIs
  <2>6. CallShape(call')
    BY <2>5, NoneAssumption DEF CallShape, Complete
  <2> QED BY <2>5, <2>6 DEF Requested
<1>5. ASSUME NEW g \in Cards, DeleteCard(g)
      PROVE  Requested
  <2> DEFINE c == Of("deleteCard", g, CardTime(g))
  <2>1. c \in Change /\ c.kind = "deleteCard" /\ c.group = g /\ c.time = CardTime(g) /\ g \in Group
    BY <1>1, CardIs, OfIs DEF Kinds
  <2>2. Send(c) /\ Complete(c)
    BY <1>5, <2>1, NoneAssumption DEF DeleteCard, Complete
  <2> HIDE DEF c
  <2> QED BY <1>1, <2>1, <2>2, CardRequest DEF Kinds
<1>6. ASSUME NEW g \in Cards, NEW j \in Job, DeleteJob(g, j)
      PROVE  Requested
  <2> DEFINE o == Of("deleteJob", g, CardTime(g))
             c == [o EXCEPT !.job = j]
  <2>1. o \in Change /\ o.kind = "deleteJob" /\ o.group = g /\ o.time = CardTime(g) /\ g \in Group
    BY <1>1, CardIs, OfIs DEF Kinds
  <2>2. Send(c)
    BY <1>6 DEF DeleteJob
  <2> HIDE DEF o
  <2>3. c \in Change /\ c.kind = "deleteJob" /\ c.group = g /\ c.time = CardTime(g) /\ c.job = j
    BY <2>1 DEF Change
  <2> HIDE DEF c
  <2>4. Complete(c)
    BY <2>1, <2>3, NoneAssumption DEF Complete
  <2> QED BY <1>1, <2>2, <2>3, <2>4, CardRequest DEF Kinds
<1>7. ASSUME NEW g \in Cards, NEW j \in Job, NEW x \in Text, AddTask(g, j, x)
      PROVE  Requested
  <2> DEFINE o == Of("addTask", g, CardTime(g))
             c == [o EXCEPT !.job = j, !.to = x]
  <2>1. o \in Change /\ o.kind = "addTask" /\ o.group = g /\ o.time = CardTime(g) /\ g \in Group
    BY <1>1, CardIs, OfIs DEF Kinds
  <2>2. Send(c)
    BY <1>7 DEF AddTask
  <2> HIDE DEF o
  <2>3. /\ c \in Change /\ c.kind = "addTask" /\ c.group = g /\ c.time = CardTime(g) /\ c.job = j
        /\ c.to = x
    BY <2>1 DEF Change
  <2> HIDE DEF c
  <2>4. Complete(c)
    BY <2>1, <2>3, NoneAssumption DEF Complete
  <2> QED BY <1>1, <2>2, <2>3, <2>4, CardRequest DEF Kinds
<1>8. ASSUME NEW g \in Cards, NEW r, NEW x, DeleteTask(g, r, x)
      PROVE  Requested
  <2> DEFINE o == Of("deleteTask", g, r.time)
             c == [o EXCEPT !.job = r.job, !.text = x]
  <2>1. r \in Row /\ r \in In(Shown, g) /\ x \in Text /\ g \in Group
    BY <1>1, <1>8, TaskIs, CardIs DEF DeleteTask
  <2>2. o \in Change /\ o.kind = "deleteTask" /\ o.group = g /\ o.time = r.time
    BY <1>1, <2>1, OfIs DEF Kinds, Row
  <2>3. Send(c)
    BY <1>8 DEF DeleteTask
  <2> HIDE DEF o
  <2>4. r.job \in Job
    BY <2>1 DEF Row
  <2>5. /\ c \in Change /\ c.kind = "deleteTask" /\ c.group = g /\ c.time = r.time /\ c.job = r.job
    BY <2>1, <2>2, <2>4 DEF Change
  <2> HIDE DEF c
  <2>6. Complete(c)
    BY <2>1, <2>4, <2>5, NoneAssumption DEF Complete
  <2> QED BY <1>1, <2>1, <2>3, <2>5, <2>6, CardRequest DEF Kinds
<1>9. ASSUME NEW j \in Job, SaveJob(j) \/ SaveNewJob(j)
      PROVE  Requested
  <2>1. /\ desk.modal # None /\ desk.modal \in Change /\ ModalShape(desk.modal)
    BY <1>1, <1>9 DEF SaveJob, SaveNewJob, Shape, Page
  <2> DEFINE c == IF desk.modal.kind = "editJob" THEN [desk.modal EXCEPT !.to = j]
                                                ELSE [desk.modal EXCEPT !.job = j]
  <2>2. Send(c)
    BY <1>9 DEF SaveJob, SaveNewJob
  <2>3. /\ c \in Change /\ c.kind = desk.modal.kind /\ c.group = desk.modal.group
        /\ c.time = desk.modal.time /\ c.kind \in {"editJob", "addJob"}
        /\ c.kind = "editJob" => c.to = j /\ c.job = desk.modal.job
        /\ c.kind = "addJob" => c.job = j
    BY <1>9, <2>1 DEF SaveJob, SaveNewJob, Change
  <2> HIDE DEF c
  <2>4. /\ call' \in Change /\ call'.at = "sent" /\ Same(call', desk.modal)
        /\ call'.kind = c.kind /\ call'.job = c.job /\ call'.to = c.to /\ call'.group = c.group
    BY <1>1, <2>1, <2>2, <2>3, SendIs DEF Same
  <2>5. CallShape(call')
    BY <2>1, <2>3, <2>4, NoneAssumption DEF CallShape, Complete, ModalShape
  <2> QED BY <2>3, <2>4, <2>5 DEF Requested
<1>10. ASSUME NEW x \in Text, SaveTask(x)
       PROVE  Requested
  <2>1. /\ desk.modal # None /\ desk.modal \in Change /\ ModalShape(desk.modal)
    BY <1>1, <1>10 DEF SaveTask, Shape, Page
  <2> DEFINE c == [desk.modal EXCEPT !.to = x]
  <2>2. Send(c)
    BY <1>10 DEF SaveTask
  <2>3. /\ c \in Change /\ c.kind = desk.modal.kind /\ c.group = desk.modal.group
        /\ c.time = desk.modal.time /\ c.kind = "editTask" /\ c.to = x /\ c.job = desk.modal.job
    BY <1>10, <2>1 DEF SaveTask, Change
  <2> HIDE DEF c
  <2>4. /\ call' \in Change /\ call'.at = "sent" /\ Same(call', desk.modal)
        /\ call'.kind = c.kind /\ call'.job = c.job /\ call'.to = c.to /\ call'.group = c.group
    BY <1>1, <2>1, <2>2, <2>3, SendIs DEF Same
  <2>5. CallShape(call')
    BY <2>1, <2>3, <2>4, NoneAssumption DEF CallShape, Complete, ModalShape
  <2> QED BY <2>3, <2>4, <2>5 DEF Requested
<1>11. CASE Handle \/ LoseCall
  <2>1. PICK a \in {"done", "refused", "lost"} : call # None /\ call' = [call EXCEPT !.at = a]
    BY <1>11 DEF Handle, LoseCall
  <2>2. call \in Change /\ CallShape(call)
    BY <1>1, <2>1
  <2>3. /\ call' \in Change /\ call'.at = a /\ Same(call', call)
        /\ call'.loco = call.loco /\ call'.job = call.job /\ call'.to = call.to
        /\ call'.from = call.from
    BY <2>1, <2>2 DEF Change, Same
  <2>4. CallShape(call')
    BY <2>2, <2>3 DEF CallShape, Complete, Same
  <2> QED BY <2>3, <2>4 DEF Requested
<1> QED BY <1>2, <1>3, <1>4, <1>5, <1>6, <1>7, <1>8, <1>9, <1>10, <1>11, CallKinds

-----------------------------------------------------------------------------
(* What the page shows.                                                    *)

LEMMA InFormIs ==
  ASSUME NEW R \in SUBSET Row
  PROVE  InForm(R) \in Content
<1> DEFINE J == {r.job : r \in R}
           T(j) == UNION {r.tasks : r \in {q \in R : q.job = j}}
<1>1. J \subseteq Job /\ \A j \in J : T(j) \in SUBSET Text
  BY DEF Row
<1>2. InForm(R) = [j \in J |-> T(j)]
  BY DEF InForm
<1> HIDE DEF J, T
<1>3. InForm(R) \in [J -> SUBSET Text] /\ DOMAIN InForm(R) = J
  BY <1>1, <1>2
<1> QED BY <1>1, <1>3, ContentIs

ShiftOf(d) == [loco |-> d.loco, day |-> d.day, shift |-> d.shift]

(* The form is about the chosen shift, all else stays.                     *)
LEMMA FilledIs ==
  ASSUME NEW d \in Page
  PROVE  LET e == Filled(d)
             R == In(d.list, ShiftOf(d))
         IN /\ e \in Page
            /\ e.loco = d.loco /\ e.day = d.day /\ e.shift = d.shift /\ e.list = d.list
            /\ e.history = d.history /\ e.locos = d.locos /\ e.tab = d.tab /\ e.modal = d.modal
            /\ e.editMode = d.editMode /\ e.loading = d.loading
            /\ d.loco = None => e.content = d.content /\ e.hint = d.hint
            /\ d.loco # None => e.content = InForm(R) /\ e.hint = (R # {})
<1> DEFINE R == In(d.list, ShiftOf(d))
<1>1. R \in SUBSET Row
  BY DEF In, Page
<1>2. Filled(d) = IF d.loco = None THEN d ELSE [d EXCEPT !.content = InForm(R), !.hint = (R # {})]
  BY DEF Filled, ShiftOf
<1>3. InForm(R) \in Content /\ (R # {}) \in BOOLEAN
  BY <1>1, InFormIs
<1> HIDE DEF R
<1> DEFINE c == InForm(R)
           h == R # {}
<1>4. c \in Content /\ h \in BOOLEAN
  BY <1>3
<1>5. Filled(d) = IF d.loco = None THEN d ELSE [d EXCEPT !.content = c, !.hint = h]
  BY <1>2
<1> HIDE DEF c, h
<1>6. CASE d.loco = None
  BY <1>5, <1>6
<1>7. CASE d.loco # None
  <2>1. Filled(d) = [d EXCEPT !.content = c, !.hint = h]
    BY <1>5, <1>7
  <2> DEFINE e == [d EXCEPT !.content = c, !.hint = h]
  <2>2. /\ e \in Page
        /\ e.loco = d.loco /\ e.day = d.day /\ e.shift = d.shift /\ e.list = d.list
        /\ e.history = d.history /\ e.locos = d.locos /\ e.tab = d.tab /\ e.modal = d.modal
        /\ e.editMode = d.editMode /\ e.loading = d.loading
        /\ e.content = c /\ e.hint = h
    BY <1>4 DEF Page
  <2> HIDE DEF e
  <2> QED BY <1>7, <2>1, <2>2 DEF c, h, R, e
<1> QED BY <1>6, <1>7

(* What is on the screen after a step.                                     *)
Screen ==
  /\ desk' \in Page /\ touched' \in BOOLEAN /\ calm' \in BOOLEAN
  /\ desk'.loco = None => desk'.content = Nothing /\ ~desk'.hint /\ ~touched'
  /\ desk'.modal # None => /\ desk'.editMode /\ ModalShape(desk'.modal)
                           /\ desk'.modal = desk.modal \/ OfCard(desk'.modal)
  /\ desk'.list = desk.list \/ \E a \in Answers : desk'.list = a.rows
  /\ desk'.history = desk.history \/ \E a \in Answers : desk'.history = a.rows
  /\ desk'.loading => call' # None /\ call'.kind \in {"create", "loco"}

(* The calm of a step.                                                     *)
LEMMA CalmIs ==
  ASSUME Shape, Next
  PROVE  calm' \in BOOLEAN /\ (calm' => calm)
<1>0. calm \in BOOLEAN
  BY DEF Shape, TypeOK
<1>1. CASE FormStep
  BY <1>0, <1>1 DEF FormStep, PickLoco, AddLoco, DropLoco, OpenAdding, CancelAdding, Submit,
     ChooseDay, ChooseShift, ToggleJob, WriteTask, Act
<1>2. CASE ListStep
  BY <1>0, <1>2 DEF ListStep, SwitchTab, SetRange, ToggleEditMode, DeleteCard, AddJob, DeleteJob,
     EditJob, AddTask, DeleteTask, EditTask, OpenModal, CloseModal, SaveJob, SaveNewJob, SaveTask, Act
<1>3. CASE OtherStep
  BY <1>3 DEF OtherStep, OtherBooks, OtherDeletes, OtherCarries, OtherDespatches
<1>4. CASE FaultStep
  BY <1>4 DEF FaultStep, LoseCall, LoseLoad
<1>5. CASE SystemStep
  <2>1. ASSUME Handle PROVE calm' = calm
    BY <2>1 DEF Handle
  <2>2. ASSUME Answered PROVE calm' = calm
    BY <2>2 DEF Answered
  <2>3. ASSUME NEW i \in DOMAIN loads, Read(i) \/ Arrive(i)
        PROVE  calm' = calm
    <3>1. CASE Read(i)
      BY <3>1, Zenon DEF Read
    <3>2. CASE Arrive(i)
      BY <3>2, Zenon DEF Arrive
    <3> QED BY <2>3, <3>1, <3>2
  <2>4. calm' = calm
    BY <1>5, <2>1, <2>2, <2>3 DEF SystemStep
  <2> QED BY <1>0, <2>4
<1> QED BY <1>1, <1>2, <1>3, <1>4, <1>5 DEF Next

LEMMA SameScreen ==
  ASSUME Shape, Next, UNCHANGED <<desk, touched>>,
         call = None \/ call' = call \/ (call' # None /\ call'.kind = call.kind)
  PROVE  Screen
BY CalmIs DEF Screen, Shape, TypeOK

LEMMA FormScreen ==
  ASSUME Shape, FormStep
  PROVE  Screen
<1>0. /\ desk \in Page /\ touched \in BOOLEAN /\ calm' \in BOOLEAN
      /\ desk.loco = None => desk.content = Nothing /\ ~desk.hint /\ ~touched
      /\ desk.loading => call # None /\ call.kind \in {"create", "loco"}
  BY CalmIs DEF Shape, TypeOK, Next
<1>1. ASSUME NEW l \in Loco, PickLoco(l)
      PROVE  Screen
  <2> DEFINE d == [desk EXCEPT !.loco = l]
  <2>1. d \in Page /\ d.loco # None /\ d.list = desk.list /\ d.history = desk.history
        /\ d.modal = desk.modal /\ d.loading = desk.loading
    BY <1>0, NoneAssumption DEF Page
  <2>2. desk' = Filled(d) /\ ~touched' /\ desk.modal = None /\ call' = call /\ touched' \in BOOLEAN
    BY <1>1 DEF PickLoco, Act
  <2> HIDE DEF d
  <2> QED BY <1>0, <2>1, <2>2, FilledIs DEF Screen
<1>2. ASSUME NEW l \in Loco, NEW v \in BOOLEAN, AddLoco(l, v)
      PROVE  Screen
  <2>1. /\ desk' = [desk EXCEPT !.loading = TRUE] /\ touched' = touched /\ desk.modal = None
        /\ Send([Of("loco", None, Midnight) EXCEPT !.loco = l, !.despatched = v])
    BY <1>2 DEF AddLoco, Act
  <2>2. call' # None /\ call'.kind = "loco"
    <3> DEFINE o == Of("loco", None, Midnight)
               c == [o EXCEPT !.loco = l, !.despatched = v]
    <3>1. Midnight \in Time
      BY BoundsAssumption DEF Time, Midnight
    <3>2. o \in Change /\ o.kind = "loco"
      BY <1>0, <3>1, OfIs DEF Kinds
    <3> HIDE DEF o
    <3>3. c \in Change /\ c.kind = "loco" /\ Send(c)
      BY <2>1, <3>2 DEF Change, o
    <3> HIDE DEF c
    <3> QED BY <1>0, <3>3, SendIs
  <2>3. /\ desk' \in Page /\ desk'.loco = desk.loco /\ desk'.content = desk.content
        /\ desk'.hint = desk.hint /\ desk'.modal = None
        /\ desk'.list = desk.list /\ desk'.history = desk.history
    BY <1>0, <2>1 DEF Page
  <2> QED BY <1>0, <2>1, <2>2, <2>3 DEF Screen
<1>3. CASE DropLoco
  <2>1. /\ desk' = [desk EXCEPT !.loco = None, !.content = Nothing, !.hint = FALSE]
        /\ touched' = FALSE /\ desk.modal = None /\ call' = call
    BY <1>3 DEF DropLoco, Act, Emptied
  <2>2. /\ desk' \in Page /\ desk'.content = Nothing /\ desk'.hint = FALSE
        /\ desk'.list = desk.list /\ desk'.history = desk.history /\ desk'.modal = desk.modal
        /\ desk'.loading = desk.loading
    BY <1>0, <2>1, NothingIs DEF Page
  <2> QED BY <1>0, <2>1, <2>2 DEF Screen
<1>4. CASE OpenAdding \/ CancelAdding
  <2>1. PICK a \in BOOLEAN : desk' = [desk EXCEPT !.adding = a]
    BY <1>4 DEF OpenAdding, CancelAdding
  <2>2. UNCHANGED <<call, touched>> /\ desk.modal = None
    BY <1>4 DEF OpenAdding, CancelAdding, Act
  <2>3. /\ desk' \in Page /\ desk'.content = desk.content /\ desk'.hint = desk.hint
        /\ desk'.list = desk.list /\ desk'.history = desk.history /\ desk'.modal = desk.modal
        /\ desk'.loading = desk.loading /\ desk'.loco = desk.loco
    BY <1>0, <2>1 DEF Page
  <2> QED BY <1>0, <2>2, <2>3 DEF Screen
<1>5. CASE Submit
  <2>1. /\ desk' = [desk EXCEPT !.loading = TRUE, !.hint = FALSE] /\ touched' = touched
        /\ desk.modal = None /\ desk.loco # None /\ now <= LastTime
        /\ Send([Of("create", Chosen, now) EXCEPT !.content = desk.content, !.warned = desk.hint])
    BY <1>5 DEF Submit, SubmitShown, JobsShown, Act
  <2>2. call' # None /\ call'.kind = "create"
    <3> DEFINE o == Of("create", Chosen, now)
               c == [o EXCEPT !.content = desk.content, !.warned = desk.hint]
    <3>1. Chosen \in Group /\ now \in Time
      BY <1>0, <2>1 DEF Chosen, Group, Page, Time, Midnight, Shape, TypeOK
    <3>2. o \in Change /\ o.kind = "create"
      BY <1>0, <3>1, OfIs DEF Kinds
    <3>3. desk.content \in Content /\ desk.hint \in BOOLEAN
      BY <1>0 DEF Page
    <3> HIDE DEF o
    <3>4. c \in Change /\ c.kind = "create" /\ Send(c)
      BY <2>1, <3>2, <3>3 DEF Change, o
    <3> HIDE DEF c
    <3> QED BY <1>0, <3>4, SendIs
  <2>3. /\ desk' \in Page /\ desk'.loco = desk.loco /\ desk'.modal = None
        /\ desk'.list = desk.list /\ desk'.history = desk.history
    BY <1>0, <2>1 DEF Page
  <2> QED BY <1>0, <2>1, <2>2, <2>3 DEF Screen
<1>6. ASSUME NEW x \in Day, ChooseDay(x)
      PROVE  Screen
  <2> DEFINE d == [desk EXCEPT !.day = x]
  <2>1. d \in Page /\ d.loco # None /\ d.list = desk.list /\ d.history = desk.history
        /\ d.modal = desk.modal /\ d.loading = desk.loading
    BY <1>0, <1>6 DEF Page, ChooseDay, DateShown
  <2>2. desk' = Filled(d) /\ ~touched' /\ desk.modal = None /\ call' = call /\ touched' \in BOOLEAN
    BY <1>6 DEF ChooseDay, Act
  <2> HIDE DEF d
  <2> QED BY <1>0, <2>1, <2>2, FilledIs DEF Screen
<1>7. ASSUME NEW s \in Shift, ChooseShift(s)
      PROVE  Screen
  <2> DEFINE d == [desk EXCEPT !.shift = s]
  <2>1. d \in Page /\ d.loco # None /\ d.list = desk.list /\ d.history = desk.history
        /\ d.modal = desk.modal /\ d.loading = desk.loading
    BY <1>0, <1>7 DEF Page, ChooseShift, DateShown
  <2>2. desk' = Filled(d) /\ ~touched' /\ desk.modal = None /\ call' = call /\ touched' \in BOOLEAN
    BY <1>7 DEF ChooseShift, Act
  <2> HIDE DEF d
  <2> QED BY <1>0, <2>1, <2>2, FilledIs DEF Screen
<1>8. ASSUME NEW j \in Job, ToggleJob(j) \/ \E x \in Text : WriteTask(j, x)
      PROVE  Screen
  <2>1. desk.loco # None /\ desk.modal = None /\ touched' = TRUE /\ call' = call
    BY <1>8 DEF ToggleJob, WriteTask, TasksShown, JobsShown, Act
  <2>2. PICK c \in Content : desk' = [desk EXCEPT !.content = c]
    <3>1. desk.content \in Content
      BY <1>0 DEF Page
    <3>2. DOMAIN desk.content \subseteq Job /\ desk.content \in [DOMAIN desk.content -> SUBSET Text]
      BY <3>1, ContentIs
    <3>3. CASE ToggleJob(j)
      <4> DEFINE J == DOMAIN desk.content
                 K == IF j \in J THEN J \ {j} ELSE J \union {j}
                 c == IF j \in J THEN [k \in J \ {j} |-> desk.content[k]]
                      ELSE [k \in J \union {j} |-> IF k = j THEN {} ELSE desk.content[k]]
      <4>1. desk' = [desk EXCEPT !.content = c]
        BY <3>3 DEF ToggleJob
      <4>2. K \subseteq Job /\ c \in [K -> SUBSET Text] /\ DOMAIN c = K
        BY <3>2
      <4> HIDE DEF c, K
      <4>3. c \in Content
        BY <4>2, ContentIs
      <4> QED BY <4>1, <4>3
    <3>4. ASSUME NEW x \in Text, WriteTask(j, x)
          PROVE  \E c \in Content : desk' = [desk EXCEPT !.content = c]
      <4> DEFINE T == SymDiff(desk.content[j], {x})
                 c == [desk.content EXCEPT ![j] = T]
      <4>1. desk' = [desk EXCEPT !.content = c] /\ j \in DOMAIN desk.content
        BY <3>4 DEF WriteTask, TasksShown
      <4>2. T \in SUBSET Text
        BY <3>2, <4>1 DEF SymDiff
      <4> HIDE DEF T
      <4>3. c \in [DOMAIN desk.content -> SUBSET Text] /\ DOMAIN c = DOMAIN desk.content
        BY <3>2, <4>2
      <4> HIDE DEF c
      <4>4. c \in Content
        BY <3>2, <4>3, ContentIs
      <4> QED BY <4>1, <4>4
    <3> QED BY <1>8, <3>3, <3>4
  <2>3. /\ desk' \in Page /\ desk'.loco = desk.loco /\ desk'.modal = desk.modal
        /\ desk'.list = desk.list /\ desk'.history = desk.history /\ desk'.loading = desk.loading
    BY <1>0, <2>2 DEF Page
  <2> QED BY <1>0, <2>1, <2>3 DEF Screen
<1> QED BY <1>1, <1>2, <1>3, <1>4, <1>5, <1>6, <1>7, <1>8 DEF FormStep

LEMMA ModalScreen ==
  ASSUME Shape, NEW g \in Cards, NEW k \in {"editJob", "editTask", "addJob"}, NEW t,
         t = CardTime(g) \/ \E r \in In(Shown, g) : t = r.time,
         NEW m \in Change, m.kind = k, m.group = g, m.time = t, m.at = "open", Complete(m),
         OpenModal(m), Next
  PROVE  Screen
<1>1. g \in Group /\ \E r \in Seen \intersect Row : GroupOf(r) = g /\ r.time = t
  BY ButtonIs DEF Kinds
<1>2. OfCard(m) /\ ModalShape(m)
  BY <1>1 DEF OfCard, ModalShape, Kinds
<1>3. /\ desk \in Page /\ touched \in BOOLEAN /\ calm' \in BOOLEAN /\ desk.editMode
      /\ desk.loco = None => desk.content = Nothing /\ ~desk.hint /\ ~touched
      /\ desk.loading => call # None /\ call.kind \in {"create", "loco"}
  BY CalmIs, CardIs DEF Shape, TypeOK
<1>4. desk' = [desk EXCEPT !.modal = m] /\ UNCHANGED <<touched, call>>
  BY DEF OpenModal
<1>5. /\ desk' \in Page /\ desk'.loco = desk.loco /\ desk'.modal = m
      /\ desk'.list = desk.list /\ desk'.history = desk.history /\ desk'.loading = desk.loading
      /\ desk'.content = desk.content /\ desk'.hint = desk.hint /\ desk'.editMode = desk.editMode
  BY <1>3, <1>4 DEF Page
<1> QED BY <1>2, <1>3, <1>4, <1>5 DEF Screen

LEMMA ListScreen ==
  ASSUME Shape, ListStep
  PROVE  Screen
<1>0. /\ desk \in Page /\ touched \in BOOLEAN /\ calm' \in BOOLEAN /\ Next
      /\ desk.loco = None => desk.content = Nothing /\ ~desk.hint /\ ~touched
      /\ desk.loading => call # None /\ call.kind \in {"create", "loco"}
      /\ desk.modal # None => desk.editMode /\ ModalShape(desk.modal)
  BY CalmIs DEF Shape, TypeOK, Next
<1>1. ASSUME NEW t \in Tabs, SwitchTab(t)
      PROVE  Screen
  <2>1. desk' = [desk EXCEPT !.tab = t] /\ UNCHANGED <<call, touched>>
    BY <1>1 DEF SwitchTab
  <2>2. /\ desk' \in Page /\ desk'.loco = desk.loco /\ desk'.modal = desk.modal
        /\ desk'.list = desk.list /\ desk'.history = desk.history /\ desk'.loading = desk.loading
        /\ desk'.content = desk.content /\ desk'.hint = desk.hint /\ desk'.editMode = desk.editMode
    BY <1>0, <2>1 DEF Page
  <2> QED BY <1>0, <2>1, <2>2 DEF Screen
<1>2. ASSUME NEW a \in Day, NEW b \in Day, SetRange(a, b)
      PROVE  Screen
  <2>1. desk' = [desk EXCEPT !.from = a, !.to = b] /\ UNCHANGED <<call, touched>>
    BY <1>2 DEF SetRange
  <2>2. /\ desk' \in Page /\ desk'.loco = desk.loco /\ desk'.modal = desk.modal
        /\ desk'.list = desk.list /\ desk'.history = desk.history /\ desk'.loading = desk.loading
        /\ desk'.content = desk.content /\ desk'.hint = desk.hint /\ desk'.editMode = desk.editMode
    BY <1>0, <2>1 DEF Page
  <2> QED BY <1>0, <2>1, <2>2 DEF Screen
<1>3. CASE ToggleEditMode
  <2>1. /\ desk' = [desk EXCEPT !.editMode = ~desk.editMode] /\ desk.modal = None
        /\ UNCHANGED <<call, touched>>
    BY <1>3 DEF ToggleEditMode, Act
  <2>2. /\ desk' \in Page /\ desk'.loco = desk.loco /\ desk'.modal = desk.modal
        /\ desk'.list = desk.list /\ desk'.history = desk.history /\ desk'.loading = desk.loading
        /\ desk'.content = desk.content /\ desk'.hint = desk.hint
    BY <1>0, <2>1 DEF Page
  <2> QED BY <1>0, <2>1, <2>2 DEF Screen
<1>4. ASSUME NEW g \in Cards,
             \/ DeleteCard(g)
             \/ \E j \in Job : DeleteJob(g, j) \/ \E x \in Text : AddTask(g, j, x)
             \/ \E t \in TasksOf(g) : DeleteTask(g, t[1], t[2])
      PROVE  Screen
  <2>1. UNCHANGED <<desk, touched>> /\ call = None
    BY <1>4 DEF DeleteCard, DeleteJob, AddTask, DeleteTask, Send
  <2> QED BY <1>0, <2>1, SameScreen
<1>5. ASSUME NEW g \in Cards, AddJob(g)
      PROVE  Screen
  <2> DEFINE m == Of("addJob", g, CardTime(g))
  <2>1. /\ m \in Change /\ m.kind = "addJob" /\ m.group = g /\ m.time = CardTime(g)
        /\ m.at = "open" /\ g \in Group
    BY <1>0, CardIs, OfIs DEF Kinds
  <2>2. OpenModal(m) /\ Complete(m)
    BY <1>5, <2>1, NoneAssumption DEF AddJob, Complete
  <2> HIDE DEF m
  <2> QED BY <1>0, <2>1, <2>2, ModalScreen
<1>6. ASSUME NEW g \in Cards, NEW j \in Job, EditJob(g, j)
      PROVE  Screen
  <2> DEFINE o == Of("editJob", g, CardTime(g))
             m == [o EXCEPT !.job = j]
  <2>1. /\ o \in Change /\ o.kind = "editJob" /\ o.group = g /\ o.time = CardTime(g)
        /\ o.at = "open" /\ g \in Group
    BY <1>0, CardIs, OfIs DEF Kinds
  <2>2. OpenModal(m)
    BY <1>6 DEF EditJob
  <2> HIDE DEF o
  <2>3. /\ m \in Change /\ m.kind = "editJob" /\ m.group = g /\ m.time = CardTime(g) /\ m.at = "open"
        /\ m.job = j
    BY <2>1 DEF Change
  <2> HIDE DEF m
  <2>4. Complete(m)
    BY <2>1, <2>3, NoneAssumption DEF Complete
  <2> QED BY <1>0, <2>2, <2>3, <2>4, ModalScreen
<1>7. ASSUME NEW g \in Cards, NEW r, NEW x, EditTask(g, r, x)
      PROVE  Screen
  <2> DEFINE o == Of("editTask", g, r.time)
             m == [o EXCEPT !.job = r.job, !.text = x]
  <2>1. r \in Row /\ r \in In(Shown, g) /\ x \in Text /\ g \in Group
    BY <1>7, TaskIs, CardIs DEF EditTask
  <2>2. o \in Change /\ o.kind = "editTask" /\ o.group = g /\ o.time = r.time /\ o.at = "open"
    BY <1>0, <2>1, OfIs DEF Kinds, Row
  <2>3. OpenModal(m)
    BY <1>7 DEF EditTask
  <2> HIDE DEF o
  <2>4. r.job \in Job
    BY <2>1 DEF Row
  <2>5. /\ m \in Change /\ m.kind = "editTask" /\ m.group = g /\ m.time = r.time /\ m.at = "open"
        /\ m.job = r.job
    BY <2>1, <2>2, <2>4 DEF Change
  <2> HIDE DEF m
  <2>6. Complete(m)
    BY <2>1, <2>4, <2>5, NoneAssumption DEF Complete
  <2> QED BY <1>0, <2>1, <2>3, <2>5, <2>6, ModalScreen
<1>8. CASE CloseModal
  <2>1. desk' = [desk EXCEPT !.modal = None] /\ UNCHANGED <<call, touched>>
    BY <1>8 DEF CloseModal
  <2>2. /\ desk' \in Page /\ desk'.loco = desk.loco /\ desk'.modal = None
        /\ desk'.list = desk.list /\ desk'.history = desk.history /\ desk'.loading = desk.loading
        /\ desk'.content = desk.content /\ desk'.hint = desk.hint
    BY <1>0, <2>1 DEF Page
  <2> QED BY <1>0, <2>1, <2>2 DEF Screen
<1>9. ASSUME \/ \E j \in Job : SaveJob(j) \/ SaveNewJob(j)
             \/ \E x \in Text : SaveTask(x)
      PROVE  Screen
  <2>1. UNCHANGED <<desk, touched>> /\ call = None
    BY <1>9 DEF SaveJob, SaveNewJob, SaveTask, Send
  <2> QED BY <1>0, <2>1, SameScreen
<1> QED BY <1>1, <1>2, <1>3, <1>4, <1>5, <1>6, <1>7, <1>8, <1>9 DEF ListStep, Tabs

LEMMA AnsweredScreen ==
  ASSUME Shape, Answered, Next
  PROVE  Screen
<1>0. /\ desk \in Page /\ touched \in BOOLEAN /\ calm' \in BOOLEAN
      /\ desk.loco = None => desk.content = Nothing /\ ~desk.hint /\ ~touched
      /\ desk.loading => call.kind \in {"create", "loco"}
      /\ desk.modal # None => desk.editMode /\ ModalShape(desk.modal)
      /\ call # None /\ call \in Change /\ CallShape(call) /\ call' = None
  BY CalmIs DEF Shape, TypeOK, Answered
<1>1. CASE BookingSaved
  <2>1. desk' = [[desk EXCEPT !.loco = None, !.content = Nothing, !.hint = FALSE]
                   EXCEPT !.loading = FALSE]
        /\ touched' = FALSE
    BY <1>1 DEF BookingSaved, Ready, Emptied
  <2>2. /\ desk' \in Page /\ desk'.content = Nothing /\ desk'.hint = FALSE /\ desk'.modal = desk.modal
        /\ desk'.list = desk.list /\ desk'.history = desk.history /\ desk'.loading = FALSE
        /\ desk'.editMode = desk.editMode
    BY <1>0, <2>1, NothingIs DEF Page
  <2> QED BY <1>0, <2>1, <2>2 DEF Screen
<1>2. CASE LocoAdded
  <2> DEFINE w == With(desk.locos, call.loco, call.despatched)
             d == [desk EXCEPT !.locos = w, !.loco = call.loco, !.adding = FALSE]
             e == Filled(d)
  <2>1. call.loco \in Loco /\ call.despatched \in BOOLEAN /\ desk.locos \in LocoTable
    BY <1>0, <1>2 DEF LocoAdded, CallShape, Complete, Change, Page
  <2>2. w \in LocoTable
    BY <2>1, WithType, Zenon
  <2>3. desk' = Ready(e) /\ touched' = FALSE
    BY <1>2 DEF LocoAdded
  <2> HIDE DEF w
  <2>4. /\ d \in Page /\ d.loco # None /\ d.list = desk.list /\ d.history = desk.history
        /\ d.modal = desk.modal /\ d.editMode = desk.editMode
    BY <1>0, <2>1, <2>2, NoneAssumption DEF Page
  <2> HIDE DEF d
  <2>5. /\ e \in Page /\ e.loco # None /\ e.list = desk.list /\ e.history = desk.history
        /\ e.modal = desk.modal /\ e.editMode = desk.editMode
    BY <2>4, FilledIs
  <2> HIDE DEF e
  <2>6. /\ desk' \in Page /\ desk'.loco # None /\ desk'.list = desk.list /\ desk'.history = desk.history
        /\ desk'.modal = desk.modal /\ desk'.editMode = desk.editMode /\ desk'.loading = FALSE
    BY <2>3, <2>5 DEF Page, Ready
  <2> QED BY <1>0, <2>3, <2>6 DEF Screen
<1>3. CASE ListChanged
  <2>1. PICK m \in {desk.modal, None} : desk' = [desk EXCEPT !.modal = m]
    BY <1>3 DEF ListChanged
  <2>2. touched' = touched /\ ~desk.loading
    BY <1>0, <1>3 DEF ListChanged
  <2>3. /\ desk' \in Page /\ desk'.loco = desk.loco /\ desk'.modal = m
        /\ desk'.list = desk.list /\ desk'.history = desk.history /\ desk'.loading = desk.loading
        /\ desk'.content = desk.content /\ desk'.hint = desk.hint /\ desk'.editMode = desk.editMode
    BY <1>0, <2>1 DEF Page
  <2> QED BY <1>0, <2>1, <2>2, <2>3 DEF Screen
<1>4. CASE Failed
  <2>1. PICK h \in {desk.hint, FALSE}, b \in {desk.loading, FALSE} :
          desk' = [[desk EXCEPT !.hint = h] EXCEPT !.loading = b]
          /\ (call.kind \in {"create", "loco"} => b = FALSE)
    <3>1. /\ desk.hint = [desk EXCEPT !.hint = desk.hint].hint
          /\ desk = [[desk EXCEPT !.hint = desk.hint] EXCEPT !.loading = desk.loading]
          /\ [desk EXCEPT !.loading = FALSE]
               = [[desk EXCEPT !.hint = desk.hint] EXCEPT !.loading = FALSE]
      BY <1>0 DEF Page
    <3>2. CASE call.kind = "create"
      BY <1>4, <3>2 DEF Failed, Ready
    <3>3. CASE call.kind = "loco"
      BY <1>4, <3>1, <3>3 DEF Failed, Ready
    <3>4. CASE call.kind \notin {"create", "loco"}
      BY <1>4, <3>1, <3>4 DEF Failed
    <3> QED BY <3>2, <3>3, <3>4
  <2>2. touched' = touched
    BY <1>4 DEF Failed
  <2>3. /\ desk' \in Page /\ desk'.loco = desk.loco /\ desk'.modal = desk.modal
        /\ desk'.list = desk.list /\ desk'.history = desk.history /\ desk'.loading = b
        /\ desk'.content = desk.content /\ desk'.hint = h /\ desk'.editMode = desk.editMode
    BY <1>0, <2>1 DEF Page
  <2> QED BY <1>0, <2>1, <2>2, <2>3 DEF Screen
<1> QED BY <1>1, <1>2, <1>3, <1>4 DEF Answered

LEMMA ArriveScreen ==
  ASSUME Shape, NEW i \in DOMAIN loads, Arrive(i), Next
  PROVE  Screen
<1>0. /\ desk \in Page /\ touched \in BOOLEAN /\ calm' \in BOOLEAN
      /\ desk.loco = None => desk.content = Nothing /\ ~desk.hint /\ ~touched
      /\ desk.loading => call # None /\ call.kind \in {"create", "loco"}
      /\ desk.modal # None => desk.editMode /\ ModalShape(desk.modal)
      /\ call' = call
  BY CalmIs DEF Shape, TypeOK, Arrive
<1>1. loads[i] \in Load /\ loads[i].got # None
  BY ElementOfSeq, LenProperties DEF Shape, TypeOK, Arrive
<1>2. loads[i].got \in Answer /\ loads[i].got \in Answers
  BY <1>1 DEF Load, Answers
<1>3. CASE loads[i].what = "history"
  <2>1. desk' = [desk EXCEPT !.history = loads[i].got.rows] /\ touched' = touched
    BY <1>3 DEF Arrive
  <2>2. /\ desk' \in Page /\ desk'.loco = desk.loco /\ desk'.modal = desk.modal
        /\ desk'.list = desk.list /\ desk'.history = loads[i].got.rows /\ desk'.loading = desk.loading
        /\ desk'.content = desk.content /\ desk'.hint = desk.hint /\ desk'.editMode = desk.editMode
    BY <1>0, <1>2, <2>1 DEF Page, Answer
  <2> QED BY <1>0, <1>2, <2>1, <2>2 DEF Screen
<1>4. CASE loads[i].what = "data"
  <2> DEFINE d == [desk EXCEPT !.list = loads[i].got.rows, !.locos = loads[i].got.locos]
  <2>1. desk' = Filled(d) /\ touched' = FALSE
    BY <1>4 DEF Arrive
  <2>2. loads[i].got.rows \in SUBSET Row /\ loads[i].got.locos \in LocoTable
    <3>1. DataShape(loads[i])
      BY DEF Shape
    <3> QED BY <1>1, <1>2, <1>4, <3>1 DEF Answer, DataShape
  <2>3. /\ d \in Page /\ d.loco = desk.loco /\ d.modal = desk.modal /\ d.content = desk.content
        /\ d.hint = desk.hint /\ d.list = loads[i].got.rows /\ d.history = desk.history
        /\ d.editMode = desk.editMode /\ d.loading = desk.loading
    BY <1>0, <2>2 DEF Page
  <2> HIDE DEF d
  <2>4. /\ desk' \in Page /\ desk'.loco = desk.loco /\ desk'.modal = desk.modal
        /\ desk'.list = loads[i].got.rows /\ desk'.history = desk.history
        /\ desk'.editMode = desk.editMode /\ desk'.loading = desk.loading
        /\ desk.loco = None => desk'.content = desk.content /\ desk'.hint = desk.hint
    BY <2>1, <2>3, FilledIs
  <2> QED BY <1>0, <1>2, <2>1, <2>4 DEF Screen
<1> QED BY <1>1, <1>3, <1>4 DEF Load

LEMMA ScreenStep ==
  ASSUME Shape, Next
  PROVE  Screen
<1>1. CASE OtherStep
  <2>1. UNCHANGED <<desk, touched, call>>
    BY <1>1 DEF OtherStep, OtherBooks, OtherDeletes, OtherCarries, OtherDespatches
  <2> QED BY <2>1, SameScreen
<1>2. CASE FaultStep
  <2>1. CASE LoseCall
    <3>1. call # None /\ UNCHANGED <<desk, touched>> /\ call' = [call EXCEPT !.at = "lost"]
      BY <2>1 DEF LoseCall
    <3>2. call \in Change
      BY <3>1 DEF Shape, TypeOK
    <3>3. call' \in Change /\ call'.kind = call.kind
      BY <3>1, <3>2 DEF Change
    <3> QED BY <3>1, <3>3, SameScreen, NoneAssumption
  <2>2. ASSUME NEW i \in DOMAIN loads, LoseLoad(i)
        PROVE  Screen
    BY <2>2, SameScreen DEF LoseLoad
  <2> QED BY <1>2, <2>1, <2>2 DEF FaultStep
<1>3. CASE Handle
  <2>1. /\ call # None /\ UNCHANGED <<desk, touched>>
        /\ \E a \in {"done", "refused"} : call' = [call EXCEPT !.at = a]
    BY <1>3 DEF Handle
  <2>2. call \in Change
    BY <2>1 DEF Shape, TypeOK
  <2>3. call' \in Change /\ call'.kind = call.kind
    BY <2>1, <2>2 DEF Change
  <2> QED BY <2>1, <2>3, SameScreen, NoneAssumption
<1>4. ASSUME NEW i \in DOMAIN loads, Read(i)
      PROVE  Screen
  <2>1. UNCHANGED <<desk, touched, call>>
    BY <1>4, Zenon DEF Read
  <2> QED BY <2>1, SameScreen
<1> QED BY <1>1, <1>2, <1>3, <1>4, FormScreen, ListScreen, AnsweredScreen, ArriveScreen
        DEF Next, SystemStep

-----------------------------------------------------------------------------
(* The invariant.                                                          *)

LEMMA ShapeStep ==
  ASSUME Stored, Next
  PROVE  Shape'
<1>1. Shape /\ call \in Change \union {None}
  BY DEF Stored, Shape, TypeOK
<1>2. /\ rows' \subseteq Row /\ locos' \in LocoTable /\ Keys' /\ now' \in 1..(LastTime + 1)
  BY TablesStep
<1>3. /\ loads' \in Seq(Load) /\ Len(loads') <= MaxLoads
      /\ \A i \in DOMAIN loads' : DataShape(loads'[i])
  BY <1>1, ListsStep
<1>4. call' # None => call' \in Change /\ CallShape(call')
  BY RequestStep DEF Requested
<1>5. Screen
  BY <1>1, ScreenStep
<1>6. desk'.modal # None => desk'.editMode /\ ModalShape(desk'.modal) /\ desk'.modal.group # None
  BY <1>5 DEF Screen, ModalShape, Complete
<1>7. TypeOK'
  BY <1>2, <1>3, <1>4, <1>5, <1>6 DEF TypeOK, Screen
<1> QED BY <1>3, <1>4, <1>5, <1>6, <1>7 DEF Shape, Screen

(* Rows that are seen were seen or are stored now.                         *)
LEMMA SeenStep ==
  ASSUME Shape, Next
  PROVE  \A r \in Seen' : r \in Seen \/ r \in rows'
<1>1. Screen /\ \A a \in Answers' : a \in Answers \/ a.rows \subseteq rows
  BY ScreenStep, ListsStep
<1>2. ASSUME NEW r \in Seen'
      PROVE  r \in Seen \/ r \in rows'
  <2>1. CASE r \in desk'.list \union desk'.history
    BY <1>1, <2>1 DEF Screen, Seen
  <2>2. ASSUME NEW a \in Answers', r \in a.rows
        PROVE  r \in Seen
    BY <1>1, <2>2 DEF Seen
  <2>3. r \in rows' \/ r \in desk'.list \union desk'.history \/ \E a \in Answers' : r \in a.rows
    BY <1>2 DEF Seen
  <2> QED BY <2>1, <2>2, <2>3
<1> QED BY <1>2

LEMMA StampIs ==
  ASSUME NEW r \in Row, NEW g \in Group, NEW t
  PROVE  /\ Stamp(r, t) = Stamp(g, t) <=> GroupOf(r) = g
         /\ r.loco = g.loco /\ r.day = g.day /\ r.shift = g.shift => Stamp(r, t) = Stamp(g, t)
BY DEF Row, Group, Stamp, GroupOf

(* Where the time of a stored row comes from.                              *)
LEMMA RowsStep ==
  ASSUME Stored, Next
  PROVE  /\ \E g : \A r \in rows' :
              \/ Stamp(r, r.time) \in Stamps \/ r.time = Midnight
              \/ Stamp(r, r.time) = Stamp(g, now) /\ now' = now + 1
         /\ call' = call => \A r \in rows' : r \in rows \/ r.time = Midnight \/ r.time = now
<1>1. Shape /\ rows \subseteq Row /\ call \in Change \union {None}
  BY DEF Stored, Shape, TypeOK
<1>2. \A r \in rows : Stamp(r, r.time) \in Stamps
  BY DEF Stamps, Seen
<1>3. CASE rows' \subseteq rows
  BY <1>2, <1>3
<1>4. CASE Handle
  <2>1. call # None /\ call.at = "sent" /\ call'.at # "sent"
    BY <1>1, <1>4 DEF Handle, Change
  <2>2. CASE ~Accepted(call)
    BY <1>3, <1>4, <2>2 DEF Handle
  <2>3. CASE Accepted(call)
    <3>1. rows' = RowsAfter(call) /\ Kin(RowsAfter(call), call)
      BY <1>4, <2>1, <2>3, AcceptedTables DEF Handle
    <3>2. CASE call.kind = "loco"
      <4>1. rows' = rows
        BY <3>1, <3>2 DEF RowsAfter
      <4> QED BY <1>3, <4>1
    <3>3. CASE call.kind # "loco"
      <4>1. Stamp(call.group, call.time) \in Stamps
        BY <2>1, <3>3 DEF Stamps, Meant
      <4>2. \A r \in rows' : Own(call, r) => Stamp(r, r.time) = Stamp(call.group, call.time)
        BY DEF Own, Stamp
      <4>3. \A r \in rows' : Stamp(r, r.time) \in Stamps
        BY <1>2, <3>1, <4>1, <4>2 DEF Kin
      <4> QED BY <2>1, <4>3
    <3> QED BY <3>2, <3>3
  <2> QED BY <2>2, <2>3
<1>5. ASSUME NEW g \in Group, NEW content \in Content, OtherBooks(g, content)
      PROVE  /\ \A r \in rows' : r \in rows \/ (Stamp(r, r.time) = Stamp(g, now) /\ r.time = now)
             /\ now' = now + 1
  <2>1. rows' = Replaced(g, now, content) /\ now' = now + 1
    BY <1>5 DEF OtherBooks
  <2>2. \A j, T : LET b == Booked(g, now, j, T)
                 IN Stamp(b, b.time) = Stamp(g, now) /\ b.time = now
    BY DEF Booked, Stamp
  <2>3. \A r \in rows' : r \in rows \/ \E j \in DOMAIN content : r = Booked(g, now, j, content[j])
    BY <2>1, Zenon DEF Replaced
  <2> QED BY <2>1, <2>2, <2>3
<1>6. ASSUME NEW g \in Group, NEW t \in Time, OtherDeletes(g, t)
      PROVE  rows' \subseteq rows
  BY <1>6 DEF OtherDeletes
<1>7. ASSUME NEW g \in Group, NEW J \in SUBSET Job, NEW T \in SUBSET Text, OtherCarries(g, J, T)
      PROVE  \A r \in rows' : r \in rows \/ r.time = Midnight
  BY <1>7 DEF OtherCarries, Booked
<1>8. CASE Submit
  BY <1>3, <1>8 DEF Submit
<1>9. ASSUME NEW l \in Loco, OtherDespatches(l)
      PROVE  rows' \subseteq rows
  BY <1>9 DEF OtherDespatches
<1> QED BY <1>2, <1>3, <1>4, <1>5, <1>6, <1>7, <1>8, <1>9, TableKinds

(* A request or modal speaks of a time that is known, or is a submission.  *)
LEMMA MeantStep ==
  ASSUME Stored, Next, NEW c \in Meant'
  PROVE  /\ \/ Stamp(c.group, c.time) \in Stamps
            \/ c.group = Chosen /\ c.time = now /\ now' = now + 1 /\ rows' = rows
         /\ c.kind # "create" => c.group.loco \in DOMAIN locos
<1>1. Shape /\ Listed
  BY DEF Stored
<1>2. c # None /\ c.kind # "loco" /\ c \in {desk'.modal, call'}
  BY DEF Meant
<1>3. ASSUME OfCard(c)
      PROVE  Stamp(c.group, c.time) \in Stamps /\ c.group.loco \in DOMAIN locos
  <2>1. PICK r \in Seen \intersect Row : GroupOf(r) = c.group /\ r.time = c.time /\ c.group \in Group
    BY <1>3 DEF OfCard
  <2>2. Stamp(r, r.time) = Stamp(c.group, c.time) /\ r.loco = c.group.loco
    BY <2>1, StampIs, GroupIs
  <2> QED BY <1>1, <2>1, <2>2 DEF Stamps, Listed
<1>4. ASSUME NEW d \in Meant, c.kind = d.kind, c.group = d.group, c.time = d.time
      PROVE  /\ Stamp(c.group, c.time) \in Stamps
             /\ c.kind # "create" => c.group.loco \in DOMAIN locos
  BY <1>1, <1>4 DEF Stamps, Listed
<1>5. CASE c = desk'.modal
  <2>1. desk'.modal = desk.modal \/ OfCard(desk'.modal)
    BY <1>1, <1>2, <1>5, ScreenStep DEF Screen
  <2>2. CASE desk'.modal = desk.modal
    <3>1. desk.modal \in Meant
      BY <1>2, <1>5, <2>2 DEF Meant
    <3> QED BY <1>4, <1>5, <2>2, <3>1
  <2> QED BY <1>3, <1>5, <2>1, <2>2
<1>6. CASE c = call'
  <2>1. Requested
    BY <1>2, <1>6, RequestStep
  <2>2. CASE Same(call', desk.modal)
    <3>1. desk.modal \in Meant
      BY <1>2, <1>6, <2>2 DEF Meant, Same
    <3> QED BY <1>4, <1>6, <2>2, <3>1 DEF Same
  <2>3. CASE Same(call', call)
    <3>1. call \in Meant
      BY <1>2, <1>6, <2>3 DEF Meant, Same
    <3> QED BY <1>4, <1>6, <2>3, <3>1 DEF Same
  <2> QED BY <1>2, <1>3, <1>6, <2>1, <2>2, <2>3 DEF Requested
<1> QED BY <1>2, <1>5, <1>6

LEMMA StampStep ==
  ASSUME Stored, Next
  PROVE  \E g : \A s \in Stamps' :
           \/ s \in Stamps \/ s.time = Midnight
           \/ s = Stamp(g, now) /\ now' = now + 1
<1>1. \A r \in Seen' : Stamp(r, r.time) \in Stamps \/ r \in rows'
  <2>1. \A r \in Seen' : r \in Seen \/ r \in rows'
    BY SeenStep DEF Stored
  <2> QED BY <2>1 DEF Stamps
<1>2. PICK h : \A r \in rows' :
        \/ Stamp(r, r.time) \in Stamps \/ r.time = Midnight
        \/ Stamp(r, r.time) = Stamp(h, now) /\ now' = now + 1
  BY RowsStep
<1>3. \A s \in Stamps' : \/ \E r \in Seen' : s = Stamp(r, r.time)
                         \/ \E c \in Meant' : s = Stamp(c.group, c.time)
  BY DEF Stamps
<1>4. \A r : Stamp(r, r.time).time = r.time
  BY DEF Stamp
<1>5. \A r \in rows : Stamp(r, r.time) \in Stamps
  BY DEF Stamps, Seen
<1>6. CASE rows' = rows /\ now' = now + 1
  <2>1. \A r \in Seen' : Stamp(r, r.time) \in Stamps
    BY <1>1, <1>5, <1>6
  <2>2. \A c \in Meant' : \/ Stamp(c.group, c.time) \in Stamps
                          \/ Stamp(c.group, c.time) = Stamp(Chosen, now)
    BY MeantStep
  <2> QED BY <1>3, <1>6, <2>1, <2>2
<1>7. CASE ~(rows' = rows /\ now' = now + 1)
  <2>1. \A c \in Meant' : Stamp(c.group, c.time) \in Stamps
    BY <1>7, MeantStep
  <2>2. \A r \in Seen' : \/ Stamp(r, r.time) \in Stamps \/ Stamp(r, r.time).time = Midnight
                         \/ Stamp(r, r.time) = Stamp(h, now) /\ now' = now + 1
    BY <1>1, <1>2, <1>4
  <2> QED BY <1>3, <2>1, <2>2
<1> QED BY <1>6, <1>7

LEMMA StampTimes ==
  ASSUME Shape
  PROVE  \A s \in Stamps : s.time \in Nat
<1>1. /\ rows \subseteq Row /\ desk.list \subseteq Row /\ desk.history \subseteq Row
      /\ loads \in Seq(Load) /\ desk.modal \in Change \union {None} /\ call \in Change \union {None}
  BY DEF Shape, TypeOK, Page
<1>2. \A a \in Answers : a.rows \subseteq Row
  <2>1. \A i \in DOMAIN loads : loads[i] \in Load
    BY <1>1, LenProperties, ElementOfSeq
  <2>2. \A a \in Answers : a \in Answer
    BY <2>1 DEF Answers, Load
  <2> QED BY <2>2 DEF Answer
<1>3. \A r \in Seen : r \in Row
  BY <1>1, <1>2 DEF Seen
<1>4. Time \subseteq Nat
  BY BoundsAssumption DEF Time, Midnight
<1>5. \A r \in Seen : Stamp(r, r.time).time \in Nat
  BY <1>3, <1>4 DEF Row, Stamp
<1>6. \A c \in Meant : Stamp(c.group, c.time).time \in Nat
  <2>1. \A c \in Meant : c \in Change
    BY <1>1 DEF Meant
  <2>2. \A c \in Change : c.time \in Time
    BY DEF Change
  <2>3. \A c : Stamp(c.group, c.time).time = c.time
    BY DEF Stamp
  <2> QED BY <1>4, <2>1, <2>2, <2>3
<1> QED BY <1>5, <1>6 DEF Stamps

LEMMA StoredStep ==
  ASSUME Stored, [Next]_vars
  PROVE  Stored'
<1>1. CASE UNCHANGED vars
  BY <1>1 DEF vars, Stored, Shape, TypeOK, Keys, OneShift, Past, Listed, OwnTime,
     Stamps, Seen, Meant, Answers
<1>2. CASE Next
  <2>1. Shape'
    BY <1>2, ShapeStep
  <2>2. /\ now \in Nat /\ now >= 1 /\ now' \in Nat /\ now' >= now
        /\ DOMAIN locos \subseteq DOMAIN locos'
    BY <1>2, TablesStep, BoundsAssumption DEF Stored, Shape, TypeOK
  <2>3. PICK g : \A s \in Stamps' :
           \/ s \in Stamps \/ s.time = Midnight
           \/ s = Stamp(g, now) /\ now' = now + 1
    BY <1>2, StampStep
  <2>4. Stamp(g, now).time = now
    BY DEF Stamp
  <2>5. \A s \in Stamps : s.time < now /\ s.time \in Nat
    BY StampTimes DEF Stored, Past
  <2>6. Past'
    BY <2>2, <2>3, <2>4, <2>5 DEF Past, Midnight
  <2>7. OneShift'
    <3> SUFFICES ASSUME NEW a \in Stamps', NEW b \in Stamps',
                        a.loco = b.loco, a.day = b.day, a.time = b.time, a.time # Midnight
                 PROVE  a.shift = b.shift
      BY DEF OneShift
    <3>1. CASE a \in Stamps /\ b \in Stamps
      BY <3>1 DEF Stored, OneShift
    <3>2. CASE a \notin Stamps \/ b \notin Stamps
      <4>1. a.time = now /\ b.time = now
        BY <2>3, <2>4, <3>2
      <4>2. \A s \in Stamps : s.time # now
        BY <2>2, <2>5
      <4>4. a \notin Stamps /\ b \notin Stamps
        BY <4>1, <4>2
      <4>3. a = Stamp(g, now) /\ b = Stamp(g, now)
        BY <2>3, <4>4
      <4> QED BY <4>3
    <3> QED BY <3>1, <3>2
  <2>8. Listed'
    <3>1. \A r \in Seen' : r.loco \in DOMAIN locos'
      <4>1. \A r \in Seen' : r \in Seen \/ r \in rows'
        BY <1>2, SeenStep DEF Stored
      <4>2. \A r \in rows' : r.loco \in DOMAIN locos'
        BY <2>1 DEF Shape, TypeOK, Keys
      <4> QED BY <2>2, <4>1, <4>2 DEF Stored, Listed
    <3>2. \A c \in Meant' : c.kind # "create" => c.group.loco \in DOMAIN locos'
      BY <1>2, <2>2, MeantStep
    <3> QED BY <3>1, <3>2 DEF Listed
  <2>9. OwnTime'
    <3> SUFFICES ASSUME call' # None, call'.kind = "create", call'.at = "sent"
                 PROVE  call'.time # Midnight /\ \A r \in rows' : r.time # call'.time
      BY DEF OwnTime
    <3>1. \A r \in rows : r.time < now
      <4>1. \A r \in rows : Stamp(r, r.time) \in Stamps /\ Stamp(r, r.time).time = r.time
        BY DEF Stamps, Seen, Stamp
      <4> QED BY <2>5, <4>1
    <3>2. Requested
      BY <1>2, RequestStep
    <3>3. CASE call'.time = now /\ rows' = rows
      BY <2>2, <3>1, <3>3 DEF Midnight
    <3>4. CASE call' = call
      <4>1. call.time # Midnight /\ \A r \in rows : r.time # call.time
        BY <3>4 DEF Stored, OwnTime
      <4>2. call.time < now
        <5>1. call \in Meant
          BY <3>4 DEF Meant
        <5>2. Stamp(call.group, call.time) \in Stamps /\ Stamp(call.group, call.time).time = call.time
          BY <5>1 DEF Stamps, Stamp
        <5> QED BY <2>5, <5>2
      <4>3. \A r \in rows' : r \in rows \/ r.time = Midnight \/ r.time = now
        BY <1>2, <3>4, RowsStep
      <4> QED BY <2>2, <3>4, <4>1, <4>2, <4>3
    <3> QED BY <3>2, <3>3, <3>4 DEF Requested, OfCard
  <2> QED BY <2>1, <2>6, <2>7, <2>8, <2>9 DEF Stored
<1> QED BY <1>1, <1>2

LEMMA StoredInit ==
  ASSUME Init
  PROVE  Stored
<1> USE BoundsAssumption
<1>0. PICK sh \in Shift : desk = [NewDesk EXCEPT !.shift = sh]
  BY DEF Init
<1>1. /\ rows \subseteq Row /\ locos \in LocoTable /\ Keys /\ now \in 1..(LastTime + 1)
      /\ \A r \in rows : r.time < now
      /\ \A a, b \in rows : a.loco = b.loco /\ a.day = b.day /\ a.time = b.time /\ a.time # Midnight
           => a.shift = b.shift
      /\ loads = <<Data(0)>> /\ call = None /\ touched = FALSE /\ calm = TRUE
  BY DEF Init
<1>2. /\ desk \in Page /\ desk.loco = None /\ desk.content = Nothing /\ desk.hint = FALSE
      /\ desk.list = {} /\ desk.history = {} /\ desk.modal = None /\ desk.loading = FALSE
  <2>1. [l \in {} |-> FALSE] \in LocoTable
    BY DEF LocoTable
  <2> DEFINE f == [l \in {} |-> FALSE]
  <2>2. desk = [loco |-> None, day |-> 0, shift |-> sh, content |-> Nothing, hint |-> FALSE,
     list |-> {}, history |-> {}, locos |-> f, tab |-> "booking",
     from |-> 0, to |-> 0, editMode |-> FALSE, adding |-> FALSE, loading |-> FALSE,
     modal |-> None]
    BY <1>0 DEF NewDesk
  <2>3. f \in LocoTable
    BY <2>1
  <2> HIDE DEF f
  <2> QED BY <2>2, <2>3, NothingIs DEF Page, Day, Shift, Tabs
<1>3. /\ loads \in Seq(Load) /\ Len(loads) = 1 /\ loads[1].got = None /\ DOMAIN loads = {1}
  BY <1>1, LoadIs DEF Day
<1>4. Answers = {}
  BY <1>3 DEF Answers
<1>5. Seen = rows /\ Meant = {}
  BY <1>1, <1>2, <1>4 DEF Seen, Meant
<1>6. Stamps = {Stamp(r, r.time) : r \in rows}
  BY <1>5 DEF Stamps
<1>7. Shape
  <2>1. \A i \in DOMAIN loads : DataShape(loads[i])
    BY <1>3 DEF DataShape
  <2>2. call \in Change \union {None} /\ touched \in BOOLEAN /\ calm \in BOOLEAN /\ ~touched
        /\ ~desk.hint /\ ~desk.loading /\ Len(loads) <= MaxLoads
    <3>1. Len(loads) <= MaxLoads
      BY <1>3
    <3>2. touched \in BOOLEAN /\ calm \in BOOLEAN /\ ~touched /\ call \in Change \union {None}
      BY <1>1, Zenon
    <3>3. ~desk.hint /\ ~desk.loading
      BY <1>2, Zenon
    <3> QED BY <3>1, <3>2, <3>3
  <2>3. TypeOK
    BY <1>1, <1>2, <1>3, <2>2 DEF TypeOK
  <2> QED BY <1>1, <1>2, <2>1, <2>2, <2>3 DEF Shape
<1>8. \A s \in Stamps : \E r \in rows : /\ s.loco = r.loco /\ s.day = r.day /\ s.shift = r.shift
                                        /\ s.time = r.time
  BY <1>6 DEF Stamp
<1>9. OneShift /\ Past
  BY <1>1, <1>8 DEF OneShift, Past
<1>10. Listed /\ OwnTime
  BY <1>1, <1>5 DEF Listed, OwnTime, Keys
<1> QED BY <1>7, <1>9, <1>10 DEF Stored

THEOREM StoredInvariant == Spec => []Stored
<1> QED BY StoredInit, StoredStep, PTL DEF Spec

(* Types; the keys of the tables; a form without a locomotive is empty; a  *)
(* modal is that of a card, in edit mode; the spinner turns only while a   *)
(* request is under way.                                                   *)
THEOREM TypeCorrect == Spec => []TypeOK
<1>1. Stored => TypeOK
  BY DEF Stored, Shape
<1> QED BY <1>1, StoredInvariant, PTL

-----------------------------------------------------------------------------
(* The page of a supervisor who waits for it, left alone.                  *)

(* A locomotive that nothing is about stays so, unless rows of it come.    *)
LEMMA UnusedStep ==
  ASSUME Stored, Next, NEW l, Unused(l), \A r \in rows' : r \in rows \/ r.loco # l
  PROVE  /\ \A r \in Seen' : r.loco # l
         /\ \A c \in Meant' : c.kind # "create" => c.group.loco # l
<1>1. Shape /\ \A r \in rows : r.loco # l
  BY DEF Stored, Unused, Seen
<1>2. \A r \in Seen' : r.loco # l
  <2>1. \A r \in Seen' : r \in Seen \/ r \in rows'
    BY <1>1, SeenStep
  <2> QED BY <1>1, <2>1 DEF Unused
<1>3. ASSUME NEW c, OfCard(c)
      PROVE  c.group.loco # l
  <2>1. PICK r \in Seen \intersect Row : GroupOf(r) = c.group /\ c.group \in Group
    BY <1>3 DEF OfCard
  <2>2. r.loco = c.group.loco
    BY <2>1, GroupIs
  <2> QED BY <2>1, <2>2 DEF Unused
<1>4. ASSUME NEW c \in Meant', c.kind # "create"
      PROVE  c.group.loco # l
  <2>1. c # None /\ c.kind # "loco" /\ c \in {desk'.modal, call'}
    BY DEF Meant
  <2>2. CASE c = desk'.modal
    <3>1. desk'.modal = desk.modal \/ OfCard(desk'.modal)
      BY <1>1, <2>1, <2>2, ScreenStep DEF Screen
    <3>2. CASE desk'.modal = desk.modal
      <4>1. desk.modal \in Meant
        BY <2>1, <2>2, <3>2 DEF Meant
      <4> QED BY <1>4, <2>2, <3>2, <4>1 DEF Unused
    <3> QED BY <1>3, <2>2, <3>1, <3>2
  <2>3. CASE c = call'
    <3>1. Requested
      BY <2>1, <2>3, RequestStep
    <3>2. ASSUME NEW d \in {desk.modal, call}, Same(call', d)
          PROVE  c.group.loco # l
      <4>1. d \in Meant /\ d.kind # "create" /\ c.group = d.group
        BY <1>4, <2>1, <2>3, <3>2 DEF Meant, Same
      <4> QED BY <4>1 DEF Unused
    <3> QED BY <1>3, <1>4, <2>1, <2>3, <3>1, <3>2 DEF Requested
  <2> QED BY <2>1, <2>2, <2>3
<1> QED BY <1>2, <1>4

LEMMA SameUnbooked ==
  ASSUME Stored, Next, Unbooked, UNCHANGED <<rows, locos>>, desk'.loco = desk.loco
  PROVE  Unbooked'
<1> DEFINE l == desk.loco
<1>1. ASSUME l # None, ~Bookable(l)
      PROVE  /\ \A r \in Seen' : r.loco # l
             /\ \A c \in Meant' : c.kind # "create" => c.group.loco # l
  <2>1. Unused(l) /\ \A r \in rows' : r \in rows
    BY <1>1 DEF Unbooked
  <2> HIDE DEF l
  <2> QED BY <2>1, UnusedStep
<1> QED BY <1>1 DEF Unbooked, Unused, Bookable

LEMMA TodayIs ==
  ASSUME NEW g, g.day = desk.day
  PROVE  In(Today, g) = In(rows, g)
<1>1. \A r : GroupOf(r) = g => r.day = desk.day
  BY DEF GroupOf
<1> QED BY <1>1 DEF In, Today

(* The page is waited for.                                                 *)
LEMMA Rest ==
  ASSUME Stored, Calm, calm, Idle
  PROVE  /\ call = None /\ loads = <<>> /\ Len(loads) = 0 /\ DOMAIN loads = {}
         /\ desk.list = Today /\ desk.locos = locos
         /\ desk.loco # None => /\ ~touched => desk.content = InForm(In(rows, Chosen))
                                /\ In(rows, Chosen) # {} => desk.hint
         /\ Unbooked
         /\ desk.modal # None /\ desk.tab = "list" /\ desk.modal.kind \in ToRow => OwnRow(desk.modal)
<1>1. call = None /\ loads = <<>> /\ DOMAIN loads = {} /\ Len(loads) = 0
  BY DEF Idle
<1>2. Settled
  BY <1>1 DEF Settled
<1> QED BY <1>1, <1>2 DEF Calm, Loaded, Announced, ModalOwned

(* A click that only changes what the form or the list shows.              *)
LEMMA QuietCalm ==
  ASSUME Stored, Calm, calm, Idle, Next, UNCHANGED <<rows, locos, loads, call>>,
         desk'.list = desk.list, desk'.locos = desk.locos, desk'.day = desk.day, Unbooked',
         desk'.loco # None => /\ ~touched' => desk'.content = InForm(In(rows, Chosen'))
                              /\ In(rows, Chosen') # {} => desk'.hint,
         desk'.modal # None /\ desk'.tab = "list" /\ desk'.modal.kind \in ToRow => OwnRow(desk'.modal)
  PROVE  Calm'
<1>1. /\ call' = None /\ loads' = <<>> /\ Len(loads') = 0 /\ DOMAIN loads' = {} /\ rows' = rows
      /\ desk'.list = Today' /\ desk'.locos = locos'
  BY Rest DEF Today
<1>2. Alone' /\ ListOf(desk.day)' /\ Added' /\ Submitted' /\ CallOwned'
  BY <1>1 DEF Alone, ListOf, Added, Submitted, CallOwned
<1>3. Loaded' /\ Announced' /\ ModalOwned'
  BY <1>1 DEF Loaded, Announced, ModalOwned, OwnRow
<1> QED BY <1>2, <1>3 DEF Calm

(* A change is sent.                                                       *)
LEMMA SentCalm ==
  ASSUME Stored, Calm, calm, Idle, Next, UNCHANGED <<rows, locos, loads, touched>>,
         desk'.list = desk.list, desk'.locos = desk.locos, desk'.day = desk.day,
         desk'.loco = desk.loco, desk'.shift = desk.shift, desk'.content = desk.content,
         desk'.modal = desk.modal, desk'.tab = desk.tab,
         call' # None, call'.at = "sent", call'.onDay = desk.day,
         desk.modal # None => call'.kind = desk.modal.kind,
         IF call'.kind = "create"
         THEN call'.group = Chosen /\ desk.loco # None /\ call'.warned = desk.hint
         ELSE desk'.hint = desk.hint,
         call'.from = "list" /\ call'.kind \in ToRow => OwnRow(call')
  PROVE  Calm'
<1>1. /\ loads' = <<>> /\ Len(loads') = 0 /\ DOMAIN loads' = {} /\ rows' = rows /\ Chosen' = Chosen
      /\ desk'.list = Today' /\ desk'.locos = locos'
  BY Rest DEF Today, Chosen
<1>2. Alone' /\ ListOf(desk.day)' /\ Added' /\ CallOwned'
  BY <1>1 DEF Alone, ListOf, Added, CallOwned, OwnRow
<1>3. Unbooked'
  BY Rest, SameUnbooked
<1>4. Loaded' /\ Announced' /\ Submitted' /\ ModalOwned'
  BY <1>1, Rest DEF Loaded, Announced, Submitted, ModalOwned, OwnRow
<1> QED BY <1>2, <1>3, <1>4 DEF Calm

(* A list is asked for, alone.                                             *)
LEMMA AskCalm ==
  ASSUME Stored, Calm, calm, Idle, Next, UNCHANGED <<rows, locos, call>>, NEW l \in Load, Ask(l),
         l.what = "history" =>
           /\ desk'.list = desk.list /\ desk'.locos = desk.locos /\ desk'.day = desk.day
           /\ desk'.shift = desk.shift /\ desk'.content = desk.content /\ touched' = touched
           /\ desk'.hint = desk.hint,
         l.what = "data" => l.from = desk'.day /\ l.to = desk'.day /\ l.got = None,
         desk'.loco = desk.loco, desk'.modal = None
  PROVE  Calm'
<1>1. loads \in Seq(Load) /\ l.what \in {"data", "history"}
  BY DEF Stored, Shape, TypeOK, Load
<1>2. call = None /\ loads = <<>> /\ Len(loads) = 0 /\ Unbooked
  BY Rest
<1>3. /\ Len(loads') = 1 /\ DOMAIN loads' = {1} /\ loads'[1] = l /\ call' = None
  <2>1. /\ loads' \in Seq(Load) /\ Len(loads') = Len(loads) + 1 /\ loads'[Len(loads) + 1] = l
    BY <1>1, AppendProperties DEF Ask
  <2>2. DOMAIN loads' = 1..Len(loads')
    BY <2>1, LenProperties
  <2> QED BY <1>2, <2>1, <2>2
<1>4. Alone' /\ ListOf(desk.day)' /\ Added' /\ Submitted' /\ CallOwned' /\ ModalOwned'
  BY <1>3 DEF Alone, ListOf, Added, Submitted, CallOwned, ModalOwned
<1>5. Unbooked'
  BY <1>2, SameUnbooked
<1>6. CASE l.what = "data"
  <2>1. ~Settled'
    BY <1>3, <1>6 DEF Settled
  <2> QED BY <1>4, <1>5, <2>1 DEF Calm, Loaded, Announced
<1>7. CASE l.what = "history"
  <2>1. /\ desk'.list = Today' /\ desk'.locos = locos' /\ Chosen' = Chosen /\ rows' = rows
    BY <1>7, Rest DEF Today, Chosen
  <2>2. Loaded' /\ Announced'
    BY <1>7, <2>1, Rest DEF Loaded, Announced
  <2> QED BY <1>4, <1>5, <2>2 DEF Calm
<1> QED BY <1>1, <1>6, <1>7

(* What a button of a card of the list is about: the card's time is that   *)
(* of one shift, or it is midnight, and then all rows of the card have it. *)
LEMMA OwnTask ==
  ASSUME Stored, desk.list = Today, desk.tab = "list", NEW g, NEW r \in In(Shown, g),
         NEW c, c.group = g, c.time = r.time, c.job = r.job
  PROVE  OwnRow(c)
<1>1. r \in rows /\ GroupOf(r) = g
  BY DEF Shown, In, Today
<1>2. r.loco = g.loco /\ r.day = g.day /\ r.shift = g.shift
  BY <1>1 DEF GroupOf
<1>3. \A q \in rows : SameKey(q, r) => q = r
  BY <1>1 DEF Stored, Shape, TypeOK, Keys
<1> QED BY <1>2, <1>3 DEF OwnRow, SameKey

LEMMA OwnJob ==
  ASSUME Stored, desk.list = Today, desk.tab = "list", NEW g, NEW j \in JobsOf(g),
         NEW c, c.group = g, c.time = CardTime(g), c.job = j
  PROVE  OwnRow(c)
<1>1. Shape /\ OneShift
  BY DEF Stored
<1>2. PICK r \in In(Shown, g) : g \in Cards /\ r.job = j
  BY <1>1, JobIs
<1>3. /\ \A q \in In(Shown, g) : q.time <= CardTime(g)
      /\ CardTime(g) \in Time
  BY <1>1, <1>2, CardIs
<1>4. PICK p \in In(Shown, g) : p.time = CardTime(g)
  BY <1>1, <1>2, CardIs
<1>5. Shown \subseteq rows /\ rows \subseteq Row
  BY <1>1 DEF Shown, Today, Shape, TypeOK
<1>6. CASE CardTime(g) = Midnight
  <2>1. r \in Row
    BY <1>5 DEF In
  <2>2. r.time = Midnight
    BY <1>3, <1>6, <2>1, BoundsAssumption DEF Row, Time, Midnight
  <2> QED BY <1>2, <1>6, <2>2, OwnTask
<1>7. CASE CardTime(g) # Midnight
  <2>1. p \in rows /\ GroupOf(p) = g
    BY <1>5 DEF In
  <2>2. p.loco = g.loco /\ p.day = g.day /\ p.shift = g.shift
    BY <2>1 DEF GroupOf
  <2>3. ASSUME NEW q \in rows, q.loco = g.loco, q.day = g.day, q.time = CardTime(g)
        PROVE  q.shift = g.shift
    <3>1. Stamp(q, q.time) \in Stamps /\ Stamp(p, p.time) \in Stamps
      BY <2>1 DEF Stamps, Seen
    <3>2. \A x : /\ Stamp(x, x.time).loco = x.loco /\ Stamp(x, x.time).day = x.day
                 /\ Stamp(x, x.time).shift = x.shift /\ Stamp(x, x.time).time = x.time
      BY DEF Stamp
    <3>3. Stamp(q, q.time).shift = Stamp(p, p.time).shift
      BY <1>1, <1>4, <1>7, <2>2, <2>3, <3>1, <3>2 DEF OneShift
    <3> QED BY <2>2, <3>2, <3>3
  <2> QED BY <2>3 DEF OwnRow
<1> QED BY <1>6, <1>7

(* A form that is filled in shows, and announces, what the shift has.      *)
LEMMA FilledRest ==
  ASSUME NEW d \in Page, d.list = {r \in rows : r.day = d.day}, d.loco # None,
         desk' = Filled(d)
  PROVE  /\ desk'.content = InForm(In(rows, Chosen'))
         /\ desk'.hint = (In(rows, Chosen') # {})
<1> DEFINE g == ShiftOf(d)
<1>1. /\ desk'.loco = d.loco /\ desk'.day = d.day /\ desk'.shift = d.shift
      /\ desk'.content = InForm(In(d.list, g)) /\ desk'.hint = (In(d.list, g) # {})
  BY FilledIs
<1>2. Chosen' = g /\ g.day = d.day
  BY <1>1 DEF Chosen, ShiftOf
<1>3. \A r : GroupOf(r) = g => r.day = d.day
  BY <1>2 DEF GroupOf
<1> HIDE DEF g
<1>4. In(d.list, g) = In(rows, g)
  BY <1>3 DEF In
<1> QED BY <1>1, <1>2, <1>4

LEMMA FormCalm ==
  ASSUME Stored, Calm, FormStep, calm'
  PROVE  Calm'
<1>0. Next /\ Shape /\ desk \in Page /\ calm \in BOOLEAN
  BY DEF Next, Stored, Shape, TypeOK
<1> DEFINE User == calm /\ Idle /\ desk.modal = None
<1>1. ASSUME Act PROVE User
  BY <1>0, <1>1 DEF Act
<1>2. ASSUME NEW l \in Loco, PickLoco(l)
      PROVE  Calm'
  <2> DEFINE d == [desk EXCEPT !.loco = l]
  <2>1. User /\ l \in Found /\ desk' = Filled(d) /\ UNCHANGED <<rows, locos, loads, call>>
    BY <1>1, <1>2 DEF PickLoco
  <2>2. /\ d \in Page /\ d.loco = l /\ d.day = desk.day /\ d.list = desk.list
        /\ d.locos = desk.locos /\ d.modal = desk.modal /\ l # None
    BY <1>0, NoneAssumption DEF Page
  <2>3. d.list = {r \in rows : r.day = d.day} /\ desk.locos = locos
    BY <2>1, <2>2, Rest DEF Today
  <2> HIDE DEF d
  <2>4. /\ desk'.content = InForm(In(rows, Chosen')) /\ desk'.hint = (In(rows, Chosen') # {})
        /\ desk'.loco = l /\ desk'.day = desk.day /\ desk'.list = desk.list
        /\ desk'.locos = desk.locos /\ desk'.modal = None
    BY <2>1, <2>2, <2>3, FilledIs, FilledRest
  <2>5. Bookable(l)
    BY <2>1, <2>3 DEF Found, Bookable
  <2>6. Unbooked'
    BY <2>1, <2>4, <2>5 DEF Unbooked, Bookable
  <2> QED BY <1>0, <2>1, <2>4, <2>6, QuietCalm
<1>3. ASSUME NEW s \in Shift, ChooseShift(s)
      PROVE  Calm'
  <2> DEFINE d == [desk EXCEPT !.shift = s]
  <2>1. /\ User /\ desk.loco # None /\ desk' = Filled(d)
        /\ UNCHANGED <<rows, locos, loads, call>>
    BY <1>1, <1>3 DEF ChooseShift, DateShown
  <2>2. /\ d \in Page /\ d.loco = desk.loco /\ d.day = desk.day /\ d.list = desk.list
        /\ d.locos = desk.locos /\ d.modal = desk.modal
    BY <1>0 DEF Page
  <2>3. d.list = {r \in rows : r.day = d.day}
    BY <2>1, <2>2, Rest DEF Today
  <2> HIDE DEF d
  <2>4. /\ desk'.content = InForm(In(rows, Chosen')) /\ desk'.hint = (In(rows, Chosen') # {})
        /\ desk'.loco = desk.loco /\ desk'.day = desk.day /\ desk'.list = desk.list
        /\ desk'.locos = desk.locos /\ desk'.modal = None
    BY <2>1, <2>2, <2>3, FilledIs, FilledRest
  <2>5. Unbooked'
    BY <1>0, <2>1, <2>4, Rest, SameUnbooked
  <2> QED BY <1>0, <2>1, <2>4, <2>5, QuietCalm
<1>4. ASSUME NEW day \in Day, ChooseDay(day)
      PROVE  Calm'
  <2> DEFINE d == [desk EXCEPT !.day = day]
  <2>1. User /\ desk' = Filled(d) /\ Ask(Data(day)) /\ UNCHANGED <<rows, locos, call>>
    BY <1>1, <1>4 DEF ChooseDay
  <2>2. d \in Page /\ d.loco = desk.loco /\ d.day = day /\ d.modal = desk.modal
    BY <1>0 DEF Page
  <2> HIDE DEF d
  <2>3. desk'.loco = desk.loco /\ desk'.day = day /\ desk'.modal = None
    BY <2>1, <2>2, FilledIs
  <2>4. /\ Data(day) \in Load /\ Data(day).what = "data" /\ Data(day).from = day
        /\ Data(day).to = day /\ Data(day).got = None
    BY LoadIs
  <2> DEFINE q == Data(day)
  <2> HIDE DEF q
  <2>5. q \in Load /\ q.what = "data" /\ q.from = day /\ q.to = day /\ q.got = None /\ Ask(q)
    BY <2>1, <2>4 DEF q
  <2> QED BY <1>0, <2>1, <2>3, <2>5, AskCalm
<1>5. CASE DropLoco
  <2>1. /\ User /\ desk' = Emptied(desk) /\ UNCHANGED <<rows, locos, loads, call>>
    BY <1>1, <1>5 DEF DropLoco
  <2>2. /\ desk'.list = desk.list /\ desk'.locos = desk.locos /\ desk'.day = desk.day
        /\ desk'.loco = None /\ desk'.modal = None
    BY <1>0, <2>1 DEF Emptied, Page
  <2>3. Unbooked'
    BY <2>2 DEF Unbooked
  <2> QED BY <1>0, <2>1, <2>2, <2>3, QuietCalm
<1>6. ASSUME desk'.list = desk.list, desk'.locos = desk.locos, desk'.day = desk.day,
             desk'.loco = desk.loco, desk'.shift = desk.shift, desk'.hint = desk.hint,
             desk'.modal = desk.modal, touched' \/ (touched' = touched /\ desk'.content = desk.content),
             Act, UNCHANGED <<rows, locos, loads, call>>
      PROVE  Calm'
  <2>1. User /\ Chosen' = Chosen
    BY <1>1, <1>6 DEF Chosen
  <2>2. Unbooked'
    BY <1>0, <1>6, <2>1, Rest, SameUnbooked
  <2> QED BY <1>0, <1>6, <2>1, <2>2, Rest, QuietCalm
<1>7. ASSUME NEW j \in Job, ToggleJob(j)
      PROVE  Calm'
  <2> DEFINE c == IF j \in DOMAIN desk.content
                  THEN [k \in DOMAIN desk.content \ {j} |-> desk.content[k]]
                  ELSE [k \in DOMAIN desk.content \union {j} |->
                          IF k = j THEN {} ELSE desk.content[k]]
  <2>1. /\ desk' = [desk EXCEPT !.content = c] /\ touched' = TRUE /\ Act
        /\ UNCHANGED <<rows, locos, loads, call>>
    BY <1>7 DEF ToggleJob
  <2> HIDE DEF c
  <2> QED BY <1>0, <1>6, <2>1 DEF Page
<1>8. ASSUME NEW j \in Job, NEW x \in Text, WriteTask(j, x)
      PROVE  Calm'
  <2> DEFINE c == [desk.content EXCEPT ![j] = SymDiff(@, {x})]
  <2>1. /\ desk' = [desk EXCEPT !.content = c] /\ touched' = TRUE /\ Act
        /\ UNCHANGED <<rows, locos, loads, call>>
    BY <1>8 DEF WriteTask
  <2> HIDE DEF c
  <2> QED BY <1>0, <1>6, <2>1 DEF Page
<1>9. CASE OpenAdding
  <2>1. /\ desk' = [desk EXCEPT !.adding = TRUE] /\ touched' = touched /\ Act
        /\ UNCHANGED <<rows, locos, loads, call>>
    BY <1>9 DEF OpenAdding
  <2> QED BY <1>0, <1>6, <2>1 DEF Page
<1>10. CASE CancelAdding
  <2>1. /\ desk' = [desk EXCEPT !.adding = FALSE] /\ touched' = touched /\ Act
        /\ UNCHANGED <<rows, locos, loads, call>>
    BY <1>10 DEF CancelAdding
  <2> QED BY <1>0, <1>6, <2>1 DEF Page
<1>11. CASE Submit
  <2> DEFINE o == Of("create", Chosen, now)
             c == [o EXCEPT !.content = desk.content, !.warned = desk.hint]
  <2>1. /\ User /\ desk.tab = "booking" /\ desk.loco # None /\ now <= LastTime /\ Send(c)
        /\ desk' = [desk EXCEPT !.loading = TRUE, !.hint = FALSE]
        /\ UNCHANGED <<rows, locos, loads, touched>>
    BY <1>1, <1>11 DEF Submit, SubmitShown, JobsShown, OnForm
  <2>2. Chosen \in Group /\ now \in Time /\ "create" \in Kinds
    BY <1>0, <2>1, BoundsAssumption DEF Chosen, Group, Page, Time, Midnight, Kinds, Shape, TypeOK
  <2>3. o \in Change /\ o.kind = "create" /\ o.group = Chosen
    BY <1>0, <2>2, OfIs
  <2>4. desk.content \in Content /\ desk.hint \in BOOLEAN
    BY <1>0 DEF Page
  <2> HIDE DEF o
  <2>5. c \in Change /\ c.kind = "create" /\ c.group = Chosen /\ c.warned = desk.hint
    BY <2>3, <2>4 DEF Change
  <2> HIDE DEF c
  <2>6. /\ call' # None /\ call'.at = "sent" /\ call'.onDay = desk.day /\ call'.kind = "create"
        /\ call'.group = Chosen /\ call'.warned = desk.hint
    BY <1>0, <2>1, <2>5, SendIs
  <2>7. /\ desk'.list = desk.list /\ desk'.locos = desk.locos /\ desk'.day = desk.day
        /\ desk'.loco = desk.loco /\ desk'.shift = desk.shift /\ desk'.content = desk.content
        /\ desk'.modal = desk.modal /\ desk'.tab = desk.tab
    BY <1>0, <2>1 DEF Page
  <2> QED BY <1>0, <2>1, <2>6, <2>7, SentCalm DEF ToRow
<1>12. ASSUME NEW l \in Loco, NEW v \in BOOLEAN, AddLoco(l, v)
       PROVE  Calm'
  <2> DEFINE o == Of("loco", None, Midnight)
             c == [o EXCEPT !.loco = l, !.despatched = v]
  <2>1. /\ User /\ Send(c) /\ desk' = [desk EXCEPT !.loading = TRUE]
        /\ UNCHANGED <<rows, locos, loads, touched>>
    BY <1>1, <1>12 DEF AddLoco
  <2>2. Midnight \in Time /\ "loco" \in Kinds
    BY BoundsAssumption DEF Time, Midnight, Kinds
  <2>3. o \in Change /\ o.kind = "loco"
    BY <1>0, <2>2, OfIs
  <2> HIDE DEF o
  <2>4. c \in Change /\ c.kind = "loco"
    BY <2>3 DEF Change
  <2> HIDE DEF c
  <2>5. call' # None /\ call'.at = "sent" /\ call'.onDay = desk.day /\ call'.kind = "loco"
    BY <1>0, <2>1, <2>4, SendIs
  <2>6. /\ desk'.list = desk.list /\ desk'.locos = desk.locos /\ desk'.day = desk.day
        /\ desk'.loco = desk.loco /\ desk'.shift = desk.shift /\ desk'.content = desk.content
        /\ desk'.modal = desk.modal /\ desk'.tab = desk.tab /\ desk'.hint = desk.hint
    BY <1>0, <2>1 DEF Page
  <2> QED BY <1>0, <2>1, <2>5, <2>6, SentCalm DEF ToRow
<1> QED BY <1>2, <1>3, <1>4, <1>5, <1>7, <1>8, <1>9, <1>10, <1>11, <1>12 DEF FormStep

LEMMA ButtonCalm ==
  ASSUME Stored, Calm, calm, Idle, Next, UNCHANGED <<rows, locos, desk, loads, touched>>,
         NEW c \in Change, Send(c), c.kind # "create",
         desk.modal # None => c.kind = desk.modal.kind,
         desk.tab = "list" /\ c.kind \in ToRow => OwnRow(c)
  PROVE  Calm'
<1>1. desk \in Page
  BY DEF Stored, Shape, TypeOK
<1>2. /\ call' # None /\ call'.at = "sent" /\ call'.onDay = desk.day /\ call'.from = desk.tab
      /\ call'.kind = c.kind /\ call'.group = c.group /\ call'.time = c.time /\ call'.job = c.job
  BY <1>1, SendIs
<1>3. call'.from = "list" /\ call'.kind \in ToRow => OwnRow(call')
  BY <1>2 DEF OwnRow
<1> QED BY <1>2, <1>3, SentCalm

LEMMA ModalCalm ==
  ASSUME Stored, Calm, calm', Next, NEW m, OpenModal(m),
         desk.tab = "list" /\ m.kind \in ToRow => OwnRow(m)
  PROVE  Calm'
<1>1. desk \in Page /\ calm \in BOOLEAN
  BY DEF Stored, Shape, TypeOK
<1>2. /\ calm /\ Idle /\ desk' = [desk EXCEPT !.modal = m]
      /\ UNCHANGED <<rows, locos, loads, call, touched>>
  BY <1>1 DEF OpenModal, Act
<1>3. /\ desk'.list = desk.list /\ desk'.locos = desk.locos /\ desk'.day = desk.day
      /\ desk'.loco = desk.loco /\ desk'.shift = desk.shift /\ desk'.content = desk.content
      /\ desk'.hint = desk.hint /\ desk'.tab = desk.tab /\ desk'.modal = m
  BY <1>1, <1>2 DEF Page
<1>4. Unbooked' /\ Chosen' = Chosen
  BY <1>2, <1>3, Rest, SameUnbooked DEF Chosen
<1> QED BY <1>2, <1>3, <1>4, Rest, QuietCalm

LEMMA ListCalm ==
  ASSUME Stored, Calm, ListStep, calm'
  PROVE  Calm'
<1>0. Next /\ Shape /\ desk \in Page /\ calm \in BOOLEAN
  BY DEF Next, Stored, Shape, TypeOK
<1>1. ASSUME Act PROVE calm /\ Idle /\ desk.modal = None
  BY <1>0, <1>1 DEF Act
<1>2. ASSUME desk'.list = desk.list, desk'.locos = desk.locos, desk'.day = desk.day,
             desk'.loco = desk.loco, desk'.shift = desk.shift, desk'.hint = desk.hint,
             desk'.content = desk.content, desk'.modal = None, calm, Idle,
             UNCHANGED <<rows, locos, loads, call, touched>>
      PROVE  Calm'
  <2>1. Chosen' = Chosen /\ Unbooked'
    BY <1>0, <1>2, Rest, SameUnbooked DEF Chosen
  <2> QED BY <1>0, <1>2, <2>1, Rest, QuietCalm
<1>3. ASSUME NEW a \in Day, NEW b \in Day, Act, Ask(History(a, b)),
             desk'.list = desk.list, desk'.locos = desk.locos, desk'.day = desk.day,
             desk'.loco = desk.loco, desk'.shift = desk.shift, desk'.hint = desk.hint,
             desk'.content = desk.content, desk'.modal = None,
             UNCHANGED <<rows, locos, call, touched>>
      PROVE  Calm'
  <2> DEFINE q == History(a, b)
  <2>1. q \in Load /\ q.what = "history" /\ Ask(q)
    BY <1>3, LoadIs
  <2> HIDE DEF q
  <2> QED BY <1>0, <1>1, <1>3, <2>1, AskCalm
<1>4. ASSUME NEW t \in Tabs, SwitchTab(t)
      PROVE  Calm'
  <2>1. Act /\ desk' = [desk EXCEPT !.tab = t] /\ UNCHANGED <<rows, locos, call, touched>>
    BY <1>4 DEF SwitchTab
  <2>2. /\ desk'.list = desk.list /\ desk'.locos = desk.locos /\ desk'.day = desk.day
        /\ desk'.loco = desk.loco /\ desk'.shift = desk.shift /\ desk'.hint = desk.hint
        /\ desk'.content = desk.content /\ desk'.modal = None
    BY <1>0, <1>1, <2>1 DEF Page
  <2>3. CASE t = "history"
    <3>1. Ask(History(desk.from, desk.to)) /\ desk.from \in Day /\ desk.to \in Day
      BY <1>0, <1>4, <2>3 DEF SwitchTab, Page
    <3> QED BY <1>3, <2>1, <2>2, <3>1
  <2>4. CASE t # "history"
    <3>1. UNCHANGED loads
      BY <1>4, <2>4 DEF SwitchTab
    <3> QED BY <1>1, <1>2, <2>1, <2>2, <3>1
  <2> QED BY <2>3, <2>4
<1>5. ASSUME NEW a \in Day, NEW b \in Day, SetRange(a, b)
      PROVE  Calm'
  <2>1. /\ Act /\ desk' = [desk EXCEPT !.from = a, !.to = b] /\ Ask(History(a, b))
        /\ UNCHANGED <<rows, locos, call, touched>>
    BY <1>5 DEF SetRange
  <2>2. /\ desk'.list = desk.list /\ desk'.locos = desk.locos /\ desk'.day = desk.day
        /\ desk'.loco = desk.loco /\ desk'.shift = desk.shift /\ desk'.hint = desk.hint
        /\ desk'.content = desk.content /\ desk'.modal = None
    BY <1>0, <1>1, <2>1 DEF Page
  <2> QED BY <1>3, <2>1, <2>2
<1>6. CASE ToggleEditMode
  <2>1. /\ Act /\ desk' = [desk EXCEPT !.editMode = ~desk.editMode]
        /\ UNCHANGED <<rows, locos, loads, call, touched>>
    BY <1>6 DEF ToggleEditMode
  <2>2. /\ desk'.list = desk.list /\ desk'.locos = desk.locos /\ desk'.day = desk.day
        /\ desk'.loco = desk.loco /\ desk'.shift = desk.shift /\ desk'.hint = desk.hint
        /\ desk'.content = desk.content /\ desk'.modal = None
    BY <1>0, <1>1, <2>1 DEF Page
  <2> QED BY <1>1, <1>2, <2>1, <2>2
<1>7. CASE CloseModal
  <2>1. /\ calm /\ Idle /\ desk' = [desk EXCEPT !.modal = None]
        /\ UNCHANGED <<rows, locos, loads, call, touched>>
    BY <1>0, <1>7 DEF CloseModal
  <2>2. /\ desk'.list = desk.list /\ desk'.locos = desk.locos /\ desk'.day = desk.day
        /\ desk'.loco = desk.loco /\ desk'.shift = desk.shift /\ desk'.hint = desk.hint
        /\ desk'.content = desk.content /\ desk'.modal = None
    BY <1>0, <2>1 DEF Page
  <2> QED BY <1>2, <2>1, <2>2
<1>8. ASSUME NEW g \in Cards, DeleteCard(g)
      PROVE  Calm'
  <2> DEFINE c == Of("deleteCard", g, CardTime(g))
  <2>1. c \in Change /\ c.kind = "deleteCard"
    BY <1>0, CardIs, OfIs DEF Kinds
  <2>2. Act /\ Send(c) /\ UNCHANGED <<rows, locos, desk, loads, touched>>
    BY <1>8 DEF DeleteCard
  <2> HIDE DEF c
  <2> QED BY <1>0, <1>1, <2>1, <2>2, ButtonCalm DEF ToRow
<1>9. ASSUME NEW g \in Cards, NEW j \in Job, DeleteJob(g, j)
      PROVE  Calm'
  <2> DEFINE o == Of("deleteJob", g, CardTime(g))
             c == [o EXCEPT !.job = j]
  <2>1. o \in Change /\ o.kind = "deleteJob" /\ o.group = g /\ o.time = CardTime(g)
    BY <1>0, CardIs, OfIs DEF Kinds
  <2>2. Act /\ Send(c) /\ j \in JobsOf(g) /\ UNCHANGED <<rows, locos, desk, loads, touched>>
    BY <1>9 DEF DeleteJob
  <2> HIDE DEF o
  <2>3. c \in Change /\ c.kind = "deleteJob" /\ c.group = g /\ c.time = CardTime(g) /\ c.job = j
    BY <2>1 DEF Change
  <2> HIDE DEF c
  <2>4. desk.tab = "list" => OwnRow(c)
    BY <1>1, <2>2, <2>3, Rest, OwnJob
  <2> QED BY <1>0, <1>1, <2>2, <2>3, <2>4, ButtonCalm
<1>10. ASSUME NEW g \in Cards, NEW j \in Job, NEW x \in Text, AddTask(g, j, x)
       PROVE  Calm'
  <2> DEFINE o == Of("addTask", g, CardTime(g))
             c == [o EXCEPT !.job = j, !.to = x]
  <2>1. o \in Change /\ o.kind = "addTask" /\ o.group = g /\ o.time = CardTime(g)
    BY <1>0, CardIs, OfIs DEF Kinds
  <2>2. Act /\ Send(c) /\ j \in JobsOf(g) /\ UNCHANGED <<rows, locos, desk, loads, touched>>
    BY <1>10 DEF AddTask
  <2> HIDE DEF o
  <2>3. c \in Change /\ c.kind = "addTask" /\ c.group = g /\ c.time = CardTime(g) /\ c.job = j
    BY <2>1 DEF Change
  <2> HIDE DEF c
  <2>4. desk.tab = "list" => OwnRow(c)
    BY <1>1, <2>2, <2>3, Rest, OwnJob
  <2> QED BY <1>0, <1>1, <2>2, <2>3, <2>4, ButtonCalm
<1>11. ASSUME NEW g \in Cards, NEW r, NEW x, DeleteTask(g, r, x)
       PROVE  Calm'
  <2> DEFINE o == Of("deleteTask", g, r.time)
             c == [o EXCEPT !.job = r.job, !.text = x]
  <2>1. r \in Row /\ x \in Text /\ g \in Group
    BY <1>0, <1>11, TaskIs, CardIs DEF DeleteTask
  <2>2. o \in Change /\ o.kind = "deleteTask"
    BY <1>0, <2>1, OfIs DEF Kinds, Row
  <2>3. Act /\ Send(c) /\ UNCHANGED <<rows, locos, desk, loads, touched>>
    BY <1>11 DEF DeleteTask
  <2> HIDE DEF o
  <2>4. r.job \in Job
    BY <2>1 DEF Row
  <2>5. c \in Change /\ c.kind = "deleteTask"
    BY <2>1, <2>2, <2>4 DEF Change
  <2> HIDE DEF c
  <2> QED BY <1>0, <1>1, <2>3, <2>5, ButtonCalm DEF ToRow
<1>12. ASSUME NEW g \in Cards, AddJob(g)
       PROVE  Calm'
  <2> DEFINE m == Of("addJob", g, CardTime(g))
  <2>1. m.kind = "addJob"
    BY <1>0, CardIs, OfIs DEF Kinds
  <2>2. OpenModal(m)
    BY <1>12 DEF AddJob
  <2> HIDE DEF m
  <2> QED BY <1>0, <2>1, <2>2, ModalCalm DEF ToRow
<1>13. ASSUME NEW g \in Cards, NEW j \in Job, EditJob(g, j)
       PROVE  Calm'
  <2> DEFINE o == Of("editJob", g, CardTime(g))
             m == [o EXCEPT !.job = j]
  <2>1. o \in Change /\ o.group = g /\ o.time = CardTime(g)
    BY <1>0, CardIs, OfIs DEF Kinds
  <2>2. OpenModal(m) /\ j \in JobsOf(g)
    BY <1>13 DEF EditJob
  <2> HIDE DEF o
  <2>3. m.group = g /\ m.time = CardTime(g) /\ m.job = j
    BY <2>1 DEF Change
  <2> HIDE DEF m
  <2>4. desk.tab = "list" => OwnRow(m)
    BY <1>1, <2>2, <2>3, Rest, OwnJob DEF OpenModal
  <2> QED BY <1>0, <2>2, <2>4, ModalCalm
<1>14. ASSUME NEW g \in Cards, NEW r, NEW x, EditTask(g, r, x)
       PROVE  Calm'
  <2> DEFINE o == Of("editTask", g, r.time)
             m == [o EXCEPT !.job = r.job, !.text = x]
  <2>1. r \in Row /\ r \in In(Shown, g) /\ g \in Group
    BY <1>0, <1>14, TaskIs, CardIs DEF EditTask
  <2>2. o \in Change /\ o.group = g /\ o.time = r.time
    BY <1>0, <2>1, OfIs DEF Kinds, Row
  <2>3. OpenModal(m)
    BY <1>14 DEF EditTask
  <2> HIDE DEF o
  <2>4. m.group = g /\ m.time = r.time /\ m.job = r.job
    BY <2>2 DEF Change
  <2> HIDE DEF m
  <2>5. desk.tab = "list" => OwnRow(m)
    BY <1>1, <2>1, <2>3, <2>4, Rest, OwnTask DEF OpenModal
  <2> QED BY <1>0, <2>3, <2>5, ModalCalm
<1>15. ASSUME desk.modal # None, calm, Idle, UNCHANGED <<rows, locos, desk, loads, touched>>,
              NEW c \in Change, Send(c), c.kind = desk.modal.kind, c.group = desk.modal.group,
              c.time = desk.modal.time, c.kind \in ToRow => c.job = desk.modal.job
       PROVE  Calm'
  <2>1. ModalShape(desk.modal)
    BY <1>0, <1>15 DEF Shape
  <2>2. desk.tab = "list" /\ c.kind \in ToRow => OwnRow(c)
    BY <1>15, Rest DEF OwnRow
  <2> QED BY <1>0, <1>15, <2>1, <2>2, ButtonCalm DEF ModalShape
<1>16. ASSUME NEW j \in Job, SaveJob(j) \/ SaveNewJob(j)
       PROVE  Calm'
  <2>1. /\ desk.modal # None /\ desk.modal \in Change /\ calm /\ Idle
        /\ desk.modal.kind \in {"editJob", "addJob"} /\ UNCHANGED <<rows, locos, desk, loads, touched>>
    BY <1>0, <1>16 DEF SaveJob, SaveNewJob, Page
  <2> DEFINE c == IF desk.modal.kind = "editJob" THEN [desk.modal EXCEPT !.to = j]
                                                ELSE [desk.modal EXCEPT !.job = j]
  <2>2. Send(c)
    BY <1>16 DEF SaveJob, SaveNewJob
  <2>3. /\ c \in Change /\ c.kind = desk.modal.kind /\ c.group = desk.modal.group
        /\ c.time = desk.modal.time
        /\ c.kind = "editJob" => c.job = desk.modal.job
    BY <1>16, <2>1 DEF SaveJob, SaveNewJob, Change
  <2> HIDE DEF c
  <2>4. c.kind \in ToRow => c.job = desk.modal.job
    BY <2>1, <2>3 DEF ToRow
  <2> QED BY <1>15, <2>1, <2>2, <2>3, <2>4
<1>17. ASSUME NEW x \in Text, SaveTask(x)
       PROVE  Calm'
  <2>1. /\ desk.modal # None /\ desk.modal \in Change /\ calm /\ Idle
        /\ UNCHANGED <<rows, locos, desk, loads, touched>>
    BY <1>0, <1>17 DEF SaveTask, Page
  <2> DEFINE c == [desk.modal EXCEPT !.to = x]
  <2>2. Send(c)
    BY <1>17 DEF SaveTask
  <2>3. /\ c \in Change /\ c.kind = desk.modal.kind /\ c.group = desk.modal.group
        /\ c.time = desk.modal.time /\ c.job = desk.modal.job
    BY <2>1 DEF Change
  <2> HIDE DEF c
  <2> QED BY <1>15, <2>1, <2>2, <2>3
<1> QED BY <1>4, <1>5, <1>6, <1>7, <1>8, <1>9, <1>10, <1>11, <1>12, <1>13, <1>14, <1>16, <1>17
        DEF ListStep, Tabs

(* A change is handled.                                                    *)
LEMMA HandleCalm ==
  ASSUME Stored, Calm, Handle, calm'
  PROVE  Calm'
<1>0. Next /\ Shape /\ call \in Change /\ call.kind \in Kinds /\ rows \subseteq Row /\ Keys
  BY DEF Next, SystemStep, Stored, Shape, TypeOK, Handle, Change
<1>1. /\ calm /\ call # None /\ call.at = "sent"
      /\ UNCHANGED <<desk, loads, touched>>
  BY DEF Handle
<1>2. /\ Alone /\ ListOf(desk.day) /\ Loaded /\ Added
      /\ Announced /\ Unbooked /\ Submitted /\ CallOwned /\ ModalOwned
  BY <1>1 DEF Calm
<1>3. loads = <<>> /\ DOMAIN loads = {} /\ Len(loads) = 0 /\ Settled
  BY <1>1, <1>2 DEF Alone, Settled
<1>4. PICK a \in {"done", "refused"} :
        /\ call' = [call EXCEPT !.at = a]
        /\ IF a = "done" THEN Accepted(call) ELSE ~Accepted(call)
  BY DEF Handle
<1>5. /\ call' \in Change /\ call' # None /\ call'.at = a
      /\ call'.kind = call.kind /\ call'.group = call.group /\ call'.onDay = call.onDay
      /\ call'.loco = call.loco /\ call'.despatched = call.despatched /\ call'.from = call.from
  BY <1>0, <1>4, NoneAssumption DEF Change
<1>6. Alone' /\ ListOf(desk.day)' /\ CallOwned'
  BY <1>1, <1>2, <1>3, <1>4, <1>5 DEF Alone, ListOf, CallOwned
<1>7. Chosen' = Chosen /\ (rows' = rows => Today' = Today)
  BY <1>1 DEF Chosen, Today
<1>8. CASE a = "refused"
  <2>1. UNCHANGED <<rows, locos>> /\ ~Accepted(call)
    BY <1>4, <1>8, <1>5 DEF Handle
  <2>2. Loaded' /\ Announced' /\ ModalOwned' /\ Added'
    BY <1>1, <1>2, <1>3, <1>5, <1>7, <1>8, <2>1 DEF Loaded, Announced, ModalOwned, OwnRow, Added
  <2>3. Unbooked'
    BY <1>0, <1>1, <1>2, <2>1, SameUnbooked
  <2>4. ASSUME call.kind = "create" PROVE In(rows, Chosen) = {}
    <3>1. call.group = Chosen /\ desk.loco # None /\ Chosen.loco = desk.loco
      BY <1>1, <1>2, <2>4 DEF Submitted, Chosen
    <3>2. ~Bookable(desk.loco)
      BY <2>1, <2>4, <3>1 DEF Accepted
    <3>3. \A r \in rows : r.loco # desk.loco
      BY <1>2, <3>1, <3>2 DEF Unbooked, Unused, Seen
    <3>4. \A r \in rows : GroupOf(r) = Chosen => r.loco = desk.loco
      BY DEF GroupOf, Chosen
    <3> QED BY <3>3, <3>4 DEF In
  <2>5. Submitted'
    BY <1>1, <1>2, <1>5, <1>7, <1>8, <2>1, <2>4 DEF Submitted
  <2> QED BY <1>6, <2>2, <2>3, <2>5 DEF Calm
<1>9. CASE a = "done"
  <2>1. /\ Accepted(call) /\ rows' = RowsAfter(call)
        /\ locos' = IF call.kind = "loco" THEN With(locos, call.loco, call.despatched) ELSE locos
    BY <1>4, <1>5, <1>9 DEF Handle
  <2>2. ~Settled'
    BY <1>5, <1>9 DEF Settled
  <2>3. Loaded' /\ Announced' /\ ModalOwned'
    BY <1>5, <1>9, <2>2 DEF Loaded, Announced, ModalOwned
  <2>4. Submitted'
    BY <1>1, <1>2, <1>5, <1>7, <1>9 DEF Submitted
  <2>5. ASSUME call.kind = "loco"
        PROVE  rows' = rows /\ call.loco \notin DOMAIN locos /\ Unused(call.loco)
    <3>1. rows' = rows /\ call.loco \notin DOMAIN locos
      BY <2>1, <2>5 DEF RowsAfter, Accepted
    <3> QED BY <3>1 DEF Stored, Listed, Unused
  <2>6. Added'
    <3> SUFFICES ASSUME call.kind = "loco"
                 PROVE  /\ desk'.list = Today'
                        /\ locos' = With(desk'.locos, call'.loco, call'.despatched)
                        /\ Unused(call.loco)'
      BY <1>5 DEF Added, Unused
    <3>1. desk.list = Today /\ desk.locos = locos
      BY <1>2, <1>3 DEF Loaded
    <3> DEFINE l == call.loco
    <3>2. Unused(l) /\ \A r \in rows' : r \in rows
      BY <2>5
    <3> HIDE DEF l
    <3>3. /\ \A r \in Seen' : r.loco # l
          /\ \A c \in Meant' : c.kind # "create" => c.group.loco # l
      BY <1>0, <3>2, UnusedStep
    <3>4. Unused(call.loco)'
      BY <1>5, <3>3 DEF Unused, l
    <3> QED BY <1>1, <1>5, <1>7, <2>1, <2>5, <3>1, <3>4
  <2>7. Unbooked'
    <3> DEFINE l == desk.loco
    <3>1. ASSUME l # None, ~Bookable(l)'
          PROVE  Unused(l) /\ \A r \in rows' : r \in rows \/ r.loco # l
      <4>1. ~Bookable(l)
        <5>1. CASE call.kind = "loco"
          <6>1. CASE l = call.loco
            BY <2>5, <5>1, <6>1 DEF Bookable
          <6>2. CASE l # call.loco
            <7>1. DOMAIN locos' = DOMAIN locos \union {call.loco}
              BY <2>1, <5>1 DEF With
            <7>2. l \in DOMAIN locos => locos'[l] = locos[l]
              BY <2>1, <5>1, <6>2 DEF With
            <7> QED BY <1>1, <3>1, <7>1, <7>2 DEF Bookable
          <6> QED BY <6>1, <6>2
        <5>2. CASE call.kind # "loco"
          BY <1>1, <2>1, <3>1, <5>2 DEF Bookable
        <5> QED BY <5>1, <5>2
      <4>2. Unused(l)
        BY <1>2, <3>1, <4>1 DEF Unbooked
      <4>3. Kin(rows', call)
        BY <1>1, <2>1, AcceptedTables
      <4>4. \A q \in rows : q.loco # l
        BY <4>2 DEF Unused, Seen
      <4>5. ASSUME NEW r \in rows', r \notin rows, Own(call, r)
            PROVE  r.loco # l
        <5>1. r.loco = call.group.loco
          BY <4>5 DEF Own
        <5>2. CASE call.kind = "create"
          <6>1. Bookable(call.group.loco)
            BY <2>1, <5>2 DEF Accepted
          <6> QED BY <4>1, <5>1, <6>1
        <5>3. CASE call.kind = "loco"
          BY <2>5, <4>5, <5>3
        <5>4. CASE call.kind \notin {"create", "loco"}
          <6>1. call \in Meant
            BY <1>1, <5>4 DEF Meant
          <6> QED BY <4>2, <5>1, <5>4, <6>1 DEF Unused
        <5> QED BY <5>2, <5>3, <5>4
      <4>6. ASSUME NEW r \in rows', NEW q \in rows, Stamp(r, r.time) = Stamp(q, q.time)
            PROVE  r.loco # l
        <5>1. \A x : Stamp(x, x.time).loco = x.loco
          BY DEF Stamp
        <5>2. r.loco = q.loco
          BY <4>6, <5>1
        <5> QED BY <4>4, <5>2
      <4> HIDE DEF l
      <4> QED BY <4>2, <4>3, <4>5, <4>6 DEF Kin
    <3>2. ASSUME l # None, ~Bookable(l)'
          PROVE  /\ \A r \in Seen' : r.loco # l
                 /\ \A c \in Meant' : c.kind # "create" => c.group.loco # l
      <4>1. Unused(l) /\ \A r \in rows' : r \in rows \/ r.loco # l
        BY <3>1, <3>2
      <4> HIDE DEF l
      <4> QED BY <1>0, <4>1, UnusedStep
    <3>3. desk'.loco = l
      BY <1>1
    <3> QED BY <3>2, <3>3 DEF Unbooked, Unused, Bookable
  <2> QED BY <1>6, <2>3, <2>4, <2>6, <2>7 DEF Calm
<1> QED BY <1>8, <1>9

(* The page hears what became of its change.                               *)
LEMMA AnsweredCalm ==
  ASSUME Stored, Calm, Answered, calm'
  PROVE  Calm'
<1>0. /\ Next /\ Shape /\ desk \in Page /\ call \in Change /\ call # None /\ CallShape(call)
      /\ loads \in Seq(Load)
  BY DEF Next, SystemStep, Stored, Shape, TypeOK, Answered
<1>1. calm /\ call' = None /\ UNCHANGED <<rows, locos>>
  BY DEF Answered
<1>2. /\ Alone /\ ListOf(desk.day) /\ Loaded /\ Added
      /\ Announced /\ Unbooked /\ Submitted /\ CallOwned /\ ModalOwned
  BY <1>1 DEF Calm
<1>3. /\ loads = <<>> /\ DOMAIN loads = {} /\ Len(loads) = 0 /\ call.onDay = desk.day /\ desk.day \in Day
      /\ desk.modal # None => call.kind = desk.modal.kind
  BY <1>0, <1>2 DEF Alone, Page
<1>4. call.kind \in {"create", "loco"} => desk.modal = None
  BY <1>0, <1>3 DEF Shape, ModalShape
<1>5. Added' /\ Submitted' /\ CallOwned'
  BY <1>1 DEF Added, Submitted, CallOwned
<1>6. ASSUME Ask(Data(call.onDay)), desk'.day = desk.day, desk'.modal = None, Unbooked'
      PROVE  Calm'
  <2> DEFINE l == Data(desk.day)
  <2>1. /\ l \in Load /\ l.what = "data" /\ l.from = desk.day /\ l.to = desk.day /\ l.got = None
        /\ Ask(l)
    BY <1>3, <1>6, LoadIs
  <2> HIDE DEF l
  <2>2. /\ loads' \in Seq(Load) /\ Len(loads') = Len(loads) + 1 /\ loads'[Len(loads) + 1] = l
    BY <1>0, <2>1, AppendProperties DEF Ask
  <2>3. DOMAIN loads' = 1..Len(loads')
    BY <2>2, LenProperties
  <2>4. Len(loads') = 1 /\ DOMAIN loads' = {1} /\ loads'[1] = l
    BY <1>3, <2>2, <2>3
  <2>5. ~Settled'
    BY <2>1, <2>4 DEF Settled
  <2>6. Alone' /\ ListOf(desk.day)'
    BY <1>1, <1>6, <2>1, <2>4 DEF Alone, ListOf
  <2>7. Loaded' /\ Announced' /\ ModalOwned'
    BY <1>6, <2>5 DEF Loaded, Announced, ModalOwned
  <2> QED BY <1>5, <1>6, <2>6, <2>7 DEF Calm
<1>7. CASE BookingSaved
  <2>1. Ask(Data(call.onDay)) /\ desk' = Ready(Emptied(desk)) /\ call.kind = "create"
    BY <1>7 DEF BookingSaved
  <2>2. desk'.day = desk.day /\ desk'.modal = desk.modal /\ desk'.loco = None
    BY <1>0, <2>1 DEF Ready, Emptied, Page
  <2>3. Unbooked'
    BY <2>2 DEF Unbooked
  <2> QED BY <1>4, <1>6, <2>1, <2>2, <2>3
<1>8. CASE ListChanged
  <2> DEFINE m == IF desk.modal # None /\ desk.modal.kind = call.kind THEN None ELSE desk.modal
  <2>1. Ask(Data(call.onDay)) /\ desk' = [desk EXCEPT !.modal = m]
    BY <1>8 DEF ListChanged
  <2>2. m = None
    BY <1>3
  <2> HIDE DEF m
  <2>3. desk'.day = desk.day /\ desk'.modal = None /\ desk'.loco = desk.loco
    BY <1>0, <2>1, <2>2 DEF Page
  <2>4. Unbooked'
    BY <1>0, <1>1, <1>2, <2>3, SameUnbooked
  <2> QED BY <1>6, <2>1, <2>3, <2>4
<1>9. CASE LocoAdded /\ call.at = "done"
  <2> DEFINE l == call.loco
             d == [desk EXCEPT !.locos = With(@, l, call.despatched), !.loco = l, !.adding = FALSE]
  <2>1. /\ desk' = Ready(Filled(d)) /\ touched' = FALSE /\ loads' = loads /\ call.kind = "loco"
        /\ call.at = "done"
    BY <1>9 DEF LocoAdded
  <2>2. desk.list = Today /\ locos = With(desk.locos, l, call.despatched) /\ Unused(l)
    BY <1>0, <1>2, <2>1 DEF Added
  <2>3. l \in Loco /\ l # None /\ call.despatched \in BOOLEAN /\ desk.modal = None
    BY <1>0, <1>4, <2>1 DEF CallShape, Complete, Change
  <2>4. locos \in LocoTable
    BY DEF Stored, Shape, TypeOK
  <2>5. d = [desk EXCEPT !.locos = locos, !.loco = l, !.adding = FALSE]
    BY <2>2
  <2> HIDE DEF d
  <2>6. /\ d \in Page /\ d.loco = l /\ d.day = desk.day /\ d.list = desk.list /\ d.locos = locos
        /\ d.modal = None
    BY <1>0, <2>3, <2>4, <2>5 DEF Page
  <2> DEFINE e == Filled(d)
             R == In(d.list, ShiftOf(d))
  <2>7. /\ e \in Page /\ e.loco = l /\ e.day = desk.day /\ e.shift = d.shift /\ e.list = desk.list
        /\ e.locos = locos /\ e.modal = None /\ e.content = InForm(R) /\ e.hint = (R # {})
    BY <2>3, <2>6, FilledIs
  <2>8. desk' = Ready(e)
    BY <2>1
  <2> HIDE DEF e
  <2>9. /\ desk'.loco = l /\ desk'.day = desk.day /\ desk'.shift = d.shift /\ desk'.list = desk.list
        /\ desk'.locos = locos /\ desk'.modal = None
        /\ desk'.content = InForm(R) /\ desk'.hint = (R # {})
    <3> HIDE DEF R
    <3> QED BY <2>7, <2>8 DEF Ready, Page
  <2>10. Chosen' = ShiftOf(d) /\ ShiftOf(d).day = desk.day
    BY <2>6, <2>9 DEF Chosen, ShiftOf
  <2>11. R = In(rows, ShiftOf(d))
    <3>1. \A g : g.day = desk.day => In(Today, g) = In(rows, g)
      BY TodayIs
    <3> QED BY <2>2, <2>6, <2>10, <3>1
  <2>12. desk'.content = InForm(In(rows', Chosen')) /\ desk'.hint = (In(rows', Chosen') # {})
    <3> HIDE DEF R
    <3> QED BY <1>1, <2>9, <2>10, <2>11
  <2>13. desk'.list = Today' /\ desk'.locos = locos'
    BY <1>1, <2>2, <2>9 DEF Today
  <2>14. Loaded' /\ Announced' /\ ModalOwned'
    BY <2>9, <2>12, <2>13 DEF Loaded, Announced, ModalOwned
  <2>15. loads' = <<>> /\ DOMAIN loads' = {} /\ Len(loads') = 0
    BY <1>3, <2>1
  <2>16. Alone' /\ ListOf(desk.day)'
    BY <1>1, <2>15 DEF Alone, ListOf
  <2>17. Unbooked'
    <3> HIDE DEF l
    <3>1. /\ \A r \in Seen' : r.loco # l
          /\ \A c \in Meant' : c.kind # "create" => c.group.loco # l
      BY <1>0, <1>1, <2>2, UnusedStep
    <3> QED BY <2>9, <3>1 DEF Unbooked, Unused
  <2> QED BY <1>5, <2>14, <2>16, <2>17 DEF Calm
<1>10. CASE Failed
  <2>1. call.at = "refused" /\ touched' = touched /\ loads' = loads
    BY <1>0, <1>2, <1>10 DEF Failed, Alone
  <2>2. Settled
    BY <1>3, <2>1 DEF Settled
  <2>3. /\ desk'.list = desk.list /\ desk'.locos = desk.locos /\ desk'.day = desk.day
        /\ desk'.loco = desk.loco /\ desk'.shift = desk.shift /\ desk'.content = desk.content
        /\ desk'.tab = desk.tab /\ desk'.modal = desk.modal
        /\ call.kind # "create" => desk'.hint = desk.hint
    BY <1>0, <1>10 DEF Failed, Ready, Page
  <2>4. Chosen' = Chosen /\ Today' = Today
    BY <1>1, <2>3 DEF Chosen, Today
  <2>5. Loaded' /\ ModalOwned'
    BY <1>1, <1>2, <2>1, <2>2, <2>3, <2>4 DEF Loaded, ModalOwned, OwnRow
  <2>6. Announced'
    BY <1>0, <1>1, <1>2, <2>1, <2>2, <2>3, <2>4 DEF Announced, Submitted
  <2>7. Unbooked'
    BY <1>0, <1>1, <1>2, <2>3, SameUnbooked
  <2>8. Alone' /\ ListOf(desk.day)'
    BY <1>1, <1>3, <2>1 DEF Alone, ListOf
  <2> QED BY <1>5, <2>5, <2>6, <2>7, <2>8 DEF Calm
<1> QED BY <1>7, <1>8, <1>9, <1>10 DEF Answered

(* A list is answered, and comes.                                          *)
LEMMA ReadCalm ==
  ASSUME Stored, Calm, NEW i \in DOMAIN loads, Read(i), calm'
  PROVE  Calm'
<1>0. /\ Next /\ Shape /\ desk \in Page /\ rows \subseteq Row /\ locos \in LocoTable
      /\ loads \in Seq(Load)
  BY DEF Next, SystemStep, Stored, Shape, TypeOK
<1>1. calm /\ UNCHANGED <<rows, locos, desk, call, touched>>
  BY DEF Read
<1>2. /\ Alone /\ ListOf(desk.day) /\ Loaded /\ Added
      /\ Announced /\ Unbooked /\ Submitted /\ CallOwned /\ ModalOwned
  BY <1>1 DEF Calm
<1>3. call = None /\ Len(loads) <= 1
  BY <1>2 DEF Alone
<1>4. /\ Len(loads') = Len(loads) /\ DOMAIN loads' = DOMAIN loads
      /\ \A j \in DOMAIN loads : j # i => loads'[j] = loads[j]
      /\ loads'[i] = [loads[i] EXCEPT !.got = Reply(loads[i])]
      /\ loads[i] \in Load
  BY <1>0, ReadFacts, LenProperties, ElementOfSeq
<1>5. /\ loads'[i].what = loads[i].what /\ loads'[i].from = loads[i].from
      /\ loads'[i].to = loads[i].to /\ loads'[i].got = Reply(loads[i])
  BY <1>4 DEF Load
<1>6. \A j \in DOMAIN loads : loads'[j].what = loads[j].what
  BY <1>4, <1>5
<1>7. Alone' /\ (Settled' <=> Settled) /\ Today' = Today /\ Chosen' = Chosen
  BY <1>1, <1>2, <1>3, <1>4, <1>6 DEF Alone, Settled, Today, Chosen
<1>8. loads[i].what = "data" => Reply(loads[i]).rows = Today /\ Reply(loads[i]).locos = locos
  <2>1. ASSUME loads[i].what = "data" PROVE loads[i].from = desk.day /\ loads[i].to = desk.day
    BY <1>2, <2>1 DEF ListOf
  <2>2. desk.day \in Nat
    BY <1>0 DEF Page, Day
  <2>3. \A r \in rows : r.day \in desk.day..desk.day <=> r.day = desk.day
    <3>1. \A r \in rows : r.day \in Nat
      BY <1>0 DEF Row, Day
    <3> QED BY <2>2, <3>1
  <2> QED BY <2>1, <2>3 DEF Reply, Today
<1>9. ListOf(desk.day)'
  <2>1. ASSUME NEW j \in DOMAIN loads, loads'[j].what = "data"
        PROVE  /\ loads'[j].from = desk.day /\ loads'[j].to = desk.day
               /\ loads'[j].got # None => loads'[j].got.rows = Today /\ loads'[j].got.locos = locos
    <3>1. CASE j # i
      BY <1>2, <1>4, <2>1, <3>1 DEF ListOf
    <3>2. CASE j = i
      <4>1. loads[i].from = desk.day /\ loads[i].to = desk.day
        BY <1>2, <1>5, <2>1, <3>2 DEF ListOf
      <4> QED BY <1>5, <1>8, <2>1, <3>2, <4>1
    <3> QED BY <3>1, <3>2
  <2> QED BY <1>1, <1>4, <1>7, <2>1 DEF ListOf
<1>10. Loaded' /\ Announced' /\ ModalOwned' /\ Added' /\ Submitted' /\ CallOwned'
  BY <1>1, <1>2, <1>3, <1>7 DEF Loaded, Announced, ModalOwned, Added, Submitted, CallOwned, OwnRow
<1>11. Unbooked'
  BY <1>0, <1>1, <1>2, SameUnbooked
<1> QED BY <1>7, <1>9, <1>10, <1>11 DEF Calm

LEMMA ArriveCalm ==
  ASSUME Stored, Calm, NEW i \in DOMAIN loads, Arrive(i), calm'
  PROVE  Calm'
<1>0. Next /\ Shape /\ desk \in Page /\ loads \in Seq(Load)
  BY DEF Next, SystemStep, Stored, Shape, TypeOK
<1>1. calm /\ loads[i].got # None /\ loads' = RemoveAt(loads, i) /\ UNCHANGED <<rows, locos, call>>
  BY DEF Arrive
<1>2. /\ Alone /\ ListOf(desk.day) /\ Loaded /\ Added
      /\ Announced /\ Unbooked /\ Submitted /\ CallOwned /\ ModalOwned
  BY <1>1 DEF Calm
<1>3. call = None /\ call' = None /\ Len(loads) <= 1
  BY <1>1, <1>2 DEF Alone
<1>4. Len(loads) = 1 /\ DOMAIN loads = {i} /\ loads[i] \in Load
  <2>1. DOMAIN loads = 1..Len(loads) /\ Len(loads) \in Nat /\ loads[i] \in Load
    BY <1>0, LenProperties, ElementOfSeq
  <2> QED BY <1>3, <2>1
<1>5. Len(loads') = 0 /\ DOMAIN loads' = {}
  <2>1. loads' \in Seq(Load) /\ Len(loads') = Len(loads) - 1
    BY <1>0, <1>1, TakenOff
  <2>2. DOMAIN loads' = 1..Len(loads')
    BY <2>1, LenProperties
  <2> QED BY <1>4, <2>1, <2>2
<1>6. Alone' /\ ListOf(desk.day)' /\ Added' /\ Submitted' /\ CallOwned'
  BY <1>3, <1>5 DEF Alone, ListOf, Added, Submitted, CallOwned
<1>7. CASE loads[i].what = "data"
  <2> DEFINE d == [desk EXCEPT !.list = loads[i].got.rows, !.locos = loads[i].got.locos]
  <2>1. desk' = Filled(d) /\ touched' = FALSE
    BY <1>7 DEF Arrive
  <2>2. loads[i].got.rows = Today /\ loads[i].got.locos = locos
    BY <1>1, <1>2, <1>7 DEF ListOf
  <2>3. Today \subseteq Row /\ locos \in LocoTable
    BY DEF Stored, Shape, TypeOK, Today
  <2>4. d = [desk EXCEPT !.list = Today, !.locos = locos]
    BY <2>2
  <2> HIDE DEF d
  <2>5. /\ d \in Page /\ d.loco = desk.loco /\ d.day = desk.day /\ d.shift = desk.shift
        /\ d.list = Today /\ d.locos = locos /\ d.modal = desk.modal /\ d.tab = desk.tab
    BY <1>0, <2>3, <2>4 DEF Page
  <2>6. /\ desk'.loco = desk.loco /\ desk'.day = desk.day /\ desk'.list = Today
        /\ desk'.locos = locos /\ desk'.modal = desk.modal /\ desk'.tab = desk.tab
    BY <2>1, <2>5, FilledIs
  <2>7. desk.loco # None => /\ desk'.content = InForm(In(rows, Chosen'))
                            /\ desk'.hint = (In(rows, Chosen') # {})
    BY <2>1, <2>5, FilledRest DEF Today
  <2>8. Today' = Today
    BY <1>1, <2>6 DEF Today
  <2>9. Loaded' /\ Announced'
    BY <1>1, <2>6, <2>7, <2>8 DEF Loaded, Announced
  <2>10. ModalOwned'
    BY <1>1, <1>2, <1>3, <2>6 DEF ModalOwned, OwnRow
  <2>11. Unbooked'
    BY <1>0, <1>1, <1>2, <2>6, SameUnbooked
  <2> QED BY <1>6, <2>9, <2>10, <2>11 DEF Calm
<1>8. CASE loads[i].what # "data"
  <2>1. desk' = [desk EXCEPT !.history = loads[i].got.rows] /\ touched' = touched
    BY <1>8 DEF Arrive
  <2>2. /\ desk'.list = desk.list /\ desk'.locos = desk.locos /\ desk'.day = desk.day
        /\ desk'.loco = desk.loco /\ desk'.shift = desk.shift /\ desk'.content = desk.content
        /\ desk'.tab = desk.tab /\ desk'.modal = desk.modal /\ desk'.hint = desk.hint
    BY <1>0, <2>1 DEF Page
  <2>3. loads[i].what = "history"
    BY <1>4, <1>8 DEF Load
  <2>4. Settled
    BY <1>3, <1>4, <2>3 DEF Settled
  <2>5. Chosen' = Chosen /\ Today' = Today
    BY <1>1, <2>2 DEF Chosen, Today
  <2>6. Loaded' /\ Announced' /\ ModalOwned'
    BY <1>1, <1>2, <1>3, <2>1, <2>2, <2>4, <2>5 DEF Loaded, Announced, ModalOwned, OwnRow
  <2>7. Unbooked'
    BY <1>0, <1>1, <1>2, <2>2, SameUnbooked
  <2> QED BY <1>6, <2>6, <2>7 DEF Calm
<1> QED BY <1>7, <1>8

LEMMA CalmStep ==
  ASSUME Stored, Calm, [Next]_vars
  PROVE  Calm'
<1>1. CASE UNCHANGED vars
  BY <1>1 DEF vars, Calm, Alone, ListOf, Loaded, Added, Announced, Unbooked, Submitted, CallOwned,
     ModalOwned, Settled, Today, Chosen, OwnRow, Unused, Seen, Meant, Answers, Bookable
<1>2. CASE Next
  <2>1. CASE ~calm'
    BY <2>1 DEF Calm
  <2>2. ASSUME OtherStep \/ FaultStep PROVE ~calm'
    BY <2>2 DEF OtherStep, FaultStep, OtherBooks, OtherDeletes, OtherCarries, OtherDespatches,
       LoseCall, LoseLoad
  <2>3. CASE calm'
    BY <1>2, <2>2, <2>3, FormCalm, ListCalm, HandleCalm, AnsweredCalm, ReadCalm, ArriveCalm
    DEF Next, SystemStep
  <2> QED BY <2>1, <2>3
<1> QED BY <1>1, <1>2

LEMMA CalmInit ==
  ASSUME Init
  PROVE  Calm
<1>1. loads = <<Data(0)>> /\ call = None /\ calm = TRUE
  BY DEF Init
<1>2. desk.loco = None /\ desk.modal = None /\ desk.day = 0
  BY DEF Init, NewDesk
<1>3. /\ Len(loads) = 1 /\ DOMAIN loads = {1} /\ loads[1].what = "data" /\ loads[1].from = 0
      /\ loads[1].to = 0 /\ loads[1].got = None
  BY <1>1, LoadIs DEF Day
<1>4. ~Settled /\ Alone /\ ListOf(desk.day)
  BY <1>1, <1>2, <1>3 DEF Settled, Alone, ListOf
<1> QED BY <1>1, <1>2, <1>4 DEF Calm, Loaded, Added, Announced, Unbooked, Submitted, CallOwned,
   ModalOwned

-----------------------------------------------------------------------------
(* What the user may rely on.                                              *)

LEMMA CalmInvariant == Spec => [](Stored /\ Calm)
<1>1. Init => Stored /\ Calm
  BY StoredInit, CalmInit
<1>2. Stored /\ Calm /\ [Next]_vars => (Stored /\ Calm)'
  BY StoredStep, CalmStep
<1> QED BY <1>1, <1>2, PTL DEF Spec

(* Who waits for the page, left alone, sees what is stored, in the list    *)
(* and in a form that was not changed by hand: saving it as it is would    *)
(* change nothing.                                                         *)
THEOREM StoredShown == Spec => []StoredWhenCalm
<1>1. Stored /\ Calm => StoredWhenCalm
  BY Rest DEF StoredWhenCalm, Today
<1> QED BY <1>1, CalmInvariant, PTL

(* Then no booking is replaced that was not announced in the form.         *)
THEOREM ReplacementAnnounced == Spec => []WarnedWhenCalm
<1>1. Stored /\ Calm => WarnedWhenCalm
  BY DEF Calm, Submitted, WarnedWhenCalm
<1> QED BY <1>1, CalmInvariant, PTL

LEMMA CardStep ==
  ASSUME Stored, Calm, Next, calm', call # None, call.from = "list", call.kind # "deleteCard",
         NEW r, r \in (rows \ rows') \union (rows' \ rows)
  PROVE  GroupOf(r) = call.group
<1>0. /\ rows \subseteq Row /\ Keys /\ call \in Change /\ CallShape(call) /\ Shape
  BY DEF Stored, Shape, TypeOK
<1>1. calm
  BY <1>0, CalmIs
<1>2. Handle
  <2>1. ~Submit
    BY DEF Submit, Send
  <2>2. \A g \in Group : /\ \A content \in Content \ {Nothing} : ~OtherBooks(g, content)
                         /\ \A t \in Time : ~OtherDeletes(g, t)
                         /\ \A J \in SUBSET Job \ {{}}, T \in SUBSET Text : ~OtherCarries(g, J, T)
    BY DEF OtherBooks, OtherDeletes, OtherCarries
  <2>3. \A l \in Loco : ~OtherDespatches(l)
    BY DEF OtherDespatches
  <2> QED BY <2>1, <2>2, <2>3, TableKinds
<1>3. call.at = "sent" /\ Accepted(call) /\ rows' = RowsAfter(call)
  BY <1>2 DEF Handle
<1>4. call.kind \notin {"create", "loco"} /\ call.group \in Group
  BY <1>0 DEF CallShape, Complete, Change
<1>5. CASE call.kind \in ToRow
  <2>1. OwnRow(call)
    BY <1>1, <1>3, <1>5 DEF Calm, CallOwned
  <2>2. PICK q \in rows : Keyed(call) = {q}
    <3>1. PICK q : q \in Keyed(call)
      BY <1>3, <1>5 DEF Accepted, ToRow
    <3> QED BY <1>0, <3>1, KeyedIs
  <2>3. /\ q.loco = call.group.loco /\ q.day = call.group.day /\ q.time = call.time
        /\ q.job = call.job /\ q \in Row
    BY <1>0, <2>2, KeyedIs
  <2>4. q.shift = call.group.shift
    BY <2>1, <2>2, <2>3 DEF OwnRow
  <2>5. GroupOf(q) = call.group
    BY <1>4, <2>3, <2>4, GroupIs
  <2>6. r = q \/ (r \in RowsAfter(call) /\ r \notin rows)
    BY <1>3, <1>5, <2>2 DEF RowsAfter, ToRow
  <2>7. ASSUME r \in RowsAfter(call), r \notin rows
        PROVE  r.loco = q.loco /\ r.day = q.day /\ r.shift = q.shift
    <3>1. CASE call.kind = "deleteJob"
      BY <2>7, <3>1 DEF RowsAfter
    <3>2. CASE call.kind = "addTask"
      <4>1. r = [q EXCEPT !.tasks = @ \union {call.to}]
        BY <2>2, <2>7, <3>2 DEF RowsAfter
      <4> QED BY <2>3, <4>1 DEF Row
    <3>3. CASE call.kind = "editJob"
      <4>1. r = [q EXCEPT !.job = call.to]
        BY <2>2, <2>7, <3>3 DEF RowsAfter
      <4> QED BY <2>3, <4>1 DEF Row
    <3>4. CASE call.kind = "editTask"
      <4>1. r = [q EXCEPT !.tasks = (@ \ {call.text}) \union {call.to}]
        BY <2>2, <2>7, <3>4 DEF RowsAfter
      <4> QED BY <2>3, <4>1 DEF Row
    <3> QED BY <1>5, <3>1, <3>2, <3>3, <3>4 DEF ToRow
  <2> QED BY <2>5, <2>6, <2>7 DEF GroupOf
<1>6. CASE call.kind = "addJob"
  <2>1. r = Booked(call.group, call.time, call.job, {})
    BY <1>3, <1>6 DEF RowsAfter
  <2>2. call.time \in Time /\ call.job \in Job
    BY <1>0, <1>6, NoneAssumption DEF CallShape, Change
  <2>3. {} \in SUBSET Text
    OBVIOUS
  <2> QED BY <1>4, <2>1, <2>2, <2>3, BookedIs
<1>7. call.kind # "deleteTask"
  BY <1>3 DEF Accepted
<1> QED BY <1>0, <1>4, <1>5, <1>6, <1>7 DEF Change, Kinds, ToRow

(* A button of a job or of a task, on a card of the list, changes nothing  *)
(* but the shift of the card.                                              *)
THEOREM CardsKeepToTheirShift == Spec => ActsOnItsCard
<1>1. Stored /\ Calm /\ [Next]_vars =>
        [calm' /\ call # None /\ call.from = "list" /\ call.kind # "deleteCard" =>
           \A r \in (rows \ rows') \union (rows' \ rows) : GroupOf(r) = call.group]_vars
  BY CardStep
<1> QED BY <1>1, CalmInvariant, PTL DEF Spec, ActsOnItsCard
=============================================================================
