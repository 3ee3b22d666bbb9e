------------------------ MODULE StaffBooking_proofs ------------------------
(***************************************************************************)
(* Proofs about StaffBooking: types, and, for one wizard whose user waits  *)
(* for the whole of a click, the order of the table and the truth of the   *)
(* message that a click was saved.  At the end, about EditLock: types, and *)
(* with calm timing that grants hold, exclude, and implement EditWindow.   *)
(***************************************************************************)
EXTENDS StaffBooking, EditLock, FiniteSetTheorems, TLAPS

-----------------------------------------------------------------------------
(* Types.                                                                  *)

Ask  == SupsAsk \union StaffAsk
Busy == {r \in Slot : pc[r] # "free"}

\* A save at work has a wizard and a payload.
Sound ==
    /\ TypeOK
    /\ \A r \in Busy : owner[r] \in Client /\ ask[r] \in Ask
    /\ IsFiniteSet(rows) /\ \A r \in Slot : IsFiniteSet(doomed[r])

LEMMA ImageFinite ==
    ASSUME NEW S, IsFiniteSet(S), NEW f
    PROVE  IsFiniteSet({f[x] : x \in S})
  <1> DEFINE T == {f[x] : x \in S}
             g == [x \in S |-> f[x]]
  <1>1. g \in Surjection(S, T)
    BY DEF Surjection
  <1> HIDE DEF g, T
  <1>2. IsFiniteSet(T)
    BY <1>1, FS_Surjection
  <1> QED BY <1>2 DEF T

\* What an assignment to be inserted is.
Booking == [loco : Loco, sup : Sup, staff : Staff \union {NoStaff}]

LEMMA AskFacts ==
    ASSUME NEW a \in Ask
    PROVE  /\ a.loco \in Loco
           /\ \/ a.kind = "sups" /\ a \in SupsAsk /\ a.sups \subseteq Sup
              \/ a.kind = "staff" /\ a \in StaffAsk /\ a.sup \in Sup /\ a.staff \subseteq Staff
  BY DEF Ask, SupsAsk, StaffAsk

\* The assignments save r inserts, case by case.
LEMMA InsertedFacts ==
    ASSUME NEW r \in Slot, ask[r] \in Ask, seen[r] \subseteq Sup
    PROVE  /\ Inserted(r) \subseteq Booking /\ IsFiniteSet(Inserted(r))
           /\ ask[r].kind = "sups" =>
                \A n \in Booking : n \in Inserted(r) <=>
                    n.loco = ask[r].loco /\ n.sup \in ask[r].sups \ seen[r] /\ n.staff = NoStaff
           /\ ask[r].kind = "staff" =>
                \A n \in Booking : n \in Inserted(r) <=>
                    /\ n.loco = ask[r].loco /\ n.sup = ask[r].sup
                    /\ \/ n.staff = NoStaff /\ n.sup \notin seen[r]
                       \/ n.staff \in ask[r].staff
  <1> DEFINE a == ask[r]
             New(s, e) == [loco |-> a.loco, sup |-> s, staff |-> e]
             X == a.sups \ seen[r]
             f == [s \in X |-> New(s, NoStaff)]
             Y == {a.sup} \ seen[r]
             g == [s \in Y |-> New(a.sup, NoStaff)]
             h == [e \in a.staff |-> New(a.sup, e)]
  <1>1. \A s \in Sup, e \in Staff \union {NoStaff} :
          New(s, e) \in Booking /\ New(s, e).sup = s /\ New(s, e).staff = e /\ New(s, e).loco = a.loco
    BY AskFacts DEF Booking
  <1>2. \A n \in Booking : n.loco = a.loco => n = New(n.sup, n.staff)
    BY DEF Booking
  <1>3. CASE a.kind = "sups"
    <2>1. Inserted(r) = {New(s, NoStaff) : s \in X} /\ X \subseteq Sup
      BY <1>3, AskFacts DEF Inserted
    <2>2. IsFiniteSet(X)
      BY <2>1, FiniteAssumption, FS_Subset
    <2>3. Inserted(r) = {f[s] : s \in X}
      BY <2>1
    <2>4. IsFiniteSet(Inserted(r))
      <3> HIDE DEF f, X
      <3> QED BY <2>2, <2>3, ImageFinite
    <2>5. Inserted(r) \subseteq Booking
      BY <1>1, <2>1
    <2>6. \A n \in Booking : n \in Inserted(r) <=>
            n.loco = a.loco /\ n.sup \in X /\ n.staff = NoStaff
      BY <1>1, <1>2, <2>1
    <2> QED BY <1>3, <2>4, <2>5, <2>6
  <1>4. CASE a.kind = "staff"
    <2>1. /\ Inserted(r) = {New(a.sup, NoStaff) : s \in Y} \union {New(a.sup, e) : e \in a.staff}
          /\ Y \subseteq Sup /\ a.staff \subseteq Staff /\ a.sup \in Sup
      BY <1>4, AskFacts DEF Inserted
    <2>2. IsFiniteSet(Y) /\ IsFiniteSet(a.staff)
      BY <2>1, FiniteAssumption, FS_Subset
    <2>3. Inserted(r) = {g[s] : s \in Y} \union {h[e] : e \in a.staff}
      BY <2>1
    <2>4. IsFiniteSet(Inserted(r))
      <3> HIDE DEF g, h, Y
      <3>1. IsFiniteSet({g[s] : s \in Y}) /\ IsFiniteSet({h[e] : e \in a.staff})
        BY <2>2, ImageFinite
      <3> QED BY <2>3, <3>1, FS_Union
    <2>5. Inserted(r) \subseteq Booking
      BY <1>1, <2>1
    <2>6. \A n \in Booking : n \in Inserted(r) <=>
            /\ n.loco = a.loco /\ n.sup = a.sup
            /\ \/ n.staff = NoStaff /\ n.sup \notin seen[r]
               \/ n.staff \in a.staff
      BY <1>1, <1>2, <2>1
    <2> QED BY <1>4, <2>4, <2>5, <2>6
  <1> QED BY <1>3, <1>4, AskFacts

\* A fresh number is found.
LEMMA FreshId ==
    ASSUME NEW used, IsFiniteSet(used)
    PROVE  \E i \in 0..Cardinality(used) : i \notin used
  <1> DEFINE n == Cardinality(used)
  <1>1. n \in Nat
    BY FS_CardinalityType
  <1>2. SUFFICES ASSUME 0..n \subseteq used PROVE FALSE
    OBVIOUS
  <1>3. Cardinality(0..n) = n + 1
    BY <1>1, FS_Interval
  <1>4. Cardinality(0..n) <= n
    BY <1>2, FS_Subset
  <1> QED BY <1>1, <1>3, <1>4

LEMMA NewRowFacts ==
    ASSUME Sound, NEW n \in Booking
    PROVE  /\ NewRow(n) \in Row
           /\ NewRow(n).loco = n.loco /\ NewRow(n).sup = n.sup /\ NewRow(n).staff = n.staff
  <1> DEFINE D == {doomed[q] : q \in Slot}
             B == {c \in rows \union UNION D : Assignment(c) = n}
             f == [b \in B |-> b.id]
             used == {f[b] : b \in B}
             id == CHOOSE i \in 0..Cardinality(used) : i \notin used
  <1>1. IsFiniteSet(D) /\ \A T \in D : IsFiniteSet(T)
    BY FiniteAssumption, ImageFinite DEF Sound
  <1>2. IsFiniteSet(UNION D)
    <2> HIDE DEF D
    <2> QED BY <1>1, FS_UNION
  <1>3. IsFiniteSet(rows \union UNION D)
    <2> HIDE DEF D
    <2> QED BY <1>2, FS_Union DEF Sound
  <1>4. IsFiniteSet(B)
    BY <1>3, FS_Subset
  <1>5. IsFiniteSet(used)
    <2> HIDE DEF B, f
    <2> QED BY <1>4, ImageFinite
  <1>6. used = {b.id : b \in B}
    OBVIOUS
  <1>7. NewRow(n) = [loco |-> n.loco, sup |-> n.sup, staff |-> n.staff, id |-> id]
    BY <1>6 DEF NewRow
  <1> HIDE DEF used
  <1>8. id \in 0..Cardinality(used) /\ Cardinality(used) \in Nat
    BY <1>5, FreshId, FS_CardinalityType
  <1>9. id \in Nat
    BY <1>8
  <1> HIDE DEF id
  <1> QED BY <1>7, <1>9 DEF Row, Booking

LEMMA SavesAsk ==
    ASSUME NEW k \in Click
    PROVE  SavesOf(k) \subseteq Ask
  <1>1. CASE k \in SupsClick
    <2>1. k.kind = "sups" /\ k.chosen \in [Loco -> SUBSET Sup]
      BY <1>1 DEF SupsClick
    <2>2. \A l \in Loco : [kind |-> "sups", loco |-> l, sups |-> k.chosen[l]] \in SupsAsk
      BY <2>1 DEF SupsAsk
    <2> QED BY <2>1, <2>2 DEF SavesOf, Ask
  <1>2. CASE k \in StaffClick
    <2>1. k.kind = "staff" /\ k.loco \in Loco /\ k.sups \subseteq Sup /\ k.staff \in SUBSET Staff
      BY <1>2 DEF StaffClick
    <2>2. \A s \in k.sups : [kind |-> "staff", loco |-> k.loco, sup |-> s, staff |-> k.staff] \in StaffAsk
      BY <2>1 DEF StaffAsk
    <2> QED BY <2>1, <2>2 DEF SavesOf, Ask
  <1> QED BY <1>1, <1>2 DEF Click

\* The answer of a save at work, with or without success.
LEMMA AnswerSound ==
    ASSUME Sound, NEW r \in Busy, NEW ok \in BOOLEAN, Answer(r, ok), UNCHANGED <<rows, absent>>
    PROVE  Sound'
  <1> DEFINE c == owner[r]
             rest == batch[c] \ {r}
  <1>1. r \in Slot /\ c \in Client /\ TypeOK
    BY DEF Sound, Busy
  <1>2. /\ pc' = [pc EXCEPT ![r] = "free"]
        /\ owner' = [owner EXCEPT ![r] = Nothing]
        /\ ask' = [ask EXCEPT ![r] = Nothing]
        /\ seen' = [seen EXCEPT ![r] = {}]
        /\ doomed' = [doomed EXCEPT ![r] = {}]
    BY DEF Answer
  <1>3. \/ /\ r \in batch[c]
           /\ batch' = [batch EXCEPT ![c] = IF ok THEN rest ELSE {}]
           /\ click' = [click EXCEPT ![c] = IF ok /\ rest # {} THEN @ ELSE Nothing]
        \/ /\ r \notin batch[c]
           /\ batch' = batch /\ click' = click
    BY DEF Answer
  <1>4. click' \in [Client -> Click \union {Nothing}] /\ batch' \in [Client -> SUBSET Slot]
    BY <1>1, <1>3 DEF TypeOK
  <1>5. \A d \in Client : batch'[d] \subseteq batch[d] \ {r}
    BY <1>1, <1>3 DEF TypeOK
  <1>6. /\ pc' \in [Slot -> {"free", "check", "read", "delete", "locking", "commit", "publish"}]
        /\ owner' \in [Slot -> Client \union {Nothing}]
        /\ ask' \in [Slot -> SupsAsk \union StaffAsk \union {Nothing}]
        /\ seen' \in [Slot -> SUBSET Sup]
        /\ doomed' \in [Slot -> SUBSET Row]
    BY <1>1, <1>2 DEF TypeOK
  <1>7. \A q \in Slot : pc'[q] = "free" => ask'[q] = Nothing /\ doomed'[q] = {}
    BY <1>1, <1>2 DEF TypeOK
  <1>8. \A d \in Client : \A q \in batch'[d] : pc'[q] # "free" /\ owner'[q] = d
    BY <1>1, <1>2, <1>5 DEF TypeOK
  <1>9. TypeOK'
    BY <1>1, <1>4, <1>6, <1>7, <1>8 DEF TypeOK
  <1>10. (\A q \in Busy : owner[q] \in Client /\ ask[q] \in Ask)'
    BY <1>1, <1>2 DEF Sound, Busy, TypeOK
  <1>11. IsFiniteSet(rows)' /\ \A q \in Slot : IsFiniteSet(doomed'[q])
    BY <1>1, <1>2, FS_EmptySet DEF Sound, TypeOK
  <1> QED BY <1>9, <1>10, <1>11 DEF Sound

LEMMA SaveSound ==
    ASSUME Sound, NEW c \in Client, NEW k \in Click, Save(c, k)
    PROVE  Sound'
  <1>1. TypeOK
    BY DEF Sound
  <1>2. PICK R \in SUBSET {r \in Slot : pc[r] = "free"} :
        /\ \E f \in [R -> SavesOf(k)] :
            ask' = [r \in Slot |-> IF r \in R THEN f[r] ELSE ask[r]]
        /\ pc' = [r \in Slot |-> IF r \in R THEN "check" ELSE pc[r]]
        /\ owner' = [r \in Slot |-> IF r \in R THEN c ELSE owner[r]]
        /\ batch' = [batch EXCEPT ![c] = R]
    BY ZenonT(60) DEF Save
  <1>3. PICK f \in [R -> SavesOf(k)] :
            ask' = [r \in Slot |-> IF r \in R THEN f[r] ELSE ask[r]]
    BY <1>2
  <1>4. /\ click' = [click EXCEPT ![c] = k]
        /\ rows' = rows /\ absent' = absent /\ seen' = seen /\ doomed' = doomed
    BY DEF Save
  <1>5. \A r \in R : f[r] \in Ask
    BY SavesAsk
  <1>6. ask' \in [Slot -> SupsAsk \union StaffAsk \union {Nothing}]
    BY <1>1, <1>3, <1>5 DEF TypeOK, Ask
  <1>7. /\ pc' \in [Slot -> {"free", "check", "read", "delete", "locking", "commit", "publish"}]
        /\ owner' \in [Slot -> Client \union {Nothing}]
        /\ batch' \in [Client -> SUBSET Slot]
        /\ click' \in [Client -> Click \union {Nothing}]
    BY <1>1, <1>2, <1>4 DEF TypeOK
  <1>8. \A q \in Slot : pc'[q] = "free" => ask'[q] = Nothing /\ doomed'[q] = {}
    BY <1>1, <1>2, <1>3, <1>4 DEF TypeOK
  <1>9. \A d \in Client : \A q \in batch'[d] : pc'[q] # "free" /\ owner'[q] = d
    BY <1>1, <1>2 DEF TypeOK
  <1>10. TypeOK'
    BY <1>1, <1>4, <1>6, <1>7, <1>8, <1>9 DEF TypeOK
  <1>11. (\A q \in Busy : owner[q] \in Client /\ ask[q] \in Ask)'
    BY <1>2, <1>3, <1>5 DEF Sound, Busy
  <1> QED BY <1>4, <1>10, <1>11 DEF Sound

LEMMA CommitSound ==
    ASSUME Sound, NEW r \in Slot, Commit(r)
    PROVE  Sound'
  <1>1. TypeOK /\ r \in Busy /\ ask[r] \in Ask
    BY DEF Sound, Busy, Commit
  <1>2. /\ doomed' = [doomed EXCEPT ![r] = {}]
        /\ pc' = [pc EXCEPT ![r] = "publish"]
        /\ absent' = absent /\ click' = click /\ batch' = batch
        /\ owner' = owner /\ ask' = ask /\ seen' = seen
        /\ rows' = (rows \ doomed[r]) \union {NewRow(n) : n \in Inserted(r)}
    BY DEF Commit
  <1> DEFINE nr == [n \in Inserted(r) |-> NewRow(n)]
             N == {NewRow(n) : n \in Inserted(r)}
  <1>3. Inserted(r) \subseteq Booking /\ IsFiniteSet(Inserted(r))
    BY <1>1, InsertedFacts DEF TypeOK
  <1>4. N \subseteq Row
    BY <1>3, NewRowFacts
  <1>5. N = {nr[n] : n \in Inserted(r)}
    OBVIOUS
  <1>6. IsFiniteSet(N)
    <2> HIDE DEF nr, N
    <2> QED BY <1>3, <1>5, ImageFinite
  <1>7. rows' \subseteq Row
    BY <1>1, <1>2, <1>4 DEF TypeOK
  <1>8. IsFiniteSet(rows \ doomed[r])
    BY FS_Subset DEF Sound
  <1>9. IsFiniteSet(rows')
    <2> HIDE DEF N
    <2>1. rows' = (rows \ doomed[r]) \union N
      BY <1>2 DEF N
    <2> QED BY <2>1, <1>6, <1>8, FS_Union
  <1>10. TypeOK'
    BY <1>1, <1>2, <1>7 DEF TypeOK
  <1>11. \A q \in Slot : IsFiniteSet(doomed'[q])
    BY <1>1, <1>2, FS_EmptySet DEF Sound, TypeOK
  <1>12. (\A q \in Busy : owner[q] \in Client /\ ask[q] \in Ask)'
    BY <1>1, <1>2 DEF Sound, Busy, TypeOK
  <1> QED BY <1>9, <1>10, <1>11, <1>12 DEF Sound

LEMMA SoundInit == Init => Sound
  <1> SUFFICES ASSUME Init PROVE Sound
    OBVIOUS
  <1>1. TypeOK
    BY DEF Init, TypeOK
  <1>2. Busy = {}
    BY DEF Init, Busy
  <1> QED BY <1>1, <1>2, FS_EmptySet DEF Init, Sound

LEMMA SoundStep == Sound /\ [Next]_vars => Sound'
  <1> SUFFICES ASSUME Sound, [Next]_vars PROVE Sound'
    OBVIOUS
  <1>1. TypeOK
    BY DEF Sound
  <1>2. ASSUME NEW c \in Client, NEW k \in Click, Save(c, k) PROVE Sound'
    BY <1>2, SaveSound
  <1>3. ASSUME NEW r \in Slot, CheckAbsent(r) PROVE Sound'
    <2>1. r \in Busy
      BY <1>3 DEF CheckAbsent, Busy
    <2>2. CASE Answer(r, FALSE)
      BY <1>3, <2>1, <2>2, AnswerSound DEF CheckAbsent
    <2>3. CASE ~Answer(r, FALSE)
      <3>1. /\ pc' = [pc EXCEPT ![r] = "read"]
            /\ UNCHANGED <<rows, absent, click, batch, owner, ask, seen, doomed>>
        BY <1>3, <2>3 DEF CheckAbsent
      <3>2. TypeOK'
        BY <1>1, <2>1, <3>1 DEF TypeOK, Busy
      <3> QED BY <1>1, <2>1, <3>1, <3>2 DEF Sound, Busy, TypeOK
    <2> QED BY <2>2, <2>3
  <1>4. ASSUME NEW r \in Slot, LockedOut(r) \/ Abort(r) PROVE Sound'
    <2>1. r \in Busy /\ Answer(r, FALSE) /\ UNCHANGED <<rows, absent>>
      BY <1>4 DEF LockedOut, Abort, Busy
    <2> QED BY <2>1, AnswerSound
  <1>5. ASSUME NEW r \in Slot, ReadAssigned(r) PROVE Sound'
    <2>1. /\ pc' = [pc EXCEPT ![r] = "delete"] /\ pc[r] = "read"
          /\ UNCHANGED <<rows, absent, click, batch, owner, ask, doomed>>
      BY <1>5 DEF ReadAssigned
    <2>2. seen' \in [Slot -> SUBSET Sup]
      BY <1>1, <1>5 DEF ReadAssigned, TypeOK, Assigned, Row
    <2>3. TypeOK'
      BY <1>1, <2>1, <2>2 DEF TypeOK
    <2> QED BY <1>1, <2>1, <2>3 DEF Sound, Busy, TypeOK
  <1>6. ASSUME NEW r \in Slot, DeleteStart(r) \/ DeleteLock(r) PROVE Sound'
    <2>1. PICK D \in SUBSET rows :
            /\ doomed' = [doomed EXCEPT ![r] = D]
            /\ pc[r] # "free"
            /\ pc' = [pc EXCEPT ![r] = "locking"] \/ pc' = [pc EXCEPT ![r] = "commit"]
            /\ UNCHANGED <<rows, absent, click, batch, owner, ask, seen>>
      <3>1. CASE DeleteStart(r)
        BY <3>1 DEF DeleteStart, Matching
      <3>2. CASE DeleteLock(r)
        BY <3>2 DEF DeleteLock
      <3> QED BY <1>6, <3>1, <3>2
    <2>2. IsFiniteSet(D)
      BY FS_Subset DEF Sound
    <2>3. doomed' \in [Slot -> SUBSET Row]
      BY <1>1, <2>1 DEF TypeOK
    <2>4. TypeOK'
      BY <1>1, <2>1, <2>3 DEF TypeOK
    <2> QED BY <1>1, <2>1, <2>2, <2>4 DEF Sound, Busy, TypeOK
  <1>7. ASSUME NEW r \in Slot, Commit(r) PROVE Sound'
    BY <1>7, CommitSound
  <1>8. ASSUME NEW r \in Slot, Publish(r) PROVE Sound'
    <2>1. PICK ok \in BOOLEAN : Answer(r, ok)
      BY <1>8 DEF Publish
    <2>2. r \in Busy /\ UNCHANGED <<rows, absent>>
      BY <1>8 DEF Publish, Busy
    <2> QED BY <2>1, <2>2, AnswerSound
  <1>9. CASE UpdateAvailabilities
    <2>1. TypeOK'
      BY <1>1, <1>9 DEF UpdateAvailabilities, save, TypeOK
    <2> QED BY <1>9, <2>1 DEF UpdateAvailabilities, save, Sound, Busy
  <1>10. CASE UNCHANGED vars
    <2>1. TypeOK'
      BY <1>1, <1>10 DEF vars, TypeOK
    <2> QED BY <1>10, <2>1 DEF vars, Sound, Busy
  <1> QED BY <1>2, <1>3, <1>4, <1>5, <1>6, <1>7, <1>8, <1>9, <1>10 DEF Next, Progress

\* The types of StaffBooking hold throughout, for any number of wizards, and
\* whether or not users wait: rows and absences of known people, every save
\* a click waits for at work for that wizard, and nothing kept by a slot of
\* no save.
THEOREM TypeCorrect == Spec => []TypeOK
  <1>1. Sound => TypeOK
    BY DEF Sound
  <1> QED BY <1>1, SoundInit, SoundStep, PTL DEF Spec

-----------------------------------------------------------------------------
(* What a save reads and writes.                                           *)

\* The part of the table that a save is about: all of a locomotive, or one
\* supervisor on it.
Touches(a, l, s) == a.loco = l /\ (a.kind = "staff" => a.sup = s)
Apart(a, b) == \A l \in Loco, s \in Sup : ~(Touches(a, l, s) /\ Touches(b, l, s))

\* Assignment e of s on l is in table R.
Has(R, l, s, e) == \E b \in R : b.loco = l /\ b.sup = s /\ b.staff = e

\* What the SELECT of save a finds in table R, what its DELETE matches after
\* that, and whether R says what a asks for.
Found(R, a) ==
    IF a.kind = "sups" THEN Assigned(R, a.loco)
    ELSE Assigned({b \in R : b.staff = NoStaff}, a.loco) \cap {a.sup}
Matched(R, a, S) ==
    {b \in R :
        /\ b.loco = a.loco
        /\ \/ a.kind = "sups" /\ b.sup \in S \ a.sups
           \/ a.kind = "staff" /\ b.sup = a.sup /\ b.staff # NoStaff}
Stored(R, a) ==
    IF a.kind = "sups" THEN Assigned(R, a.loco) = a.sups
    ELSE {b.staff : b \in {d \in R : d.loco = a.loco /\ d.sup = a.sup}} = a.staff \union {NoStaff}

\* The two halves of Orderly, of table R.
Single(R)   == \A b, c \in R : Assignment(b) = Assignment(c) => b = c
Anchored(R) == \A b \in R : Has(R, b.loco, b.sup, NoStaff)

\* Assignment n is one that save a inserts after finding S.
Inserts(a, S, n) ==
    /\ n.loco = a.loco
    /\ \/ a.kind = "sups" /\ n.sup \in a.sups \ S /\ n.staff = NoStaff
       \/ /\ a.kind = "staff" /\ n.sup = a.sup
          /\ \/ n.staff = NoStaff /\ n.sup \notin S
             \/ n.staff \in a.staff

\* The saves of a click are about different parts of the table.
LEMMA SavesApart ==
    ASSUME NEW k \in Click, NEW a \in SavesOf(k), NEW b \in SavesOf(k), a # b
    PROVE  Apart(a, b)
  <1>1. CASE k.kind = "sups"
    <2>1. PICK l \in Loco, m \in Loco :
            /\ a = [kind |-> "sups", loco |-> l, sups |-> k.chosen[l]]
            /\ b = [kind |-> "sups", loco |-> m, sups |-> k.chosen[m]]
      BY <1>1 DEF SavesOf
    <2>2. a.loco = l /\ b.loco = m /\ l # m
      BY <2>1
    <2> QED BY <2>2 DEF Apart, Touches
  <1>2. CASE k.kind # "sups"
    <2>1. PICK s \in k.sups, t \in k.sups :
            /\ a = [kind |-> "staff", loco |-> k.loco, sup |-> s, staff |-> k.staff]
            /\ b = [kind |-> "staff", loco |-> k.loco, sup |-> t, staff |-> k.staff]
      BY <1>2 DEF SavesOf
    <2>2. a.kind = "staff" /\ b.kind = "staff" /\ a.sup = s /\ b.sup = t /\ s # t
      BY <2>1
    <2> QED BY <2>2 DEF Apart, Touches
  <1> QED BY <1>1, <1>2

\* Found, Matched and Stored depend on the rows a save is about only.
LEMMA Local ==
    ASSUME NEW a \in Ask, NEW R \in SUBSET Row, NEW T \in SUBSET Row, NEW S,
           \A b \in Row : Touches(a, b.loco, b.sup) => (b \in R <=> b \in T)
    PROVE  /\ Found(T, a) = Found(R, a)
           /\ Matched(T, a, S) = Matched(R, a, S)
           /\ Stored(T, a) <=> Stored(R, a)
  <1>1. CASE a.kind = "sups"
    <2>1. {c \in R : c.loco = a.loco} = {c \in T : c.loco = a.loco}
      BY <1>1 DEF Touches
    <2>2. Assigned(R, a.loco) = Assigned(T, a.loco)
      BY <2>1 DEF Assigned
    <2>3. Matched(T, a, S) = Matched(R, a, S)
      BY <1>1, <2>1 DEF Matched
    <2> QED BY <1>1, <2>2, <2>3 DEF Found, Stored
  <1>2. CASE a.kind = "staff"
    <2>1. {d \in R : d.loco = a.loco /\ d.sup = a.sup} = {d \in T : d.loco = a.loco /\ d.sup = a.sup}
      BY <1>2 DEF Touches
    <2>2. Stored(T, a) <=> Stored(R, a)
      BY <1>2, <2>1 DEF Stored
    <2>3. Matched(T, a, S) = Matched(R, a, S)
      BY <1>2, <2>1 DEF Matched
    <2>4. \A s : s \in Found(R, a) <=> s = a.sup /\ Has(R, a.loco, a.sup, NoStaff)
      BY <1>2 DEF Found, Assigned, Has
    <2>5. \A s : s \in Found(T, a) <=> s = a.sup /\ Has(T, a.loco, a.sup, NoStaff)
      BY <1>2 DEF Found, Assigned, Has
    <2>6. Has(R, a.loco, a.sup, NoStaff) <=> Has(T, a.loco, a.sup, NoStaff)
      BY <1>2 DEF Has, Touches
    <2> QED BY <2>2, <2>3, <2>4, <2>5, <2>6
  <1> QED BY <1>1, <1>2, AskFacts

\* The rows a save leaves and adds: what it finds decides what it deletes
\* and what it inserts.
LEMMA Replace ==
    ASSUME NEW a \in Ask, NEW R \in SUBSET Row, NEW T \in SUBSET Row,
           NEW N \in SUBSET Booking, NEW nr \in [N -> Row],
           \A n \in N : nr[n].loco = n.loco /\ nr[n].sup = n.sup /\ nr[n].staff = n.staff,
           \A n \in Booking : n \in N <=> Inserts(a, Found(R, a), n),
           T = (R \ Matched(R, a, Found(R, a))) \union {nr[n] : n \in N},
           Single(R), Anchored(R)
    PROVE  /\ \A b \in Row : ~Touches(a, b.loco, b.sup) => (b \in R <=> b \in T)
           /\ Stored(T, a)
           /\ Single(T)
           /\ Anchored(T)
  <1> DEFINE S == Found(R, a)
             D == Matched(R, a, S)
             new == {nr[n] : n \in N}
  <1>1. \A b \in T : (b \in R /\ b \notin D) \/ \E n \in N : b = nr[n]
    OBVIOUS
  <1>2. (\A b \in R : b \notin D => b \in T) /\ \A n \in N : nr[n] \in T
    OBVIOUS
  <1>3. \A b \in R : b \in D <=>
            /\ b.loco = a.loco
            /\ \/ a.kind = "sups" /\ b.sup \in S \ a.sups
               \/ a.kind = "staff" /\ b.sup = a.sup /\ b.staff # NoStaff
    BY DEF Matched
  <1>4. \A n \in Booking : n \in N <=> Inserts(a, S, n)
    OBVIOUS
  <1>5. \A b \in Row : b.loco \in Loco /\ b.sup \in Sup /\ b.staff \in Staff \union {NoStaff}
                       /\ Assignment(b) \in Booking
    BY DEF Row, Booking, Assignment
  <1>6. \A b \in Row : /\ Assignment(b).loco = b.loco
                       /\ Assignment(b).sup = b.sup /\ Assignment(b).staff = b.staff
    BY DEF Assignment
  <1>7. \A n \in N : Assignment(nr[n]) = n
    BY <1>5, <1>6 DEF Assignment, Booking
  <1>8. a.kind = "sups" => \A s : s \in S <=> \E b \in R : b.loco = a.loco /\ b.sup = s
    BY DEF Found, Assigned
  <1>9. a.kind = "staff" => \A s : s \in S <=> s = a.sup /\ Has(R, a.loco, a.sup, NoStaff)
    BY DEF Found, Assigned, Has
  <1> HIDE DEF S, D, new
  <1>10. \A b \in Row : ~Touches(a, b.loco, b.sup) => (b \in R <=> b \in T)
    <2> SUFFICES ASSUME NEW b \in Row, ~Touches(a, b.loco, b.sup) PROVE b \in R <=> b \in T
      OBVIOUS
    <2>1. b \in R => b \notin D
      BY <1>3 DEF Touches
    <2>2. \A n \in N : b # nr[n]
      BY <1>4 DEF Touches, Inserts
    <2> QED BY <1>1, <1>2, <2>1, <2>2
  <1>11. \A b \in R, n \in N : Assignment(b) = n => b \in D
    <2> SUFFICES ASSUME NEW b \in R, NEW n \in N, Assignment(b) = n PROVE b \in D
      OBVIOUS
    <2>1. b.loco = n.loco /\ b.sup = n.sup /\ b.staff = n.staff
      BY <1>6
    <2>2. n.loco = a.loco /\ Inserts(a, S, n)
      BY <1>4 DEF Inserts
    <2>3. CASE a.kind = "sups"
      BY <1>8, <2>1, <2>2, <2>3 DEF Inserts
    <2>4. CASE a.kind = "staff"
      <3>1. n.staff # NoStaff
        BY <1>9, <2>1, <2>2, <2>4, KindsAssumption, AskFacts DEF Inserts, Has
      <3> QED BY <1>3, <2>1, <2>2, <2>4, <3>1 DEF Inserts
    <2> QED BY <2>3, <2>4, AskFacts
  <1>12. Single(T)
    <2> SUFFICES ASSUME NEW b \in T, NEW c \in T, Assignment(b) = Assignment(c) PROVE b = c
      BY DEF Single
    <2>1. CASE b \in R \ D /\ c \in R \ D
      BY <2>1 DEF Single
    <2>2. CASE \E n \in N : b = nr[n]
      <3>1. PICK n \in N : b = nr[n]
        BY <2>2
      <3>2. Assignment(c) = n
        BY <1>7, <3>1
      <3> QED BY <1>1, <1>7, <1>11, <3>1, <3>2
    <2>3. CASE \E n \in N : c = nr[n]
      <3>1. PICK n \in N : c = nr[n]
        BY <2>3
      <3>2. Assignment(b) = n
        BY <1>7, <3>1
      <3> QED BY <1>1, <1>7, <1>11, <3>1, <3>2
    <2> QED BY <1>1, <2>1, <2>2, <2>3
  <1>13. \A n \in N : Has(T, n.loco, n.sup, NoStaff)
    <2> SUFFICES ASSUME NEW n \in N PROVE Has(T, n.loco, n.sup, NoStaff)
      OBVIOUS
    <2>1. CASE n.staff = NoStaff
      BY <1>2, <2>1 DEF Has
    <2>2. CASE n.staff # NoStaff
      <3>1. a.kind = "staff" /\ n.loco = a.loco /\ n.sup = a.sup
        BY <1>4, <2>2 DEF Inserts
      <3>2. CASE n.sup \in S
        <4>1. PICK b \in R : b.loco = n.loco /\ b.sup = n.sup /\ b.staff = NoStaff
          BY <1>9, <3>1, <3>2 DEF Has
        <4>2. b \notin D
          BY <1>3, <3>1, <4>1
        <4> QED BY <1>2, <4>1, <4>2 DEF Has
      <3>3. CASE n.sup \notin S
        <4> DEFINE m == [loco |-> n.loco, sup |-> n.sup, staff |-> NoStaff]
        <4>1. m \in Booking /\ m.loco = n.loco /\ m.sup = n.sup /\ m.staff = NoStaff
          BY DEF Booking
        <4> HIDE DEF m
        <4>2. m \in N
          BY <1>4, <3>1, <3>3, <4>1 DEF Inserts
        <4> QED BY <1>2, <4>1, <4>2 DEF Has
      <3> QED BY <3>2, <3>3
    <2> QED BY <2>1, <2>2
  <1>14. Anchored(T)
    <2> SUFFICES ASSUME NEW b \in T PROVE Has(T, b.loco, b.sup, NoStaff)
      BY DEF Anchored
    <2>1. CASE b \in R /\ b \notin D
      <3>1. PICK c \in R : c.loco = b.loco /\ c.sup = b.sup /\ c.staff = NoStaff
        BY <2>1 DEF Anchored, Has
      <3>2. c \notin D
        BY <1>3, <2>1, <3>1
      <3> QED BY <1>2, <3>1, <3>2 DEF Has
    <2>2. CASE \E n \in N : b = nr[n]
      BY <1>13, <2>2
    <2> QED BY <1>1, <2>1, <2>2
  <1>15. Stored(T, a)
    <2>1. CASE a.kind = "sups"
      <3>1. a.loco \in Loco /\ a.sups \subseteq Sup
        BY <2>1, AskFacts
      <3>2. ASSUME NEW s \in a.sups PROVE \E b \in T : b.loco = a.loco /\ b.sup = s
        <4>1. CASE s \in S
          <5>1. PICK b \in R : b.loco = a.loco /\ b.sup = s
            BY <1>8, <2>1, <4>1
          <5>2. b \notin D
            BY <1>3, <2>1, <3>2, <5>1
          <5> QED BY <1>2, <5>1, <5>2
        <4>2. CASE s \notin S
          <5> DEFINE m == [loco |-> a.loco, sup |-> s, staff |-> NoStaff]
          <5>1. m \in Booking /\ m.loco = a.loco /\ m.sup = s /\ m.staff = NoStaff
            BY <3>1, <3>2 DEF Booking
          <5> HIDE DEF m
          <5>2. m \in N
            BY <1>4, <2>1, <3>2, <4>2, <5>1 DEF Inserts
          <5> QED BY <1>2, <5>1, <5>2
        <4> QED BY <4>1, <4>2
      <3>3. ASSUME NEW b \in T, b.loco = a.loco PROVE b.sup \in a.sups
        <4>1. CASE b \in R /\ b \notin D
          BY <1>3, <1>8, <2>1, <3>3, <4>1
        <4>2. CASE \E n \in N : b = nr[n]
          BY <1>4, <2>1, <4>2 DEF Inserts
        <4> QED BY <1>1, <4>1, <4>2
      <3>4. Assigned(T, a.loco) = a.sups
        BY <3>2, <3>3 DEF Assigned
      <3> QED BY <2>1, <3>4 DEF Stored
    <2>2. CASE a.kind = "staff"
      <3>1. a.loco \in Loco /\ a.sup \in Sup /\ a.staff \subseteq Staff
        BY <2>2, AskFacts
      <3>2. ASSUME NEW e \in a.staff PROVE \E b \in T : b.loco = a.loco /\ b.sup = a.sup /\ b.staff = e
        <4> DEFINE m == [loco |-> a.loco, sup |-> a.sup, staff |-> e]
        <4>1. m \in Booking /\ m.loco = a.loco /\ m.sup = a.sup /\ m.staff = e
          BY <3>1, <3>2 DEF Booking
        <4> HIDE DEF m
        <4>2. m \in N
          BY <1>4, <2>2, <3>2, <4>1 DEF Inserts
        <4> QED BY <1>2, <4>1, <4>2
      <3>3. \E b \in T : b.loco = a.loco /\ b.sup = a.sup /\ b.staff = NoStaff
        <4>1. CASE a.sup \in S
          <5>1. PICK b \in R : b.loco = a.loco /\ b.sup = a.sup /\ b.staff = NoStaff
            BY <1>9, <2>2, <4>1 DEF Has
          <5>2. b \notin D
            BY <1>3, <2>2, <5>1
          <5> QED BY <1>2, <5>1, <5>2
        <4>2. CASE a.sup \notin S
          <5> DEFINE m == [loco |-> a.loco, sup |-> a.sup, staff |-> NoStaff]
          <5>1. m \in Booking /\ m.loco = a.loco /\ m.sup = a.sup /\ m.staff = NoStaff
            BY <3>1 DEF Booking
          <5> HIDE DEF m
          <5>2. m \in N
            BY <1>4, <2>2, <4>2, <5>1 DEF Inserts
          <5> QED BY <1>2, <5>1, <5>2
        <4> QED BY <4>1, <4>2
      <3>4. ASSUME NEW b \in T, b.loco = a.loco, b.sup = a.sup PROVE b.staff \in a.staff \union {NoStaff}
        <4>1. CASE b \in R /\ b \notin D
          BY <1>3, <2>2, <3>4, <4>1
        <4>2. CASE \E n \in N : b = nr[n]
          BY <1>4, <2>2, <4>2 DEF Inserts
        <4> QED BY <1>1, <4>1, <4>2
      <3>5. {b.staff : b \in {d \in T : d.loco = a.loco /\ d.sup = a.sup}} = a.staff \union {NoStaff}
        BY <3>2, <3>3, <3>4
      <3> QED BY <2>2, <3>5 DEF Stored
    <2> QED BY <2>1, <2>2, AskFacts
  <1> QED BY <1>10, <1>12, <1>14, <1>15

-----------------------------------------------------------------------------
(* One wizard, whose user waits for the whole of a click.                  *)

\* The saves at work are about different parts of the table.
Separate == \A r, q \in Busy : r # q => Apart(ask[r], ask[q])

\* Between its statements a save finds its part of the table as it left it,
\* and before its answer the table says what was asked for.
SaveOK(r) ==
    /\ pc[r] \in {"delete", "locking", "commit"} => seen[r] = Found(rows, ask[r])
    /\ pc[r] \in {"locking", "commit"} => doomed[r] = Matched(rows, ask[r], seen[r])
    /\ pc[r] = "publish" => Stored(rows, ask[r])

\* A click waits for all saves at work, which are saves of it, and its other
\* saves are stored.
ClickOK(c) ==
    click[c] # Nothing =>
        /\ batch[c] = Busy
        /\ \A r \in Busy : ask[r] \in SavesOf(click[c])
        /\ \A a \in SavesOf(click[c]) : (\E r \in Busy : ask[r] = a) \/ Stored(rows, a)

InOrder ==
    /\ Sound
    /\ Separate
    /\ \A r \in Slot : SaveOK(r)
    /\ \A c \in Client : ClickOK(c)
    /\ Single(rows)
    /\ Anchored(rows)

\* The answer of a save; success is reported after the COMMIT only.
LEMMA AnswerInOrder ==
    ASSUME \A c, d \in Client : c = d, InOrder,
           NEW r \in Busy, NEW ok \in BOOLEAN, Answer(r, ok), ok => pc[r] = "publish",
           UNCHANGED <<rows, absent>>
    PROVE  InOrder'
  <1> DEFINE c == owner[r]
             rest == batch[c] \ {r}
  <1>1. r \in Slot /\ c \in Client /\ TypeOK /\ \A d \in Client : d = c
    BY DEF InOrder, Sound, Busy
  <1>2. /\ pc' = [pc EXCEPT ![r] = "free"]
        /\ ask' = [ask EXCEPT ![r] = Nothing]
        /\ seen' = [seen EXCEPT ![r] = {}]
        /\ doomed' = [doomed EXCEPT ![r] = {}]
    BY DEF Answer
  <1>3. Sound'
    BY AnswerSound DEF InOrder
  <1>4. Busy' = Busy \ {r}
    BY <1>1, <1>2 DEF Busy, TypeOK
  <1>5. \A q \in Slot : q # r => /\ pc'[q] = pc[q] /\ ask'[q] = ask[q]
                                 /\ seen'[q] = seen[q] /\ doomed'[q] = doomed[q]
    BY <1>1, <1>2 DEF TypeOK
  <1>6. Separate'
    BY <1>4, <1>5 DEF Separate, InOrder, Busy
  <1>7. ASSUME NEW q \in Slot PROVE SaveOK(q)'
    <2>1. CASE q = r
      <3>1. pc'[q] = "free"
        BY <1>1, <1>2, <2>1 DEF TypeOK
      <3> QED BY <3>1 DEF SaveOK
    <2>2. CASE q # r
      BY <1>5, <2>2 DEF SaveOK, InOrder
    <2> QED BY <2>1, <2>2
  <1>8. ASSUME NEW d \in Client PROVE ClickOK(d)'
    <2> SUFFICES ASSUME click'[d] # Nothing PROVE ClickOK(d)'
      BY DEF ClickOK
    <2>1. d = c
      BY <1>1
    <2>2. CASE r \in batch[c]
      <3>1. /\ batch' = [batch EXCEPT ![c] = IF ok THEN rest ELSE {}]
            /\ click' = [click EXCEPT ![c] = IF ok /\ rest # {} THEN @ ELSE Nothing]
        BY <2>2 DEF Answer
      <3>2. ok /\ click'[d] = click[d] /\ batch'[d] = rest
        BY <1>1, <2>1, <3>1 DEF TypeOK
      <3>3. /\ batch[d] = Busy
            /\ \A q \in Busy : ask[q] \in SavesOf(click[d])
            /\ \A a \in SavesOf(click[d]) : (\E q \in Busy : ask[q] = a) \/ Stored(rows, a)
        BY <3>2 DEF ClickOK, InOrder
      <3>4. Stored(rows, ask[r])
        BY <1>1, <3>2 DEF SaveOK, InOrder
      <3>5. \A a \in SavesOf(click[d]) : (\E q \in Busy' : ask'[q] = a) \/ Stored(rows, a)
        BY <1>4, <1>5, <3>3, <3>4 DEF Busy
      <3>6. \A q \in Busy' : ask'[q] \in SavesOf(click[d])
        BY <1>4, <1>5, <3>3 DEF Busy
      <3> QED BY <1>4, <2>1, <3>2, <3>3, <3>5, <3>6 DEF ClickOK
    <2>3. CASE r \notin batch[c]
      <3>1. click' = click
        BY <2>3 DEF Answer
      <3>2. batch[d] = Busy
        BY <3>1 DEF ClickOK, InOrder
      <3> QED BY <2>1, <2>3, <3>2
    <2> QED BY <2>2, <2>3
  <1>9. (Single(rows) /\ Anchored(rows))'
    BY DEF InOrder
  <1> QED BY <1>3, <1>6, <1>7, <1>8, <1>9 DEF InOrder

\* A click starts when no save is at work, and gives every save a slot of
\* its own.
LEMMA SaveInOrder ==
    ASSUME Patient, \A c, d \in Client : c = d, InOrder,
           NEW c \in Client, NEW k \in Click, Save(c, k)
    PROVE  InOrder'
  <1>1. TypeOK /\ \A d \in Client : d = c
    BY DEF InOrder, Sound
  <1>2. PICK R \in SUBSET {r \in Slot : pc[r] = "free"} :
        /\ Cardinality(R) = Cardinality(SavesOf(k))
        /\ \E f \in [R -> SavesOf(k)] :
            /\ \A a \in SavesOf(k) : \E r \in R : f[r] = a
            /\ ask' = [r \in Slot |-> IF r \in R THEN f[r] ELSE ask[r]]
        /\ pc' = [r \in Slot |-> IF r \in R THEN "check" ELSE pc[r]]
        /\ batch' = [batch EXCEPT ![c] = R]
    BY DEF Save
  <1>3. PICK f \in [R -> SavesOf(k)] :
            /\ \A a \in SavesOf(k) : \E r \in R : f[r] = a
            /\ ask' = [r \in Slot |-> IF r \in R THEN f[r] ELSE ask[r]]
    BY <1>2
  <1>4. /\ click' = [click EXCEPT ![c] = k]
        /\ rows' = rows /\ seen' = seen /\ doomed' = doomed
    BY DEF Save
  <1>5. Busy = {}
    BY <1>1 DEF Save, InOrder, Sound, Busy
  <1>6. Busy' = R /\ R \subseteq Slot
    BY <1>2, <1>5 DEF Busy
  <1>7. IsFiniteSet(R)
    BY <1>6, FiniteAssumption, FS_Subset
  <1>8. f \in Surjection(R, SavesOf(k))
    BY <1>3 DEF Surjection
  <1>9. f \in Injection(R, SavesOf(k))
    BY <1>2, <1>7, <1>8, FS_SurjSameCardinalityImpliesInj, FS_Surjection
  <1>10. \A r, q \in R : r # q => f[r] # f[q]
    BY <1>9 DEF Injection, IsInjective
  <1>11. \A r \in R : ask'[r] = f[r] /\ ask'[r] \in SavesOf(k)
    BY <1>3, <1>6
  <1>12. Separate'
    <2> SUFFICES ASSUME NEW r \in R, NEW q \in R, r # q PROVE Apart(f[r], f[q])
      BY <1>6, <1>11 DEF Separate
    <2>1. f[r] # f[q] /\ f[r] \in SavesOf(k) /\ f[q] \in SavesOf(k)
      BY <1>10
    <2> QED BY <2>1, SavesApart
  <1>13. \A q \in Slot : pc'[q] = "check" \/ pc'[q] = "free"
    BY <1>2, <1>5 DEF Busy
  <1>14. ASSUME NEW q \in Slot PROVE SaveOK(q)'
    BY <1>13 DEF SaveOK
  <1>15. ASSUME NEW d \in Client PROVE ClickOK(d)'
    <2>1. d = c /\ click'[d] = k /\ batch'[d] = R
      BY <1>1, <1>2, <1>4 DEF TypeOK
    <2>2. \A a \in SavesOf(k) : \E r \in Busy' : ask'[r] = a
      BY <1>3, <1>6, <1>11
    <2>3. \A r \in Busy' : ask'[r] \in SavesOf(k)
      BY <1>6, <1>11
    <2> QED BY <1>6, <2>1, <2>2, <2>3 DEF ClickOK
  <1>16. (Single(rows) /\ Anchored(rows))'
    BY <1>4 DEF InOrder
  <1>17. Sound'
    BY SaveSound DEF InOrder
  <1> QED BY <1>12, <1>14, <1>15, <1>16, <1>17 DEF InOrder

\* A COMMIT changes no part of the table but that of its save.
LEMMA CommitInOrder ==
    ASSUME InOrder, NEW r \in Slot, Commit(r)
    PROVE  InOrder'
  <1>1. TypeOK /\ Sound /\ r \in Busy /\ ask[r] \in Ask /\ seen[r] \subseteq Sup
    BY DEF InOrder, Sound, Busy, Commit, TypeOK
  <1>2. /\ pc[r] = "commit"
        /\ doomed' = [doomed EXCEPT ![r] = {}]
        /\ pc' = [pc EXCEPT ![r] = "publish"]
        /\ click' = click /\ batch' = batch /\ ask' = ask /\ seen' = seen
        /\ rows' = (rows \ doomed[r]) \union {NewRow(n) : n \in Inserted(r)}
    BY DEF Commit
  <1>3. Sound'
    BY <1>1, CommitSound
  <1> DEFINE N == Inserted(r)
             nr == [n \in N |-> NewRow(n)]
             a == ask[r]
             R == rows
             T == rows'
  <1>4. seen[r] = Found(R, a) /\ doomed[r] = Matched(R, a, Found(R, a))
    BY <1>2 DEF InOrder, SaveOK
  <1>5. N \subseteq Booking /\ \A n \in Booking : n \in N <=> Inserts(a, Found(R, a), n)
    <2>1. N \subseteq Booking
      BY <1>1, InsertedFacts
    <2>2. \A n \in Booking : n \in N <=> Inserts(a, seen[r], n)
      <3>1. CASE a.kind = "sups"
        BY <1>1, <3>1, InsertedFacts DEF Inserts
      <3>2. CASE a.kind = "staff"
        BY <1>1, <3>2, InsertedFacts DEF Inserts
      <3> QED BY <1>1, <3>1, <3>2, AskFacts
    <2> QED BY <1>4, <2>1, <2>2
  <1>6. /\ nr \in [N -> Row]
        /\ \A n \in N : nr[n].loco = n.loco /\ nr[n].sup = n.sup /\ nr[n].staff = n.staff
    BY <1>1, <1>5, NewRowFacts
  <1>7. T = (R \ Matched(R, a, Found(R, a))) \union {nr[n] : n \in N}
    BY <1>2, <1>4
  <1>8. R \in SUBSET Row /\ T \in SUBSET Row
    BY <1>1, <1>3 DEF Sound, TypeOK
  <1>9. Single(R) /\ Anchored(R)
    BY DEF InOrder
  <1>10. /\ \A b \in Row : ~Touches(a, b.loco, b.sup) => (b \in R <=> b \in T)
         /\ Stored(T, a) /\ Single(T) /\ Anchored(T)
    <2>1. a \in Ask
      BY <1>1
    <2> HIDE DEF N, nr, a, R, T
    <2> QED BY <2>1, <1>5, <1>6, <1>7, <1>8, <1>9, Replace, Z3
  <1>11. ASSUME NEW b \in Ask, Apart(a, b), NEW S
         PROVE  /\ Found(T, b) = Found(R, b)
                /\ Matched(T, b, S) = Matched(R, b, S)
                /\ Stored(T, b) <=> Stored(R, b)
    <2>1. \A d \in Row : d.loco \in Loco /\ d.sup \in Sup
      BY DEF Row
    <2>2. \A d \in Row : Touches(b, d.loco, d.sup) => (d \in R <=> d \in T)
      BY <1>10, <1>11, <2>1 DEF Apart
    <2> HIDE DEF R, T
    <2> QED BY <1>8, <2>2, Local
  <1>12. Busy' = Busy
    BY <1>1, <1>2 DEF Busy, TypeOK
  <1>13. Separate'
    BY <1>2, <1>12 DEF Separate, InOrder
  <1>14. ASSUME NEW q \in Slot PROVE SaveOK(q)'
    <2>1. CASE q = r
      <3>1. pc'[q] = "publish" /\ Stored(rows', ask'[q])
        BY <1>1, <1>2, <1>10, <2>1 DEF TypeOK
      <3> QED BY <3>1 DEF SaveOK
    <2>2. CASE q # r
      <3>1. /\ pc'[q] = pc[q] /\ doomed'[q] = doomed[q] /\ SaveOK(q)
            /\ ask'[q] = ask[q] /\ seen'[q] = seen[q]
        BY <1>1, <1>2, <2>2 DEF TypeOK, InOrder
      <3>2. CASE q \in Busy
        <4>1. ask[q] \in Ask /\ Apart(a, ask[q])
          BY <1>1, <2>2, <3>2 DEF Sound, InOrder, Separate
        <4>2. /\ Found(T, ask[q]) = Found(R, ask[q])
              /\ Matched(T, ask[q], seen[q]) = Matched(R, ask[q], seen[q])
              /\ Stored(T, ask[q]) <=> Stored(R, ask[q])
          BY <1>11, <4>1
        <4> QED BY <3>1, <4>2 DEF SaveOK
      <3>3. CASE q \notin Busy
        <4>1. pc'[q] = "free"
          BY <3>1, <3>3 DEF Busy
        <4> QED BY <4>1 DEF SaveOK
      <3> QED BY <3>2, <3>3
    <2> QED BY <2>1, <2>2
  <1>15. ASSUME NEW d \in Client PROVE ClickOK(d)'
    <2> SUFFICES ASSUME click[d] # Nothing PROVE ClickOK(d)'
      BY <1>2 DEF ClickOK
    <2>1. /\ batch[d] = Busy
          /\ \A q \in Busy : ask[q] \in SavesOf(click[d])
          /\ \A b \in SavesOf(click[d]) : (\E q \in Busy : ask[q] = b) \/ Stored(R, b)
      BY DEF InOrder, ClickOK
    <2>2. click[d] \in Click
      BY <1>1 DEF TypeOK
    <2>3. ASSUME NEW b \in SavesOf(click[d])
          PROVE  (\E q \in Busy : ask[q] = b) \/ Stored(T, b)
      <3>1. CASE b = a
        BY <1>1, <3>1
      <3>2. CASE b # a
        <4>1. b \in Ask /\ Apart(a, b)
          BY <1>1, <2>1, <2>2, <3>2, SavesAsk, SavesApart
        <4> QED BY <1>11, <2>1, <4>1
      <3> QED BY <3>1, <3>2
    <2> QED BY <1>2, <1>12, <2>1, <2>3 DEF ClickOK
  <1> QED BY <1>3, <1>10, <1>13, <1>14, <1>15 DEF InOrder

LEMMA InOrderInit == Init => InOrder
  <1> SUFFICES ASSUME Init PROVE InOrder
    OBVIOUS
  <1>1. Busy = {} /\ Sound
    BY SoundInit DEF Init, Busy
  <1>2. \A r \in Slot : SaveOK(r)
    BY DEF Init, SaveOK
  <1>3. \A c \in Client : ClickOK(c)
    BY DEF Init, ClickOK
  <1> QED BY <1>1, <1>2, <1>3 DEF Init, InOrder, Separate, Single, Anchored

\* A statement that changes only what the save in slot r has found and
\* deleted.
LEMMA StatementInOrder ==
    ASSUME InOrder, NEW r \in Busy,
           NEW to \in {"read", "delete", "locking", "commit"},
           pc' = [pc EXCEPT ![r] = to],
           \A q \in Slot : q # r => seen'[q] = seen[q] /\ doomed'[q] = doomed[q],
           to # "read" => seen'[r] = Found(rows, ask[r]),
           to \in {"locking", "commit"} => doomed'[r] = Matched(rows, ask[r], seen'[r]),
           UNCHANGED <<rows, click, batch, ask>>, Sound'
    PROVE  InOrder'
  <1>1. TypeOK /\ r \in Slot
    BY DEF InOrder, Sound, Busy
  <1>2. Busy' = Busy
    BY <1>1 DEF Busy, TypeOK
  <1>3. ASSUME NEW q \in Slot PROVE SaveOK(q)'
    <2>1. CASE q = r
      BY <1>1, <2>1 DEF SaveOK, TypeOK
    <2>2. CASE q # r
      <3>1. pc'[q] = pc[q] /\ seen'[q] = seen[q] /\ doomed'[q] = doomed[q] /\ SaveOK(q)
        BY <1>1, <2>2 DEF TypeOK, InOrder
      <3> QED BY <3>1 DEF SaveOK
    <2> QED BY <2>1, <2>2
  <1>4. Separate' /\ \A c \in Client : ClickOK(c)'
    BY <1>2 DEF Separate, ClickOK, InOrder
  <1>5. (Single(rows) /\ Anchored(rows))'
    BY DEF InOrder
  <1> QED BY <1>3, <1>4, <1>5 DEF InOrder

LEMMA InOrderStep ==
    ASSUME Patient, \A c, d \in Client : c = d
    PROVE  InOrder /\ [Next]_vars => InOrder'
  <1> SUFFICES ASSUME InOrder, [Next]_vars PROVE InOrder'
    OBVIOUS
  <1>1. TypeOK /\ Sound /\ Sound'
    BY SoundStep DEF InOrder, Sound
  <1>2. ASSUME NEW c \in Client, NEW k \in Click, Save(c, k) PROVE InOrder'
    BY <1>2, SaveInOrder
  <1>3. ASSUME NEW r \in Slot, CheckAbsent(r) PROVE InOrder'
    <2>1. r \in Busy
      BY <1>3 DEF CheckAbsent, Busy
    <2>2. CASE Answer(r, FALSE)
      BY <1>3, <2>1, <2>2, AnswerInOrder DEF CheckAbsent
    <2>3. CASE ~Answer(r, FALSE)
      <3>1. /\ pc' = [pc EXCEPT ![r] = "read"]
            /\ UNCHANGED <<rows, absent, click, batch, owner, ask, seen, doomed>>
        BY <1>3, <2>3 DEF CheckAbsent
      <3> QED BY <1>1, <2>1, <3>1, StatementInOrder
    <2> QED BY <2>2, <2>3
  <1>4. ASSUME NEW r \in Slot, LockedOut(r) \/ Abort(r) PROVE InOrder'
    <2>1. r \in Busy /\ Answer(r, FALSE) /\ UNCHANGED <<rows, absent>>
      BY <1>4 DEF LockedOut, Abort, Busy
    <2> QED BY <2>1, AnswerInOrder
  <1>5. ASSUME NEW r \in Slot, ReadAssigned(r) PROVE InOrder'
    <2>1. /\ pc' = [pc EXCEPT ![r] = "delete"] /\ pc[r] = "read"
          /\ UNCHANGED <<rows, absent, click, batch, owner, ask, doomed>>
      BY <1>5 DEF ReadAssigned
    <2>2. seen' = [seen EXCEPT ![r] = Found(rows, ask[r])]
      BY <1>5 DEF ReadAssigned, Found
    <2>3. seen'[r] = Found(rows, ask[r]) /\ \A q \in Slot : q # r => seen'[q] = seen[q]
      BY <1>1, <2>2 DEF TypeOK
    <2>4. r \in Busy
      BY <2>1 DEF Busy
    <2> QED BY <1>1, <2>1, <2>3, <2>4, StatementInOrder
  <1>6. ASSUME NEW r \in Slot, DeleteStart(r) PROVE InOrder'
    <2>1. /\ pc' = [pc EXCEPT ![r] = "locking"] /\ pc[r] = "delete"
          /\ UNCHANGED <<rows, absent, click, batch, owner, ask, seen>>
      BY <1>6 DEF DeleteStart
    <2>2. doomed' = [doomed EXCEPT ![r] = Matched(rows, ask[r], seen[r])]
      BY <1>6 DEF DeleteStart, Matching, Matched
    <2>3. /\ seen'[r] = Found(rows, ask[r])
          /\ doomed'[r] = Matched(rows, ask[r], seen'[r])
          /\ \A q \in Slot : q # r => doomed'[q] = doomed[q]
      BY <1>1, <2>1, <2>2 DEF TypeOK, InOrder, SaveOK
    <2>4. r \in Busy
      BY <2>1 DEF Busy
    <2> QED BY <1>1, <2>1, <2>3, <2>4, StatementInOrder
  <1>7. ASSUME NEW r \in Slot, DeleteLock(r) PROVE InOrder'
    <2>1. /\ pc' = [pc EXCEPT ![r] = "commit"] /\ pc[r] = "locking"
          /\ doomed' = [doomed EXCEPT ![r] = @ \cap rows]
          /\ UNCHANGED <<rows, absent, click, batch, owner, ask, seen>>
      BY <1>7 DEF DeleteLock
    <2>2. seen[r] = Found(rows, ask[r]) /\ doomed[r] = Matched(rows, ask[r], seen[r])
      BY <2>1 DEF InOrder, SaveOK
    <2>3. doomed[r] \cap rows = doomed[r]
      BY <2>2 DEF Matched
    <2>4. /\ seen'[r] = Found(rows, ask[r])
          /\ doomed'[r] = Matched(rows, ask[r], seen'[r])
          /\ \A q \in Slot : q # r => doomed'[q] = doomed[q]
      BY <1>1, <2>1, <2>2, <2>3 DEF TypeOK
    <2>5. r \in Busy
      BY <2>1 DEF Busy
    <2> QED BY <1>1, <2>1, <2>4, <2>5, StatementInOrder
  <1>8. ASSUME NEW r \in Slot, Commit(r) PROVE InOrder'
    BY <1>8, CommitInOrder
  <1>9. ASSUME NEW r \in Slot, Publish(r) PROVE InOrder'
    <2>1. PICK ok \in BOOLEAN : Answer(r, ok)
      BY <1>9 DEF Publish
    <2>2. r \in Busy /\ pc[r] = "publish" /\ UNCHANGED <<rows, absent>>
      BY <1>9 DEF Publish, Busy
    <2> QED BY <2>1, <2>2, AnswerInOrder
  <1>10. CASE UpdateAvailabilities \/ UNCHANGED vars
    <2>1. UNCHANGED <<rows, click, batch, pc, owner, ask, seen, doomed>>
      BY <1>10 DEF UpdateAvailabilities, save, vars
    <2>2. Busy' = Busy
      BY <2>1 DEF Busy
    <2>3. Separate' /\ (\A r \in Slot : SaveOK(r)') /\ \A c \in Client : ClickOK(c)'
      BY <2>1, <2>2 DEF InOrder, Separate, SaveOK, ClickOK
    <2> QED BY <1>1, <2>1, <2>3 DEF InOrder
  <1> QED BY <1>2, <1>3, <1>4, <1>5, <1>6, <1>7, <1>8, <1>9, <1>10 DEF Next, Progress

\* With one wizard in the window, the lock being held, and a user who waits
\* for the rest of a failed click, no assignment is ever stored twice and no
\* staff is ever booked under a supervisor without a row, however the saves
\* of a click interleave and whichever of them fail.
THEOREM TableInOrder ==
    ASSUME Patient, \A c, d \in Client : c = d
    PROVE  Spec => []Orderly
  <1>1. InOrder => Orderly
    BY DEF InOrder, Single, Anchored, Has, Orderly
  <1>2. InOrder /\ [Next]_vars => InOrder'
    BY InOrderStep
  <1> QED BY <1>1, <1>2, InOrderInit, PTL DEF Spec

\* Under the same conditions, when the wizard reports that a click was
\* saved, the table says for every locomotive, or for every supervisor, of
\* the click what was on the screen.
THEOREM ReportsTruth ==
    ASSUME Patient, \A c, d \in Client : c = d
    PROVE  Spec => SavedAsShown
  <1>1. ASSUME InOrder, NEW c \in Client, Succeeds(c) PROVE Shows(click[c])
    <2>1. click[c] # Nothing /\ TypeOK
      BY <1>1 DEF Succeeds, InOrder, Sound
    <2>2. PICK r \in Slot : batch[c] = {r} /\ pc[r] = "publish"
      BY <1>1 DEF Succeeds
    <2>3. Busy = {r} /\ Stored(rows, ask[r])
      BY <1>1, <2>1, <2>2 DEF InOrder, ClickOK, SaveOK
    <2>4. \A a \in SavesOf(click[c]) : Stored(rows, a)
      BY <1>1, <2>1, <2>3 DEF InOrder, ClickOK
    <2>5. PICK k \in Click : k = click[c]
      BY <2>1 DEF TypeOK
    <2>6. CASE k.kind = "sups"
      <3>1. ASSUME NEW l \in Loco PROVE Assigned(rows, l) = k.chosen[l]
        <4> DEFINE a == [kind |-> "sups", loco |-> l, sups |-> k.chosen[l]]
        <4>1. a \in SavesOf(k) /\ a.kind = "sups" /\ a.loco = l /\ a.sups = k.chosen[l]
          BY <2>6 DEF SavesOf
        <4> HIDE DEF a
        <4> QED BY <2>4, <2>5, <4>1 DEF Stored
      <3> QED BY <2>5, <2>6, <3>1 DEF Shows
    <2>7. CASE k.kind # "sups"
      <3>1. ASSUME NEW s \in k.sups
            PROVE  {b.staff : b \in {d \in rows : d.loco = k.loco /\ d.sup = s}}
                       = k.staff \union {NoStaff}
        <4> DEFINE a == [kind |-> "staff", loco |-> k.loco, sup |-> s, staff |-> k.staff]
        <4>1. /\ a \in SavesOf(k) /\ a.kind = "staff"
              /\ a.loco = k.loco /\ a.sup = s /\ a.staff = k.staff
          BY <2>7 DEF SavesOf
        <4> HIDE DEF a
        <4> QED BY <2>4, <2>5, <4>1 DEF Stored
      <3> QED BY <2>5, <2>7, <3>1 DEF Shows
    <2> QED BY <2>6, <2>7
  <1>2. InOrder /\ [Next]_vars => [\A c \in Client : Succeeds(c) => Shows(click[c])]_vars
    BY <1>1
  <1>3. InOrder /\ [Next]_vars => InOrder'
    BY InOrderStep
  <1> QED BY <1>2, <1>3, InOrderInit, PTL DEF Spec, SavedAsShown

-----------------------------------------------------------------------------
(* The editing lock of the window: any supervisors and any timing in which *)
(* HeartbeatPeriod + Latency < LockTTL.                                    *)

(* No step of the specification breaks the types, whatever faults occur.   *)
LEMMA LockTypeStep ==
  ASSUME LockTypeOK, [LockNext]_lockVars
  PROVE  LockTypeOK'
<1> USE TimingAssumption, NoOwnerAssumption
        DEF LockTypeOK, PagePhase, LockPhase, UnlockPhase, SavePhase, pageVars
<1>1. ASSUME NEW s \in Supervisor, PageStep(s)
      PROVE  LockTypeOK'
  <2>1. CASE Mount(s) \/ Identify(s)
    BY <2>1 DEF Mount, Identify, Sends
  <2>2. CASE Switch(s)
    <3>1. unlockReq'[s] \in UnlockPhase
      BY <2>2 DEF Switch
    <3>2. unlockReq' \in [Supervisor -> UnlockPhase]
      BY <2>2, <3>1 DEF Switch
    <3>3. lockedOut' \in [Supervisor -> BOOLEAN]
      <4>1. PICK b \in BOOLEAN : lockedOut' = [lockedOut EXCEPT ![s] = b]
        BY <2>2, Zenon DEF Switch
      <4>2. QED
        BY <4>1
    <3>4. lock' = lock /\ ttl' = ttl /\ saveReq' = saveReq /\ writers' = writers
      BY <2>2 DEF Switch
    <3>5. /\ page' \in [Supervisor -> PagePhase]
          /\ timer' \in [Supervisor -> 0..HeartbeatPeriod]
          /\ lockReq' \in [Supervisor -> LockPhase]
          /\ age' \in [Supervisor -> 0..Latency]
      BY <2>2 DEF Switch, Sends
    <3>6. QED
      BY <3>2, <3>3, <3>4, <3>5
  <2>3. CASE Heartbeat(s)
    BY <2>3 DEF Heartbeat, Sends
  <2>4. CASE Leave(s) \/ Crash(s)
    <3>1. Gone(s)
      BY <2>4 DEF Leave, Crash
    <3>2. /\ page' \in [Supervisor -> PagePhase]
          /\ timer' \in [Supervisor -> 0..HeartbeatPeriod]
      BY <3>1 DEF Gone
    <3>3. lockedOut' \in [Supervisor -> BOOLEAN]
      BY <3>1, Zenon DEF Gone
    <3>4. /\ unlockReq' \in [Supervisor -> UnlockPhase]
          /\ age' \in [Supervisor -> 0..Latency]
          /\ lock' = lock /\ ttl' = ttl /\ lockReq' = lockReq
          /\ saveReq' = saveReq /\ writers' = writers
      BY <2>4 DEF Leave, Crash, Sends
    <3>5. QED
      BY <3>2, <3>3, <3>4
  <2>5. CASE SendSave(s) \/ SendRemarks(s)
    BY <2>5 DEF SendSave, SendRemarks, Sends
  <2>6. CASE Answered(s)
    <3>1. (lockReq[s] = "conflict") \in BOOLEAN
      OBVIOUS
    <3>2. lockedOut' \in [Supervisor -> BOOLEAN]
      BY <2>6, <3>1, Zenon DEF Answered
    <3>3. QED
      BY <2>6, <3>2 DEF Answered
  <2>7. QED
    BY <1>1, <2>1, <2>2, <2>3, <2>4, <2>5, <2>6 DEF PageStep
<1>2. ASSUME NEW s \in Supervisor, ServerStep(s)
      PROVE  LockTypeOK'
  BY <1>2 DEF ServerStep, SetKey, AcquireNX, AcquireRead, AcquireRenew,
              LockTurn, ReleaseRead, ReleaseDelete, SaveCheck, SaveCommit
<1>3. ASSUME NEW s \in Supervisor, Lose(s)
      PROVE  LockTypeOK'
  BY <1>3 DEF Lose
<1>4. CASE Tick
  BY <1>4 DEF Tick, Elapse, Older
<1>5. CASE UNCHANGED lockVars
  BY <1>5 DEF lockVars
<1>6. QED
  BY <1>1, <1>2, <1>3, <1>4, <1>5 DEF LockNext

(* Type correctness of the lock, whatever faults occur: in particular the  *)
(* Redis key exists exactly as long as it has time to live.                *)
THEOREM LockTypeCorrect == LockSpec => []LockTypeOK
<1>1. LockInit => LockTypeOK
  BY TimingAssumption
     DEF LockInit, LockTypeOK, PagePhase, LockPhase, UnlockPhase, SavePhase
<1>2. LockTypeOK /\ [LockNext]_lockVars => LockTypeOK'
  BY LockTypeStep
<1>3. QED
  BY <1>1, <1>2, PTL DEF LockSpec

-----------------------------------------------------------------------------
(* The part of CalmInv that speaks of one supervisor, by name.             *)
CalmFor(s) == UnlockFirst(s) /\ HandlerOwns(s) /\ EditorOwns(s)

LEMMA CalmInvParts ==
  CalmInv <=> LockTypeOK /\ WindowIsolated /\ \A s \in Supervisor : CalmFor(s)
BY DEF CalmInv, CalmFor

(* What a step leaves alone about the supervisors who do not take it: with *)
(* no fault, a step of t changes the key only if the key is free or t's.   *)
LEMMA OwnKeyOnly ==
  ASSUME Faults = {}, CalmInv, NEW t \in Supervisor, PageStep(t) \/ ServerStep(t)
  PROVE  /\ lock' # lock => lock \in {t, NoOwner} /\ lock' \in {t, NoOwner}
         /\ lock' = lock => writers' \in {writers, writers \union {t}}
         /\ lock' # lock => lock' = NoOwner \/ writers' = {}
         /\ writers' # writers => lock' = t
         /\ ttl' # ttl => lock \in {t, NoOwner}
         /\ \A s \in Supervisor \ {t} :
               /\ page'[s] = page[s] /\ lockedOut'[s] = lockedOut[s]
               /\ timer'[s] = timer[s] /\ lockReq'[s] = lockReq[s]
               /\ unlockReq'[s] = unlockReq[s] /\ saveReq'[s] = saveReq[s]
               /\ age'[s] = age[s]
<1> USE CalmInvParts DEF LockTypeOK, CalmFor, HandlerOwns, EditorOwns, KeptForBurst
<1>1. CASE PageStep(t)
  <2>1. CASE Mount(t) \/ Identify(t) \/ Switch(t)
    BY <2>1 DEF Mount, Identify, Switch, Sends, pageVars
  <2>2. CASE Heartbeat(t) \/ Leave(t) \/ Crash(t)
    BY <2>2 DEF Heartbeat, Leave, Crash, Gone, Sends, pageVars
  <2>3. CASE SendSave(t) \/ SendRemarks(t) \/ Answered(t)
    BY <2>3 DEF SendSave, SendRemarks, Answered, Sends, pageVars
  <2>4. QED
    BY <1>1, <2>1, <2>2, <2>3 DEF PageStep
<1>2. CASE AcquireNX(t) \/ AcquireRead(t) \/ AcquireRenew(t)
  BY <1>2 DEF AcquireNX, AcquireRead, AcquireRenew, LockTurn, SetKey, pageVars
<1>3. CASE ReleaseRead(t) \/ ReleaseDelete(t)
  BY <1>3 DEF ReleaseRead, ReleaseDelete, pageVars
<1>4. CASE SaveCheck(t) \/ SaveCommit(t)
  BY <1>4 DEF SaveCheck, SaveCommit, pageVars
<1>5. QED
  BY <1>1, <1>2, <1>3, <1>4 DEF ServerStep

(* A step of another supervisor t does not disturb what CalmInv says of s. *)
LEMMA CalmOthers ==
  ASSUME Faults = {}, CalmInv, NEW t \in Supervisor, PageStep(t) \/ ServerStep(t),
         NEW s \in Supervisor \ {t}
  PROVE  CalmFor(s)'
<1>1. /\ page'[s] = page[s] /\ lockedOut'[s] = lockedOut[s] /\ timer'[s] = timer[s]
      /\ lockReq'[s] = lockReq[s] /\ unlockReq'[s] = unlockReq[s] /\ saveReq'[s] = saveReq[s]
      /\ age'[s] = age[s]
  BY OwnKeyOnly
<1>2. lock = s => lock' = s /\ ttl' = ttl
  BY OwnKeyOnly, NoOwnerAssumption
<1>3. CalmFor(s)
  BY CalmInvParts
<1>4. QED
  BY <1>1, <1>2, <1>3
     DEF CalmFor, UnlockFirst, HandlerOwns, EditorOwns, KeptForBeat, KeptForBurst, Mounted

(* A step of s itself: its page.                                           *)
LEMMA CalmPage ==
  ASSUME Faults = {}, CalmInv, NEW s \in Supervisor, PageStep(s)
  PROVE  CalmFor(s)'
<1> USE CalmInvParts, TimingAssumption, NoOwnerAssumption
        DEF LockTypeOK, CalmFor, UnlockFirst, HandlerOwns, EditorOwns,
            KeptForBeat, KeptForBurst, Mounted, Quiet, Sends, pageVars
<1>1. CASE Mount(s)
  BY <1>1 DEF Mount
<1>2. CASE Identify(s)
  BY <1>2 DEF Identify
<1>3. CASE Switch(s)
  BY <1>3 DEF Switch
<1>4. CASE Heartbeat(s)
  BY <1>4 DEF Heartbeat
<1>5. CASE Leave(s) \/ Crash(s)
  BY <1>5 DEF Leave, Crash, Gone
<1>6. CASE SendSave(s) \/ SendRemarks(s)
  BY <1>6 DEF SendSave, SendRemarks, MaySave
<1>7. CASE Answered(s)
  <2>1. /\ lockReq'[s] = "idle" /\ lockReq[s] \in {"ok", "conflict"}
        /\ timer' = timer /\ lock' = lock /\ ttl' = ttl /\ age' = age
        /\ unlockReq' = unlockReq /\ saveReq' = saveReq
        /\ Mounted(s) => page'[s] = "open"
        /\ ~Mounted(s) => page' = page
    BY <1>7 DEF Answered
  <2>2. Mounted(s) /\ lockReq[s] = "conflict" => lockedOut'[s]
    BY <1>7, Zenon DEF Answered
  <2>3. EditorOwns(s)'
    BY <2>1, <2>2
  <2>4. QED
    BY <2>1, <2>3
<1>8. QED
  BY <1>1, <1>2, <1>3, <1>4, <1>5, <1>6, <1>7 DEF PageStep

(* A step of s itself: the handlers of its requests.                       *)
LEMMA CalmServer ==
  ASSUME Faults = {}, CalmInv, NEW s \in Supervisor, ServerStep(s)
  PROVE  CalmFor(s)'
<1> USE CalmInvParts, TimingAssumption, NoOwnerAssumption
        DEF LockTypeOK, CalmFor, UnlockFirst, HandlerOwns, EditorOwns,
            KeptForBeat, KeptForBurst, Mounted, pageVars
<1>1. CASE AcquireNX(s)
  <2>0. /\ unlockReq[s] \in {"idle", "behind"}
        /\ lockReq[s] = "sent"
        /\ page' = page /\ lockedOut' = lockedOut /\ timer' = timer /\ age' = age
        /\ unlockReq' = unlockReq /\ saveReq' = saveReq
    BY <1>1 DEF AcquireNX, LockTurn, UnlockPhase
  <2>1. CASE lock = NoOwner
    <3>1. lock' = s /\ ttl' = LockTTL /\ lockReq'[s] = "ok"
      BY <1>1, <2>1 DEF AcquireNX, SetKey
    <3>2. EditorOwns(s)'
      BY <2>0, <2>1, <3>1
    <3>3. QED
      BY <2>0, <3>1, <3>2
  <2>2. CASE lock # NoOwner
    <3>1. lock' = lock /\ ttl' = ttl /\ lockReq'[s] = "read"
      BY <1>1, <2>2 DEF AcquireNX
    <3>2. EditorOwns(s)'
      BY <2>0, <3>1
    <3>3. QED
      BY <2>0, <3>1, <3>2
  <2>3. QED
    BY <2>1, <2>2
<1>2. CASE AcquireRead(s)
  BY <1>2 DEF AcquireRead
<1>3. CASE AcquireRenew(s)
  BY <1>3 DEF AcquireRenew, SetKey
<1>4. CASE ReleaseRead(s)
  BY <1>4 DEF ReleaseRead, UnlockTurn
<1>5. CASE ReleaseDelete(s)
  BY <1>5 DEF ReleaseDelete
<1>6. CASE SaveCheck(s) \/ SaveCommit(s)
  BY <1>6 DEF SaveCheck, SaveCommit
<1>7. QED
  BY <1>1, <1>2, <1>3, <1>4, <1>5, <1>6 DEF ServerStep

(* A tick is one of the Latency that a burst of requests may take, and     *)
(* comes before any heartbeat is due, so that no key expires that a page   *)
(* or a save relies on.                                                    *)
LEMMA CalmTick ==
  ASSUME Faults = {}, CalmInv, Tick, NEW s \in Supervisor
  PROVE  CalmFor(s)'
<1>1. OnTime
  BY DEF Tick
<1>2. /\ lockReq[s] # "renew" /\ unlockReq[s] # "delete"
      /\ ~Quiet(s) => age[s] < Latency
      /\ Mounted(s) => timer[s] > 0
  BY <1>1 DEF OnTime
<1> USE TimingAssumption, CalmInvParts DEF LockTypeOK
<1>3. /\ ttl \in Nat /\ ttl' = Elapse(ttl)
      /\ timer[s] \in Nat /\ timer'[s] = Elapse(timer[s])
      /\ timer[s] <= HeartbeatPeriod
      /\ age[s] \in Nat /\ age'[s] = Older(s)
      /\ lock' = (IF ttl' = 0 THEN NoOwner ELSE lock)
      /\ page' = page /\ lockedOut' = lockedOut /\ lockReq' = lockReq
      /\ unlockReq' = unlockReq /\ saveReq' = saveReq
  BY DEF Tick
<1>4. ~Quiet(s) => age'[s] = age[s] + 1 /\ age[s] + 1 <= Latency
  BY <1>2, <1>3 DEF Older
<1>5. Mounted(s) /\ KeptForBeat(s) => KeptForBeat(s)'
  BY <1>2, <1>3 DEF KeptForBeat, Elapse
<1>6. ~Quiet(s) /\ KeptForBurst(s) => KeptForBurst(s)'
  BY <1>2, <1>3, <1>4 DEF KeptForBurst, Elapse
<1>7. EditorOwns(s)'
  <2>1. EditorOwns(s)
    BY DEF CalmFor
  <2>2. QED
    BY <1>3, <1>5, <1>6, <2>1 DEF EditorOwns, Mounted, Quiet
<1>8. UnlockFirst(s) /\ HandlerOwns(s)
  BY DEF CalmFor
<1>9. QED
  BY <1>2, <1>3, <1>7, <1>8 DEF CalmFor, UnlockFirst, HandlerOwns, Mounted

LEMMA CalmStep ==
  ASSUME Faults = {}, CalmInv, [LockNext]_lockVars
  PROVE  CalmInv'
<1>1. LockTypeOK'
  BY LockTypeStep, CalmInvParts
<1>2. ASSUME NEW t \in Supervisor, PageStep(t) \/ ServerStep(t)
      PROVE  CalmInv'
  <2>1. \A s \in Supervisor : CalmFor(s)'
    BY <1>2, CalmPage, CalmServer, CalmOthers
  <2>2. WindowIsolated'
    <3>1. WindowIsolated
      BY CalmInvParts
    <3>2. CASE lock' = lock
      BY <1>2, <3>1, <3>2, OwnKeyOnly DEF WindowIsolated
    <3>3. CASE lock' # lock
      BY <1>2, <3>3, OwnKeyOnly DEF WindowIsolated
    <3>4. QED
      BY <3>2, <3>3
  <2>3. QED
    BY <1>1, <2>1, <2>2 DEF CalmInv, CalmFor
<1>3. CASE Tick
  <2>1. \A s \in Supervisor : CalmFor(s)'
    BY <1>3, CalmTick
  <2>2. WindowIsolated'
    BY <1>3, CalmInvParts DEF WindowIsolated, Tick
  <2>3. QED
    BY <1>1, <2>1, <2>2 DEF CalmInv, CalmFor
<1>4. CASE UNCHANGED lockVars
  BY <1>4
     DEF lockVars, CalmInv, LockTypeOK, WindowIsolated, UnlockFirst, HandlerOwns,
         EditorOwns, KeptForBeat, KeptForBurst, Mounted
<1>5. ~ \E s \in Supervisor : Lose(s)
  BY DEF Lose
<1>6. QED
  BY <1>2, <1>3, <1>4, <1>5 DEF LockNext

(* With no fault, that is, with the requests of a browser handled in the   *)
(* order they are sent and within Latency, CalmInv holds of every          *)
(* reachable state.                                                        *)
THEOREM CalmInvariant ==
  ASSUME Faults = {}
  PROVE  LockSpec => []CalmInv
<1>1. LockInit => CalmInv
  <2> SUFFICES ASSUME LockInit PROVE CalmInv
    OBVIOUS
  <2>1. LockTypeOK
    BY TimingAssumption
     DEF LockInit, LockTypeOK, PagePhase, LockPhase, UnlockPhase, SavePhase
  <2>2. QED
    BY <2>1, TimingAssumption
       DEF LockInit, CalmInv, WindowIsolated, UnlockFirst, HandlerOwns, EditorOwns, Mounted
<1>2. CalmInv /\ [LockNext]_lockVars => CalmInv'
  BY CalmStep
<1>3. QED
  BY <1>1, <1>2, PTL DEF LockSpec

(* A page that has been told it has the lock does have it, with a          *)
(* heartbeat in flight too: the heartbeat and the time its requests may    *)
(* take are shorter than the key's expiry, and the unlock that the page    *)
(* sent on opening comes before its lock request.                          *)
THEOREM GrantsHold ==
  ASSUME Faults = {}
  PROVE  LockSpec => []GrantHolds
<1>1. CalmInv => GrantHolds
  BY DEF CalmInv, EditorOwns, KeptForBeat, KeptForBurst, GrantHolds
<1>2. QED
  BY <1>1, CalmInvariant, PTL

(* A save gets past the check of save_bookings only if its sender holds    *)
(* the key: while requests keep their order, the missing key that the      *)
(* check lets pass never occurs.                                           *)
THEOREM SaversHold ==
  ASSUME Faults = {}
  PROVE  LockSpec => SavesHoldLock
<1>1. ASSUME CalmInv, NEW s \in Supervisor, saveReq[s] = "sent"
      PROVE  lock = s
  BY <1>1, CalmInvParts DEF CalmFor, EditorOwns, KeptForBurst
<1>2. CalmInv /\ [LockNext]_lockVars =>
        [\A s \in Supervisor :
            saveReq[s] = "sent" /\ saveReq'[s] = "write" => lock = s]_lockVars
  BY <1>1
<1>3. QED
  BY <1>2, CalmInvariant, PTL DEF LockSpec, SavesHoldLock

(* The lock never passes from one supervisor straight to another.          *)
THEOREM CalmExclusive ==
  ASSUME Faults = {}
  PROVE  LockSpec => Exclusive
<1>1. ASSUME CalmInv, [LockNext]_lockVars
      PROVE  [lock # NoOwner => lock' \in {lock, NoOwner}]_lockVars
  <2>1. ASSUME NEW t \in Supervisor, PageStep(t) \/ ServerStep(t), lock # NoOwner
        PROVE  lock' \in {lock, NoOwner}
    BY <1>1, <2>1, OwnKeyOnly
  <2>2. ~ \E s \in Supervisor : Lose(s)
    BY DEF Lose
  <2>3. CASE Tick
    BY <2>3 DEF Tick
  <2>4. QED
    BY <1>1, <2>1, <2>2, <2>3 DEF LockNext, lockVars
<1>2. QED
  BY <1>1, CalmInvariant, PTL DEF LockSpec, Exclusive

(* The Redis key, the handlers and the heartbeat implement EditWindow: the *)
(* window is opened, written and closed by one supervisor at a time.       *)
THEOREM CalmImplements ==
  ASSUME Faults = {}
  PROVE  LockSpec => ImplementsEditWindow
<1>1. LockInit => Window!Init
  BY DEF LockInit, Window!Init
<1>2. ASSUME CalmInv, [LockNext]_lockVars
      PROVE  [Window!Next]_(Window!vars)
  <2> USE DEF Window!Next, Window!Open, Window!Save, Window!Close, Window!vars
  <2>1. ASSUME NEW s \in Supervisor, PageStep(s)
        PROVE  UNCHANGED <<lock, writers>>
    BY <2>1 DEF PageStep, Mount, Identify, Switch, Heartbeat, Leave, Crash, SendSave,
                SendRemarks, Answered
  <2>2. ASSUME NEW s \in Supervisor, AcquireNX(s) \/ AcquireRead(s) \/ AcquireRenew(s)
        PROVE  Window!Open(s) \/ UNCHANGED <<lock, writers>>
    BY <1>2, <2>2, CalmInvParts
       DEF CalmFor, HandlerOwns, AcquireNX, AcquireRead, AcquireRenew, SetKey
  <2>3. ASSUME NEW s \in Supervisor, ReleaseRead(s) \/ ReleaseDelete(s)
        PROVE  Window!Close \/ UNCHANGED <<lock, writers>>
    BY <2>3 DEF ReleaseRead, ReleaseDelete
  <2>4. ASSUME NEW s \in Supervisor, SaveCheck(s) \/ SaveCommit(s)
        PROVE  Window!Save(s) \/ UNCHANGED <<lock, writers>>
    BY <1>2, <2>4, CalmInvParts
       DEF CalmFor, EditorOwns, KeptForBurst, SaveCheck, SaveCommit
  <2>5. CASE Tick
    BY <2>5 DEF Tick
  <2>6. ~ \E s \in Supervisor : Lose(s)
    BY DEF Lose
  <2>7. CASE UNCHANGED lockVars
    BY <2>7 DEF lockVars
  <2>8. QED
    BY <1>2, <2>1, <2>2, <2>3, <2>4, <2>5, <2>6, <2>7 DEF LockNext, ServerStep
<1>3. QED
  BY <1>1, <1>2, CalmInvariant, PTL DEF LockSpec, ImplementsEditWindow, Window!Spec
=============================================================================
