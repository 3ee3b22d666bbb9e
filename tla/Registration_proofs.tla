------------------------ MODULE Registration_proofs ------------------------
(***************************************************************************)
(* Proofs about Registration, for any number of applicants, administrators, *)
(* ticket numbers, addresses and registration codes.                       *)
(***************************************************************************)
EXTENDS Registration, TLAPS

-----------------------------------------------------------------------------
(* The inductive invariant behind type correctness and SlipIsOwn.          *)

Types ==
    /\ emailOtp \in BOOLEAN
    /\ requests \in [Code -> Request \union {None}]
    /\ accounts \in [Ticket -> Account \union {None}]
    /\ temp \in [Ticket -> Mail \union {None}]
    /\ otp \in [Ticket -> Mail \union {None}]
    /\ desk \in [Applicant -> Desk]
    /\ serve \in [Applicant -> Serving \union {None}]
    /\ manager \in [Admin -> Manager]
    /\ loads \in [Admin -> SUBSET Listing]
    /\ act \in [Admin -> Deciding \union {None}]
    /\ mixed \subseteq Ticket
    /\ dropped \subseteq Code
    /\ calm \in [Admin -> BOOLEAN]

\* Request c was made with the ticket number or the address on page a.
OwnSlip(a, c) ==
    requests[c] # None /\ (requests[c].ticket = desk[a].ticket \/ requests[c].mail = desk[a].mail)

\* While a request is handled, the page keeps the answers it was sent with;
\* verify_otp inserts a row when it has found the stored answers, and then
\* the row is the applicant's.
ApplicantOK(a) ==
    /\ desk[a].at = "slip" <=> desk[a].slip # None
    /\ desk[a].at = "slip" => OwnSlip(a, desk[a].slip)
    /\ desk[a].at = "otp" => desk[a].ticket # None /\ desk[a].mail # None
    /\ serve[a] # None =>
        /\ desk[a].at # "slip"
        /\ desk[a].ticket = serve[a].ticket /\ desk[a].mail = serve[a].mail
        /\ serve[a].op = "verify" /\ serve[a].at \in {"loaded", "clear"} => serve[a].temp # None
        /\ serve[a].op = "verify" /\ serve[a].at \in {"stored", "cleaning"} =>
             serve[a].code # None /\ OwnSlip(a, serve[a].code)

\* Lists, dialogs and decisions are about requests that are in the table.
ManagerOK(u) ==
    /\ manager[u].busy <=> act[u] # None
    /\ manager[u].loading => loads[u] # {}
    /\ manager[u].sel \in Stored \union {None}
    /\ \A r \in manager[u].list : r.code \in Stored
    /\ \A l \in loads[u] : l.found \subseteq Stored /\ \A r \in l.rows : r.code \in Stored
    /\ act[u] # None => act[u].code \in Stored

Consistent ==
    Types /\ (\A a \in Applicant : ApplicantOK(a)) /\ (\A u \in Admin : ManagerOK(u))

LEMMA ConsistentType == Consistent => TypeOK
  BY DEF Consistent, Types, ApplicantOK, ManagerOK, TypeOK

LEMMA ConsistentSlip == Consistent => SlipIsOwn
  BY DEF Consistent, ApplicantOK, OwnSlip, SlipIsOwn, SlipShown

LEMMA InitConsistent == Init => Consistent
  <1> SUFFICES ASSUME Init PROVE Consistent
    OBVIOUS
  <1>1. NewDesk \in Desk /\ NewDesk.at = "form" /\ NewDesk.slip = None
    BY DEF NewDesk, Desk
  <1>2. /\ NewManager \in Manager /\ NewManager.sel = None /\ NewManager.list = {}
        /\ NewManager.busy = FALSE
    BY DEF NewManager, Manager, Filter
  <1>3. /\ Load("ALL") \in Listing /\ Load("ALL").found = {} /\ Load("ALL").rows = {}
    BY DEF Load, Listing, Filter
  <1>4. Types
    BY <1>1, <1>2, <1>3 DEF Init, Types
  <1>5. \A a \in Applicant : ApplicantOK(a)
    BY <1>1 DEF Init, ApplicantOK
  <1>6. \A u \in Admin : ManagerOK(u)
    BY <1>2, <1>3 DEF Init, ManagerOK
  <1> QED BY <1>4, <1>5, <1>6 DEF Consistent

\* Requests stay in the table, with what the applicant entered.
Grow ==
    \A c \in Stored : /\ requests'[c] # None
                      /\ requests'[c].ticket = requests[c].ticket
                      /\ requests'[c].mail = requests[c].mail
                      /\ requests'[c].proof = requests[c].proof

LEMMA ApplicantKept ==
    ASSUME Types, NEW a \in Applicant, ApplicantOK(a), Grow,
           desk'[a] = desk[a], serve'[a] = serve[a]
    PROVE  ApplicantOK(a)'
  <1>1. \A c \in Code : OwnSlip(a, c) => OwnSlip(a, c)'
    BY DEF OwnSlip, Grow, Stored
  <1>2. desk[a].slip \in Code \union {None} /\ (serve[a] # None => serve[a].code \in Code \union {None})
    BY DEF Types, Desk, Serving
  <1> QED BY <1>1, <1>2 DEF ApplicantOK

LEMMA ManagerKept ==
    ASSUME NEW u \in Admin, ManagerOK(u), Grow,
           manager'[u] = manager[u], loads'[u] = loads[u], act'[u] = act[u]
    PROVE  ManagerOK(u)'
  <1>1. Stored \subseteq Stored'
    BY DEF Grow, Stored
  <1> QED BY <1>1 DEF ManagerOK

\* What a step of applicant a has to keep.
LEMMA ApplicantStep ==
    ASSUME Consistent, NEW a \in Applicant, Grow,
           UNCHANGED <<emailOtp, accounts, dropped, managerVars>>,
           requests' \in [Code -> Request \union {None}],
           temp' \in [Ticket -> Mail \union {None}], otp' \in [Ticket -> Mail \union {None}],
           desk' \in [Applicant -> Desk], serve' \in [Applicant -> Serving \union {None}],
           mixed' \subseteq Ticket, ApplicantOK(a)',
           \A b \in Applicant : b # a => desk'[b] = desk[b] /\ serve'[b] = serve[b]
    PROVE  Consistent'
  <1>1. Types /\ Types'
    BY DEF Consistent, Types, managerVars
  <1>2. \A b \in Applicant : ApplicantOK(b)'
    BY <1>1, ApplicantKept DEF Consistent
  <1>3. \A u \in Admin : ManagerOK(u)'
    BY ManagerKept DEF Consistent, managerVars
  <1> QED BY <1>1, <1>2, <1>3 DEF Consistent

\* What a step of administrator u has to keep.
LEMMA ManagerStep ==
    ASSUME Consistent, NEW u \in Admin, Grow,
           UNCHANGED <<emailOtp, applicantVars>>,
           requests' \in [Code -> Request \union {None}],
           accounts' \in [Ticket -> Account \union {None}], dropped' \subseteq Code,
           manager' \in [Admin -> Manager], loads' \in [Admin -> SUBSET Listing],
           act' \in [Admin -> Deciding \union {None}], calm' \in [Admin -> BOOLEAN],
           ManagerOK(u)',
           \A v \in Admin : v # u =>
              manager'[v] = manager[v] /\ loads'[v] = loads[v] /\ act'[v] = act[v]
    PROVE  Consistent'
  <1>1. Types /\ Types'
    BY DEF Consistent, Types, applicantVars
  <1>2. \A b \in Applicant : ApplicantOK(b)'
    BY <1>1, ApplicantKept DEF Consistent, applicantVars
  <1>3. \A v \in Admin : ManagerOK(v)'
    BY ManagerKept DEF Consistent
  <1> QED BY <1>1, <1>2, <1>3 DEF Consistent

-----------------------------------------------------------------------------
(* The applicant's page and the handlers of auth/router.py.                *)

LEMMA SameRequests ==
    ASSUME Consistent, UNCHANGED requests
    PROVE  Grow /\ requests' \in [Code -> Request \union {None}]
  BY DEF Consistent, Types, Grow, Stored

\* A handler answers, and the page shows p.
LEMMA AnswerStep ==
    ASSUME Consistent, NEW a \in Applicant, NEW p \in Desk, Answer(a, p),
           p.at = "slip" <=> p.slip # None,
           p.at = "slip" => /\ requests'[p.slip] # None
                            /\ \/ requests'[p.slip].ticket = p.ticket
                               \/ requests'[p.slip].mail = p.mail,
           p.at = "otp" => p.ticket # None /\ p.mail # None
    PROVE  /\ desk' \in [Applicant -> Desk] /\ serve' \in [Applicant -> Serving \union {None}]
           /\ ApplicantOK(a)'
           /\ \A b \in Applicant : b # a => desk'[b] = desk[b] /\ serve'[b] = serve[b]
  <1>1. desk \in [Applicant -> Desk] /\ serve \in [Applicant -> Serving \union {None}]
    BY DEF Consistent, Types
  <1>2. desk' = [desk EXCEPT ![a] = p] /\ serve' = [serve EXCEPT ![a] = None]
    BY DEF Answer
  <1>3. desk'[a] = p /\ serve'[a] = None
    BY <1>1, <1>2
  <1>4. ApplicantOK(a)'
    BY <1>3 DEF ApplicantOK, OwnSlip
  <1> QED BY <1>1, <1>2, <1>4

\* It answers, and the page stays as it is.
LEMMA RefuseStep ==
    ASSUME Consistent, NEW a \in Applicant, serve[a] # None, Answer(a, desk[a])
    PROVE  /\ desk' \in [Applicant -> Desk] /\ serve' \in [Applicant -> Serving \union {None}]
           /\ ApplicantOK(a)'
           /\ \A b \in Applicant : b # a => desk'[b] = desk[b] /\ serve'[b] = serve[b]
  <1>1. /\ desk[a] \in Desk /\ desk[a].at # "slip" /\ desk[a].slip = None
        /\ desk[a].at = "otp" => desk[a].ticket # None /\ desk[a].mail # None
    BY DEF Consistent, Types, ApplicantOK
  <1> QED BY <1>1, AnswerStep

\* It answers with the slip of request c.
LEMMA SlipStep ==
    ASSUME Consistent, NEW a \in Applicant, serve[a] # None, NEW c \in Code, Answer(a, Slip(a, c)),
           requests'[c] # None,
           requests'[c].ticket = serve[a].ticket \/ requests'[c].mail = serve[a].mail
    PROVE  /\ desk' \in [Applicant -> Desk] /\ serve' \in [Applicant -> Serving \union {None}]
           /\ ApplicantOK(a)'
           /\ \A b \in Applicant : b # a => desk'[b] = desk[b] /\ serve'[b] = serve[b]
  <1>1. desk[a] \in Desk /\ desk[a].ticket = serve[a].ticket /\ desk[a].mail = serve[a].mail
    BY DEF Consistent, Types, ApplicantOK
  <1>2. /\ Slip(a, c) \in Desk
        /\ Slip(a, c).at = "slip" /\ Slip(a, c).slip = c
        /\ Slip(a, c).ticket = serve[a].ticket /\ Slip(a, c).mail = serve[a].mail
    BY <1>1 DEF Slip, Desk
  <1>3. c # None
    BY NoneAssumption
  <1> QED BY <1>2, <1>3, AnswerStep

\* It goes on, and has not inserted a row before unless it says so.
LEMMA GoOnStep ==
    ASSUME Consistent, NEW a \in Applicant, serve[a] # None, Grow, UNCHANGED desk,
           NEW at \in {"sent", "free", "stored", "known", "loaded", "clear", "cleaning"},
           NEW m \in Mail \union {None},
           serve' = [serve EXCEPT ![a].temp = m, ![a].at = at],
           serve[a].op = "verify" /\ at \in {"loaded", "clear"} => m # None,
           serve[a].op = "verify" /\ at \in {"stored", "cleaning"} => serve[a].at = "stored"
    PROVE  /\ desk' \in [Applicant -> Desk] /\ serve' \in [Applicant -> Serving \union {None}]
           /\ ApplicantOK(a)'
           /\ \A b \in Applicant : b # a => desk'[b] = desk[b] /\ serve'[b] = serve[b]
  <1>1. desk \in [Applicant -> Desk] /\ serve \in [Applicant -> Serving \union {None}]
    BY DEF Consistent, Types
  <1>2. serve' \in [Applicant -> Serving \union {None}]
    <2>1. serve[a] \in Serving
      BY <1>1
    <2>2. [serve[a] EXCEPT !.temp = m, !.at = at] \in Serving
      BY <2>1 DEF Serving
    <2> QED BY <1>1, <2>2
  <1>3. /\ serve'[a].op = serve[a].op /\ serve'[a].at = at /\ serve'[a].code = serve[a].code
        /\ serve'[a].ticket = serve[a].ticket /\ serve'[a].mail = serve[a].mail
        /\ serve'[a].temp = m
    BY <1>1 DEF Serving
  <1>4. \A c \in Code : OwnSlip(a, c) => OwnSlip(a, c)'
    BY DEF OwnSlip, Grow, Stored
  <1>5. serve[a].code \in Code \union {None}
    BY <1>1 DEF Serving
  <1>6. ApplicantOK(a) /\ desk[a].at # "slip"
    BY DEF Consistent, ApplicantOK
  <1>7. ApplicantOK(a)'
    BY <1>3, <1>4, <1>5, <1>6 DEF ApplicantOK
  <1> QED BY <1>1, <1>2, <1>7

LEMMA StepStep ==
    ASSUME Consistent, NEW a \in Applicant, serve[a] # None, Grow,
           NEW at \in {"sent", "free", "stored", "known", "loaded", "clear", "cleaning"},
           Step(a, at),
           serve[a].op = "verify" /\ at \in {"loaded", "clear"} => serve[a].temp # None,
           serve[a].op = "verify" /\ at \in {"stored", "cleaning"} => serve[a].at = "stored"
    PROVE  /\ desk' \in [Applicant -> Desk] /\ serve' \in [Applicant -> Serving \union {None}]
           /\ ApplicantOK(a)'
           /\ \A b \in Applicant : b # a => desk'[b] = desk[b] /\ serve'[b] = serve[b]
  <1>1. serve[a] \in Serving /\ serve[a].temp \in Mail \union {None}
    BY DEF Consistent, Types, Serving
  <1>2. serve' = [serve EXCEPT ![a].temp = serve[a].temp, ![a].at = at] /\ UNCHANGED desk
    BY <1>1 DEF Step, Consistent, Types, Serving
  <1> QED BY <1>1, <1>2, GoOnStep

\* The clicks.
LEMMA PageClick ==
    ASSUME Consistent, NEW a \in Applicant, Register(a) \/ Verify(a) \/ Resend(a) \/ StartOver(a)
    PROVE  Consistent'
  <1>1. /\ desk \in [Applicant -> Desk] /\ serve \in [Applicant -> Serving \union {None}]
        /\ ApplicantOK(a) /\ mixed \subseteq Ticket
        /\ temp \in [Ticket -> Mail \union {None}] /\ otp \in [Ticket -> Mail \union {None}]
    BY DEF Consistent, Types
  <1>2. UNCHANGED <<emailOtp, requests, accounts, dropped, temp, otp, managerVars>>
    BY DEF Register, Verify, Resend, StartOver
  <1>3. Grow /\ requests' \in [Code -> Request \union {None}]
    BY <1>2, SameRequests
  <1>4. ASSUME NEW op \in {"register", "verify", "resend"}, NEW t \in Ticket, NEW m \in Mail,
               NEW p \in Desk, p.at # "slip", p.slip = None, p.ticket = t, p.mail = m,
               Send(a, op, t, m), desk' = [desk EXCEPT ![a] = p]
        PROVE  Consistent'
    <2> DEFINE new == [op |-> op, ticket |-> t, mail |-> m, at |-> "sent",
                       temp |-> None, code |-> None]
    <2>1. new \in Serving /\ new.ticket = t /\ new.mail = m /\ new.at = "sent"
      BY DEF Serving
    <2>2. serve' = [serve EXCEPT ![a] = new]
      BY <1>4 DEF Send
    <2> HIDE DEF new
    <2>3. serve' \in [Applicant -> Serving \union {None}] /\ serve'[a] = new
      BY <1>1, <2>1, <2>2
    <2>4. desk' \in [Applicant -> Desk] /\ desk'[a] = p
      BY <1>1, <1>4
    <2>5. t # None /\ m # None
      BY NoneAssumption
    <2>6. ApplicantOK(a)'
      BY <1>4, <2>1, <2>3, <2>4, <2>5 DEF ApplicantOK
    <2>7. mixed' \subseteq Ticket
      BY <1>1, <1>4 DEF Send
    <2>8. \A b \in Applicant : b # a => desk'[b] = desk[b] /\ serve'[b] = serve[b]
      BY <1>1, <1>4, <2>2
    <2> QED BY <1>1, <1>2, <1>3, <2>3, <2>4, <2>6, <2>7, <2>8, ApplicantStep
  <1>5. CASE Register(a)
    <2>1. PICK t \in Ticket, m \in Mail :
            /\ desk' = [desk EXCEPT ![a] = [NewDesk EXCEPT !.ticket = t, !.mail = m]]
            /\ Send(a, "register", t, m)
      BY <1>5 DEF Register
    <2> DEFINE p == [NewDesk EXCEPT !.ticket = t, !.mail = m]
    <2>2. p \in Desk /\ p.at # "slip" /\ p.slip = None /\ p.ticket = t /\ p.mail = m
      BY DEF NewDesk, Desk
    <2> HIDE DEF p
    <2> QED BY <1>4, <2>1, <2>2 DEF p
  <1>6. CASE Verify(a) \/ Resend(a)
    <2>1. /\ desk[a].at = "otp" /\ UNCHANGED desk
          /\ \/ Send(a, "verify", desk[a].ticket, desk[a].mail)
             \/ Send(a, "resend", desk[a].ticket, desk[a].mail)
      BY <1>6 DEF Verify, Resend, CanVerify, CanResend
    <2>2. desk[a] \in Desk /\ desk[a].ticket \in Ticket /\ desk[a].mail \in Mail /\ desk[a].slip = None
      BY <1>1, <2>1 DEF ApplicantOK, Desk
    <2>3. desk' = [desk EXCEPT ![a] = desk[a]]
      BY <1>1, <2>1
    <2> QED BY <1>4, <2>1, <2>2, <2>3
  <1>7. CASE StartOver(a)
    <2>1. /\ desk' = [desk EXCEPT ![a] = NewDesk] /\ UNCHANGED <<serve, mixed>>
          /\ serve[a] = None
      BY <1>1, <1>7 DEF StartOver, SlipShown, CanVerify, ApplicantOK
    <2>2. NewDesk \in Desk /\ NewDesk.at = "form" /\ NewDesk.slip = None
      BY DEF NewDesk, Desk
    <2>3. desk' \in [Applicant -> Desk] /\ ApplicantOK(a)'
      BY <1>1, <2>1, <2>2 DEF ApplicantOK
    <2> QED BY <1>1, <1>2, <1>3, <2>1, <2>3, ApplicantStep
  <1> QED BY <1>5, <1>6, <1>7

\* A row is inserted, for which there was no code.
LEMMA InsertFacts ==
    ASSUME Consistent, NEW c \in Code, NEW t \in Ticket, NEW m \in Mail, NEW p \in Mail,
           Insert(c, t, m, p)
    PROVE  /\ requests' \in [Code -> Request \union {None}] /\ Grow
           /\ requests'[c] # None
           /\ requests'[c].ticket = t /\ requests'[c].mail = m /\ requests'[c].proof = p
           /\ requests'[c].status = "PENDING"
           /\ \A d \in Code : d # c => requests'[d] = requests[d]
  <1> DEFINE new == [ticket |-> t, mail |-> m, status |-> "PENDING", late |-> FALSE, proof |-> p]
  <1>1. /\ new \in Request /\ new.ticket = t /\ new.mail = m /\ new.proof = p
        /\ new.status = "PENDING"
    BY DEF Request, Status
  <1>2. requests[c] = None /\ requests' = [requests EXCEPT ![c] = new]
    BY DEF Insert
  <1> HIDE DEF new
  <1>3. requests \in [Code -> Request \union {None}]
    BY DEF Consistent, Types
  <1>4. /\ requests' \in [Code -> Request \union {None}] /\ requests'[c] = new
        /\ \A d \in Code : d # c => requests'[d] = requests[d]
    BY <1>1, <1>2, <1>3
  <1>5. Grow
    BY <1>2, <1>4 DEF Grow, Stored
  <1> QED BY <1>1, <1>4, <1>5, NoneAssumption

\* The handler has read the stored answers.
Loaded(a, m) ==
    /\ serve' = [serve EXCEPT ![a].temp = m, ![a].at = "loaded"]
    /\ UNCHANGED desk

\* The steps of the handlers that leave the two Redis keys alone.
LEMMA TableHandler ==
    ASSUME Consistent, NEW a \in Applicant,
           \/ CheckRegister(a) \/ InsertDirectly(a) \/ CheckOtp(a) \/ LoadTemp(a)
           \/ CheckVerify(a) \/ InsertVerified(a) \/ LoadForResend(a) \/ FailServe(a)
    PROVE  Consistent'
  <1>1. /\ UNCHANGED <<emailOtp, accounts, dropped, temp, otp, managerVars>>
        /\ serve[a] # None
    BY DEF CheckRegister, InsertDirectly, CheckOtp, LoadTemp, CheckVerify, InsertVerified,
           LoadForResend, FailServe, Doing
  <1>2. /\ serve[a] \in Serving /\ desk[a] \in Desk /\ ApplicantOK(a)
        /\ serve[a].ticket \in Ticket /\ serve[a].mail \in Mail
        /\ serve[a].temp \in Mail \union {None}
        /\ temp[serve[a].ticket] \in Mail \union {None}
        /\ temp \in [Ticket -> Mail \union {None}] /\ otp \in [Ticket -> Mail \union {None}]
        /\ serve \in [Applicant -> Serving \union {None}] /\ desk \in [Applicant -> Desk]
    BY <1>1 DEF Consistent, Types, Serving
  <1>3. mixed' \subseteq Ticket
    BY <1>2 DEF CheckRegister, InsertDirectly, CheckOtp, LoadTemp, CheckVerify, InsertVerified,
           LoadForResend, FailServe, Consistent, Types
  \* It is enough to look at the page and its request.
  <1>4. ASSUME Grow, requests' \in [Code -> Request \union {None}],
               desk' \in [Applicant -> Desk], serve' \in [Applicant -> Serving \union {None}],
               ApplicantOK(a)',
               \A b \in Applicant : b # a => desk'[b] = desk[b] /\ serve'[b] = serve[b]
        PROVE  Consistent'
    BY <1>1, <1>2, <1>3, <1>4, ApplicantStep
  <1>5. ASSUME UNCHANGED requests,
               \/ Answer(a, desk[a])
               \/ \E at \in {"free", "known"} : Step(a, at)
               \/ Step(a, "clear") /\ serve[a].temp # None
               \/ \E m \in Mail : Loaded(a, m)
        PROVE  Consistent'
    <2>1. Grow /\ requests' \in [Code -> Request \union {None}]
      BY <1>5, SameRequests
    <2>2. CASE Answer(a, desk[a])
      BY <1>1, <1>4, <2>1, <2>2, RefuseStep
    <2>3. CASE \/ \E at \in {"free", "known"} : Step(a, at)
               \/ Step(a, "clear") /\ serve[a].temp # None
      BY <1>1, <1>4, <2>1, <2>3, StepStep
    <2>4. ASSUME NEW m \in Mail, Loaded(a, m)
          PROVE  Consistent'
      <3>1. m # None
        BY NoneAssumption
      <3>2. "loaded" \in {"sent", "free", "stored", "known", "loaded", "clear", "cleaning"}
            /\ "loaded" \notin {"stored", "cleaning"} /\ m \in Mail \union {None}
        BY SMTT(60)
      <3>3. /\ desk' \in [Applicant -> Desk] /\ serve' \in [Applicant -> Serving \union {None}]
            /\ ApplicantOK(a)'
            /\ \A b \in Applicant : b # a => desk'[b] = desk[b] /\ serve'[b] = serve[b]
        BY <1>1, <2>1, <2>4, <3>1, <3>2, GoOnStep DEF Loaded
      <3> QED BY <1>4, <2>1, <3>3
    <2>5. \/ Answer(a, desk[a])
          \/ \E at \in {"free", "known"} : Step(a, at)
          \/ Step(a, "clear") /\ serve[a].temp # None
          \/ \E m \in Mail : Loaded(a, m)
      BY <1>5
    <2>6. CASE \E m \in Mail : Loaded(a, m)
      BY <2>4, <2>6
    <2> QED BY <2>2, <2>3, <2>5, <2>6
  <1>6. CASE CheckRegister(a)
    <2>1. ASSUME NEW c \in OpenFor(serve[a].ticket, serve[a].mail), Answer(a, Slip(a, c))
          PROVE  Consistent'
      <3>1. UNCHANGED requests
        BY <1>6 DEF CheckRegister
      <3>2. Grow /\ requests' \in [Code -> Request \union {None}]
        BY <3>1, SameRequests
      <3>3. /\ c \in Code /\ requests'[c] # None
            /\ requests'[c].ticket = serve[a].ticket \/ requests'[c].mail = serve[a].mail
        BY <3>1 DEF OpenFor, Stored
      <3> QED BY <1>1, <1>4, <2>1, <3>2, <3>3, SlipStep
    <2> QED BY <1>5, <1>6, <2>1 DEF CheckRegister
  <1>7. CASE InsertDirectly(a)
    <2>1. PICK c \in Code : /\ Insert(c, serve[a].ticket, serve[a].mail, serve[a].mail)
                            /\ Answer(a, Slip(a, c))
      BY <1>7 DEF InsertDirectly
    <2>2. /\ Grow /\ requests' \in [Code -> Request \union {None}]
          /\ requests'[c] # None /\ requests'[c].ticket = serve[a].ticket
      BY <1>2, <2>1, InsertFacts
    <2> QED BY <1>1, <1>4, <2>1, <2>2, SlipStep
  <1>8. CASE CheckOtp(a)
    BY <1>5, <1>8 DEF CheckOtp
  <1>9. CASE LoadTemp(a)
    BY <1>2, <1>5, <1>9 DEF LoadTemp, Loaded
  <1>10. CASE CheckVerify(a)
    BY <1>2, <1>5, <1>10 DEF CheckVerify, Doing, ApplicantOK
  <1>11. CASE InsertVerified(a)
    <2>1. PICK c \in Code : /\ Insert(c, serve[a].ticket, serve[a].temp, serve[a].mail)
                            /\ serve' = [serve EXCEPT ![a].at = "stored", ![a].code = c]
                            /\ UNCHANGED desk
      BY <1>11 DEF InsertVerified
    <2>2. serve[a].temp \in Mail
      BY <1>2, <1>11 DEF InsertVerified, Doing, ApplicantOK
    <2>3. /\ Grow /\ requests' \in [Code -> Request \union {None}]
          /\ requests'[c] # None /\ requests'[c].ticket = serve[a].ticket
      BY <1>2, <2>1, <2>2, InsertFacts
    <2>4. [serve[a] EXCEPT !.at = "stored", !.code = c] \in Serving
      BY <1>2 DEF Serving
    <2>5. serve' \in [Applicant -> Serving \union {None}]
      BY <1>2, <2>1, <2>4
    <2>6. /\ serve'[a].ticket = serve[a].ticket /\ serve'[a].mail = serve[a].mail
          /\ serve'[a].code = c /\ serve'[a].at = "stored"
      BY <1>2, <2>1 DEF Serving
    <2>7. c # None
      BY NoneAssumption
    <2>8. ApplicantOK(a)'
      BY <1>1, <1>2, <2>1, <2>3, <2>6, <2>7 DEF ApplicantOK, OwnSlip
    <2> QED BY <1>2, <1>4, <2>1, <2>3, <2>5, <2>8
  <1>12. CASE LoadForResend(a)
    BY <1>2, <1>5, <1>12 DEF LoadForResend, Loaded
  <1>13. CASE FailServe(a)
    BY <1>5, <1>13 DEF FailServe
  <1> QED BY <1>6, <1>7, <1>8, <1>9, <1>10, <1>11, <1>12, <1>13

\* The steps that write or drop a Redis key.
LEMMA KeyHandler ==
    ASSUME Consistent, NEW a \in Applicant,
           \/ StoreTemp(a) \/ StoreOtp(a) \/ DropOtp(a) \/ DropTemp(a)
           \/ RenewTemp(a) \/ ResendOtp(a)
    PROVE  Consistent'
  <1>1. /\ UNCHANGED <<emailOtp, requests, accounts, dropped, mixed, managerVars>>
        /\ serve[a] # None
    BY DEF StoreTemp, StoreOtp, DropOtp, DropTemp, RenewTemp, ResendOtp, Doing
  <1>2. Grow /\ requests' \in [Code -> Request \union {None}]
    BY <1>1, SameRequests
  <1>3. /\ serve[a] \in Serving /\ desk[a] \in Desk /\ ApplicantOK(a)
        /\ serve[a].ticket \in Ticket /\ serve[a].mail \in Mail
        /\ serve[a].temp \in Mail \union {None} /\ serve[a].code \in Code \union {None}
        /\ temp \in [Ticket -> Mail \union {None}] /\ otp \in [Ticket -> Mail \union {None}]
        /\ mixed' \subseteq Ticket
    BY <1>1 DEF Consistent, Types, Serving
  <1>4. ASSUME temp' \in [Ticket -> Mail \union {None}], otp' \in [Ticket -> Mail \union {None}],
               desk' \in [Applicant -> Desk], serve' \in [Applicant -> Serving \union {None}],
               ApplicantOK(a)',
               \A b \in Applicant : b # a => desk'[b] = desk[b] /\ serve'[b] = serve[b]
        PROVE  Consistent'
    BY <1>1, <1>2, <1>3, <1>4, ApplicantStep
  <1>5. CASE StoreTemp(a)
    <2>1. serve[a].op = "register" /\ Step(a, "stored") /\ otp' = otp
      BY <1>5 DEF StoreTemp, Doing
    <2>2. temp' \in [Ticket -> Mail \union {None}]
      BY <1>3, <1>5 DEF StoreTemp
    <2> QED BY <1>1, <1>2, <1>3, <1>4, <2>1, <2>2, StepStep
  <1>6. CASE StoreOtp(a)
    <2> DEFINE p == [desk[a] EXCEPT !.at = "otp"]
    <2>1. /\ p \in Desk /\ p.at = "otp" /\ p.slip = desk[a].slip
          /\ p.ticket = serve[a].ticket /\ p.mail = serve[a].mail
      BY <1>1, <1>3 DEF Desk, ApplicantOK
    <2>2. p.slip = None /\ p.ticket # None /\ p.mail # None
      BY <1>1, <1>3, <2>1, NoneAssumption DEF ApplicantOK
    <2>3. Answer(a, p) /\ temp' = temp
      BY <1>6 DEF StoreOtp
    <2>4. otp' \in [Ticket -> Mail \union {None}]
      BY <1>3, <1>6 DEF StoreOtp
    <2> HIDE DEF p
    <2> QED BY <1>3, <1>4, <2>1, <2>2, <2>3, <2>4, AnswerStep
  <1>7. CASE DropOtp(a)
    <2>1. serve[a].at = "stored" /\ Step(a, "cleaning") /\ temp' = temp
      BY <1>7 DEF DropOtp, Doing
    <2>2. otp' \in [Ticket -> Mail \union {None}]
      BY <1>3, <1>7 DEF DropOtp
    <2> QED BY <1>1, <1>2, <1>3, <1>4, <2>1, <2>2, StepStep
  <1>8. CASE DropTemp(a)
    <2>1. /\ serve[a].op = "verify" /\ serve[a].at = "cleaning" /\ otp' = otp
          /\ Answer(a, Slip(a, serve[a].code))
      BY <1>8 DEF DropTemp, Doing
    <2>2. serve[a].code \in Code /\ OwnSlip(a, serve[a].code)
      BY <1>1, <1>3, <2>1 DEF ApplicantOK
    <2>3. /\ requests'[serve[a].code] # None
          /\ \/ requests'[serve[a].code].ticket = serve[a].ticket
             \/ requests'[serve[a].code].mail = serve[a].mail
      BY <1>1, <1>3, <2>2 DEF ApplicantOK, OwnSlip
    <2>4. temp' \in [Ticket -> Mail \union {None}]
      BY <1>3, <1>8 DEF DropTemp
    <2> QED BY <1>1, <1>3, <1>4, <2>1, <2>2, <2>3, <2>4, SlipStep
  <1>9. CASE RenewTemp(a)
    <2>1. serve[a].op = "resend" /\ Step(a, "stored") /\ otp' = otp
      BY <1>9 DEF RenewTemp, Doing
    <2>2. temp' \in [Ticket -> Mail \union {None}]
      BY <1>3, <1>9 DEF RenewTemp
    <2> QED BY <1>1, <1>2, <1>3, <1>4, <2>1, <2>2, StepStep
  <1>10. CASE ResendOtp(a)
    <2>1. Answer(a, desk[a]) /\ temp' = temp
      BY <1>10 DEF ResendOtp
    <2>2. otp' \in [Ticket -> Mail \union {None}]
      BY <1>3, <1>10 DEF ResendOtp
    <2> QED BY <1>1, <1>3, <1>4, <2>1, <2>2, RefuseStep
  <1> QED BY <1>5, <1>6, <1>7, <1>8, <1>9, <1>10

\* The pages and their requests are as they were.
LEMMA Aside ==
    ASSUME Consistent, Grow,
           UNCHANGED <<emailOtp, desk, serve, mixed, managerVars>>,
           requests' \in [Code -> Request \union {None}],
           accounts' \in [Ticket -> Account \union {None}], dropped' \subseteq Code,
           temp' \in [Ticket -> Mail \union {None}], otp' \in [Ticket -> Mail \union {None}]
    PROVE  Consistent'
  <1>1. Types /\ Types'
    BY DEF Consistent, Types, managerVars
  <1>2. \A b \in Applicant : ApplicantOK(b)'
    BY <1>1, ApplicantKept DEF Consistent
  <1>3. \A v \in Admin : ManagerOK(v)'
    BY ManagerKept DEF Consistent, managerVars
  <1> QED BY <1>1, <1>2, <1>3 DEF Consistent

\* Time passes, and the master-data wizard does its own.
LEMMA RestOfProgram ==
    ASSUME Consistent,
           \/ \E t \in Ticket : \/ ExpireOtp(t) \/ ExpireTemp(t) \/ DeleteAccount(t)
                               \/ \E m \in Mail : CreateAccount(t, m) \/ ChangeMail(t, m)
           \/ \E c \in Code : Lapse(c)
    PROVE  Consistent'
  <1>1. /\ requests \in [Code -> Request \union {None}]
        /\ accounts \in [Ticket -> Account \union {None}] /\ dropped \subseteq Code
        /\ temp \in [Ticket -> Mail \union {None}] /\ otp \in [Ticket -> Mail \union {None}]
    BY DEF Consistent, Types
  <1>2. ASSUME UNCHANGED requests PROVE Grow /\ requests' \in [Code -> Request \union {None}]
    BY <1>2, SameRequests
  <1>3. ASSUME NEW t \in Ticket, ExpireOtp(t) \/ ExpireTemp(t) PROVE Consistent'
    <2>1. /\ temp' \in [Ticket -> Mail \union {None}] /\ otp' \in [Ticket -> Mail \union {None}]
          /\ UNCHANGED <<emailOtp, requests, accounts, dropped, desk, serve, mixed, managerVars>>
      BY <1>1, <1>3 DEF ExpireOtp, ExpireTemp
    <2> QED BY <1>1, <1>2, <2>1, Aside
  <1>4. ASSUME NEW t \in Ticket, DeleteAccount(t) PROVE Consistent'
    <2>1. /\ accounts' = [accounts EXCEPT ![t] = None] /\ accounts[t] # None
          /\ dropped' = dropped \union ({accounts[t].from} \ {None})
          /\ UNCHANGED <<emailOtp, requests, applicantVars, managerVars>>
      BY <1>4 DEF DeleteAccount
    <2>2. accounts[t].from \in Code \union {None}
      BY <1>1, <2>1 DEF Account
    <2>3. accounts' \in [Ticket -> Account \union {None}] /\ dropped' \subseteq Code
      BY <1>1, <2>1, <2>2
    <2> QED BY <1>1, <1>2, <2>1, <2>3, Aside DEF applicantVars
  <1>5. ASSUME NEW t \in Ticket, NEW m \in Mail, CreateAccount(t, m) PROVE Consistent'
    <2> DEFINE new == [mail |-> m, from |-> None]
    <2>1. /\ accounts' = [accounts EXCEPT ![t] = new]
          /\ UNCHANGED <<emailOtp, requests, dropped, applicantVars, managerVars>>
      BY <1>5 DEF CreateAccount
    <2>2. new \in Account
      BY DEF Account
    <2> HIDE DEF new
    <2>3. accounts' \in [Ticket -> Account \union {None}]
      BY <1>1, <2>1, <2>2
    <2> QED BY <1>1, <1>2, <2>1, <2>3, Aside DEF applicantVars
  <1>7. ASSUME NEW t \in Ticket, NEW m \in Mail, ChangeMail(t, m) PROVE Consistent'
    <2>1. /\ accounts' = [accounts EXCEPT ![t].mail = m] /\ accounts[t] # None
          /\ UNCHANGED <<emailOtp, requests, dropped, applicantVars, managerVars>>
      BY <1>7 DEF ChangeMail
    <2>2. [accounts[t] EXCEPT !.mail = m] \in Account
      BY <1>1, <2>1 DEF Account
    <2>3. accounts' \in [Ticket -> Account \union {None}]
      BY <1>1, <2>1, <2>2
    <2> QED BY <1>1, <1>2, <2>1, <2>3, Aside DEF applicantVars
  <1>6. ASSUME NEW c \in Code, Lapse(c) PROVE Consistent'
    <2>1. /\ requests[c] # None /\ requests' = [requests EXCEPT ![c].late = TRUE]
          /\ UNCHANGED <<emailOtp, accounts, dropped, applicantVars, managerVars>>
      BY <1>6 DEF Lapse
    <2>2. requests[c] \in Request /\ TRUE \in BOOLEAN
      BY <1>1, <2>1
    <2>3. [requests[c] EXCEPT !.late = TRUE] \in Request
      BY <2>2 DEF Request
    <2>4. requests' \in [Code -> Request \union {None}]
      BY <1>1, <2>1, <2>3
    <2>5. /\ requests'[c].ticket = requests[c].ticket /\ requests'[c].mail = requests[c].mail
          /\ requests'[c].proof = requests[c].proof /\ requests'[c] # None
      BY <1>1, <2>1, <2>2, <2>3, NoneAssumption DEF Request
    <2>6. \A d \in Code : d # c => requests'[d] = requests[d]
      BY <1>1, <2>1
    <2>7. Grow
      BY <2>5, <2>6 DEF Grow, Stored
    <2> QED BY <1>1, <2>1, <2>4, <2>7, Aside DEF applicantVars
  <1> QED BY <1>3, <1>4, <1>5, <1>6, <1>7

-----------------------------------------------------------------------------
(* The requests manager and the handlers of admin/router.py.               *)

\* The page, its lists and its decision after a step of u, one by one.
LEMMA PageStep ==
    ASSUME Consistent, NEW u \in Admin, Grow, UNCHANGED <<emailOtp, applicantVars>>,
           requests' \in [Code -> Request \union {None}],
           accounts' \in [Ticket -> Account \union {None}], dropped' \subseteq Code,
           NEW p \in Manager, manager' = [manager EXCEPT ![u] = p],
           NEW ls \in SUBSET Listing, loads' = [loads EXCEPT ![u] = ls],
           NEW d \in Deciding \union {None}, act' = [act EXCEPT ![u] = d],
           calm' \in [Admin -> BOOLEAN],
           p.busy <=> d # None, p.loading => ls # {},
           p.sel \in Stored \union {None},
           \A r \in p.list : r.code \in Stored,
           \A l \in ls : l.found \subseteq Stored /\ \A r \in l.rows : r.code \in Stored,
           d # None => d.code \in Stored
    PROVE  Consistent'
  <1>1. /\ manager \in [Admin -> Manager] /\ loads \in [Admin -> SUBSET Listing]
        /\ act \in [Admin -> Deciding \union {None}]
    BY DEF Consistent, Types
  <1>2. /\ manager' \in [Admin -> Manager] /\ loads' \in [Admin -> SUBSET Listing]
        /\ act' \in [Admin -> Deciding \union {None}]
        /\ manager'[u] = p /\ loads'[u] = ls /\ act'[u] = d
    BY <1>1
  <1>3. \A v \in Admin : v # u =>
            manager'[v] = manager[v] /\ loads'[v] = loads[v] /\ act'[v] = act[v]
    BY <1>1
  <1>4. Stored \subseteq Stored'
    BY DEF Grow, Stored
  <1>5. ManagerOK(u)'
    BY <1>2, <1>4 DEF ManagerOK
  <1> QED BY <1>2, <1>3, <1>5, ManagerStep

\* What is known of a page before its step.
LEMMA PageFacts ==
    ASSUME Consistent, NEW u \in Admin
    PROVE  /\ manager[u] \in Manager /\ loads[u] \in SUBSET Listing
           /\ act[u] \in Deciding \union {None} /\ ManagerOK(u)
           /\ manager = [manager EXCEPT ![u] = manager[u]]
           /\ loads = [loads EXCEPT ![u] = loads[u]]
           /\ act = [act EXCEPT ![u] = act[u]]
           /\ calm \in [Admin -> BOOLEAN]
           /\ requests \in [Code -> Request \union {None}]
           /\ accounts \in [Ticket -> Account \union {None}] /\ dropped \subseteq Code
  BY DEF Consistent, Types

\* A list that is asked for.
LEMMA LoadFacts ==
    ASSUME NEW f \in Filter
    PROVE  /\ Load(f) \in Listing /\ Load(f).filter = f /\ Load(f).at = "sent"
           /\ Load(f).found = {} /\ Load(f).rows = {}
  BY DEF Load, Listing

\* The clicks of the administrator.
LEMMA ManagerClick ==
    ASSUME Consistent, NEW u \in Admin,
           \/ \E f \in Filter : ChooseFilter(u, f)
           \/ \E r \in manager[u].list : Review(u, r)
           \/ CloseDialog(u)
           \/ \E op \in {"APPROVE", "REJECT", "PENDING", "extend"} : Decide(u, op)
    PROVE  Consistent'
  <1>1. /\ manager[u] \in Manager /\ loads[u] \in SUBSET Listing
        /\ act[u] \in Deciding \union {None} /\ ManagerOK(u)
        /\ manager \in [Admin -> Manager] /\ loads \in [Admin -> SUBSET Listing]
        /\ act \in [Admin -> Deciding \union {None}]
        /\ calm \in [Admin -> BOOLEAN]
        /\ accounts \in [Ticket -> Account \union {None}] /\ dropped \subseteq Code
    BY DEF Consistent, Types
  <1>2. UNCHANGED <<emailOtp, requests, accounts, dropped, applicantVars>>
    BY DEF ChooseFilter, Review, CloseDialog, Decide
  <1>3. Grow /\ requests' \in [Code -> Request \union {None}]
    BY <1>2, SameRequests
  <1>4. ASSUME NEW p \in Manager, manager' = [manager EXCEPT ![u] = p],
               UNCHANGED <<loads, act, calm>>,
               p.busy <=> manager[u].busy, p.loading = manager[u].loading,
               p.list = manager[u].list, p.sel \in Stored \union {None}
        PROVE  Consistent'
    <2>1. loads' = [loads EXCEPT ![u] = loads[u]] /\ act' = [act EXCEPT ![u] = act[u]]
          /\ calm' \in [Admin -> BOOLEAN]
      BY <1>1, <1>4
    <2>2. /\ p.busy <=> act[u] # None
          /\ p.loading => loads[u] # {}
          /\ \A r \in p.list : r.code \in Stored
          /\ \A l \in loads[u] : l.found \subseteq Stored /\ \A r \in l.rows : r.code \in Stored
          /\ act[u] # None => act[u].code \in Stored
      BY <1>1, <1>4 DEF ManagerOK
    <2>3. accounts' \in [Ticket -> Account \union {None}] /\ dropped' \subseteq Code
          /\ UNCHANGED <<emailOtp, applicantVars>>
      BY <1>1, <1>2
    <2> QED BY <1>1, <1>3, <1>4, <2>1, <2>2, <2>3, PageStep, ZenonT(60)
  <1>5. ASSUME NEW f \in Filter, ChooseFilter(u, f) PROVE Consistent'
    <2> DEFINE p == [manager[u] EXCEPT !.filter = f, !.loading = TRUE]
               ls == loads[u] \union {Load(f)}
    <2>1. /\ p \in Manager /\ p.busy = manager[u].busy /\ p.sel = manager[u].sel
          /\ p.list = manager[u].list
      BY <1>1 DEF Manager
    <2>2. /\ manager' = [manager EXCEPT ![u] = p] /\ loads' = [loads EXCEPT ![u] = ls]
          /\ act' = [act EXCEPT ![u] = act[u]]
      BY <1>1, <1>5 DEF ChooseFilter, StartList
    <2>3. /\ ls \in SUBSET Listing /\ ls # {}
          /\ \A l \in ls : l.found \subseteq Stored /\ \A r \in l.rows : r.code \in Stored
      BY <1>1, LoadFacts DEF ManagerOK
    <2>4. calm' \in [Admin -> BOOLEAN]
      BY <1>1, <1>5 DEF ChooseFilter, Manager
    <2> HIDE DEF p, ls
    <2>5. /\ p.busy <=> act[u] # None
          /\ p.sel \in Stored \union {None}
          /\ \A r \in p.list : r.code \in Stored
          /\ act[u] # None => act[u].code \in Stored
      BY <1>1, <2>1 DEF ManagerOK
    <2>6. accounts' \in [Ticket -> Account \union {None}] /\ dropped' \subseteq Code
          /\ UNCHANGED <<emailOtp, applicantVars>>
      BY <1>1, <1>2
    <2> QED BY <1>1, <1>3, <2>1, <2>2, <2>3, <2>4, <2>5, <2>6, PageStep
  <1>6. ASSUME NEW r \in manager[u].list, Review(u, r) PROVE Consistent'
    <2> DEFINE p == [manager[u] EXCEPT !.sel = r.code]
    <2>1. r.code \in Stored /\ r.code \in Code
      BY <1>1 DEF ManagerOK, Stored
    <2>2. /\ p \in Manager /\ p.busy = manager[u].busy /\ p.loading = manager[u].loading
          /\ p.list = manager[u].list /\ p.sel = r.code
      BY <1>1, <2>1 DEF Manager
    <2>3. manager' = [manager EXCEPT ![u] = p] /\ UNCHANGED <<loads, act, calm>>
      BY <1>1, <1>6 DEF Review
    <2> HIDE DEF p
    <2> QED BY <1>4, <2>1, <2>2, <2>3
  <1>7. CASE CloseDialog(u)
    <2> DEFINE p == [manager[u] EXCEPT !.sel = None]
    <2>1. /\ p \in Manager /\ p.busy = manager[u].busy /\ p.loading = manager[u].loading
          /\ p.list = manager[u].list /\ p.sel = None
      BY <1>1 DEF Manager
    <2>2. manager' = [manager EXCEPT ![u] = p] /\ UNCHANGED <<loads, act, calm>>
      BY <1>1, <1>7 DEF CloseDialog
    <2> HIDE DEF p
    <2> QED BY <1>4, <2>1, <2>2
  <1>8. ASSUME NEW op \in {"APPROVE", "REJECT", "PENDING", "extend"}, Decide(u, op)
        PROVE  Consistent'
    <2> DEFINE p == [manager[u] EXCEPT !.busy = TRUE]
               d == [op |-> op, code |-> manager[u].sel, filter |-> manager[u].filter,
                     seen |-> None]
    <2>1. /\ p \in Manager /\ p.busy = TRUE /\ p.loading = manager[u].loading
          /\ p.list = manager[u].list /\ p.sel = manager[u].sel
      BY <1>1 DEF Manager
    <2>2. manager[u].sel \in Stored /\ manager[u].sel \in Code /\ manager[u].filter \in Filter
      BY <1>1, <1>8 DEF Decide, CanDecide, ManagerOK, Stored, Manager
    <2>3. d \in Deciding /\ d.code = manager[u].sel
      BY <2>2 DEF Deciding
    <2>4. /\ manager' = [manager EXCEPT ![u] = p] /\ act' = [act EXCEPT ![u] = d]
          /\ UNCHANGED <<loads, calm>>
      BY <1>1, <1>8 DEF Decide
    <2> HIDE DEF p, d
    <2>5. loads' = [loads EXCEPT ![u] = loads[u]] /\ calm' \in [Admin -> BOOLEAN]
      BY <1>1, <2>4
    <2>6. /\ p.busy <=> d # None
          /\ p.loading => loads[u] # {}
          /\ p.sel \in Stored \union {None}
          /\ \A r \in p.list : r.code \in Stored
          /\ \A l \in loads[u] : l.found \subseteq Stored /\ \A r \in l.rows : r.code \in Stored
          /\ d.code \in Stored
      BY <1>1, <2>1, <2>2, <2>3, NoneAssumption DEF ManagerOK
    <2>7. accounts' \in [Ticket -> Account \union {None}] /\ dropped' \subseteq Code
          /\ UNCHANGED <<emailOtp, applicantVars>>
      BY <1>1, <1>2
    <2> QED BY <1>1, <1>3, <2>1, <2>3, <2>4, <2>5, <2>6, <2>7, PageStep
  <1> QED BY <1>5, <1>6, <1>7, <1>8

\* Found requests are expired.
LEMMA ExpireFacts ==
    ASSUME Consistent, NEW found \in SUBSET Stored,
           requests' = [c \in Code |-> IF c \in found THEN [requests[c] EXCEPT !.status = "EXPIRED"]
                                       ELSE requests[c]]
    PROVE  /\ requests' \in [Code -> Request \union {None}] /\ Grow /\ Stored' = Stored
           /\ \A c \in Stored : requests'[c].status \in {requests[c].status, "EXPIRED"}
           /\ \A c \in Stored : requests'[c].status \in Status
  <1>1. requests \in [Code -> Request \union {None}]
    BY DEF Consistent, Types
  <1>2. ASSUME NEW c \in Code, c \in found
        PROVE  /\ requests'[c] \in Request
               /\ requests'[c].ticket = requests[c].ticket /\ requests'[c].mail = requests[c].mail
               /\ requests'[c].proof = requests[c].proof /\ requests'[c].status = "EXPIRED"
    <2>1. requests[c] \in Request /\ "EXPIRED" \in Status
      BY <1>1, <1>2 DEF Stored, Status
    <2>2. [requests[c] EXCEPT !.status = "EXPIRED"] \in Request
      BY <2>1 DEF Request
    <2>3. requests'[c] = [requests[c] EXCEPT !.status = "EXPIRED"]
      BY <1>2
    <2> QED BY <2>1, <2>2, <2>3 DEF Request
  <1>3. \A c \in Code : c \notin found => requests'[c] = requests[c]
    OBVIOUS
  <1>4. requests' \in [Code -> Request \union {None}]
    <2>1. \A c \in Code : requests'[c] \in Request \union {None}
      BY <1>1, <1>2, <1>3
    <2> QED BY <2>1
  <1>5. \A c \in Code : requests'[c] # None <=> requests[c] # None
    BY <1>2, <1>3, NoneAssumption DEF Stored
  <1>6. Grow
    BY <1>2, <1>3, <1>5 DEF Grow, Stored
  <1>7. Stored' = Stored
    BY <1>5 DEF Stored
  <1>8. \A c \in Stored : requests[c].status \in Status
    BY <1>1 DEF Stored, Request
  <1>9. \A c \in Stored : requests'[c].status \in {requests[c].status, "EXPIRED"}
    BY <1>2, <1>3 DEF Stored
  <1> QED BY <1>4, <1>6, <1>7, <1>8, <1>9 DEF Status

\* Reading the list, and its arrival.
LEMMA ListStep ==
    ASSUME Consistent, NEW u \in Admin, NEW l \in loads[u],
           \/ FindLate(u, l) \/ ExpireLate(u, l) \/ SelectList(u, l)
           \/ ListArrives(u, l) \/ ListFails(u, l)
    PROVE  Consistent'
  <1>1. /\ manager[u] \in Manager /\ loads[u] \in SUBSET Listing
        /\ act[u] \in Deciding \union {None} /\ ManagerOK(u)
        /\ manager \in [Admin -> Manager] /\ loads \in [Admin -> SUBSET Listing]
        /\ act \in [Admin -> Deciding \union {None}]
        /\ calm \in [Admin -> BOOLEAN]
        /\ accounts \in [Ticket -> Account \union {None}] /\ dropped \subseteq Code
        /\ l \in Listing
    BY DEF Consistent, Types
  <1>2. /\ accounts' \in [Ticket -> Account \union {None}] /\ dropped' \subseteq Code
        /\ UNCHANGED <<emailOtp, applicantVars>>
        /\ act' = [act EXCEPT ![u] = act[u]]
    BY <1>1 DEF FindLate, ExpireLate, SelectList, Replace, ListArrives, ListFails
  <1>3. calm' \in [Admin -> BOOLEAN]
    BY <1>1 DEF FindLate, ExpireLate, SelectList, Replace, ListArrives, ListFails
  <1>4. /\ manager[u].sel \in Stored \union {None}
        /\ \A r \in manager[u].list : r.code \in Stored
        /\ manager[u].busy <=> act[u] # None
        /\ act[u] # None => act[u].code \in Stored
        /\ manager[u].loading => loads[u] # {}
        /\ \A k \in loads[u] : k.found \subseteq Stored /\ \A r \in k.rows : r.code \in Stored
    BY <1>1 DEF ManagerOK
  \* A list in its next state takes the place of l.
  <1>5. ASSUME Grow, requests' \in [Code -> Request \union {None}], UNCHANGED manager,
               NEW k \in Listing, k.found \subseteq Stored, \A r \in k.rows : r.code \in Stored,
               loads' = [loads EXCEPT ![u] = (@ \ {l}) \union {k}]
        PROVE  Consistent'
    <2> DEFINE ls == (loads[u] \ {l}) \union {k}
    <2>1. /\ ls \in SUBSET Listing /\ ls # {}
          /\ \A j \in ls : j.found \subseteq Stored /\ \A r \in j.rows : r.code \in Stored
      BY <1>1, <1>4, <1>5
    <2>2. loads' = [loads EXCEPT ![u] = ls] /\ manager' = [manager EXCEPT ![u] = manager[u]]
      BY <1>1, <1>5
    <2> HIDE DEF ls
    <2> QED BY <1>1, <1>2, <1>3, <1>4, <1>5, <2>1, <2>2, PageStep
  <1>6. CASE FindLate(u, l)
    <2> DEFINE past  == {c \in Stored : requests[c].late}
               found == {c \in past : requests[c].status = "PENDING"}
               at    == IF found = {} THEN "checked" ELSE "found"
               k == [l EXCEPT !.past = past, !.found = found, !.at = at]
    <2>1. found \subseteq Stored /\ found \in SUBSET Code /\ past \in SUBSET Code
          /\ at \in {"found", "checked"}
      BY DEF Stored
    <2>2. /\ loads' = [loads EXCEPT ![u] = (@ \ {l}) \union {k}]
          /\ UNCHANGED requests /\ UNCHANGED manager
      BY <1>6 DEF FindLate, Replace
    <2> HIDE DEF found, past, at
    <2>3. k \in Listing /\ k.found = found /\ k.rows = l.rows
      BY <1>1, <2>1 DEF Listing
    <2> HIDE DEF k
    <2>4. Grow /\ requests' \in [Code -> Request \union {None}]
      BY <2>2, SameRequests
    <2> QED BY <1>4, <1>5, <2>1, <2>2, <2>3, <2>4
  <1>7. CASE ExpireLate(u, l)
    <2> DEFINE k == [l EXCEPT !.at = "checked"]
    <2>1. requests' \in [Code -> Request \union {None}] /\ Grow
      BY <1>4, <1>7, ExpireFacts DEF ExpireLate
    <2>2. k \in Listing /\ k.found = l.found /\ k.rows = l.rows
      BY <1>1 DEF Listing
    <2>3. loads' = [loads EXCEPT ![u] = (@ \ {l}) \union {k}] /\ UNCHANGED manager
      BY <1>7 DEF ExpireLate, Replace
    <2> HIDE DEF k
    <2> QED BY <1>4, <1>5, <2>1, <2>2, <2>3
  <1>11. CASE SelectList(u, l)
    <2> DEFINE chosen == {c \in Stored : l.filter \in {"ALL", requests[c].status}}
               rows == {[code |-> c, status |-> Shown(l, c)] : c \in chosen}
               k == [l EXCEPT !.rows = rows, !.at = "served"]
    <2>1. \A c \in Stored : c \in Code /\ Shown(l, c) \in Status
      <3>1. \A c \in Stored : c \in Code /\ requests[c] \in Request
        BY DEF Consistent, Types, Stored
      <3> QED BY <3>1 DEF Shown, Request, Status
    <2>2. /\ rows \in SUBSET Row
          /\ \A r \in rows : r.code \in Stored
      BY <2>1 DEF Row
    <2>3. /\ loads' = [loads EXCEPT ![u] = (@ \ {l}) \union {k}]
          /\ UNCHANGED requests /\ UNCHANGED manager
      BY <1>11 DEF SelectList, Replace
    <2> HIDE DEF rows
    <2>4. k \in Listing /\ k.found = l.found /\ k.rows = rows
      BY <1>1, <2>2 DEF Listing
    <2> HIDE DEF k
    <2>5. Grow /\ requests' \in [Code -> Request \union {None}]
      BY <2>3, SameRequests
    <2> QED BY <1>4, <1>5, <2>2, <2>3, <2>4, <2>5
  \* The list is gone, and the page no longer waits.
  <1>8. ASSUME UNCHANGED requests, NEW rows \in SUBSET Row, \A r \in rows : r.code \in Stored,
               loads' = [loads EXCEPT ![u] = @ \ {l}],
               manager' = [manager EXCEPT ![u].list = rows, ![u].loading = FALSE]
        PROVE  Consistent'
    <2> DEFINE ls == loads[u] \ {l}
               p == [manager[u] EXCEPT !.list = rows, !.loading = FALSE]
    <2>1. /\ ls \in SUBSET Listing
          /\ \A j \in ls : j.found \subseteq Stored /\ \A r \in j.rows : r.code \in Stored
      BY <1>1, <1>4
    <2>2. /\ p \in Manager /\ p.busy = manager[u].busy /\ p.sel = manager[u].sel
          /\ p.list = rows /\ p.loading = FALSE
      BY <1>1, <1>8 DEF Manager
    <2>3. loads' = [loads EXCEPT ![u] = ls] /\ manager' = [manager EXCEPT ![u] = p]
      BY <1>1, <1>8
    <2> HIDE DEF ls, p
    <2>4. Grow /\ requests' \in [Code -> Request \union {None}]
      BY <1>8, SameRequests
    <2>5. /\ p.busy <=> act[u] # None
          /\ p.loading => ls # {}
          /\ p.sel \in Stored \union {None}
          /\ \A r \in p.list : r.code \in Stored
      BY <1>4, <1>8, <2>2
    <2> QED BY <1>1, <1>2, <1>3, <1>4, <2>1, <2>2, <2>3, <2>4, <2>5, PageStep
  <1>9. CASE ListArrives(u, l)
    <2>1. l.rows \in SUBSET Row /\ \A r \in l.rows : r.code \in Stored
      BY <1>1, <1>4 DEF Listing
    <2> QED BY <1>8, <1>9, <2>1 DEF ListArrives
  <1>10. CASE ListFails(u, l)
    <2>1. manager[u].list \in SUBSET Row
      BY <1>1 DEF Manager
    <2>2. manager' = [manager EXCEPT ![u].list = manager[u].list, ![u].loading = FALSE]
      <3>1. [manager[u] EXCEPT !.loading = FALSE]
              = [manager[u] EXCEPT !.list = manager[u].list, !.loading = FALSE]
        BY <1>1 DEF Manager
      <3> QED BY <1>1, <1>10, <3>1 DEF ListFails
    <2> QED BY <1>4, <1>8, <1>10, <2>1, <2>2 DEF ListFails
  <1> QED BY <1>6, <1>7, <1>9, <1>10, <1>11

\* A decision sets the status it stands for, or leaves the one in the table.
LEMMA NewStatusFacts ==
    ASSUME Consistent, NEW u \in Admin, act[u] # None, act[u].seen # None
    PROVE  /\ NewStatus(u) \in Status
           /\ NewStatus(u) = "APPROVED" =>
                 act[u].op = "APPROVE" \/ requests[act[u].code].status = "APPROVED"
  <1>1. /\ act[u] \in Deciding /\ act[u].seen \in Status
        /\ act[u].op \in {"APPROVE", "REJECT", "PENDING", "extend"}
        /\ act[u].code \in Code /\ requests[act[u].code] \in Request
    BY DEF Consistent, Types, Deciding, ManagerOK, Stored
  <1>2. requests[act[u].code].status \in Status
    BY <1>1 DEF Request
  <1>3. act[u].op # "extend" => /\ Decision[act[u].op] \in Status
                                /\ Decision[act[u].op] = "APPROVED" => act[u].op = "APPROVE"
    BY <1>1 DEF Decision, Status
  <1>4. "PENDING" \in Status
    BY DEF Status
  <1> QED BY <1>1, <1>2, <1>3, <1>4 DEF NewStatus

\* The tables after a decision about request act[u].code.
LEMMA CommitFacts ==
    ASSUME Consistent, NEW u \in Admin, Commit(u)
    PROVE  LET c == act[u].code
               r == requests[c]
           IN /\ c \in Stored /\ c \in Code /\ r \in Request
              /\ requests' \in [Code -> Request \union {None}] /\ Grow
              /\ requests'[c].status = NewStatus(u)
              /\ \A d \in Code : d # c => requests'[d] = requests[d]
              /\ accounts' \in [Ticket -> Account \union {None}] /\ dropped' \subseteq Code
              /\ act[u].op = "APPROVE" =>
                    /\ Unused(r.ticket, r.mail)
                    /\ accounts' = [accounts EXCEPT ![r.ticket] = [mail |-> r.mail, from |-> c]]
                    /\ dropped' = dropped \ {c}
              /\ act[u].op # "APPROVE" => UNCHANGED <<accounts, dropped>>
  <1> DEFINE c == act[u].code
             r == requests[c]
  <1>1. act[u] # None /\ act[u].seen # None
    BY DEF Commit
  <1>2. /\ c \in Stored /\ c \in Code /\ r \in Request /\ c # None
        /\ requests \in [Code -> Request \union {None}]
        /\ accounts \in [Ticket -> Account \union {None}] /\ dropped \subseteq Code
    BY <1>1, NoneAssumption DEF Consistent, Types, ManagerOK, Stored
  <1>3. /\ r.ticket \in Ticket /\ r.mail \in Mail /\ r.late \in BOOLEAN
    BY <1>2 DEF Request
  <1>4. NewStatus(u) \in Status
    BY <1>1, NewStatusFacts, SMTT(60)
  <1>5. PICK late \in IF act[u].op = "extend" THEN {FALSE, r.late} ELSE {r.late} :
            requests' = [requests EXCEPT ![c].status = NewStatus(u), ![c].late = late]
    BY DEF Commit
  <1>6. late \in BOOLEAN
    BY <1>3, <1>5
  <1> DEFINE new == [r EXCEPT !.status = NewStatus(u), !.late = late]
  <1>7. new \in Request
    BY <1>2, <1>4, <1>6 DEF Request
  <1>8. /\ new.ticket = r.ticket /\ new.mail = r.mail /\ new.proof = r.proof
        /\ new.status = NewStatus(u)
    BY <1>2 DEF Request
  <1>9. requests' = [requests EXCEPT ![c] = new]
    BY <1>2, <1>5
  <1> HIDE DEF new
  <1>10. /\ requests' \in [Code -> Request \union {None}] /\ requests'[c] = new
         /\ \A d \in Code : d # c => requests'[d] = requests[d]
    BY <1>2, <1>7, <1>9
  <1>11. Grow
    BY <1>7, <1>8, <1>10, NoneAssumption DEF Grow, Stored
  <1>12. act[u].op = "APPROVE" =>
                    /\ Unused(r.ticket, r.mail)
                    /\ accounts' = [accounts EXCEPT ![r.ticket] = [mail |-> r.mail, from |-> c]]
                    /\ dropped' = dropped \ {c}
    BY DEF Commit
  <1>13. act[u].op # "APPROVE" => UNCHANGED <<accounts, dropped>>
    BY DEF Commit
  <1>14. accounts' \in [Ticket -> Account \union {None}] /\ dropped' \subseteq Code
    <2> DEFINE account == [mail |-> r.mail, from |-> c]
    <2>1. account \in Account
      BY <1>2, <1>3 DEF Account
    <2>2. act[u].op = "APPROVE" => accounts' = [accounts EXCEPT ![r.ticket] = account]
      BY <1>12
    <2> HIDE DEF account
    <2> QED BY <1>2, <1>3, <1>12, <1>13, <2>1, <2>2
  <1> HIDE DEF c, r
  <1> QED BY <1>2, <1>8, <1>10, <1>11, <1>12, <1>13, <1>14 DEF c, r

\* The handlers of a decision.
LEMMA DecisionStep ==
    ASSUME Consistent, NEW u \in Admin,
           ReadRequest(u) \/ Commit(u) \/ Conflict(u) \/ FailDecision(u)
    PROVE  Consistent'
  <1>1. /\ manager[u] \in Manager /\ loads[u] \in SUBSET Listing
        /\ act[u] \in Deciding /\ act[u] # None /\ ManagerOK(u)
        /\ manager \in [Admin -> Manager] /\ loads \in [Admin -> SUBSET Listing]
        /\ act \in [Admin -> Deciding \union {None}]
        /\ calm \in [Admin -> BOOLEAN]
        /\ requests \in [Code -> Request \union {None}]
        /\ accounts \in [Ticket -> Account \union {None}] /\ dropped \subseteq Code
    BY DEF Consistent, Types, ReadRequest, Commit, Conflict, FailDecision
  <1>2. /\ manager[u].sel \in Stored \union {None}
        /\ \A r \in manager[u].list : r.code \in Stored
        /\ act[u].code \in Stored
        /\ manager[u].loading => loads[u] # {}
        /\ manager[u].busy
        /\ \A k \in loads[u] : k.found \subseteq Stored /\ \A r \in k.rows : r.code \in Stored
    BY <1>1 DEF ManagerOK
  \* The decision is given up.
  <1>3. ASSUME act' = [act EXCEPT ![u] = None], manager' = [manager EXCEPT ![u].busy = FALSE],
               UNCHANGED <<emailOtp, requests, accounts, dropped, applicantVars, loads, calm>>
        PROVE  Consistent'
    <2> DEFINE p == [manager[u] EXCEPT !.busy = FALSE]
    <2>1. /\ p \in Manager /\ p.busy = FALSE /\ p.sel = manager[u].sel
          /\ p.list = manager[u].list /\ p.loading = manager[u].loading
      BY <1>1 DEF Manager
    <2>2. /\ manager' = [manager EXCEPT ![u] = p] /\ loads' = [loads EXCEPT ![u] = loads[u]]
          /\ calm' \in [Admin -> BOOLEAN]
          /\ accounts' \in [Ticket -> Account \union {None}] /\ dropped' \subseteq Code
      BY <1>1, <1>3
    <2> HIDE DEF p
    <2>3. Grow /\ requests' \in [Code -> Request \union {None}]
      BY <1>3, SameRequests
    <2>4. /\ p.busy <=> None # None
          /\ p.loading => loads[u] # {}
          /\ p.sel \in Stored \union {None}
          /\ \A r \in p.list : r.code \in Stored
          /\ None \in Deciding \union {None}
      BY <1>2, <2>1
    <2> QED BY <1>1, <1>2, <1>3, <2>1, <2>2, <2>3, <2>4, PageStep
  <1>4. CASE ReadRequest(u)
    <2> DEFINE r == requests[act[u].code]
               d == [act[u] EXCEPT !.seen = r.status]
    <2>1. CASE act[u].op = "APPROVE" /\ accounts[r.ticket] # None
      BY <1>3, <1>4, <2>1 DEF ReadRequest
    <2>2. CASE ~(act[u].op = "APPROVE" /\ accounts[r.ticket] # None)
      <3>1. r \in Request /\ r.status \in Status
        BY <1>1, <1>2 DEF Stored, Request
      <3>2. d \in Deciding /\ d.code = act[u].code /\ d # None
        BY <1>1, <3>1, NoneAssumption DEF Deciding
      <3>3. /\ UNCHANGED <<emailOtp, requests, accounts, dropped, applicantVars, loads, calm>>
            /\ act' = [act EXCEPT ![u] = d] /\ UNCHANGED manager
        BY <1>1, <1>4, <2>2 DEF ReadRequest
      <3>4. Grow /\ requests' \in [Code -> Request \union {None}]
        BY <3>3, SameRequests
      <3>5. /\ manager' = [manager EXCEPT ![u] = manager[u]]
            /\ loads' = [loads EXCEPT ![u] = loads[u]]
            /\ calm' \in [Admin -> BOOLEAN]
            /\ accounts' \in [Ticket -> Account \union {None}] /\ dropped' \subseteq Code
        BY <1>1, <3>3
      <3> HIDE DEF d
      <3>6. /\ manager[u].busy <=> d # None
            /\ d.code \in Stored
        BY <1>2, <3>2
      <3> QED BY <1>1, <1>2, <3>2, <3>3, <3>4, <3>5, <3>6, PageStep
    <2> QED BY <2>1, <2>2
  <1>5. CASE Commit(u)
    <2> DEFINE p == [manager[u] EXCEPT !.sel = None, !.busy = FALSE, !.loading = TRUE]
               ls == loads[u] \union {Load(act[u].filter)}
    <2>1. /\ p \in Manager /\ p.busy = FALSE /\ p.sel = None
          /\ p.list = manager[u].list /\ p.loading = TRUE
      BY <1>1 DEF Manager
    <2>2. act[u].filter \in Filter
      BY <1>1 DEF Deciding
    <2>3. /\ ls \in SUBSET Listing /\ ls # {}
          /\ \A k \in ls : k.found \subseteq Stored /\ \A r \in k.rows : r.code \in Stored
      BY <1>1, <1>2, <2>2, LoadFacts
    <2>4. /\ requests' \in [Code -> Request \union {None}] /\ Grow
          /\ accounts' \in [Ticket -> Account \union {None}] /\ dropped' \subseteq Code
      BY <1>5, CommitFacts
    <2>5. /\ manager' = [manager EXCEPT ![u] = p] /\ loads' = [loads EXCEPT ![u] = ls]
          /\ act' = [act EXCEPT ![u] = None]
          /\ UNCHANGED <<emailOtp, applicantVars>>
      BY <1>1, <1>5 DEF Commit, StartList
    <2>6. calm' \in [Admin -> BOOLEAN]
      BY <1>1, <1>5 DEF Commit
    <2> HIDE DEF p, ls
    <2>7. /\ p.busy <=> None # None
          /\ p.sel \in Stored \union {None}
          /\ \A r \in p.list : r.code \in Stored
          /\ None \in Deciding \union {None}
      BY <1>2, <2>1
    <2> QED BY <1>1, <1>2, <2>1, <2>3, <2>4, <2>5, <2>6, <2>7, PageStep
  <1>6. CASE Conflict(u) \/ FailDecision(u)
    BY <1>3, <1>6 DEF Conflict, FailDecision, Rollback
  <1> QED BY <1>4, <1>5, <1>6, SMTT(60)

LEMMA ConsistentStep == Consistent /\ [Next]_vars => Consistent'
  <1> SUFFICES ASSUME Consistent, [Next]_vars PROVE Consistent'
    OBVIOUS
  <1>1. CASE UNCHANGED vars
    <2>1. UNCHANGED <<emailOtp, requests, accounts, dropped, desk, serve, mixed, temp, otp, managerVars>>
      BY <1>1 DEF vars, applicantVars
    <2>2. Grow /\ requests' \in [Code -> Request \union {None}]
      BY <2>1, SameRequests
    <2>3. /\ accounts' \in [Ticket -> Account \union {None}] /\ dropped' \subseteq Code
          /\ temp' \in [Ticket -> Mail \union {None}] /\ otp' \in [Ticket -> Mail \union {None}]
      BY <2>1 DEF Consistent, Types
    <2> QED BY <2>1, <2>2, <2>3, Aside
  <1>2. CASE UserStep
    BY <1>2, PageClick, ManagerClick, RestOfProgram DEF UserStep
  <1>3. CASE SystemStep
    <2>1. ASSUME NEW a \in Applicant, ServeStep(a) PROVE Consistent'
      BY <2>1, TableHandler, KeyHandler DEF ServeStep
    <2>2. ASSUME NEW u \in Admin, AdminStep(u) PROVE Consistent'
      BY <2>2, ListStep, DecisionStep DEF AdminStep
    <2> QED BY <1>3, <2>1, <2>2 DEF SystemStep
  <1>4. CASE FaultStep
    BY <1>4, TableHandler, RestOfProgram, DecisionStep, ListStep DEF FaultStep
  <1> QED BY <1>1, <1>2, <1>3, <1>4 DEF Next

LEMMA AlwaysConsistent == Spec => []Consistent
  BY InitConsistent, ConsistentStep, PTL DEF Spec

\* The state keeps its shape, a slip is shown with its code, and a page waits
\* only for lists and decisions that are under way.
THEOREM TypeCorrect == Spec => []TypeOK
  BY AlwaysConsistent, ConsistentType, PTL

\* A slip names a stored request with the applicant's own ticket number or
\* address (register, verify_otp).  verify_otp inserts under the ticket number
\* it was called with, so the row is the applicant's even when the stored
\* answers are another's.
THEOREM SlipOwn == Spec => []SlipIsOwn
  BY AlwaysConsistent, ConsistentSlip, PTL

-----------------------------------------------------------------------------
(* An approved request has its account.                                    *)

\* Everything that changes the table of requests.
LEMMA RequestKinds ==
    ASSUME Consistent, [Next]_vars
    PROVE  \/ UNCHANGED requests
           \/ \E a \in Applicant : InsertDirectly(a) \/ InsertVerified(a)
           \/ \E u \in Admin : (\E l \in loads[u] : ExpireLate(u, l)) \/ Commit(u)
           \/ \E c \in Code : Lapse(c)
  <1>1. CASE UNCHANGED vars
    BY <1>1, SMTT(60) DEF vars
  <1>2. CASE UserStep
    BY <1>2 DEF UserStep, Register, Verify, Resend, StartOver, ChooseFilter, Review, CloseDialog,
           Decide, CreateAccount, ChangeMail, DeleteAccount
  <1>3. CASE SystemStep
    <2>1. ASSUME NEW a \in Applicant, ServeStep(a)
          PROVE  UNCHANGED requests \/ InsertDirectly(a) \/ InsertVerified(a)
      BY <2>1, SMTT(60) DEF ServeStep, CheckRegister, StoreTemp, StoreOtp, CheckOtp, LoadTemp, CheckVerify,
             DropOtp, DropTemp, LoadForResend, RenewTemp, ResendOtp
    <2>2. ASSUME NEW u \in Admin, AdminStep(u)
          PROVE  UNCHANGED requests \/ (\E l \in loads[u] : ExpireLate(u, l)) \/ Commit(u)
      BY <2>2 DEF AdminStep, FindLate, SelectList, ListArrives, ReadRequest, Conflict, Rollback
    <2> QED BY <1>3, <2>1, <2>2 DEF SystemStep
  <1>4. CASE FaultStep
    BY <1>4 DEF FaultStep, FailServe, ExpireOtp, ExpireTemp, FailDecision, Rollback, ListFails
  <1> QED BY <1>1, <1>2, <1>3, <1>4 DEF Next

\* Everything that changes the accounts.
LEMMA AccountKinds ==
    ASSUME Consistent, [Next]_vars
    PROVE  \/ UNCHANGED <<accounts, dropped>>
           \/ \E u \in Admin : Commit(u)
           \/ \E t \in Ticket : \/ DeleteAccount(t)
                               \/ \E m \in Mail : CreateAccount(t, m) \/ ChangeMail(t, m)
  <1>1. CASE UNCHANGED vars
    BY <1>1, SMTT(60) DEF vars
  <1>2. CASE UserStep
    BY <1>2, ZenonT(60) DEF UserStep, Register, Verify, Resend, StartOver, ChooseFilter, Review, CloseDialog,
           Decide
  <1>3. CASE SystemStep
    <2>1. ASSUME NEW a \in Applicant, ServeStep(a) PROVE UNCHANGED <<accounts, dropped>>
      BY <2>1 DEF ServeStep, CheckRegister, StoreTemp, StoreOtp, CheckOtp, LoadTemp, CheckVerify,
             DropOtp, DropTemp, LoadForResend, RenewTemp, ResendOtp, InsertDirectly, InsertVerified
    <2>2. ASSUME NEW u \in Admin, AdminStep(u)
          PROVE  UNCHANGED <<accounts, dropped>> \/ Commit(u)
      BY <2>2 DEF AdminStep, FindLate, ExpireLate, SelectList, ListArrives, ReadRequest, Conflict,
             Rollback
    <2> QED BY <1>3, <2>1, <2>2 DEF SystemStep
  <1>4. CASE FaultStep
    BY <1>4 DEF FaultStep, FailServe, ExpireOtp, ExpireTemp, FailDecision, Rollback, ListFails, Lapse
  <1> QED BY <1>1, <1>2, <1>3, <1>4 DEF Next

\* Whatever is not a commit leaves the rows alone, but for their expiry, and
\* inserts open ones.
LEMMA RowsKept ==
    ASSUME Consistent, [Next]_vars
    PROVE  Grow /\ \/ \E u \in Admin : Commit(u)
                   \/ \A c \in Stored' : requests'[c].status = "APPROVED" =>
                          c \in Stored /\ requests[c].status = "APPROVED"
  <1>1. CASE UNCHANGED requests
    BY <1>1 DEF Grow, Stored
  <1>2. ASSUME NEW a \in Applicant, InsertDirectly(a) \/ InsertVerified(a)
        PROVE  Grow /\ \A c \in Stored' : requests'[c].status = "APPROVED" =>
                          c \in Stored /\ requests[c].status = "APPROVED"
    <2>1. /\ serve[a] # None /\ serve[a] \in Serving /\ ApplicantOK(a)
      BY <1>2 DEF InsertDirectly, InsertVerified, Doing, Consistent, Types
    <2>2. /\ serve[a].ticket \in Ticket /\ serve[a].mail \in Mail
          /\ InsertVerified(a) => serve[a].temp \in Mail
      BY <2>1 DEF Serving, ApplicantOK, InsertVerified, Doing
    <2>3. PICK c \in Code, m \in Mail : Insert(c, serve[a].ticket, m, serve[a].mail)
      BY <1>2, <2>2 DEF InsertDirectly, InsertVerified
    <2>4. /\ Grow /\ requests'[c].status = "PENDING"
          /\ \A d \in Code : d # c => requests'[d] = requests[d]
      BY <2>2, <2>3, InsertFacts
    <2> QED BY <2>4 DEF Stored
  <1>3. ASSUME NEW u \in Admin, NEW l \in loads[u], ExpireLate(u, l)
        PROVE  Grow /\ \A c \in Stored' : requests'[c].status = "APPROVED" =>
                          c \in Stored /\ requests[c].status = "APPROVED"
    <2>1. l.found \subseteq Stored
      BY DEF Consistent, ManagerOK
    <2>2. /\ Grow /\ Stored' = Stored
          /\ \A c \in Stored : requests'[c].status \in {requests[c].status, "EXPIRED"}
      BY <1>3, <2>1, ExpireFacts DEF ExpireLate
    <2> QED BY <2>2
  <1>4. ASSUME NEW c \in Code, Lapse(c)
        PROVE  Grow /\ \A d \in Stored' : requests'[d].status = "APPROVED" =>
                          d \in Stored /\ requests[d].status = "APPROVED"
    <2>1. /\ requests[c] # None /\ requests' = [requests EXCEPT ![c].late = TRUE]
          /\ requests \in [Code -> Request \union {None}]
      BY <1>4 DEF Lapse, Consistent, Types
    <2>2. /\ requests'[c] = [requests[c] EXCEPT !.late = TRUE] /\ requests[c] \in Request
          /\ \A d \in Code : d # c => requests'[d] = requests[d]
      BY <2>1
    <2>3. requests'[c] \in Request
      BY <2>2 DEF Request
    <2>4. /\ requests'[c].ticket = requests[c].ticket /\ requests'[c].mail = requests[c].mail
          /\ requests'[c].proof = requests[c].proof /\ requests'[c].status = requests[c].status
      BY <2>2 DEF Request
    <2> QED BY <2>1, <2>2, <2>3, <2>4, NoneAssumption DEF Grow, Stored
  <1>5. ASSUME NEW u \in Admin, Commit(u) PROVE Grow /\ \E v \in Admin : Commit(v)
    BY <1>5, CommitFacts
  <1> QED BY <1>1, <1>2, <1>3, <1>4, <1>5, RequestKinds

\* The account of request c is there.
Made(c) == accounts[requests[c].ticket] # None /\ accounts[requests[c].ticket].from = c

LEMMA StaffStep == Consistent /\ ApprovedIsStaff /\ [Next]_vars => ApprovedIsStaff'
  <1> SUFFICES ASSUME Consistent, ApprovedIsStaff, [Next]_vars, NEW c \in Code,
                      c \in Stored', c \notin dropped', requests'[c].status = "APPROVED"
               PROVE  Made(c)'
    BY DEF ApprovedIsStaff, Made, Stored
  <1>1. /\ requests \in [Code -> Request \union {None}]
        /\ accounts \in [Ticket -> Account \union {None}]
    BY DEF Consistent, Types
  <1>2. Grow
    BY RowsKept
  \* It was approved before, and no step deleted its account.
  <1>0. c \in Stored /\ requests[c].status = "APPROVED" /\ c \notin dropped => Made(c)
    BY DEF ApprovedIsStaff, Made
  <1>3. ASSUME c \in Stored, requests[c].status = "APPROVED", c \notin dropped,
               accounts'[requests[c].ticket] = accounts[requests[c].ticket]
        PROVE  Made(c)'
    BY <1>0, <1>2, <1>3 DEF Grow, Made
  <1>4. ASSUME NEW u \in Admin, Commit(u)
        PROVE  Made(c)'
    <2> DEFINE b == act[u].code
    <2>1. /\ b \in Stored /\ b \in Code /\ requests[b] \in Request
          /\ requests'[b].status = NewStatus(u)
          /\ \A d \in Code : d # b => requests'[d] = requests[d]
      BY <1>4, CommitFacts
    <2>2. /\ act[u].op = "APPROVE" =>
                /\ Unused(requests[b].ticket, requests[b].mail)
                /\ accounts' = [accounts EXCEPT ![requests[b].ticket] = [mail |-> requests[b].mail, from |-> b]]
                /\ dropped' = dropped \ {b}
          /\ act[u].op # "APPROVE" => UNCHANGED <<accounts, dropped>>
      BY <1>4, CommitFacts
    <2>3. act[u] # None /\ act[u].seen # None
      BY <1>4 DEF Commit
    <2>4. requests[b].ticket \in Ticket
      BY <2>1 DEF Request
    <2>5. c # b => c \in Stored /\ requests[c].status = "APPROVED"
      BY <2>1 DEF Stored
    <2>6. CASE act[u].op # "APPROVE"
      <3>1. c = b => requests[c].status = "APPROVED"
        BY <2>1, <2>3, <2>6, NewStatusFacts
      <3> QED BY <1>3, <2>1, <2>2, <2>5, <2>6, <3>1
    <2>7. CASE act[u].op = "APPROVE" /\ c = b
      <3>1. accounts'[requests'[b].ticket] = [mail |-> requests[b].mail, from |-> b]
        BY <1>1, <1>2, <2>1, <2>2, <2>4, <2>7 DEF Grow
      <3>2. [mail |-> requests[b].mail, from |-> b] \in Account
        BY <2>1 DEF Account, Request
      <3> QED BY <2>7, <3>1, <3>2, NoneAssumption DEF Made
    <2>8. CASE act[u].op = "APPROVE" /\ c # b
      <3>1. c \notin dropped
        BY <2>2, <2>8
      <3>2. Made(c)
        BY <1>0, <2>5, <2>8, <3>1
      <3>3. requests[c] \in Request /\ requests[c].ticket \in Ticket
        BY <1>1, <2>5, <2>8 DEF Stored, Request
      <3>5. requests[c].ticket # requests[b].ticket
        BY <2>2, <2>8, <3>2 DEF Unused, Made
      <3> QED BY <1>1, <1>3, <2>2, <2>5, <2>8, <3>1, <3>3, <3>5
    <2> QED BY <2>6, <2>7, <2>8
  <1>5. CASE ~ \E u \in Admin : Commit(u)
    <2>1. c \in Stored /\ requests[c].status = "APPROVED" /\ requests[c] \in Request
          /\ requests[c].ticket \in Ticket
      BY <1>1, <1>5, RowsKept DEF Stored, Request
    <2>2. CASE UNCHANGED <<accounts, dropped>>
      BY <1>3, <2>1, <2>2
    <2>3. ASSUME NEW t \in Ticket, DeleteAccount(t)
          PROVE  c \notin dropped /\ accounts'[requests[c].ticket] = accounts[requests[c].ticket]
      <3>1. /\ accounts' = [accounts EXCEPT ![t] = None]
            /\ dropped' = dropped \union ({accounts[t].from} \ {None})
        BY <2>3 DEF DeleteAccount
      <3>2. Made(c) /\ c # None
        BY <1>0, <2>1, <3>1, NoneAssumption
      <3>4. t # requests[c].ticket
        BY <3>1, <3>2 DEF Made
      <3> QED BY <1>1, <2>1, <3>1, <3>4
    <2>4. ASSUME NEW t \in Ticket, NEW m \in Mail, CreateAccount(t, m)
          PROVE  c \notin dropped /\ accounts'[requests[c].ticket] = accounts[requests[c].ticket]
      <3>1. /\ accounts' = [accounts EXCEPT ![t] = [mail |-> m, from |-> None]]
            /\ dropped' = dropped /\ accounts[t] = None
        BY <2>4 DEF CreateAccount, Unused
      <3>4. t # requests[c].ticket
        BY <1>0, <2>1, <3>1 DEF Made
      <3> QED BY <1>1, <2>1, <3>1, <3>4
    <2>5. ASSUME NEW t \in Ticket, NEW m \in Mail, ChangeMail(t, m) PROVE Made(c)'
      <3>1. /\ accounts' = [accounts EXCEPT ![t].mail = m] /\ accounts[t] # None
            /\ dropped' = dropped
        BY <2>5 DEF ChangeMail
      <3>2. Made(c)
        BY <1>0, <2>1, <3>1
      <3>3. CASE t # requests[c].ticket
        BY <1>1, <1>3, <2>1, <3>1, <3>3
      <3>4. CASE t = requests[c].ticket
        <4>1. accounts[t] \in Account /\ accounts[t].from = c
          BY <1>1, <3>1, <3>2, <3>4 DEF Made
        <4>2. accounts'[t] = [accounts[t] EXCEPT !.mail = m]
          BY <1>1, <3>1
        <4>3. accounts'[t] \in Account /\ accounts'[t].from = c
          BY <4>1, <4>2 DEF Account
        <4>4. requests'[c].ticket = t
          BY <1>2, <2>1, <3>4 DEF Grow
        <4> QED BY <4>3, <4>4, NoneAssumption DEF Made
      <3> QED BY <3>3, <3>4
    <2> QED BY <1>3, <1>5, <2>1, <2>2, <2>3, <2>4, <2>5, AccountKinds
  <1> QED BY <1>4, <1>5

\* An approved request has the account that was made for it, under whatever
\* address by now, until the account is deleted: whichever decisions, expiries,
\* direct creations and changes race with the approval
\* (take_registration_action).
THEOREM ApprovedStaff == Spec => []ApprovedIsStaff
  <1>1. Init => ApprovedIsStaff
    BY DEF Init, ApprovedIsStaff, Stored
  <1> QED BY <1>1, AlwaysConsistent, StaffStep, PTL DEF Spec

-----------------------------------------------------------------------------
(* The manager lists what its filter says.                                 *)

Fits(f, rows) == \A r \in rows : f = "ALL" \/ r.status \in {f, "EXPIRED"}

\* A served list fits the filter it was asked for with; as long as the lists
\* of u came one at a time, that is the filter the page shows.
CalmPage(u) ==
    /\ \A l \in loads[u] : l.at = "served" => Fits(l.filter, l.rows)
    /\ calm[u] => /\ \A l \in loads[u] : l.filter = manager[u].filter
                  /\ loads[u] = {} => Fits(manager[u].filter, manager[u].list)
                  /\ act[u] # None => act[u].filter = manager[u].filter

CalmPages == \A u \in Admin : CalmPage(u)

\* Everything that changes the pages of the administrators.
LEMMA PageKinds ==
    ASSUME Consistent, [Next]_vars
    PROVE  \/ UNCHANGED <<manager, loads, act, calm>>
           \/ \E u \in Admin :
                \/ \E f \in Filter : ChooseFilter(u, f)
                \/ \E r \in manager[u].list : Review(u, r)
                \/ CloseDialog(u)
                \/ \E op \in {"APPROVE", "REJECT", "PENDING", "extend"} : Decide(u, op)
                \/ \E l \in loads[u] : \/ FindLate(u, l) \/ ExpireLate(u, l) \/ SelectList(u, l)
                                       \/ ListArrives(u, l) \/ ListFails(u, l)
                \/ ReadRequest(u) \/ Commit(u) \/ Conflict(u) \/ FailDecision(u)
  <1>1. CASE UNCHANGED vars
    BY <1>1 DEF vars, managerVars
  <1>2. CASE UserStep
    BY <1>2 DEF UserStep, Register, Verify, Resend, StartOver, CreateAccount, ChangeMail, DeleteAccount,
           managerVars
  <1>3. CASE SystemStep
    <2>1. ASSUME NEW a \in Applicant, ServeStep(a) PROVE UNCHANGED <<manager, loads, act, calm>>
      BY <2>1 DEF ServeStep, CheckRegister, StoreTemp, StoreOtp, CheckOtp, LoadTemp, CheckVerify,
             DropOtp, DropTemp, LoadForResend, RenewTemp, ResendOtp, InsertDirectly, InsertVerified,
             managerVars
    <2> QED BY <1>3, <2>1 DEF SystemStep, AdminStep
  <1>4. CASE FaultStep
    BY <1>4 DEF FaultStep, FailServe, ExpireOtp, ExpireTemp, Lapse, managerVars
  <1> QED BY <1>1, <1>2, <1>3, <1>4 DEF Next

LEMMA CalmStep == Consistent /\ CalmPages /\ [Next]_vars => CalmPages'
  <1> SUFFICES ASSUME Consistent, CalmPages, [Next]_vars PROVE CalmPages'
    OBVIOUS
  <1>1. CASE UNCHANGED <<manager, loads, act, calm>>
    BY <1>1 DEF CalmPages, CalmPage
  <1>2. ASSUME NEW u \in Admin,
               CalmPage(u)',
               \A v \in Admin : v # u => /\ manager'[v] = manager[v] /\ loads'[v] = loads[v]
                                         /\ act'[v] = act[v] /\ calm'[v] = calm[v]
        PROVE  CalmPages'
    BY <1>2 DEF CalmPages, CalmPage
  <1>3. ASSUME NEW u \in Admin
        PROVE  /\ manager[u] \in Manager /\ manager \in [Admin -> Manager]
               /\ loads[u] \in SUBSET Listing /\ loads \in [Admin -> SUBSET Listing]
               /\ act \in [Admin -> Deciding \union {None}]
               /\ act[u] # None => act[u] \in Deciding
               /\ calm \in [Admin -> BOOLEAN]
               /\ manager[u].busy <=> act[u] # None
               /\ CalmPage(u)
    BY DEF Consistent, Types, ManagerOK, CalmPages
  <1>4. ASSUME NEW u \in Admin, NEW f \in Filter, ChooseFilter(u, f) PROVE CalmPages'
    <2>1. /\ manager' = [manager EXCEPT ![u].filter = f, ![u].loading = TRUE]
          /\ loads' = [loads EXCEPT ![u] = @ \union {Load(f)}]
          /\ calm' = [calm EXCEPT ![u] = @ /\ loads[u] = {} /\ ~manager[u].busy]
          /\ act' = act
      BY <1>4 DEF ChooseFilter, StartList
    <2>2. manager'[u].filter = f /\ manager'[u].list = manager[u].list
      BY <1>3, <2>1 DEF Manager
    <2>3. loads'[u] = loads[u] \union {Load(f)}
      BY <1>3, <2>1
    <2>4. calm'[u] => loads[u] = {} /\ act[u] = None
      BY <1>3, <2>1
    <2>5. CalmPage(u)'
      BY <1>3, <2>1, <2>2, <2>3, <2>4, LoadFacts DEF CalmPage
    <2> QED BY <1>2, <1>3, <2>1, <2>5
  <1>5. ASSUME NEW u \in Admin,
               CloseDialog(u) \/ (\E r \in manager[u].list : Review(u, r))
        PROVE  CalmPages'
    <2>1. PICK s : manager' = [manager EXCEPT ![u].sel = s] /\ UNCHANGED <<loads, act, calm>>
      BY <1>5 DEF CloseDialog, Review
    <2>2. manager'[u].filter = manager[u].filter /\ manager'[u].list = manager[u].list
      BY <1>3, <2>1 DEF Manager
    <2>3. CalmPage(u)'
      BY <1>3, <2>1, <2>2 DEF CalmPage
    <2> QED BY <1>2, <1>3, <2>1, <2>3
  <1>6. ASSUME NEW u \in Admin, NEW op \in {"APPROVE", "REJECT", "PENDING", "extend"}, Decide(u, op)
        PROVE  CalmPages'
    <2> DEFINE d == [op |-> op, code |-> manager[u].sel, filter |-> manager[u].filter,
                     seen |-> None]
    <2>1. /\ manager' = [manager EXCEPT ![u].busy = TRUE] /\ act' = [act EXCEPT ![u] = d]
          /\ UNCHANGED <<loads, calm>>
      BY <1>6 DEF Decide
    <2>2. d.filter = manager[u].filter
      OBVIOUS
    <2> HIDE DEF d
    <2>3. manager'[u].filter = manager[u].filter /\ manager'[u].list = manager[u].list
      BY <1>3, <2>1 DEF Manager
    <2>4. act'[u] = d
      BY <1>3, <2>1
    <2>5. CalmPage(u)'
      BY <1>3, <2>1, <2>2, <2>3, <2>4 DEF CalmPage
    <2> QED BY <1>2, <1>3, <2>1, <2>5
  <1>7. ASSUME NEW u \in Admin, NEW l \in loads[u],
               \/ FindLate(u, l) \/ ExpireLate(u, l) \/ SelectList(u, l)
               \/ ListArrives(u, l) \/ ListFails(u, l)
        PROVE  CalmPages'
    <2>1. l \in Listing
      BY <1>3
    <2>2. ASSUME NEW k, loads' = [loads EXCEPT ![u] = (@ \ {l}) \union {k}],
                 UNCHANGED <<manager, act, calm>>,
                 k.filter = l.filter, k.at = "served" => Fits(k.filter, k.rows)
          PROVE  CalmPages'
      <3>1. loads'[u] = (loads[u] \ {l}) \union {k}
        BY <1>3, <2>2
      <3>2. CalmPage(u)'
        BY <1>3, <2>2, <3>1 DEF CalmPage
      <3> QED BY <1>2, <1>3, <2>2, <3>2
    <2>3. CASE FindLate(u, l)
      <3> DEFINE past  == {c \in Stored : requests[c].late}
                 found == {c \in past : requests[c].status = "PENDING"}
                 at    == IF found = {} THEN "checked" ELSE "found"
                 k == [l EXCEPT !.past = past, !.found = found, !.at = at]
      <3>1. /\ loads' = [loads EXCEPT ![u] = (@ \ {l}) \union {k}]
            /\ UNCHANGED <<manager, act, calm>>
        BY <2>3 DEF FindLate, Replace
      <3>2. at # "served"
        OBVIOUS
      <3> HIDE DEF past, found, at
      <3>3. k.filter = l.filter /\ k.at # "served"
        BY <2>1, <3>2 DEF Listing
      <3> HIDE DEF k
      <3> QED BY <2>2, <3>1, <3>3
    <2>7. CASE ExpireLate(u, l)
      <3> DEFINE k == [l EXCEPT !.at = "checked"]
      <3>1. k.filter = l.filter /\ k.at = "checked"
        BY <2>1 DEF Listing
      <3>2. /\ loads' = [loads EXCEPT ![u] = (@ \ {l}) \union {k}]
            /\ UNCHANGED <<manager, act, calm>>
        BY <2>7 DEF ExpireLate, Replace
      <3> HIDE DEF k
      <3> QED BY <2>2, <3>1, <3>2
    <2>4. CASE SelectList(u, l)
      <3> DEFINE chosen == {c \in Stored : l.filter \in {"ALL", requests[c].status}}
                 rows == {[code |-> c, status |-> Shown(l, c)] : c \in chosen}
                 k == [l EXCEPT !.rows = rows, !.at = "served"]
      <3>1. Fits(l.filter, rows)
        BY DEF Fits, Shown
      <3>3. /\ loads' = [loads EXCEPT ![u] = (@ \ {l}) \union {k}]
            /\ UNCHANGED <<manager, act, calm>>
        BY <2>4 DEF SelectList, Replace
      <3> HIDE DEF rows
      <3>2. k.filter = l.filter /\ k.rows = rows
        BY <2>1 DEF Listing
      <3> HIDE DEF k
      <3> QED BY <2>2, <3>1, <3>2, <3>3
    <2>5. CASE ListArrives(u, l)
      <3>1. /\ loads' = [loads EXCEPT ![u] = @ \ {l}] /\ l.at = "served"
            /\ manager' = [manager EXCEPT ![u].list = l.rows, ![u].loading = FALSE]
            /\ UNCHANGED <<act, calm>>
        BY <2>5 DEF ListArrives
      <3>2. loads'[u] = loads[u] \ {l}
        BY <1>3, <3>1
      <3>3. manager'[u].filter = manager[u].filter /\ manager'[u].list = l.rows
        BY <1>3, <3>1 DEF Manager
      <3>4. CalmPage(u)'
        BY <1>3, <3>1, <3>2, <3>3 DEF CalmPage
      <3> QED BY <1>2, <1>3, <3>1, <3>4
    <2>6. CASE ListFails(u, l)
      <3>1. /\ loads' = [loads EXCEPT ![u] = @ \ {l}]
            /\ manager' = [manager EXCEPT ![u].loading = FALSE]
            /\ calm' = [calm EXCEPT ![u] = FALSE] /\ UNCHANGED act
        BY <2>6 DEF ListFails
      <3>2. loads'[u] = loads[u] \ {l} /\ ~calm'[u]
        BY <1>3, <3>1
      <3>3. CalmPage(u)'
        BY <1>3, <3>2 DEF CalmPage
      <3> QED BY <1>2, <1>3, <3>1, <3>3
    <2> QED BY <1>7, <2>3, <2>4, <2>5, <2>6, <2>7
  <1>8. ASSUME NEW u \in Admin, act' = [act EXCEPT ![u] = None],
               manager' = [manager EXCEPT ![u].busy = FALSE], UNCHANGED <<loads, calm>>
        PROVE  CalmPages'
    <2>1. manager'[u].filter = manager[u].filter /\ manager'[u].list = manager[u].list
      BY <1>3, <1>8 DEF Manager
    <2>2. act'[u] = None
      BY <1>3, <1>8
    <2>3. CalmPage(u)'
      BY <1>3, <1>8, <2>1, <2>2 DEF CalmPage
    <2> QED BY <1>2, <1>3, <1>8, <2>3
  <1>9. ASSUME NEW u \in Admin, ReadRequest(u) PROVE CalmPages'
    <2> DEFINE d == [act[u] EXCEPT !.seen = requests[act[u].code].status]
    <2>1. CASE /\ act' = [act EXCEPT ![u] = None]
               /\ manager' = [manager EXCEPT ![u].busy = FALSE]
      BY <1>8, <1>9, <2>1 DEF ReadRequest
    <2>2. CASE act' = [act EXCEPT ![u] = d] /\ UNCHANGED manager
      <3>1. act[u] # None /\ UNCHANGED <<loads, calm>>
        BY <1>9 DEF ReadRequest
      <3>2. d.filter = act[u].filter
        BY <1>3, <3>1 DEF Deciding
      <3> HIDE DEF d
      <3>3. act'[u] = d
        BY <1>3, <2>2
      <3>4. CalmPage(u)'
        BY <1>3, <2>2, <3>1, <3>2, <3>3 DEF CalmPage
      <3> QED BY <1>2, <1>3, <2>2, <3>1, <3>4
    <2> QED BY <1>3, <1>9, <2>1, <2>2 DEF ReadRequest
  <1>10. ASSUME NEW u \in Admin, Commit(u) PROVE CalmPages'
    <2>1. /\ manager' = [manager EXCEPT ![u].sel = None, ![u].busy = FALSE, ![u].loading = TRUE]
          /\ loads' = [loads EXCEPT ![u] = @ \union {Load(act[u].filter)}]
          /\ calm' = [calm EXCEPT ![u] = @ /\ loads[u] = {}]
          /\ act' = [act EXCEPT ![u] = None] /\ act[u] # None
      BY <1>10 DEF Commit, StartList
    <2>2. manager'[u].filter = manager[u].filter
      BY <1>3, <2>1 DEF Manager
    <2>3. loads'[u] = loads[u] \union {Load(act[u].filter)} /\ act'[u] = None
      BY <1>3, <2>1
    <2>4. calm'[u] => calm[u] /\ loads[u] = {}
      BY <1>3, <2>1
    <2>5. act[u].filter \in Filter
      BY <1>3, <2>1 DEF Deciding
    <2>6. CalmPage(u)'
      BY <1>3, <2>1, <2>2, <2>3, <2>4, <2>5, LoadFacts DEF CalmPage
    <2> QED BY <1>2, <1>3, <2>1, <2>6
  <1>11. ASSUME NEW u \in Admin, Conflict(u) \/ FailDecision(u) PROVE CalmPages'
    BY <1>8, <1>11 DEF Conflict, FailDecision, Rollback
  <1> QED BY <1>1, <1>4, <1>5, <1>6, <1>7, <1>9, <1>10, <1>11, PageKinds

\* The manager lists what its filter says, if its lists came one at a time
\* and no filter was chosen while a decision was being handled
\* (fetchRequests, and the reload at the end of handleAction); what is shown as
\* expired may come under any filter.
THEOREM CalmManager == Spec => []FilteredWhenCalm
  <1>1. Init => CalmPages
    <2>1. Load("ALL").filter = "ALL" /\ Load("ALL").at = "sent" /\ NewManager.filter = "ALL"
      BY DEF Load, NewManager
    <2> QED BY <2>1 DEF Init, CalmPages, CalmPage
  <1>2. CalmPages => FilteredWhenCalm
    BY DEF CalmPages, CalmPage, Fits, FilteredWhenCalm
  <1> QED BY <1>1, <1>2, AlwaysConsistent, CalmStep, PTL DEF Spec

-----------------------------------------------------------------------------
(* A request carries the address whose code was entered.                   *)

\* Applicant a has a handler at work on ticket t.
At(a, t) == serve[a] # None /\ serve[a].ticket = t

\* The two Redis keys of t are about one address, or one has gone.
Agree(t) == otp[t] = None \/ temp[t] = None \/ otp[t] = temp[t]

\* What a handler knows of the keys of its ticket, if it has them for itself:
\* register has stored its own answers, verify_otp has met its own code and
\* so its own answers, and resend_otp holds the answers it found.
HandlerOK(a) ==
    LET s == serve[a]
        t == serve[a].ticket
    IN /\ s.op = "register" /\ s.at = "stored" => temp[t] \in {s.mail, None}
       /\ s.op = "verify" /\ s.at = "known" => temp[t] \in {s.mail, None}
       /\ s.op = "verify" /\ s.at \in {"loaded", "clear"} => s.temp = s.mail
       /\ s.op = "resend" /\ s.at \in {"loaded", "stored"} =>
            temp[t] \in {s.temp, None} /\ otp[t] \in {s.temp, None}

\* One handler at a time; the keys disagree only while register is between
\* its two writes.
TicketOK(t) ==
    /\ \A a, b \in Applicant : At(a, t) /\ At(b, t) => a = b
    /\ Agree(t) \/ \E a \in Applicant : At(a, t) /\ Doing(a, "register", "stored")
    /\ \A a \in Applicant : At(a, t) => HandlerOK(a)

TicketsOK == \A t \in Ticket \ mixed : TicketOK(t)

\* Everything that concerns handlers and keys.
LEMMA KeyKinds ==
    ASSUME Consistent, [Next]_vars
    PROVE  \/ UNCHANGED <<temp, otp, serve, mixed>>
           \/ \E a \in Applicant : Register(a) \/ Verify(a) \/ Resend(a) \/ ServeStep(a) \/ FailServe(a)
           \/ \E t \in Ticket : ExpireOtp(t) \/ ExpireTemp(t)
  <1>1. CASE UNCHANGED vars
    BY <1>1 DEF vars, applicantVars
  <1>2. CASE UserStep
    BY <1>2 DEF UserStep, StartOver, CreateAccount, ChangeMail, DeleteAccount, ChooseFilter, Review,
           CloseDialog, Decide, applicantVars
  <1>3. CASE SystemStep
    <2>1. ASSUME NEW u \in Admin, AdminStep(u) PROVE UNCHANGED <<temp, otp, serve, mixed>>
      BY <2>1 DEF AdminStep, FindLate, ExpireLate, SelectList, ListArrives, ReadRequest, Commit, Conflict,
             Rollback, applicantVars
    <2> QED BY <1>3, <2>1 DEF SystemStep
  <1>4. CASE FaultStep
    BY <1>4 DEF FaultStep, FailDecision, Rollback, ListFails, Lapse, applicantVars
  <1> QED BY <1>1, <1>2, <1>3, <1>4 DEF Next

\* A handler moves on: only its own ticket has to be looked at.
LEMMA OwnTicket ==
    ASSUME TicketsOK, NEW a \in Applicant, serve[a] # None, mixed \subseteq mixed',
           NEW own \in Ticket, serve[a].ticket = own,
           \A b \in Applicant : b # a => serve'[b] = serve[b],
           \A s \in Ticket : s # own => temp'[s] = temp[s] /\ otp'[s] = otp[s],
           serve'[a] # None => serve'[a].ticket = own,
           own \notin mixed' =>
              /\ serve'[a] # None => HandlerOK(a)'
              /\ Agree(own)' \/ Doing(a, "register", "stored")'
    PROVE  TicketsOK'
  <1> SUFFICES ASSUME NEW t \in Ticket, t \notin mixed' PROVE TicketOK(t)'
    BY DEF TicketsOK
  <1>1. TicketOK(t)
    BY DEF TicketsOK
  <1>2. \A b \in Applicant : At(b, t)' => At(b, t)
    BY DEF At
  <1>3. CASE t = own
    <2>1. \A b \in Applicant : At(b, t)' => b = a
      BY <1>1, <1>2, <1>3 DEF At, TicketOK
    <2>2. Doing(a, "register", "stored")' => At(a, t)'
      BY <1>3 DEF At, Doing
    <2>3. \A b, c \in Applicant : At(b, t)' /\ At(c, t)' => b = c
      BY <2>1
    <2>4. Agree(t)' \/ \E b \in Applicant : At(b, t)' /\ Doing(b, "register", "stored")'
      <3>1. Agree(own)' \/ Doing(a, "register", "stored")'
        BY <1>3
      <3>2. Agree(own)' => Agree(t)'
        BY <1>3 DEF Agree
      <3> QED BY <2>2, <3>1, <3>2 DEF At, Doing
    <2>5. \A b \in Applicant : At(b, t)' => HandlerOK(b)'
      BY <1>3, <2>1 DEF At
    <2> QED BY <2>3, <2>4, <2>5 DEF TicketOK
  <1>4. CASE t # own
    <2>1. \A b \in Applicant : At(b, t) => b # a /\ serve'[b] = serve[b]
      BY <1>4 DEF At
    <2>2. temp'[t] = temp[t] /\ otp'[t] = otp[t]
      BY <1>4
    <2>3. \A b, c \in Applicant : At(b, t)' /\ At(c, t)' => b = c
      BY <1>1, <1>2 DEF TicketOK
    <2>4. Agree(t)' \/ \E b \in Applicant : At(b, t)' /\ Doing(b, "register", "stored")'
      BY <1>1, <2>1, <2>2 DEF TicketOK, Agree, At, Doing
    <2>5. ASSUME NEW b \in Applicant, At(b, t)' PROVE HandlerOK(b)'
      <3>1. At(b, t) /\ HandlerOK(b) /\ serve'[b] = serve[b] /\ serve[b].ticket = t
        BY <1>1, <1>2, <2>1, <2>5 DEF TicketOK, At
      <3> QED BY <2>2, <3>1 DEF HandlerOK
    <2> QED BY <2>3, <2>4, <2>5 DEF TicketOK
  <1> QED BY <1>3, <1>4

\* A page sends a request: a ticket that is being worked on is mixed from now on.
LEMMA SendTicket ==
    ASSUME Consistent, TicketsOK, NEW a \in Applicant, Register(a) \/ Verify(a) \/ Resend(a)
    PROVE  TicketsOK' /\ mixed \subseteq mixed'
  <1>1. PICK op, t, m : Send(a, op, t, m)
    BY DEF Register, Verify, Resend
  <1>2. serve[a] = None /\ UNCHANGED <<temp, otp>> /\ serve \in [Applicant -> Serving \union {None}]
    BY DEF Register, Verify, Resend, CanRegister, CanVerify, CanResend, Consistent, Types
  <1> DEFINE new == [op |-> op, ticket |-> t, mail |-> m, at |-> "sent",
                     temp |-> None, code |-> None]
  <1>3. new.ticket = t /\ new.at = "sent"
    OBVIOUS
  <1>4. /\ serve' = [serve EXCEPT ![a] = new]
        /\ mixed' = IF Overlapping(a, t) THEN mixed \union {t} ELSE mixed
    BY <1>1 DEF Send
  <1> HIDE DEF new
  <1>5. serve'[a] = new /\ \A b \in Applicant : b # a => serve'[b] = serve[b]
    BY <1>2, <1>4
  <1>6. ASSUME NEW s \in Ticket, s \notin mixed' PROVE TicketOK(s)'
    <2>1. TicketOK(s)
      BY <1>4, <1>6 DEF TicketsOK
    <2>2. \A b \in Applicant : b # a => (At(b, s)' <=> At(b, s))
      BY <1>5 DEF At
    <2>3. At(a, s)' => s = t /\ \A b \in Applicant : b # a => ~At(b, s)
      BY <1>3, <1>4, <1>5, <1>6 DEF At, Overlapping
    <2>4. ~At(a, s)
      BY <1>2 DEF At
    <2>5. \A b, c \in Applicant : At(b, s)' /\ At(c, s)' => b = c
      BY <2>1, <2>2, <2>3 DEF TicketOK
    <2>6. Agree(s)' \/ \E b \in Applicant : At(b, s)' /\ Doing(b, "register", "stored")'
      <3>1. CASE Agree(s)
        BY <1>2, <3>1 DEF Agree
      <3>2. ASSUME NEW b \in Applicant, At(b, s), Doing(b, "register", "stored")
            PROVE  At(b, s)' /\ Doing(b, "register", "stored")'
        BY <1>5, <2>4, <3>2 DEF At, Doing
      <3> QED BY <2>1, <3>1, <3>2 DEF TicketOK
    <2>7. ASSUME NEW b \in Applicant, At(b, s)' PROVE HandlerOK(b)'
      <3>1. CASE b = a
        BY <1>3, <1>5, <3>1 DEF HandlerOK
      <3>2. CASE b # a
        <4>1. At(b, s) /\ HandlerOK(b) /\ serve'[b] = serve[b]
          BY <1>5, <2>1, <2>2, <2>7, <3>2 DEF TicketOK
        <4> QED BY <1>2, <4>1 DEF HandlerOK
      <3> QED BY <3>1, <3>2
    <2> QED BY <2>5, <2>6, <2>7 DEF TicketOK
  <1> QED BY <1>4, <1>6 DEF TicketsOK

\* A key goes.
LEMMA ExpireTicket ==
    ASSUME Consistent, TicketsOK, NEW t \in Ticket, ExpireOtp(t) \/ ExpireTemp(t)
    PROVE  TicketsOK' /\ mixed' = mixed
  <1>1. /\ UNCHANGED <<serve, mixed>>
        /\ \A s \in Ticket : temp'[s] \in {temp[s], None} /\ otp'[s] \in {otp[s], None}
    BY DEF ExpireOtp, ExpireTemp, Consistent, Types
  <1>2. ASSUME NEW s \in Ticket, TicketOK(s) PROVE TicketOK(s)'
    <2>1. \A b \in Applicant : At(b, s)' <=> At(b, s)
      BY <1>1 DEF At
    <2>2. Agree(s)' \/ \E b \in Applicant : At(b, s)' /\ Doing(b, "register", "stored")'
      <3>1. Agree(s) => Agree(s)'
        BY <1>1 DEF Agree
      <3>2. \A b \in Applicant : Doing(b, "register", "stored") => Doing(b, "register", "stored")'
        BY <1>1 DEF Doing
      <3> QED BY <1>2, <2>1, <3>1, <3>2 DEF TicketOK
    <2>3. \A b, c \in Applicant : At(b, s)' /\ At(c, s)' => b = c
      BY <1>2, <2>1 DEF TicketOK
    <2>4. ASSUME NEW b \in Applicant, At(b, s)' PROVE HandlerOK(b)'
      <3>1. HandlerOK(b) /\ serve[b].ticket = s /\ serve'[b] = serve[b]
        BY <1>1, <1>2, <2>1, <2>4 DEF TicketOK, At
      <3> QED BY <1>1, <3>1 DEF HandlerOK
    <2> QED BY <2>2, <2>3, <2>4 DEF TicketOK
  <1> QED BY <1>1, <1>2 DEF TicketsOK

\* Before its step, what a handler that is alone with its ticket can rely on.
LEMMA AloneFacts ==
    ASSUME Consistent, TicketsOK, NEW a \in Applicant, serve[a] # None
    PROVE  /\ serve[a] \in Serving /\ serve[a].ticket \in Ticket /\ serve[a].mail \in Mail
           /\ serve[a].mail # None
           /\ serve[a].ticket \notin mixed =>
                 /\ HandlerOK(a)
                 /\ Agree(serve[a].ticket) \/ Doing(a, "register", "stored")
  <1>1. serve[a] \in Serving
    BY DEF Consistent, Types
  <1>2. serve[a].ticket \in Ticket /\ serve[a].mail \in Mail /\ serve[a].mail # None
    BY <1>1, NoneAssumption DEF Serving
  <1>3. ASSUME serve[a].ticket \notin mixed
        PROVE  /\ HandlerOK(a)
               /\ Agree(serve[a].ticket) \/ Doing(a, "register", "stored")
    <2>1. TicketOK(serve[a].ticket) /\ At(a, serve[a].ticket)
      BY <1>2, <1>3 DEF TicketsOK, At
    <2> QED BY <2>1 DEF TicketOK
  <1> QED BY <1>1, <1>2, <1>3

\* The parts of a handler's step: no key of another ticket changes, and the
\* handler answers or goes on.
KeysOf(t) == \A s \in Ticket : s # t => temp'[s] = temp[s] /\ otp'[s] = otp[s]

Answers(a) == \E p : Answer(a, p)

GoesOn(a, n, at, c) ==
    serve' = [serve EXCEPT ![a] = [serve[a] EXCEPT !.temp = n, !.at = at, !.code = c]]

SameKeys == UNCHANGED <<temp, otp>>

\* Every step of a handler.
LEMMA ServeTicket ==
    ASSUME Consistent, TicketsOK, NEW a \in Applicant, ServeStep(a)
    PROVE  TicketsOK' /\ mixed' = mixed
  <1>1. serve[a] # None /\ mixed' = mixed
    BY DEF ServeStep, CheckRegister, StoreTemp, StoreOtp, CheckOtp, LoadTemp, CheckVerify,
           DropOtp, DropTemp, LoadForResend, RenewTemp, ResendOtp, InsertDirectly, InsertVerified,
           Doing
  <1> SUFFICES TicketsOK'
    BY <1>1
  <1>2. PICK t \in Ticket, m \in Mail : serve[a].ticket = t /\ serve[a].mail = m
    BY <1>1, AloneFacts
  <1>3. /\ serve[a] \in Serving /\ m # None
        /\ serve[a].temp \in Mail \union {None} /\ serve[a].code \in Code \union {None}
        /\ serve \in [Applicant -> Serving \union {None}]
        /\ temp \in [Ticket -> Mail \union {None}] /\ otp \in [Ticket -> Mail \union {None}]
    BY <1>1, <1>2, AloneFacts DEF Consistent, Types, Serving
  \* What the keys and the handler say before the step.
  <1>4. t \notin mixed =>
           /\ serve[a].op = "register" /\ serve[a].at = "stored" => temp[t] \in {m, None}
           /\ serve[a].op = "verify" /\ serve[a].at = "known" => temp[t] \in {m, None}
           /\ serve[a].op = "verify" /\ serve[a].at \in {"loaded", "clear"} => serve[a].temp = m
           /\ serve[a].op = "resend" /\ serve[a].at \in {"loaded", "stored"} =>
                temp[t] \in {serve[a].temp, None} /\ otp[t] \in {serve[a].temp, None}
    BY <1>1, <1>2, AloneFacts DEF HandlerOK
  <1>5. t \notin mixed /\ ~Doing(a, "register", "stored") =>
            otp[t] = None \/ temp[t] = None \/ otp[t] = temp[t]
    BY <1>1, <1>2, AloneFacts DEF Agree
  <1>6. SameKeys => KeysOf(t) /\ temp'[t] = temp[t] /\ otp'[t] = otp[t]
    BY <1>2 DEF SameKeys, KeysOf
  \* The handler answers and leaves keys that agree.
  <1>7. ASSUME Answers(a), KeysOf(t),
               t \notin mixed => otp'[t] = None \/ temp'[t] = None \/ otp'[t] = temp'[t]
        PROVE  TicketsOK'
    <2>1. serve'[a] = None /\ \A b \in Applicant : b # a => serve'[b] = serve[b]
      BY <1>3, <1>7 DEF Answers, Answer
    <2>2. t \notin mixed' => Agree(t)'
      BY <1>1, <1>7 DEF Agree
    <2>3. \A s \in Ticket : s # t => temp'[s] = temp[s] /\ otp'[s] = otp[s]
      BY <1>7 DEF KeysOf
    <2> QED BY <1>1, <1>2, <2>1, <2>2, <2>3, OwnTicket
  <1>8. ASSUME Answers(a), SameKeys, ~Doing(a, "register", "stored") PROVE TicketsOK'
    BY <1>5, <1>6, <1>7, <1>8
  \* The handler goes on, with n as its stored answers.
  <1> DEFINE Stage == {"sent", "free", "stored", "known", "loaded", "clear", "cleaning"}
  <1>9. ASSUME NEW at \in Stage, NEW n \in Mail \union {None}, NEW c \in Code \union {None},
               GoesOn(a, n, at, c), KeysOf(t),
               t \notin mixed =>
                  /\ serve[a].op = "register" /\ at = "stored" => temp'[t] \in {m, None}
                  /\ serve[a].op = "verify" /\ at = "known" => temp'[t] \in {m, None}
                  /\ serve[a].op = "verify" /\ at \in {"loaded", "clear"} => n = m
                  /\ serve[a].op = "resend" /\ at \in {"loaded", "stored"} =>
                       temp'[t] \in {n, None} /\ otp'[t] \in {n, None}
                  /\ \/ otp'[t] = None \/ temp'[t] = None \/ otp'[t] = temp'[t]
                     \/ serve[a].op = "register" /\ at = "stored"
        PROVE  TicketsOK'
    <2>1. serve'[a] = [serve[a] EXCEPT !.temp = n, !.at = at, !.code = c]
          /\ \A b \in Applicant : b # a => serve'[b] = serve[b]
      BY <1>3, <1>9 DEF GoesOn
    <2>2. /\ serve'[a].op = serve[a].op /\ serve'[a].ticket = t /\ serve'[a].mail = m
          /\ serve'[a].at = at /\ serve'[a].temp = n
      BY <1>2, <1>3, <2>1 DEF Serving
    <2>3. t \notin mixed' => HandlerOK(a)'
      BY <1>1, <1>9, <2>2 DEF HandlerOK
    <2>4. serve'[a] # None
      <3>1. [serve[a] EXCEPT !.temp = n, !.at = at, !.code = c] \in Serving
        BY <1>3 DEF Serving
      <3> QED BY <2>1, <3>1, NoneAssumption
    <2>5. t \notin mixed' => Agree(t)' \/ Doing(a, "register", "stored")'
      BY <1>1, <1>9, <2>2, <2>4 DEF Agree, Doing
    <2>6. \A s \in Ticket : s # t => temp'[s] = temp[s] /\ otp'[s] = otp[s]
      BY <1>9 DEF KeysOf
    <2>7. t \notin mixed' =>
             /\ serve'[a] # None => HandlerOK(a)'
             /\ Agree(t)' \/ Doing(a, "register", "stored")'
      BY <2>3, <2>5
    <2>8. serve'[a] # None => serve'[a].ticket = t
      BY <2>2
    <2> HIDE DEF Stage
    <2> QED BY <1>1, <1>2, <2>1, <2>6, <2>7, <2>8, OwnTicket
  <1>10. ASSUME NEW at \in Stage, Step(a, at) PROVE GoesOn(a, serve[a].temp, at, serve[a].code)
    <2>1. [serve[a] EXCEPT !.at = at]
            = [serve[a] EXCEPT !.temp = serve[a].temp, !.at = at, !.code = serve[a].code]
      BY <1>3 DEF Serving
    <2> QED BY <1>3, <1>10, <2>1 DEF Step, GoesOn
  <1>11. ASSUME NEW n \in Mail, serve' = [serve EXCEPT ![a].temp = n, ![a].at = "loaded"]
         PROVE  GoesOn(a, n, "loaded", serve[a].code)
    <2>1. [serve[a] EXCEPT !.temp = n, !.at = "loaded"]
            = [serve[a] EXCEPT !.temp = n, !.at = "loaded", !.code = serve[a].code]
      BY <1>3 DEF Serving
    <2> QED BY <1>3, <1>11, <2>1 DEF GoesOn
  <1>12. /\ "free" \in Stage /\ "stored" \in Stage /\ "known" \in Stage /\ "loaded" \in Stage
         /\ "clear" \in Stage /\ "cleaning" \in Stage
    OBVIOUS
  <1> HIDE DEF Stage
  \* register
  <1>13. CASE CheckRegister(a)
    <2>1. /\ ~Doing(a, "register", "stored") /\ SameKeys
          /\ serve[a].op = "register"
          /\ Answers(a) \/ Step(a, "free")
      BY <1>2, <1>13 DEF SameKeys, Answers, CheckRegister, Doing
    <2>2. CASE Step(a, "free")
      BY <1>3, <1>5, <1>6, <1>9, <1>10, <1>12, <2>1, <2>2
    <2> QED BY <1>1, <1>8, <2>1, <2>2
  <1>14. CASE StoreTemp(a)
    <2>1. /\ temp' = [temp EXCEPT ![t] = m] /\ otp' = otp /\ Step(a, "stored")
          /\ serve[a].op = "register"
      BY <1>2, <1>14 DEF StoreTemp, Doing
    <2>2. temp'[t] = m /\ KeysOf(t)
      BY <1>2, <1>3, <2>1 DEF KeysOf
    <2> QED BY <1>3, <1>6, <1>9, <1>10, <1>12, <2>1, <2>2
  <1>15. CASE StoreOtp(a)
    <2>1. /\ otp' = [otp EXCEPT ![t] = m] /\ temp' = temp /\ Answers(a)
          /\ serve[a].op = "register" /\ serve[a].at = "stored"
      BY <1>2, <1>15 DEF SameKeys, Answers, StoreOtp, Doing
    <2>2. otp'[t] = m /\ KeysOf(t)
      BY <1>2, <1>3, <2>1 DEF KeysOf
    <2> QED BY <1>4, <1>7, <2>1, <2>2
  <1>16. CASE InsertDirectly(a)
    <2>1. /\ SameKeys /\ Answers(a)
          /\ ~Doing(a, "register", "stored")
      BY <1>2, <1>16 DEF SameKeys, Answers, InsertDirectly, Doing
    <2> QED BY <1>8, <2>1
  \* verify_otp
  <1>17. CASE CheckOtp(a)
    <2>1. /\ SameKeys /\ serve[a].op = "verify"
          /\ ~Doing(a, "register", "stored")
          /\ \/ otp[t] = m /\ Step(a, "known")
             \/ Answers(a)
      BY <1>2, <1>17 DEF SameKeys, Answers, CheckOtp, Doing
    <2>2. CASE otp[t] = m /\ Step(a, "known")
      BY <1>2, <1>3, <1>5, <1>6, <1>9, <1>10, <1>12, <2>1, <2>2
    <2> QED BY <1>8, <2>1, <2>2
  <1>18. CASE LoadTemp(a)
    <2>1. /\ SameKeys /\ serve[a].op = "verify" /\ serve[a].at = "known"
          /\ ~Doing(a, "register", "stored")
          /\ \/ Answers(a)
             \/ /\ temp[t] # None
                /\ serve' = [serve EXCEPT ![a].temp = temp[t], ![a].at = "loaded"]
      BY <1>2, <1>18 DEF SameKeys, Answers, LoadTemp, Doing
    <2>2. CASE /\ temp[t] # None
               /\ serve' = [serve EXCEPT ![a].temp = temp[t], ![a].at = "loaded"]
      <3>1. temp[t] \in Mail
        BY <1>2, <1>3, <2>2
      <3> QED BY <1>3, <1>4, <1>5, <1>6, <1>9, <1>11, <1>12, <2>1, <2>2, <3>1
    <2> QED BY <1>8, <2>1, <2>2
  <1>19. CASE CheckVerify(a)
    <2>1. /\ SameKeys /\ serve[a].op = "verify" /\ serve[a].at = "loaded"
          /\ ~Doing(a, "register", "stored")
          /\ Answers(a) \/ Step(a, "clear")
      BY <1>2, <1>19 DEF SameKeys, Answers, CheckVerify, Doing
    <2>2. CASE Step(a, "clear")
      BY <1>3, <1>4, <1>5, <1>6, <1>9, <1>10, <1>12, <2>1, <2>2
    <2> QED BY <1>8, <2>1, <2>2
  <1>20. CASE InsertVerified(a)
    <2>1. PICK c \in Code : serve' = [serve EXCEPT ![a].at = "stored", ![a].code = c]
      BY <1>2, <1>20 DEF SameKeys, Answers, InsertVerified
    <2>2. /\ SameKeys /\ serve[a].op = "verify" /\ serve[a].at = "clear"
          /\ ~Doing(a, "register", "stored")
      BY <1>2, <1>20 DEF SameKeys, Answers, InsertVerified, Doing
    <2>3. serve[a].temp \in Mail \union {None}
      BY <1>2, <1>3 DEF Serving
    <2>4. GoesOn(a, serve[a].temp, "stored", c)
      <3>1. [serve[a] EXCEPT !.at = "stored", !.code = c]
              = [serve[a] EXCEPT !.temp = serve[a].temp, !.at = "stored", !.code = c]
        BY <1>2, <1>3 DEF Serving
      <3> QED BY <1>2, <1>3, <2>1, <3>1 DEF GoesOn
    <2> QED BY <1>3, <1>5, <1>6, <1>9, <1>12, <2>2, <2>3, <2>4
  <1>21. CASE DropOtp(a)
    <2>1. /\ otp' = [otp EXCEPT ![t] = None] /\ temp' = temp /\ Step(a, "cleaning")
          /\ serve[a].op = "verify"
      BY <1>2, <1>21 DEF DropOtp, Doing
    <2>2. otp'[t] = None /\ KeysOf(t)
      BY <1>2, <1>3, <2>1 DEF KeysOf
    <2> QED BY <1>3, <1>6, <1>9, <1>10, <1>12, <2>1, <2>2
  <1>22. CASE DropTemp(a)
    <2>1. /\ temp' = [temp EXCEPT ![t] = None] /\ otp' = otp /\ Answers(a)
      BY <1>2, <1>22 DEF SameKeys, Answers, DropTemp
    <2>2. temp'[t] = None /\ KeysOf(t)
      BY <1>2, <1>3, <2>1 DEF KeysOf
    <2> QED BY <1>7, <2>1, <2>2
  \* resend_otp
  <1>23. CASE LoadForResend(a)
    <2>1. /\ SameKeys /\ serve[a].op = "resend"
          /\ ~Doing(a, "register", "stored")
          /\ \/ Answers(a)
             \/ /\ temp[t] # None
                /\ serve' = [serve EXCEPT ![a].temp = temp[t], ![a].at = "loaded"]
      BY <1>2, <1>23 DEF SameKeys, Answers, LoadForResend, Doing
    <2>2. CASE /\ temp[t] # None
               /\ serve' = [serve EXCEPT ![a].temp = temp[t], ![a].at = "loaded"]
      <3>1. temp[t] \in Mail
        BY <1>2, <1>3, <2>2
      <3> QED BY <1>3, <1>5, <1>6, <1>9, <1>11, <1>12, <2>1, <2>2, <3>1
    <2> QED BY <1>8, <2>1, <2>2
  <1>24. CASE RenewTemp(a)
    <2>1. /\ temp' = [temp EXCEPT ![t] = serve[a].temp] /\ otp' = otp /\ Step(a, "stored")
          /\ serve[a].op = "resend" /\ serve[a].at = "loaded"
      BY <1>2, <1>24 DEF RenewTemp, Doing
    <2>2. /\ temp'[t] = serve[a].temp
          /\ KeysOf(t)
      BY <1>2, <1>3, <2>1 DEF KeysOf
    <2> QED BY <1>3, <1>4, <1>6, <1>9, <1>10, <1>12, <2>1, <2>2
  <1>25. CASE ResendOtp(a)
    <2>1. /\ otp' = [otp EXCEPT ![t] = serve[a].temp] /\ temp' = temp /\ Answers(a)
          /\ serve[a].op = "resend" /\ serve[a].at = "stored"
      BY <1>2, <1>25 DEF SameKeys, Answers, ResendOtp, Doing
    <2>2. /\ otp'[t] = serve[a].temp
          /\ KeysOf(t)
      BY <1>2, <1>3, <2>1 DEF KeysOf
    <2> QED BY <1>4, <1>7, <2>1, <2>2
  <1> QED BY <1>1, <1>13, <1>14, <1>15, <1>16, <1>17, <1>18, <1>19, <1>20, <1>21, <1>22, <1>23,
             <1>24, <1>25 DEF ServeStep

\* A failed handler leaves its ticket mixed.
LEMMA FailTicket ==
    ASSUME Consistent, TicketsOK, NEW a \in Applicant, FailServe(a)
    PROVE  TicketsOK' /\ mixed \subseteq mixed'
  <1>1. serve[a] # None /\ mixed' = mixed \union {serve[a].ticket} /\ UNCHANGED <<temp, otp>>
    BY DEF FailServe
  <1>2. PICK t \in Ticket : serve[a].ticket = t
    BY <1>1, AloneFacts
  <1>3. serve'[a] = None /\ \A b \in Applicant : b # a => serve'[b] = serve[b]
    BY DEF FailServe, Answer, Consistent, Types
  <1> QED BY <1>1, <1>2, <1>3, OwnTicket

LEMMA TicketStep == Consistent /\ TicketsOK /\ [Next]_vars => TicketsOK' /\ mixed \subseteq mixed'
  <1> SUFFICES ASSUME Consistent, TicketsOK, [Next]_vars
               PROVE  TicketsOK' /\ mixed \subseteq mixed'
    OBVIOUS
  <1>1. CASE UNCHANGED <<temp, otp, serve, mixed>>
    BY <1>1 DEF TicketsOK, TicketOK, HandlerOK, Agree, At, Doing
  <1> QED BY <1>1, KeyKinds, SendTicket, ServeTicket, FailTicket, ExpireTicket

LEMMA VerifiedStep == Consistent /\ TicketsOK /\ VerifiedAddress /\ [Next]_vars => VerifiedAddress'
  <1> SUFFICES ASSUME Consistent, TicketsOK, VerifiedAddress, [Next]_vars,
                      NEW c \in Code, c \in Stored', requests'[c].ticket \notin mixed'
               PROVE  requests'[c].mail = requests'[c].proof
    BY DEF VerifiedAddress, Stored
  <1>1. Grow /\ mixed \subseteq mixed'
    BY RowsKept, TicketStep
  <1>2. CASE c \in Stored
    BY <1>1, <1>2 DEF Grow, VerifiedAddress
  <1>3. ASSUME NEW a \in Applicant, InsertDirectly(a) \/ InsertVerified(a)
        PROVE  c \notin Stored => requests'[c].mail = requests'[c].proof
    <2>1. serve[a] # None
      BY <1>3 DEF InsertDirectly, InsertVerified, Doing
    <2>2. PICK t \in Ticket, m \in Mail : serve[a].ticket = t /\ serve[a].mail = m
      BY <2>1, AloneFacts
    <2>3. serve[a] \in Serving /\ ApplicantOK(a)
      BY <2>1 DEF Consistent, Types
    <2>4. CASE InsertDirectly(a)
      <3>1. PICK d \in Code : Insert(d, t, m, m)
        BY <2>2, <2>4 DEF InsertDirectly
      <3>2. /\ requests'[d].mail = m /\ requests'[d].proof = m
            /\ \A e \in Code : e # d => requests'[e] = requests[e]
        BY <3>1, InsertFacts
      <3> QED BY <3>2 DEF Stored
    <2>5. CASE InsertVerified(a)
      <3>1. serve[a].op = "verify" /\ serve[a].at = "clear"
        BY <2>5 DEF InsertVerified, Doing
      <3>2. PICK n \in Mail : serve[a].temp = n
        BY <2>1, <2>3, <3>1 DEF ApplicantOK, Serving
      <3>3. PICK d \in Code : Insert(d, t, n, m)
        BY <2>2, <2>5, <3>2 DEF InsertVerified
      <3>4. /\ requests'[d].ticket = t /\ requests'[d].mail = n /\ requests'[d].proof = m
            /\ \A e \in Code : e # d => requests'[e] = requests[e]
        BY <3>3, InsertFacts
      <3>5. t \notin mixed => n = m
        BY <2>1, <2>2, <3>1, <3>2, AloneFacts DEF HandlerOK
      <3> QED BY <1>1, <3>4, <3>5 DEF Stored
    <2> QED BY <1>3, <2>4, <2>5
  <1>4. CASE ~ \E a \in Applicant : InsertDirectly(a) \/ InsertVerified(a)
    <2>1. ASSUME NEW u \in Admin, NEW l \in loads[u], ExpireLate(u, l) PROVE Stored' = Stored
      <3>1. l.found \subseteq Stored
        BY DEF Consistent, ManagerOK
      <3> QED BY <2>1, <3>1, ExpireFacts DEF ExpireLate
    <2>2. ASSUME NEW u \in Admin, Commit(u) PROVE Stored' = Stored
      <3>1. PICK d \in Code : /\ d \in Stored
                              /\ \A e \in Code : e # d => requests'[e] = requests[e]
        BY <2>2, CommitFacts
      <3> QED BY <1>1, <3>1 DEF Stored, Grow
    <2>3. ASSUME NEW d \in Code, Lapse(d) PROVE Stored' = Stored
      <3>1. requests[d] # None /\ \A e \in Code : e # d => requests'[e] = requests[e]
        BY <2>3 DEF Lapse, Consistent, Types
      <3> QED BY <1>1, <3>1 DEF Stored, Grow
    <2>4. UNCHANGED requests => Stored' = Stored
      BY DEF Stored
    <2>5. Stored' = Stored
      BY <1>4, <2>1, <2>2, <2>3, <2>4, RequestKinds
    <2> QED BY <1>2, <2>5, SMTT(60)
  <1> QED BY <1>2, <1>3, <1>4

\* A request carries the address whose code was entered, as long as no two
\* handlers for its ticket number overlapped and none failed half-way
\* (register writes the answers and the code under two keys; verify_otp reads
\* them one after the other).
THEOREM AddressVerified == Spec => []VerifiedAddress
  <1>1. Init => TicketsOK /\ VerifiedAddress
    BY DEF Init, TicketsOK, TicketOK, At, Agree, VerifiedAddress, Stored
  <1>2. Consistent /\ TicketsOK /\ VerifiedAddress /\ [Next]_vars => (TicketsOK /\ VerifiedAddress)'
    BY TicketStep, VerifiedStep
  <1> QED BY <1>1, <1>2, AlwaysConsistent, PTL DEF Spec

=============================================================================
