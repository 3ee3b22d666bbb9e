----------------------------- MODULE MCSessions -----------------------------
(* Small instances of Sessions, cut off after MaxClicks clicks, changes by *)
(* administrators, expiries or failures.                                   *)
EXTENDS Sessions, TLC

CONSTANT MaxClicks
ASSUME MaxClicksAssumption == MaxClicks \in Nat

VARIABLE clicks

Known == CHOOSE w \in Passwords : TRUE

\* The rows of a person: nobody yet, a plain employee, an employee promoted
\* to administrator, an administrator from the first set-up, and the same
\* after a reset of the employee password.
Rows ==
  LET e(w) == [pwd |-> w, nonce |-> 1]
      a(must, portal) == [pwd |-> Known, nonce |-> 1, must |-> must, portal |-> portal]
  IN {[emp |-> NoOne, adm |-> NoOne],             [emp |-> e(Known), adm |-> NoOne],
      [emp |-> e(Known), adm |-> a(TRUE, TRUE)], [emp |-> e(Unusable), adm |-> a(FALSE, FALSE)],
      [emp |-> e(Known), adm |-> a(FALSE, FALSE)]}

MayBe(portal, t) ==
  CASE t = NoOne -> TRUE
    [] t = Default -> portal = "admin" /\ Admins(accounts) = {}
    [] t \in People /\ portal = "admin" -> accounts.adm[t] # NoOne
    [] t \in People /\ portal = "employee" ->
         accounts.emp[t] # NoOne /\ (accounts.adm[t] # NoOne => accounts.adm[t].portal)

\* What a browser shows that uses a portal as t.
Showing(portal, t) ==
  CASE t = NoOne ->
         [Opened(IF portal = "admin" THEN "adminLogin" ELSE "login") EXCEPT !.stage = "ready"]
    [] t # NoOne /\ portal = "employee" ->
         [Opened("dashboard") EXCEPT !.stage = "ready", !.who = t]
    [] t # NoOne /\ portal = "admin" ->
         IF t = Default \/ accounts.adm[t].must
         THEN [Opened("setup") EXCEPT !.who = t]
         ELSE [Opened("adminDashboard") EXCEPT !.stage = "ready", !.who = t,
                                               !.portal = accounts.adm[t].portal]

\* Each browser shows a sign-in page or is signed in: as an employee, as an
\* administrator, or in the middle of the first set-up.
MCInit ==
  /\ emailOtp \in BOOLEAN
  /\ \E rows \in [People -> Rows] :
       accounts = [emp |-> [p \in People |-> rows[p].emp], adm |-> [p \in People |-> rows[p].adm]]
  /\ replica = accounts
  /\ nonces = 1 /\ clock = 0 /\ crossed = FALSE /\ revoked = {}
  \* A set-up that failed after it deleted the default administrator leaves 0.
  /\ info \in IF Admins(accounts) = {} THEN {0, 1} ELSE {0}
  /\ otp = [k \in {"login", "reset", "admin"} |-> [p \in People |-> NoOne]]
  /\ \E portal \in [Browsers -> Portals], who \in [Browsers -> Tickets \cup {NoOne}] :
       LET In(b, q) == portal[b] = q /\ who[b] # NoOne
           token(t) == [who |-> t, nonce |-> 1, at |-> 0]
       IN /\ \A b \in Browsers : MayBe(portal[b], who[b])
          /\ \A b, x \in Browsers :
               portal[b] = portal[x] /\ who[b] = who[x] /\ who[b] # NoOne => b = x
          /\ session = [q \in Portals |-> [t \in Tickets |->
               IF \E b \in Browsers : In(b, q) /\ who[b] = t THEN token(t) ELSE NoOne]]
          /\ cookie = [b \in Browsers |->
               [employee |-> IF In(b, "employee") THEN token(who[b]) ELSE NoOne,
                admin |-> IF In(b, "admin") THEN token(who[b]) ELSE NoOne, lag |-> FALSE]]
          /\ page = [b \in Browsers |-> Showing(portal[b], who[b])]
          /\ signedIn = [b \in Browsers |-> [q \in Portals |->
               In(b, q) /\ (who[b] = Default => info = 1)]]
  /\ req = [b \in Browsers |-> NoRequest]
  /\ clicks = 0

MCNext ==
  \/ clicks < MaxClicks /\ clicks' = clicks + 1 /\ (UserStep \/ AdminStep \/ FaultStep)
  \/ UNCHANGED clicks /\ SystemStep

MCSpec == MCInit /\ [][MCNext]_<<vars, clicks>>

MCSymmetry == Permutations(Browsers) \cup Permutations(Codes) \cup Permutations(People)
=============================================================================
