-------------------------- MODULE Sessions_proofs --------------------------
(***************************************************************************)
(* Proofs about Sessions, for any number of browsers, tickets, passwords   *)
(* and codes, with one-time codes by mail or without.                      *)
(*                                                                         *)
(* A request is followed by the step its handler is at; Script says which  *)
(* steps are left from there.  Shape is the inductive invariant of types:  *)
(* what each handler has found out by the step it is at, and how the page  *)
(* of a browser fits its request.  The other invariants build on Shape.    *)
(***************************************************************************)
EXTENDS Sessions, TLAPS, SequenceTheorems

-----------------------------------------------------------------------------
(* The programs of the handlers.                                           *)

(* The last step of a sign-in of t, where e is ENABLE_EMAIL_OTP.           *)
Final(e, t) == IF e /\ t # Default THEN "Mail" ELSE "Store"

(* What may be left to do of a request of kind k, in portal q, for t.      *)
Script(e, k, q, t, s) ==
  \/ k = "me" /\ s \in {<<"Session", "Row">>, <<"Row">>}
  \/ k = "login" /\ s \in {<<"Password", Final(e, t)>>, <<Final(e, t)>>}
  \/ k = "login" /\ q = "admin" /\ s \in {<<"SeedRead", "Password", Final(e, t)>>,
                                          <<"SeedSet", "Password", Final(e, t)>>}
  \/ k = "verify" /\ q = "admin" /\ s \in
       {<<"Code", "Account", "DropCode", "Store">>, <<"Account", "DropCode", "Store">>,
        <<"DropCode", "Store">>, <<"Store">>}
  \/ k = "verify" /\ q = "employee" /\ s \in
       {<<"Code", "Account", "Store", "DropCode">>, <<"Account", "Store", "DropCode">>,
        <<"Store", "DropCode">>, <<"DropCode">>}
  \/ k \in {"resend", "forgot"} /\ s = <<"Mail">>
  \/ k = "reset" /\ s \in {<<"Code", "Commit", "DropCode">>, <<"Commit", "DropCode">>,
                           <<"DropCode">>}
  \/ k \in {"change", "enable"} /\ s \in {<<"Session", "Row", "Commit">>,
                                          <<"Row", "Commit">>, <<"Commit">>}
  \/ k = "setup" /\ t = Default /\ s \in
       {<<"Session", "Row", "Insert", "Forget", "Commit", "Store", "DropDefault">>,
        <<"Row", "Insert", "Forget", "Commit", "Store", "DropDefault">>,
        <<"Insert", "Forget", "Commit", "Store", "DropDefault">>,
        <<"Forget", "Commit", "Store", "DropDefault">>, <<"Commit", "Store", "DropDefault">>}
  \/ k = "setup" /\ t # Default /\ s \in
       {<<"Session", "Row", "Commit", "Store">>, <<"Row", "Commit", "Store">>,
        <<"Commit", "Store">>, <<"Store">>, <<"Store", "DropDefault">>, <<"DropDefault">>}
  \/ k = "logout" /\ s = <<"DropSession">>

(* Where each step can stand, and what may come after it.                  *)
Place(e, k, q, t, x) ==
  /\ x \in {"Session", "Row"} => k \in {"me", "change", "enable", "setup"}
  /\ x \in {"SeedRead", "SeedSet"} => k = "login" /\ q = "admin"
  /\ x = "Password" => k = "login"
  /\ x = "Mail" => k \in {"resend", "forgot"} \/ (k = "login" /\ e /\ t # Default)
  /\ x = "Code" => k \in {"verify", "reset"}
  /\ x = "Account" => k = "verify"
  /\ x = "DropCode" => k \in {"verify", "reset"}
  /\ x \in {"Insert", "Forget"} => k = "setup" /\ t = Default
  /\ x = "Commit" => k \in {"reset", "change", "enable", "setup"}
  /\ x = "Store" => k = "verify" \/ (k = "setup" /\ t # Default)
                    \/ (k = "login" /\ ~(e /\ t # Default))
  /\ x = "DropDefault" => k = "setup" /\ t # Default
  /\ x = "DropSession" => k = "logout"

After(e, k, q, t, x) ==
  CASE x = "Session" -> {"Row"}
    [] x = "Row" -> CASE k = "me" -> {"done"}
                      [] k = "setup" /\ t = Default -> {"Insert"}
                      [] OTHER -> {"Commit"}
    [] x \in {"SeedRead", "SeedSet"} -> {"Password"}
    [] x = "Password" -> {Final(e, t)}
    [] x = "Code" -> IF k = "reset" THEN {"Commit"} ELSE {"Account"}
    [] x = "Account" -> IF q = "admin" THEN {"DropCode"} ELSE {"Store"}
    [] x = "DropCode" -> IF k = "verify" /\ q = "admin" THEN {"Store"} ELSE {"done"}
    [] x = "Insert" -> {"Forget"}
    [] x = "Forget" -> {"Commit"}
    [] x = "Commit" -> CASE k = "reset" -> {"DropCode"}
                         [] k = "setup" -> {"Store"}
                         [] OTHER -> {"done"}
    [] x = "Store" -> CASE k = "verify" /\ q = "employee" -> {"DropCode"}
                        [] k = "setup" -> {"done", "DropDefault"}
                        [] OTHER -> {"done"}
    [] x \in {"Mail", "DropDefault", "DropSession"} -> {"done"}

(* The step a program is at, "done" when it has none.                      *)
Current(s) == IF s = <<>> THEN "done" ELSE Head(s)

(* The head and the tail of short programs. *)
LEMMA Cut1 ==
  ASSUME NEW a
  PROVE  LET s == <<a>>
         IN s # <<>> /\ Head(s) = a /\ Tail(s) = <<>> /\ Current(Tail(s)) = "done"
BY DEF Current

LEMMA Cut2 ==
  ASSUME NEW a, NEW b
  PROVE  LET s == <<a, b>>
         IN s # <<>> /\ Head(s) = a /\ Tail(s) = <<b>> /\ Current(Tail(s)) = b
BY DEF Current

LEMMA Cut3 ==
  ASSUME NEW a, NEW b, NEW c
  PROVE  LET s == <<a, b, c>>
         IN s # <<>> /\ Head(s) = a /\ Tail(s) = <<b, c>> /\ Current(Tail(s)) = b
BY DEF Current

LEMMA Cut4 ==
  ASSUME NEW a, NEW b, NEW c, NEW d
  PROVE  LET s == <<a, b, c, d>>
         IN s # <<>> /\ Head(s) = a /\ Tail(s) = <<b, c, d>> /\ Current(Tail(s)) = b
BY DEF Current

LEMMA Cut5 ==
  ASSUME NEW a, NEW b, NEW c, NEW d, NEW e
  PROVE  LET s == <<a, b, c, d, e>>
         IN s # <<>> /\ Head(s) = a /\ Tail(s) = <<b, c, d, e>> /\ Current(Tail(s)) = b
BY DEF Current

LEMMA Cut6 ==
  ASSUME NEW a, NEW b, NEW c, NEW d, NEW e, NEW f
  PROVE  LET s == <<a, b, c, d, e, f>>
         IN s # <<>> /\ Head(s) = a /\ Tail(s) = <<b, c, d, e, f>> /\ Current(Tail(s)) = b
BY DEF Current

LEMMA Cut7 ==
  ASSUME NEW a, NEW b, NEW c, NEW d, NEW e, NEW f, NEW g
  PROVE  LET s == <<a, b, c, d, e, f, g>>
         IN s # <<>> /\ Head(s) = a /\ Tail(s) = <<b, c, d, e, f, g>> /\ Current(Tail(s)) = b
BY DEF Current

(* Whose request it is after the step x; a set-up that commits goes on    *)
(* for the successor.                                                      *)
Goes(k, x, t, u) == IF k = "setup" /\ x = "Commit" THEN u # Default ELSE u = t

(* What stands first, what comes next, and that what is left is a program. *)
LEMMA Programs ==
  ASSUME NEW e \in BOOLEAN, NEW k \in Kinds, NEW q \in Portals, NEW t, NEW s,
         Script(e, k, q, t, s)
  PROVE  /\ s # <<>> /\ Head(s) \in Steps /\ Place(e, k, q, t, Head(s))
         /\ Current(Tail(s)) \in After(e, k, q, t, Head(s))
         /\ \A u : Tail(s) # <<>> /\ Goes(k, Head(s), t, u) => Script(e, k, q, u, Tail(s))
<1>1. CASE k = "me"
  <2>1. s \in {<<"Session", "Row">>,
                <<"Row">>}
    BY <1>1 DEF Script
  <2>2. \/ s # <<>> /\ Head(s) = "Session" /\ Tail(s) = <<"Row">> /\ Current(Tail(s)) = "Row"
        \/ s # <<>> /\ Head(s) = "Row" /\ Tail(s) = <<>> /\ Current(Tail(s)) = "done"
    <3>1. CASE s = <<"Session", "Row">>
      <4>1. s # <<>> /\ Head(s) = "Session" /\ Tail(s) = <<"Row">> /\ Current(Tail(s)) = "Row"
        BY <3>1, Cut2
      <4> QED BY <4>1
    <3>2. CASE s = <<"Row">>
      <4>1. s # <<>> /\ Head(s) = "Row" /\ Tail(s) = <<>> /\ Current(Tail(s)) = "done"
        BY <3>2, Cut1
      <4> QED BY <4>1
    <3> QED BY <2>1, <3>1, <3>2
  <2>3. Head(s) \in Steps /\ Place(e, k, q, t, Head(s))
    BY <1>1, <2>2 DEF Steps, Place
  <2>4. Current(Tail(s)) \in After(e, k, q, t, Head(s))
    BY <1>1, <2>2 DEF After
  <2>5. ASSUME NEW u, Tail(s) # <<>>, Goes(k, Head(s), t, u)
        PROVE  Script(e, k, q, u, Tail(s))
    BY <1>1, <2>2, <2>5 DEF Script, Goes
  <2>6. s # <<>>
    BY <2>2
  <2> QED BY <2>3, <2>4, <2>5, <2>6, Zenon
<1>2. CASE k = "verify" /\ q = "admin"
  <2>1. s \in {<<"Code", "Account", "DropCode", "Store">>,
                <<"Account", "DropCode", "Store">>,
                <<"DropCode", "Store">>,
                <<"Store">>}
    BY <1>2 DEF Script
  <2>2. \/ s # <<>> /\ Head(s) = "Code" /\ Tail(s) = <<"Account", "DropCode", "Store">> /\ Current(Tail(s)) = "Account"
        \/ s # <<>> /\ Head(s) = "Account" /\ Tail(s) = <<"DropCode", "Store">> /\ Current(Tail(s)) = "DropCode"
        \/ s # <<>> /\ Head(s) = "DropCode" /\ Tail(s) = <<"Store">> /\ Current(Tail(s)) = "Store"
        \/ s # <<>> /\ Head(s) = "Store" /\ Tail(s) = <<>> /\ Current(Tail(s)) = "done"
    <3>1. CASE s = <<"Code", "Account", "DropCode", "Store">>
      <4>1. s # <<>> /\ Head(s) = "Code" /\ Tail(s) = <<"Account", "DropCode", "Store">> /\ Current(Tail(s)) = "Account"
        BY <3>1, Cut4
      <4> QED BY <4>1
    <3>2. CASE s = <<"Account", "DropCode", "Store">>
      <4>1. s # <<>> /\ Head(s) = "Account" /\ Tail(s) = <<"DropCode", "Store">> /\ Current(Tail(s)) = "DropCode"
        BY <3>2, Cut3
      <4> QED BY <4>1
    <3>3. CASE s = <<"DropCode", "Store">>
      <4>1. s # <<>> /\ Head(s) = "DropCode" /\ Tail(s) = <<"Store">> /\ Current(Tail(s)) = "Store"
        BY <3>3, Cut2
      <4> QED BY <4>1
    <3>4. CASE s = <<"Store">>
      <4>1. s # <<>> /\ Head(s) = "Store" /\ Tail(s) = <<>> /\ Current(Tail(s)) = "done"
        BY <3>4, Cut1
      <4> QED BY <4>1
    <3> QED BY <2>1, <3>1, <3>2, <3>3, <3>4
  <2>3. Head(s) \in Steps /\ Place(e, k, q, t, Head(s))
    BY <1>2, <2>2 DEF Steps, Place
  <2>4. Current(Tail(s)) \in After(e, k, q, t, Head(s))
    BY <1>2, <2>2 DEF After
  <2>5. ASSUME NEW u, Tail(s) # <<>>, Goes(k, Head(s), t, u)
        PROVE  Script(e, k, q, u, Tail(s))
    BY <1>2, <2>2, <2>5 DEF Script, Goes
  <2>6. s # <<>>
    BY <2>2
  <2> QED BY <2>3, <2>4, <2>5, <2>6, Zenon
<1>3. CASE k = "verify" /\ q = "employee"
  <2>1. s \in {<<"Code", "Account", "Store", "DropCode">>,
                <<"Account", "Store", "DropCode">>,
                <<"Store", "DropCode">>,
                <<"DropCode">>}
    BY <1>3 DEF Script
  <2>2. \/ s # <<>> /\ Head(s) = "Code" /\ Tail(s) = <<"Account", "Store", "DropCode">> /\ Current(Tail(s)) = "Account"
        \/ s # <<>> /\ Head(s) = "Account" /\ Tail(s) = <<"Store", "DropCode">> /\ Current(Tail(s)) = "Store"
        \/ s # <<>> /\ Head(s) = "Store" /\ Tail(s) = <<"DropCode">> /\ Current(Tail(s)) = "DropCode"
        \/ s # <<>> /\ Head(s) = "DropCode" /\ Tail(s) = <<>> /\ Current(Tail(s)) = "done"
    <3>1. CASE s = <<"Code", "Account", "Store", "DropCode">>
      <4>1. s # <<>> /\ Head(s) = "Code" /\ Tail(s) = <<"Account", "Store", "DropCode">> /\ Current(Tail(s)) = "Account"
        BY <3>1, Cut4
      <4> QED BY <4>1
    <3>2. CASE s = <<"Account", "Store", "DropCode">>
      <4>1. s # <<>> /\ Head(s) = "Account" /\ Tail(s) = <<"Store", "DropCode">> /\ Current(Tail(s)) = "Store"
        BY <3>2, Cut3
      <4> QED BY <4>1
    <3>3. CASE s = <<"Store", "DropCode">>
      <4>1. s # <<>> /\ Head(s) = "Store" /\ Tail(s) = <<"DropCode">> /\ Current(Tail(s)) = "DropCode"
        BY <3>3, Cut2
      <4> QED BY <4>1
    <3>4. CASE s = <<"DropCode">>
      <4>1. s # <<>> /\ Head(s) = "DropCode" /\ Tail(s) = <<>> /\ Current(Tail(s)) = "done"
        BY <3>4, Cut1
      <4> QED BY <4>1
    <3> QED BY <2>1, <3>1, <3>2, <3>3, <3>4
  <2>3. Head(s) \in Steps /\ Place(e, k, q, t, Head(s))
    BY <1>3, <2>2 DEF Steps, Place
  <2>4. Current(Tail(s)) \in After(e, k, q, t, Head(s))
    BY <1>3, <2>2 DEF After
  <2>5. ASSUME NEW u, Tail(s) # <<>>, Goes(k, Head(s), t, u)
        PROVE  Script(e, k, q, u, Tail(s))
    BY <1>3, <2>2, <2>5 DEF Script, Goes
  <2>6. s # <<>>
    BY <2>2
  <2> QED BY <2>3, <2>4, <2>5, <2>6, Zenon
<1>4. CASE k \in {"resend", "forgot"}
  <2>1. s \in {<<"Mail">>}
    BY <1>4 DEF Script
  <2>2. \/ s # <<>> /\ Head(s) = "Mail" /\ Tail(s) = <<>> /\ Current(Tail(s)) = "done"
    BY <2>1, Cut1
  <2>3. Head(s) \in Steps /\ Place(e, k, q, t, Head(s))
    BY <1>4, <2>2 DEF Steps, Place
  <2>4. Current(Tail(s)) \in After(e, k, q, t, Head(s))
    BY <1>4, <2>2 DEF After
  <2>5. ASSUME NEW u, Tail(s) # <<>>, Goes(k, Head(s), t, u)
        PROVE  Script(e, k, q, u, Tail(s))
    BY <1>4, <2>2, <2>5 DEF Script, Goes
  <2>6. s # <<>>
    BY <2>2
  <2> QED BY <2>3, <2>4, <2>5, <2>6, Zenon
<1>5. CASE k = "reset"
  <2>1. s \in {<<"Code", "Commit", "DropCode">>,
                <<"Commit", "DropCode">>,
                <<"DropCode">>}
    BY <1>5 DEF Script
  <2>2. \/ s # <<>> /\ Head(s) = "Code" /\ Tail(s) = <<"Commit", "DropCode">> /\ Current(Tail(s)) = "Commit"
        \/ s # <<>> /\ Head(s) = "Commit" /\ Tail(s) = <<"DropCode">> /\ Current(Tail(s)) = "DropCode"
        \/ s # <<>> /\ Head(s) = "DropCode" /\ Tail(s) = <<>> /\ Current(Tail(s)) = "done"
    <3>1. CASE s = <<"Code", "Commit", "DropCode">>
      <4>1. s # <<>> /\ Head(s) = "Code" /\ Tail(s) = <<"Commit", "DropCode">> /\ Current(Tail(s)) = "Commit"
        BY <3>1, Cut3
      <4> QED BY <4>1
    <3>2. CASE s = <<"Commit", "DropCode">>
      <4>1. s # <<>> /\ Head(s) = "Commit" /\ Tail(s) = <<"DropCode">> /\ Current(Tail(s)) = "DropCode"
        BY <3>2, Cut2
      <4> QED BY <4>1
    <3>3. CASE s = <<"DropCode">>
      <4>1. s # <<>> /\ Head(s) = "DropCode" /\ Tail(s) = <<>> /\ Current(Tail(s)) = "done"
        BY <3>3, Cut1
      <4> QED BY <4>1
    <3> QED BY <2>1, <3>1, <3>2, <3>3
  <2>3. Head(s) \in Steps /\ Place(e, k, q, t, Head(s))
    BY <1>5, <2>2 DEF Steps, Place
  <2>4. Current(Tail(s)) \in After(e, k, q, t, Head(s))
    BY <1>5, <2>2 DEF After
  <2>5. ASSUME NEW u, Tail(s) # <<>>, Goes(k, Head(s), t, u)
        PROVE  Script(e, k, q, u, Tail(s))
    BY <1>5, <2>2, <2>5 DEF Script, Goes
  <2>6. s # <<>>
    BY <2>2
  <2> QED BY <2>3, <2>4, <2>5, <2>6, Zenon
<1>6. CASE k \in {"change", "enable"}
  <2>1. s \in {<<"Session", "Row", "Commit">>,
                <<"Row", "Commit">>,
                <<"Commit">>}
    BY <1>6 DEF Script
  <2>2. \/ s # <<>> /\ Head(s) = "Session" /\ Tail(s) = <<"Row", "Commit">> /\ Current(Tail(s)) = "Row"
        \/ s # <<>> /\ Head(s) = "Row" /\ Tail(s) = <<"Commit">> /\ Current(Tail(s)) = "Commit"
        \/ s # <<>> /\ Head(s) = "Commit" /\ Tail(s) = <<>> /\ Current(Tail(s)) = "done"
    <3>1. CASE s = <<"Session", "Row", "Commit">>
      <4>1. s # <<>> /\ Head(s) = "Session" /\ Tail(s) = <<"Row", "Commit">> /\ Current(Tail(s)) = "Row"
        BY <3>1, Cut3
      <4> QED BY <4>1
    <3>2. CASE s = <<"Row", "Commit">>
      <4>1. s # <<>> /\ Head(s) = "Row" /\ Tail(s) = <<"Commit">> /\ Current(Tail(s)) = "Commit"
        BY <3>2, Cut2
      <4> QED BY <4>1
    <3>3. CASE s = <<"Commit">>
      <4>1. s # <<>> /\ Head(s) = "Commit" /\ Tail(s) = <<>> /\ Current(Tail(s)) = "done"
        BY <3>3, Cut1
      <4> QED BY <4>1
    <3> QED BY <2>1, <3>1, <3>2, <3>3
  <2>3. Head(s) \in Steps /\ Place(e, k, q, t, Head(s))
    BY <1>6, <2>2 DEF Steps, Place
  <2>4. Current(Tail(s)) \in After(e, k, q, t, Head(s))
    BY <1>6, <2>2 DEF After
  <2>5. ASSUME NEW u, Tail(s) # <<>>, Goes(k, Head(s), t, u)
        PROVE  Script(e, k, q, u, Tail(s))
    BY <1>6, <2>2, <2>5 DEF Script, Goes
  <2>6. s # <<>>
    BY <2>2
  <2> QED BY <2>3, <2>4, <2>5, <2>6, Zenon
<1>7. CASE k = "setup" /\ t = Default
  <2>1. s \in {<<"Session", "Row", "Insert", "Forget", "Commit", "Store", "DropDefault">>,
                <<"Row", "Insert", "Forget", "Commit", "Store", "DropDefault">>,
                <<"Insert", "Forget", "Commit", "Store", "DropDefault">>,
                <<"Forget", "Commit", "Store", "DropDefault">>,
                <<"Commit", "Store", "DropDefault">>}
    BY <1>7 DEF Script
  <2>2. \/ s # <<>> /\ Head(s) = "Session" /\ Tail(s) = <<"Row", "Insert", "Forget", "Commit", "Store", "DropDefault">> /\ Current(Tail(s)) = "Row"
        \/ s # <<>> /\ Head(s) = "Row" /\ Tail(s) = <<"Insert", "Forget", "Commit", "Store", "DropDefault">> /\ Current(Tail(s)) = "Insert"
        \/ s # <<>> /\ Head(s) = "Insert" /\ Tail(s) = <<"Forget", "Commit", "Store", "DropDefault">> /\ Current(Tail(s)) = "Forget"
        \/ s # <<>> /\ Head(s) = "Forget" /\ Tail(s) = <<"Commit", "Store", "DropDefault">> /\ Current(Tail(s)) = "Commit"
        \/ s # <<>> /\ Head(s) = "Commit" /\ Tail(s) = <<"Store", "DropDefault">> /\ Current(Tail(s)) = "Store"
    <3>1. CASE s = <<"Session", "Row", "Insert", "Forget", "Commit", "Store", "DropDefault">>
      <4>1. s # <<>> /\ Head(s) = "Session" /\ Tail(s) = <<"Row", "Insert", "Forget", "Commit", "Store", "DropDefault">> /\ Current(Tail(s)) = "Row"
        BY <3>1, Cut7
      <4> QED BY <4>1
    <3>2. CASE s = <<"Row", "Insert", "Forget", "Commit", "Store", "DropDefault">>
      <4>1. s # <<>> /\ Head(s) = "Row" /\ Tail(s) = <<"Insert", "Forget", "Commit", "Store", "DropDefault">> /\ Current(Tail(s)) = "Insert"
        BY <3>2, Cut6
      <4> QED BY <4>1
    <3>3. CASE s = <<"Insert", "Forget", "Commit", "Store", "DropDefault">>
      <4>1. s # <<>> /\ Head(s) = "Insert" /\ Tail(s) = <<"Forget", "Commit", "Store", "DropDefault">> /\ Current(Tail(s)) = "Forget"
        BY <3>3, Cut5
      <4> QED BY <4>1
    <3>4. CASE s = <<"Forget", "Commit", "Store", "DropDefault">>
      <4>1. s # <<>> /\ Head(s) = "Forget" /\ Tail(s) = <<"Commit", "Store", "DropDefault">> /\ Current(Tail(s)) = "Commit"
        BY <3>4, Cut4
      <4> QED BY <4>1
    <3>5. CASE s = <<"Commit", "Store", "DropDefault">>
      <4>1. s # <<>> /\ Head(s) = "Commit" /\ Tail(s) = <<"Store", "DropDefault">> /\ Current(Tail(s)) = "Store"
        BY <3>5, Cut3
      <4> QED BY <4>1
    <3> QED BY <2>1, <3>1, <3>2, <3>3, <3>4, <3>5
  <2>3. Head(s) \in Steps /\ Place(e, k, q, t, Head(s))
    BY <1>7, <2>2 DEF Steps, Place
  <2>4. Current(Tail(s)) \in After(e, k, q, t, Head(s))
    BY <1>7, <2>2 DEF After
  <2>5. ASSUME NEW u, Tail(s) # <<>>, Goes(k, Head(s), t, u)
        PROVE  Script(e, k, q, u, Tail(s))
    BY <1>7, <2>2, <2>5 DEF Script, Goes
  <2>6. s # <<>>
    BY <2>2
  <2> QED BY <2>3, <2>4, <2>5, <2>6, Zenon
<1>8. CASE k = "setup" /\ t # Default
  <2>1. s \in {<<"Session", "Row", "Commit", "Store">>,
                <<"Row", "Commit", "Store">>,
                <<"Commit", "Store">>,
                <<"Store">>,
                <<"Store", "DropDefault">>,
                <<"DropDefault">>}
    BY <1>8 DEF Script
  <2>2. \/ s # <<>> /\ Head(s) = "Session" /\ Tail(s) = <<"Row", "Commit", "Store">> /\ Current(Tail(s)) = "Row"
        \/ s # <<>> /\ Head(s) = "Row" /\ Tail(s) = <<"Commit", "Store">> /\ Current(Tail(s)) = "Commit"
        \/ s # <<>> /\ Head(s) = "Commit" /\ Tail(s) = <<"Store">> /\ Current(Tail(s)) = "Store"
        \/ s # <<>> /\ Head(s) = "Store" /\ Tail(s) = <<>> /\ Current(Tail(s)) = "done"
        \/ s # <<>> /\ Head(s) = "Store" /\ Tail(s) = <<"DropDefault">> /\ Current(Tail(s)) = "DropDefault"
        \/ s # <<>> /\ Head(s) = "DropDefault" /\ Tail(s) = <<>> /\ Current(Tail(s)) = "done"
    <3>1. CASE s = <<"Session", "Row", "Commit", "Store">>
      <4>1. s # <<>> /\ Head(s) = "Session" /\ Tail(s) = <<"Row", "Commit", "Store">> /\ Current(Tail(s)) = "Row"
        BY <3>1, Cut4
      <4> QED BY <4>1
    <3>2. CASE s = <<"Row", "Commit", "Store">>
      <4>1. s # <<>> /\ Head(s) = "Row" /\ Tail(s) = <<"Commit", "Store">> /\ Current(Tail(s)) = "Commit"
        BY <3>2, Cut3
      <4> QED BY <4>1
    <3>3. CASE s = <<"Commit", "Store">>
      <4>1. s # <<>> /\ Head(s) = "Commit" /\ Tail(s) = <<"Store">> /\ Current(Tail(s)) = "Store"
        BY <3>3, Cut2
      <4> QED BY <4>1
    <3>4. CASE s = <<"Store">>
      <4>1. s # <<>> /\ Head(s) = "Store" /\ Tail(s) = <<>> /\ Current(Tail(s)) = "done"
        BY <3>4, Cut1
      <4> QED BY <4>1
    <3>5. CASE s = <<"Store", "DropDefault">>
      <4>1. s # <<>> /\ Head(s) = "Store" /\ Tail(s) = <<"DropDefault">> /\ Current(Tail(s)) = "DropDefault"
        BY <3>5, Cut2
      <4> QED BY <4>1
    <3>6. CASE s = <<"DropDefault">>
      <4>1. s # <<>> /\ Head(s) = "DropDefault" /\ Tail(s) = <<>> /\ Current(Tail(s)) = "done"
        BY <3>6, Cut1
      <4> QED BY <4>1
    <3> QED BY <2>1, <3>1, <3>2, <3>3, <3>4, <3>5, <3>6
  <2>3. Head(s) \in Steps /\ Place(e, k, q, t, Head(s))
    BY <1>8, <2>2 DEF Steps, Place
  <2>4. Current(Tail(s)) \in After(e, k, q, t, Head(s))
    BY <1>8, <2>2 DEF After
  <2>5. ASSUME NEW u, Tail(s) # <<>>, Goes(k, Head(s), t, u)
        PROVE  Script(e, k, q, u, Tail(s))
    BY <1>8, <2>2, <2>5 DEF Script, Goes
  <2>6. s # <<>>
    BY <2>2
  <2> QED BY <2>3, <2>4, <2>5, <2>6, Zenon
<1>9. CASE k \in {"none", "logout"}
  <2>1. k = "logout" /\ s \in {<<"DropSession">>}
    BY <1>9 DEF Script
  <2>2. \/ s # <<>> /\ Head(s) = "DropSession" /\ Tail(s) = <<>> /\ Current(Tail(s)) = "done"
    BY <2>1, Cut1
  <2>3. Head(s) \in Steps /\ Place(e, k, q, t, Head(s))
    BY <1>9, <2>1, <2>2 DEF Steps, Place
  <2>4. Current(Tail(s)) \in After(e, k, q, t, Head(s))
    BY <1>9, <2>2 DEF After
  <2>5. ASSUME NEW u, Tail(s) # <<>>, Goes(k, Head(s), t, u)
        PROVE  Script(e, k, q, u, Tail(s))
    BY <1>9, <2>2, <2>5 DEF Script, Goes
  <2>6. s # <<>>
    BY <2>2
  <2> QED BY <2>3, <2>4, <2>5, <2>6, Zenon
<1>10. CASE k = "login"
  <2> DEFINE f == Final(e, t)
  <2>0. f \in {"Mail", "Store"} /\ (f = "Mail" <=> e /\ t # Default)
    BY DEF Final
  <2>1. \/ s = <<"Password", f>>
        \/ s = <<f>>
        \/ q = "admin" /\ s = <<"SeedRead", "Password", f>>
        \/ q = "admin" /\ s = <<"SeedSet", "Password", f>>
    BY <1>10 DEF Script
  <2> HIDE DEF f
  <2>2. \/ s # <<>> /\ Head(s) = "Password" /\ Tail(s) = <<f>> /\ Current(Tail(s)) = f
        \/ s # <<>> /\ Head(s) = f /\ Tail(s) = <<>> /\ Current(Tail(s)) = "done"
        \/ /\ q = "admin" /\ s # <<>> /\ Head(s) \in {"SeedRead", "SeedSet"}
           /\ Tail(s) = <<"Password", f>> /\ Current(Tail(s)) = "Password"
    <3>1. CASE s = <<"Password", f>>
      BY <3>1, Cut2
    <3>2. CASE s = <<f>>
      BY <3>2, Cut1
    <3>3. CASE q = "admin" /\ s = <<"SeedRead", "Password", f>>
      BY <3>3, Cut3
    <3>4. CASE q = "admin" /\ s = <<"SeedSet", "Password", f>>
      BY <3>4, Cut3
    <3> QED BY <2>1, <3>1, <3>2, <3>3, <3>4
  <2>3. Head(s) \in Steps /\ Place(e, k, q, t, Head(s))
    BY <1>10, <2>0, <2>2 DEF Steps, Place
  <2>4. Current(Tail(s)) \in After(e, k, q, t, Head(s))
    BY <1>10, <2>0, <2>2 DEF After, f
  <2>5. ASSUME NEW u, Tail(s) # <<>>, Goes(k, Head(s), t, u)
        PROVE  Script(e, k, q, u, Tail(s))
    <3>1. Tail(s) \in {<<"Password", f>>, <<f>>}
      BY <2>2, <2>5
    <3> QED BY <1>10, <2>5, <3>1 DEF Script, f, Goes
  <2>6. s # <<>>
    BY <2>2
  <2> QED BY <1>10, <2>3, <2>4, <2>5, <2>6, Zenon
<1> QED BY <1>1, <1>2, <1>3, <1>4, <1>5, <1>6, <1>7, <1>8, <1>9, <1>10 DEF Kinds, Portals

(* Programs are sequences of steps, also those that are put together.      *)
LEMMA ShortPrograms ==
  ASSUME NEW a \in Steps, NEW b \in Steps, NEW c \in Steps, NEW d \in Steps
  PROVE  /\ {<<>>, <<a>>, <<a, b>>, <<a, b, c>>, <<a, b, c, d>>} \subseteq Seq(Steps)
         /\ <<a>> \o <<b>> = <<a, b>>
         /\ <<a>> \o <<b, c>> = <<a, b, c>>
         /\ <<a, b>> \o <<c>> = <<a, b, c>>
<1>1. /\ <<a>> \in Seq(Steps) /\ Len(<<a>>) = 1 /\ <<a>>[1] = a
      /\ <<b>> \in Seq(Steps) /\ Len(<<b>>) = 1 /\ <<b>>[1] = b
      /\ <<c>> \in Seq(Steps) /\ Len(<<c>>) = 1 /\ <<c>>[1] = c
  OBVIOUS
<1>2. /\ <<a, b>> \in Seq(Steps) /\ Len(<<a, b>>) = 2 /\ <<a, b>>[1] = a /\ <<a, b>>[2] = b
      /\ <<b, c>> \in Seq(Steps) /\ Len(<<b, c>>) = 2 /\ <<b, c>>[1] = b /\ <<b, c>>[2] = c
  OBVIOUS
<1>3. <<a, b, c>> \in Seq(Steps) /\ Len(<<a, b, c>>) = 3
      /\ <<a, b, c>>[1] = a /\ <<a, b, c>>[2] = b /\ <<a, b, c>>[3] = c
  OBVIOUS
<1>4. <<a, b, c, d>> \in Seq(Steps)
  <2>1. <<a, b, c, d>> \in [1..4 -> Steps]
    OBVIOUS
  <2> QED BY <2>1, SeqDef, Zenon
<1>5. ASSUME NEW s \in Seq(Steps), NEW t \in Seq(Steps), NEW u \in Seq(Steps),
             Len(u) = Len(s) + Len(t),
             \A i \in 1..Len(u) : u[i] = IF i <= Len(s) THEN s[i] ELSE t[i - Len(s)]
      PROVE  s \o t = u
  <2>1. /\ s \o t \in Seq(Steps) /\ Len(s \o t) = Len(s) + Len(t)
        /\ \A i \in 1..Len(s) + Len(t) : (s \o t)[i] = IF i <= Len(s) THEN s[i] ELSE t[i - Len(s)]
    BY ConcatProperties
  <2> QED BY <1>5, <2>1, SeqEqual
<1>6. <<a>> \o <<b>> = <<a, b>>
  <2> DEFINE s == <<a>>
             t == <<b>>
             u == <<a, b>>
  <2>1. /\ s \in Seq(Steps) /\ t \in Seq(Steps) /\ u \in Seq(Steps) /\ Len(u) = Len(s) + Len(t)
        /\ \A i \in 1..Len(u) : u[i] = IF i <= Len(s) THEN s[i] ELSE t[i - Len(s)]
    <3>1. \A i \in 1..2 : <<a, b>>[i] = IF i <= 1 THEN <<a>>[i] ELSE <<b>>[i - 1]
      OBVIOUS
    <3> QED BY <1>1, <1>2, <1>3, <3>1
  <2> HIDE DEF s, t, u
  <2>2. s \o t = u
    BY <1>5, <2>1
  <2> QED BY <2>2 DEF s, t, u
<1>7. <<a>> \o <<b, c>> = <<a, b, c>>
  <2> DEFINE s == <<a>>
             t == <<b, c>>
             u == <<a, b, c>>
  <2>1. /\ s \in Seq(Steps) /\ t \in Seq(Steps) /\ u \in Seq(Steps) /\ Len(u) = Len(s) + Len(t)
        /\ \A i \in 1..Len(u) : u[i] = IF i <= Len(s) THEN s[i] ELSE t[i - Len(s)]
    <3>1. \A i \in 1..3 : <<a, b, c>>[i] = IF i <= 1 THEN <<a>>[i] ELSE <<b, c>>[i - 1]
      OBVIOUS
    <3> QED BY <1>1, <1>2, <1>3, <3>1
  <2> HIDE DEF s, t, u
  <2>2. s \o t = u
    BY <1>5, <2>1
  <2> QED BY <2>2 DEF s, t, u
<1>8. <<a, b>> \o <<c>> = <<a, b, c>>
  <2> DEFINE s == <<a, b>>
             t == <<c>>
             u == <<a, b, c>>
  <2>1. /\ s \in Seq(Steps) /\ t \in Seq(Steps) /\ u \in Seq(Steps) /\ Len(u) = Len(s) + Len(t)
        /\ \A i \in 1..Len(u) : u[i] = IF i <= Len(s) THEN s[i] ELSE t[i - Len(s)]
    <3>1. \A i \in 1..3 : <<a, b, c>>[i] = IF i <= 2 THEN <<a, b>>[i] ELSE <<c>>[i - 2]
      OBVIOUS
    <3> QED BY <1>1, <1>2, <1>3, <3>1
  <2> HIDE DEF s, t, u
  <2>2. s \o t = u
    BY <1>5, <2>1
  <2> QED BY <2>2 DEF s, t, u
<1> QED BY <1>1, <1>2, <1>3, <1>4, <1>6, <1>7, <1>8

(* The step a handler starts with.                                         *)
Start(k, q) ==
  CASE k \in {"me", "change", "enable", "setup"} -> "Session"
    [] k = "login" -> IF q = "admin" THEN "SeedRead" ELSE "Password"
    [] k \in {"verify", "reset"} -> "Code"
    [] k \in {"resend", "forgot"} -> "Mail"
    [] k = "logout" -> "DropSession"

LEMMA Handlers ==
  ASSUME emailOtp \in BOOLEAN, NEW k \in Kinds \ {"none"}, NEW q \in Portals, NEW t
  PROVE  /\ Handler(k, q, t) \in Seq(Steps)
         /\ Handler(k, q, t) = <<>> <=> k = "logout" /\ t = NoOne
         /\ Handler(k, q, t) # <<>> => /\ Script(emailOtp, k, q, t, Handler(k, q, t))
                                       /\ Head(Handler(k, q, t)) = Start(k, q)
<1> DEFINE h == Handler(k, q, t)
           Done == /\ h \in Seq(Steps)
                   /\ h # <<>> /\ Script(emailOtp, k, q, t, h) /\ Head(h) = Start(k, q)
<1>0. {"Session", "Row", "SeedRead", "SeedSet", "Password", "Mail", "Code", "Account",
       "Insert", "Forget", "Commit", "Store", "DropCode", "DropDefault", "DropSession"} = Steps
  BY DEF Steps
<1>1. CASE k = "me"
  <2>1. h = <<"Session", "Row">>
    BY <1>1 DEF Handler
  <2>2. h \in Seq(Steps) /\ h # <<>> /\ Head(h) = "Session"
    BY <1>0, <2>1, Cut2, ShortPrograms
  <2>3. Done
    BY <1>1, <2>1, <2>2 DEF Script, Start
  <2> QED BY <1>1, <2>3
<1>2. CASE k = "login"
  <2> DEFINE f == Final(emailOtp, t)
  <2>1. f \in Steps /\ Enter(t) = <<f>>
    BY <1>0 DEF Final, Enter
  <2>2. h = IF q = "admin" THEN <<"SeedRead", "Password", f>> ELSE <<"Password", f>>
    <3> HIDE DEF f
    <3>1. h = (IF q = "admin" THEN <<"SeedRead", "Password">> ELSE <<"Password">>) \o <<f>>
      BY <1>2, <2>1 DEF Handler
    <3>2. "SeedRead" \in Steps /\ "Password" \in Steps
      BY <1>0
    <3>3. /\ <<"SeedRead", "Password">> \o <<f>> = <<"SeedRead", "Password", f>>
          /\ <<"Password">> \o <<f>> = <<"Password", f>>
      BY <2>1, <3>2, ShortPrograms
    <3> QED BY <3>1, <3>3
  <2>3. h # <<>> /\ Head(h) = Start(k, q)
    BY <1>2, <2>2, Cut2, Cut3 DEF Start
  <2>4. h \in Seq(Steps)
    <3> HIDE DEF f
    <3>1. "SeedRead" \in Steps /\ "Password" \in Steps
      BY <1>0
    <3> QED BY <2>1, <2>2, <3>1, ShortPrograms
  <2>5. Script(emailOtp, k, q, t, h)
    BY <1>2, <2>2 DEF Script
  <2> QED BY <1>2, <2>3, <2>4, <2>5
<1>3. CASE k = "verify"
  <2>1. h = IF q = "admin" THEN <<"Code", "Account", "DropCode", "Store">>
            ELSE <<"Code", "Account", "Store", "DropCode">>
    BY <1>3 DEF Handler
  <2>2. h \in Seq(Steps) /\ h # <<>> /\ Head(h) = "Code"
    BY <1>0, <2>1, Cut4, ShortPrograms
  <2>3. Done
    BY <1>3, <2>1, <2>2 DEF Script, Start, Portals
  <2> QED BY <1>3, <2>3
<1>4. CASE k \in {"resend", "forgot"}
  <2>1. h = <<"Mail">>
    BY <1>4 DEF Handler
  <2>2. h \in Seq(Steps) /\ h # <<>> /\ Head(h) = "Mail"
    BY <1>0, <2>1, Cut1, ShortPrograms
  <2>3. Done
    BY <1>4, <2>1, <2>2 DEF Script, Start
  <2> QED BY <1>4, <2>3
<1>5. CASE k = "reset"
  <2>1. h = <<"Code", "Commit", "DropCode">>
    BY <1>5 DEF Handler
  <2>2. h \in Seq(Steps) /\ h # <<>> /\ Head(h) = "Code"
    BY <1>0, <2>1, Cut3, ShortPrograms
  <2>3. Done
    BY <1>5, <2>1, <2>2 DEF Script, Start
  <2> QED BY <1>5, <2>3
<1>6. CASE k \in {"change", "enable"}
  <2>1. h = <<"Session", "Row", "Commit">>
    BY <1>6 DEF Handler
  <2>2. h \in Seq(Steps) /\ h # <<>> /\ Head(h) = "Session"
    BY <1>0, <2>1, Cut3, ShortPrograms
  <2>3. Done
    BY <1>6, <2>1, <2>2 DEF Script, Start
  <2> QED BY <1>6, <2>3
<1>7. CASE k = "setup" /\ t = Default
  <2>1. h = <<"Session", "Row", "Insert", "Forget", "Commit", "Store", "DropDefault">>
    BY <1>7 DEF Handler, Setup
  <2>2. h \in Seq(Steps)
    <3>1. h \in [1..7 -> Steps]
      BY <2>1 DEF Steps
    <3> QED BY <3>1, SeqDef, Zenon
  <2>3. h # <<>> /\ Head(h) = "Session"
    BY <2>1, Cut7
  <2>4. Done
    BY <1>7, <2>1, <2>2, <2>3 DEF Script, Start
  <2> QED BY <1>7, <2>4
<1>8. CASE k = "setup" /\ t # Default
  <2>1. h = <<"Session", "Row", "Commit", "Store">>
    BY <1>8 DEF Handler, Setup
  <2>2. h \in Seq(Steps) /\ h # <<>> /\ Head(h) = "Session"
    BY <1>0, <2>1, Cut4, ShortPrograms
  <2>3. Done
    BY <1>8, <2>1, <2>2 DEF Script, Start
  <2> QED BY <1>8, <2>3
<1>9. CASE k = "logout"
  <2>1. h = IF t = NoOne THEN <<>> ELSE <<"DropSession">>
    BY <1>9 DEF Handler
  <2>2. /\ h \in Seq(Steps)
        /\ t = NoOne => h = <<>>
        /\ t # NoOne => h # <<>> /\ h = <<"DropSession">> /\ Head(h) = "DropSession"
    BY <1>0, <2>1, Cut1, ShortPrograms
  <2>3. t # NoOne => Done
    BY <1>9, <2>1, <2>2 DEF Script, Start
  <2> QED BY <1>9, <2>2, <2>3
<1> QED BY <1>1, <1>2, <1>3, <1>4, <1>5, <1>6, <1>7, <1>8, <1>9 DEF Kinds

-----------------------------------------------------------------------------
(* What is known of a request in flight.                                   *)
Now(r) == IF r.status = "open" /\ r.todo # <<>> THEN Head(r.todo) ELSE "done"

Underway(e, r) ==
  r.status = "open" => r.todo # <<>> /\ Script(e, r.kind, r.portal, r.who, r.todo)

TokenWho(r) == IF r.token = NoOne THEN NoOne ELSE r.token.who
Own(r) == r.token # NoOne /\ r.token.who = r.who

(* Entered, when ENABLE_EMAIL_OTP is e.                                    *)
Enters(e, r) == r.kind \in {"verify", "setup"} \/ (r.kind = "login" /\ ~(e /\ r.who # Default))

(* What a handler has found out by the step it is at, e being              *)
(* ENABLE_EMAIL_OTP; the rows it has found may be gone.                    *)
Knows(e, r) ==
  /\ Underway(e, r)
  /\ r.kind \in {"reset", "change", "setup", "enable"} => r.new \in Passwords
  /\ r.kind \in {"setup", "enable"} => r.portal = "admin"
  /\ r.kind \in {"me", "change", "enable", "logout"} \/ Now(r) = "Session" => r.who = TokenWho(r)
  /\ Now(r) = "Row" => Own(r) /\ (r.portal = "employee" => r.who \in People)
  /\ r.kind = "setup" /\ r.who = Default => r.ticket \in People
  /\ Now(r) = "Commit" /\ ~(r.kind = "setup" /\ r.who = Default) => r.who \in People
  /\ Now(r) = "Account" => r.who \in People
  /\ Now(r) = "Store" \/ (Now(r) = "DropCode" /\ r.kind = "verify" /\ r.portal = "admin")
       => r.who \in Tickets /\ r.nonce # 0 /\ (r.portal = "employee" => r.who \in People)
  /\ \/ Now(r) = "DropDefault"
     \/ Now(r) = "DropCode" /\ r.kind = "verify" /\ r.portal = "employee"
     \/ r.status = "ok" /\ Enters(e, r)
     => Own(r)
  /\ r.portal = "employee" /\ r.kind \in {"login", "verify"} => ~r.flag

(* How the page p and the cookies c of a browser fit the request r.        *)
Matches(p, r, c) ==
  /\ r.kind # "none" => r.portal = PortalOf(p.at)
  /\ p.stage \in {"check", "load"} => r.kind = "me"
  /\ r.kind = "me" => p.at \in {"login", "dashboard", "adminLogin", "adminDashboard"}
  /\ r.kind \in {"login", "verify"} /\ r.portal = "admin" => p.who = r.who
  /\ p.at = "setup" /\ c.admin # NoOne => c.admin.who = p.who
  /\ r.kind = "setup" => p.at = "setup"
  /\ r.kind \in {"me", "change", "enable", "logout"} => c[r.portal] \in {NoOne, r.token}

(* Nobody signs in to the employee portal as the default administrator.    *)
Stored == session["employee"][Default] = NoOne

Shape ==
  /\ TypeOK /\ Stored
  /\ \A b \in Browsers : Knows(emailOtp, req[b]) /\ Matches(page[b], req[b], cookie[b])

(* The fields that a request is sent with, and those it is given.          *)
Sent(r, n) == /\ n.kind = r.kind /\ n.portal = r.portal /\ n.pwd = r.pwd /\ n.new = r.new
              /\ n.ticket = r.ticket /\ n.code = r.code /\ n.lag = r.lag
Given(r, n) == n.nonce = r.nonce /\ n.flag = r.flag /\ n.clean = r.clean

(* n is the request r after the step s of its handler.                     *)
Advances(e, r, n, s) ==
  /\ Place(e, r.kind, r.portal, r.who, s)
  /\ Sent(r, n) /\ Given(r, n) /\ n.who = r.who /\ n.token = r.token
  /\ Now(n) \in After(e, r.kind, r.portal, r.who, s)
  /\ n.status = IF Now(n) = "done" THEN "ok" ELSE "open"
  /\ n.status = "open" => n.todo # <<>>
  /\ \A u : n.status = "open" /\ Goes(r.kind, s, r.who, u)
              => Script(e, r.kind, r.portal, u, n.todo)

LEMMA EnteredIs ==
  ASSUME emailOtp \in BOOLEAN, NEW r
  PROVE  Entered(r) <=> Enters(emailOtp, r)
<1>1. <<"Mail">> # <<"Store">>
  BY Cut1
<1> QED BY <1>1 DEF Entered, Enters, Enter

(* A handler that goes on.                                                 *)
LEMMA Onward ==
  ASSUME NEW r \in Request, NEW e \in BOOLEAN, Underway(e, r), r.status = "open"
  PROVE  /\ Past(r) \in Request /\ Now(r) \in Steps /\ Now(r) = Head(r.todo)
         /\ Advances(e, r, Past(r), Now(r))
<1> DEFINE n == Past(r)
           s == r.todo
<1>1. /\ r.kind \in Kinds /\ r.portal \in Portals /\ s \in Seq(Steps)
      /\ s # <<>> /\ Script(e, r.kind, r.portal, r.who, s)
  BY DEF Request, Underway
<1>2. /\ Head(s) \in Steps /\ Place(e, r.kind, r.portal, r.who, Head(s))
      /\ Current(Tail(s)) \in After(e, r.kind, r.portal, r.who, Head(s))
      /\ \A u : Tail(s) # <<>> /\ Goes(r.kind, Head(s), r.who, u)
                  => Script(e, r.kind, r.portal, u, Tail(s))
  BY <1>1, Programs, Z3
<1>3. Tail(s) \in Seq(Steps)
  BY <1>1
<1>4. n = [r EXCEPT !.todo = Tail(s), !.status = IF Tail(s) = <<>> THEN "ok" ELSE "open"]
  BY DEF Past
<1>5. /\ n \in Request /\ Sent(r, n) /\ Given(r, n) /\ n.who = r.who /\ n.token = r.token
      /\ n.todo = Tail(s) /\ n.status = IF Tail(s) = <<>> THEN "ok" ELSE "open"
  BY <1>3, <1>4, ZenonT(60) DEF Request, Sent, Given
<1>6. Now(r) = Head(s)
  BY <1>1 DEF Now
<1>7. Now(n) = Current(Tail(s)) /\ (Now(n) = "done" <=> Tail(s) = <<>>)
  <2>1. CASE Tail(s) = <<>>
    BY <1>5, <2>1 DEF Now, Current
  <2>2. CASE Tail(s) # <<>>
    <3>1. Head(Tail(s)) \in Steps
      BY <1>3, <2>2
    <3>2. "done" \notin Steps
      BY DEF Steps
    <3> QED BY <1>5, <2>2, <3>1, <3>2 DEF Now, Current
  <2> QED BY <2>1, <2>2
<1> HIDE DEF n, s
<1>8. /\ Now(r) \in Steps /\ Place(e, r.kind, r.portal, r.who, Now(r))
      /\ Now(n) \in After(e, r.kind, r.portal, r.who, Now(r))
  BY <1>2, <1>6, <1>7
<1>9. n.status = IF Now(n) = "done" THEN "ok" ELSE "open"
  BY <1>5, <1>7
<1>10. n.status = "open" => n.todo # <<>>
  BY <1>5
<1>11. ASSUME NEW u, n.status = "open", Goes(r.kind, Now(r), r.who, u)
       PROVE  Script(e, r.kind, r.portal, u, n.todo)
  <2>1. Tail(s) # <<>> /\ Goes(r.kind, Head(s), r.who, u)
    BY <1>5, <1>6, <1>11
  <2>2. Script(e, r.kind, r.portal, u, Tail(s))
    BY <1>2, <2>1
  <2> QED BY <1>5, <2>2
<1>12. Advances(e, r, n, Now(r))
  BY <1>5, <1>8, <1>9, <1>10, <1>11, Zenon DEF Advances
<1> QED BY <1>5, <1>6, <1>8, <1>12, Zenon DEF n, s

LEMMA Continue ==
  ASSUME Shape, NEW b \in Browsers, NEW s \in Steps, At(b, s)
  PROVE  /\ req[b] \in Request /\ req[b].status = "open" /\ Now(req[b]) = s
         /\ Past(req[b]) \in Request
         /\ Advances(emailOtp, req[b], Past(req[b]), s)
<1> DEFINE r == req[b]
<1>1. r \in Request /\ emailOtp \in BOOLEAN /\ Underway(emailOtp, r)
  BY DEF Shape, TypeOK, Knows
<1>2. r.status = "open" /\ Now(r) = s
  BY DEF At, Now
<1> HIDE DEF r
<1>3. Past(r) \in Request /\ Advances(emailOtp, r, Past(r), Now(r))
  BY <1>1, <1>2, Onward
<1> QED BY <1>1, <1>2, <1>3 DEF r

(* A handler that answers with an error.                                   *)
Errors == {"400", "401", "403", "422", "error"}

LEMMA Refusal ==
  ASSUME NEW r \in Request, NEW st \in Errors
  PROVE  LET n == Refused(r, st)
         IN /\ n \in Request /\ Sent(r, n) /\ Given(r, n) /\ n.who = r.who /\ n.token = r.token
            /\ n.status = st /\ Now(n) = "done"
            /\ \A e : Knows(e, r) => Knows(e, n)
<1> DEFINE n == Refused(r, st)
<1>1. n = [r EXCEPT !.todo = <<>>, !.status = st]
  BY DEF Refused
<1>2. <<>> \in Seq(Steps)
  OBVIOUS
<1>3. st # "open" /\ st # "ok"
  BY DEF Errors
<1>4. /\ n \in Request /\ Sent(r, n) /\ Given(r, n) /\ n.who = r.who /\ n.token = r.token
      /\ n.status = st
  BY <1>1, <1>2, ZenonT(60) DEF Request, Sent, Given, Errors
<1>5. Now(n) = "done"
  BY <1>3, <1>4 DEF Now
<1>6. ASSUME NEW e, Knows(e, r)
      PROVE  Knows(e, n)
  <2> HIDE DEF n
  <2> QED BY <1>3, <1>4, <1>5, <1>6 DEF Knows, Underway, Sent, Given, Enters, TokenWho, Own
<1> QED BY <1>4, <1>5, <1>6

(* A request that has been overtaken by another one.                       *)
LEMMA Overtaken ==
  ASSUME NEW r \in Request, NEW n, n = [r EXCEPT !.clean = FALSE]
  PROVE  /\ n \in Request /\ Sent(r, n) /\ n.who = r.who /\ n.token = r.token /\ n.todo = r.todo
         /\ n.nonce = r.nonce /\ n.flag = r.flag /\ n.status = r.status /\ Now(n) = Now(r)
         /\ ~n.clean
BY DEF Request, Sent, Now

(* The step of one handler: its request becomes n, others are overtaken.   *)
Turn(b, n) ==
  /\ req' \in [Browsers -> Request] /\ req'[b] = n
  /\ \A x \in Browsers \ {b} : req'[x] = req[x] \/ req'[x] = [req[x] EXCEPT !.clean = FALSE]

LEMMA ProceedTurns ==
  ASSUME TypeOK, NEW b \in Browsers, NEW n \in Request, Proceed(b, n)
  PROVE  Turn(b, n) /\ signedIn' = signedIn
BY DEF TypeOK, Proceed, Turn

LEMMA EndingTurns ==
  ASSUME TypeOK, NEW b \in Browsers, NEW n \in Request, NEW q \in Portals, NEW t,
         Ending(b, n, q, t)
  PROVE  /\ Turn(b, n)
         /\ signedIn' \in [Browsers -> [Portals -> BOOLEAN]]
         /\ \A x \in Browsers, p \in Portals :
              signedIn'[x][p] => /\ signedIn[x][p]
                                 /\ p = q /\ cookie[x][p] # NoOne => cookie[x][p].who # t
         /\ \A x \in Browsers, p \in Portals :
              signedIn[x][p] /\ ~(p = q /\ cookie[x][p] # NoOne /\ cookie[x][p].who = t)
                => signedIn'[x][p]
         /\ \A x \in Browsers \ {b} : req[x].portal = q /\ req[x].who = t => ~req'[x].clean
<1>1. /\ req \in [Browsers -> Request] /\ signedIn \in [Browsers -> [Portals -> BOOLEAN]]
  BY DEF TypeOK
<1>2. req' = [x \in Browsers |->
               CASE x = b -> n
                 [] x # b /\ req[x].portal = q /\ req[x].who = t -> [req[x] EXCEPT !.clean = FALSE]
                 [] OTHER -> req[x]]
  BY DEF Ending
<1>3. signedIn' = [x \in Browsers |-> [signedIn[x] EXCEPT ![q] =
                    @ /\ ~(cookie[x][q] # NoOne /\ cookie[x][q].who = t)]]
  BY DEF Ending
<1>4. /\ req'[b] = n
      /\ \A x \in Browsers \ {b} : req'[x] = IF req[x].portal = q /\ req[x].who = t
                                            THEN [req[x] EXCEPT !.clean = FALSE] ELSE req[x]
  BY <1>2
<1>5. req' \in [Browsers -> Request]
  <2>1. \A x \in Browsers : req'[x] \in Request
    BY <1>1, <1>4, Overtaken
  <2> QED BY <1>2, <2>1
<1>6. \A x \in Browsers \ {b} : req[x].portal = q /\ req[x].who = t => ~req'[x].clean
  BY <1>1, <1>4, Overtaken, ZenonT(60)
<1>7. signedIn' \in [Browsers -> [Portals -> BOOLEAN]]
  BY <1>1, <1>3
<1>8. \A x \in Browsers, p \in Portals :
        signedIn'[x][p] <=> /\ signedIn[x][p]
                            /\ ~(p = q /\ cookie[x][p] # NoOne /\ cookie[x][p].who = t)
  BY <1>1, <1>3
<1> QED BY <1>4, <1>5, <1>6, <1>7, <1>8 DEF Turn

(* What is known of a request stays known when others overtake it; a step  *)
(* of its own handler has to find out anew.                                *)
LEMMA StaysKnown ==
  ASSUME NEW e, NEW r \in Request, Knows(e, r), NEW n, n = [r EXCEPT !.clean = FALSE]
  PROVE  Knows(e, n)
<1>1. /\ Sent(r, n) /\ n.who = r.who /\ n.token = r.token /\ n.todo = r.todo
      /\ n.nonce = r.nonce /\ n.flag = r.flag /\ n.status = r.status /\ Now(n) = Now(r)
  BY Overtaken
<1> QED BY <1>1 DEF Knows, Underway, Sent, Enters, TokenWho, Own

LEMMA StaysMatched ==
  ASSUME NEW p, NEW c, NEW r, NEW n, Matches(p, r, c), Sent(r, n),
         r.kind \in {"login", "verify"} => n.who = r.who,
         r.kind \in {"me", "change", "enable", "logout"} => n.token = r.token
  PROVE  Matches(p, n, c)
BY DEF Matches, Sent

LEMMA HandlerKeeps ==
  ASSUME Shape, NEW b \in Browsers, NEW n \in Request, Turn(b, n),
         emailOtp' = emailOtp, page' = page, cookie' = cookie,
         Knows(emailOtp, n), Sent(req[b], n),
         req[b].kind \in {"login", "verify"} => n.who = req[b].who,
         req[b].kind \in {"me", "change", "enable", "logout"} => n.token = req[b].token
  PROVE  \A x \in Browsers : /\ Knows(emailOtp, req[x])'
                             /\ Matches(page[x], req[x], cookie[x])'
<1> SUFFICES ASSUME NEW x \in Browsers
             PROVE  /\ Knows(emailOtp, req'[x])
                    /\ Matches(page[x], req'[x], cookie[x])
  OBVIOUS
<1>1. /\ req[x] \in Request /\ Knows(emailOtp, req[x])
      /\ Matches(page[x], req[x], cookie[x]) /\ Matches(page[b], req[b], cookie[b])
  BY DEF Shape, TypeOK
<1>2. CASE x = b
  BY <1>1, <1>2, StaysMatched DEF Turn
<1>3. CASE x # b
  <2>1. req'[x] = req[x] \/ req'[x] = [req[x] EXCEPT !.clean = FALSE]
    BY <1>3 DEF Turn
  <2>2. Knows(emailOtp, req'[x])
    BY <1>1, <2>1, StaysKnown
  <2>3. Sent(req[x], req'[x]) /\ req'[x].who = req[x].who /\ req'[x].token = req[x].token
    BY <1>1, <2>1, Overtaken DEF Sent
  <2> QED BY <1>1, <2>2, <2>3, StaysMatched
<1> QED BY <1>2, <1>3

(* A handler that only goes on or refuses.                                 *)
LEMMA QuietShape ==
  ASSUME Shape, NEW b \in Browsers, NEW n \in Request, Proceed(b, n),
         UNCHANGED <<stores, cookie, page>>, Knows(emailOtp, n), Sent(req[b], n),
         n.who = req[b].who, n.token = req[b].token
  PROVE  Shape'
<1>1. Turn(b, n) /\ signedIn' = signedIn
  BY ProceedTurns DEF Shape
<1>2. /\ emailOtp' = emailOtp /\ accounts' = accounts /\ replica' = replica /\ nonces' = nonces
      /\ clock' = clock /\ info' = info /\ session' = session /\ otp' = otp /\ crossed' = crossed /\ revoked' = revoked
      /\ page' = page /\ cookie' = cookie
  BY DEF stores
<1>3. \A x \in Browsers : /\ Knows(emailOtp, req[x])'
                          /\ Matches(page[x], req[x], cookie[x])'
  BY <1>1, <1>2, HandlerKeeps
<1>4. Stored'
  BY <1>2 DEF Shape, Stored
<1>5. TypeOK'
  BY <1>1, <1>2 DEF Shape, TypeOK, Turn, Admins
<1> QED BY <1>3, <1>4, <1>5 DEF Shape

LEMMA CheckSessionShape ==
  ASSUME Shape, NEW b \in Browsers, CheckSession(b)
  PROVE  Shape'
<1> DEFINE r == req[b]
           n == req'[b]
<1>1. At(b, "Session") /\ UNCHANGED <<stores, cookie, page>>
  BY DEF CheckSession
<1>2. Knows(emailOtp, r) /\ r \in Request
  BY DEF Shape, TypeOK
<1>3. CASE r.token # NoOne /\ session[r.portal][r.who] = r.token
  <2> DEFINE m == Past(r)
  <2>1. Proceed(b, m)
    BY <1>3 DEF CheckSession
  <2>2. Now(r) = "Session" /\ m \in Request /\ Advances(emailOtp, r, m, "Session")
    BY <1>1, Continue DEF Steps
  <2> HIDE DEF m, r
  <2>3. Now(m) = "Row" /\ m.status = "open" /\ r.kind \in {"me", "change", "enable", "setup"}
    BY <2>2 DEF Advances, After, Place
  <2>4. Underway(emailOtp, m)
    BY <2>2, <2>3 DEF Advances, Underway, Goes, Sent
  <2>5. r.who = TokenWho(r) /\ Own(r)
    BY <1>2, <1>3, <2>2 DEF Knows, TokenWho, Own
  <2>6. r.portal = "employee" => r.who \in People
    <3>1. r.who \in Tickets
      BY <1>2, <1>3, <2>5 DEF Request, Token, Own
    <3> QED BY <1>3, <3>1 DEF Shape, Stored, Tickets
  <2>7. Knows(emailOtp, m)
    BY <1>2, <2>2, <2>3, <2>4, <2>5, <2>6 DEF Advances, Knows, Sent, TokenWho, Own
  <2> QED BY <1>1, <2>1, <2>2, <2>7, QuietShape DEF r, Advances
<1>4. CASE ~(r.token # NoOne /\ session[r.portal][r.who] = r.token)
  <2>1. Proceed(b, Refused(r, "401"))
    BY <1>4 DEF CheckSession
  <2> QED BY <1>1, <1>2, <2>1, Refusal, QuietShape DEF Errors
<1> QED BY <1>3, <1>4

(* What the verdicts on a row say; writes and their checks read the        *)
(* primary.                                                                *)
LEMMA Verdicts ==
  ASSUME Shape, NEW r \in Request, r.kind \in {"me", "change", "enable", "setup"},
         r.who \in Tickets, r.portal = "employee" => r.who \in People,
         r.kind \in {"setup", "enable"} => r.portal = "admin"
  PROVE  LET v == CASE r.portal = "employee" -> EmployeeVerdict(r)
                    [] r.portal = "admin" /\ r.who = Default -> DefaultVerdict(r)
                    [] r.portal = "admin" /\ r.who # Default -> AdminVerdict(r)
             a == TablesFor(r).adm[r.who]
             e == TablesFor(r).emp[r.who]
         IN /\ v \in Errors \cup {"ok"}
            /\ r.portal = "employee" /\ v = "ok" => e # NoOne /\ e.nonce = r.token.nonce
            /\ r.portal = "employee" /\ v = "401" => e = NoOne \/ e.nonce # r.token.nonce
            /\ r.portal = "employee" /\ r.kind = "me" => v \in {"ok", "401"}
            /\ r.portal = "admin" /\ r.who = Default =>
                 /\ v \in {"ok", "403"}
                 /\ v = "ok" => r.kind = "setup" /\ info = r.token.nonce
            /\ r.portal = "admin" /\ r.who # Default =>
                 /\ v = "ok" => /\ a # NoOne /\ a.nonce = r.token.nonce /\ r.kind # "change"
                                /\ r.kind # "setup" => ~a.must
                 /\ v = "401" => a = NoOne \/ a.nonce # r.token.nonce
                 /\ r.kind = "me" /\ v # "ok" => a = NoOne \/ a.nonce # r.token.nonce \/ a.must
            /\ r.kind # "me" \/ r.lag => TablesFor(r) = accounts
            /\ TablesFor(r) \in {accounts, replica}
<1>1. r.portal \in {"employee", "admin"}
  BY DEF Request, Portals
<1>2. TablesFor(r) \in {accounts, replica} /\ (r.kind # "me" \/ r.lag => TablesFor(r) = accounts)
  BY DEF TablesFor
<1>3. TablesFor(r) \in Tables
  BY <1>2 DEF Shape, TypeOK
<1> DEFINE a == TablesFor(r).adm[r.who]
           e == TablesFor(r).emp[r.who]
<1>4. r.who \in People => /\ a \in LocoAdmin \cup {NoOne} /\ e \in Employee \cup {NoOne}
  BY <1>3 DEF Tables
<1>5. CASE r.portal = "employee"
  <2>1. EmployeeVerdict(r) = CASE e = NoOne -> "401"
                               [] e # NoOne /\ e.nonce # r.token.nonce -> "401"
                               [] e # NoOne /\ e.nonce = r.token.nonce ->
                                    IF r.kind = "change" /\ e.pwd # r.pwd THEN "400" ELSE "ok"
    BY DEF EmployeeVerdict
  <2> HIDE DEF a, e
  <2> QED BY <1>2, <1>5, <2>1 DEF Errors, a, e
<1>6. CASE r.portal = "admin" /\ r.who = Default
  BY <1>2, <1>6, SMTT(60) DEF DefaultVerdict, Errors
<1>7. CASE r.portal = "admin" /\ r.who # Default
  <2>1. a \in LocoAdmin \cup {NoOne}
    BY <1>4, <1>7 DEF Tickets
  <2>2. AdminVerdict(r) = CASE a = NoOne -> "403"
       [] a # NoOne /\ a.nonce # r.token.nonce -> "401"
       [] a # NoOne /\ a.nonce = r.token.nonce ->
            IF r.kind # "setup" /\ a.must THEN "403"
            ELSE CASE r.kind = "change" -> "422"
                   [] r.kind = "setup" /\ a.pwd # r.pwd -> "400"
                   [] r.kind = "enable" /\ (a.portal \/ a.pwd # r.pwd) -> "400"
                   [] OTHER -> "ok"
    BY DEF AdminVerdict, OwesSetup
  <2> HIDE DEF a, e
  <2> QED BY <1>2, <1>7, <2>1, <2>2 DEF Errors, a, e
<1> QED BY <1>1, <1>5, <1>6, <1>7

LEMMA CheckRowShape ==
  ASSUME Shape, NEW b \in Browsers, CheckRow(b)
  PROVE  Shape'
<1> DEFINE r == req[b]
           v == CASE r.portal = "employee" -> EmployeeVerdict(r)
                  [] r.portal = "admin" /\ r.who = Default -> DefaultVerdict(r)
                  [] r.portal = "admin" /\ r.who # Default -> AdminVerdict(r)
           t == TablesFor(r)
           f == /\ r.portal = "admin" /\ r.who # Default /\ t.adm[r.who] # NoOne
                /\ IF r.kind = "setup" THEN t.adm[r.who].must ELSE t.adm[r.who].portal
           p == Past(r)
           m == [p EXCEPT !.flag = f]
<1>1. At(b, "Row") /\ UNCHANGED <<stores, cookie, page>>
      /\ Proceed(b, IF v = "ok" THEN m ELSE Refused(r, v))
  BY DEF CheckRow
<1>2. r \in Request /\ Now(r) = "Row" /\ p \in Request /\ Advances(emailOtp, r, p, "Row")
  BY <1>1, Continue DEF Steps
<1>3. Knows(emailOtp, r)
  BY DEF Shape
<1>4. /\ r.kind \in {"me", "change", "enable", "setup"} /\ Own(r) /\ r.who \in Tickets
      /\ r.portal = "employee" => r.who \in People
      /\ r.kind \in {"setup", "enable"} => r.portal = "admin"
  BY <1>2, <1>3 DEF Advances, Place, Knows, Own, Request, Token
<1>5. /\ v \in Errors \cup {"ok"}
      /\ r.portal = "employee" /\ v = "ok" => t.emp[r.who] # NoOne
      /\ r.portal = "admin" /\ r.who = Default /\ v = "ok" => r.kind = "setup"
      /\ r.portal = "admin" /\ r.who # Default /\ v = "ok" => t.adm[r.who] # NoOne /\ r.kind # "change"
      /\ r.kind # "me" => t = accounts
  BY <1>2, <1>4, Verdicts
<1>6. CASE v # "ok"
  <2> HIDE DEF v, r
  <2> QED BY <1>1, <1>2, <1>3, <1>5, <1>6, Refusal, QuietShape DEF r
<1>7. CASE v = "ok"
  <2>1. f \in BOOLEAN
    OBVIOUS
  <2> HIDE DEF f
  <2>2. /\ m \in Request /\ Sent(r, m) /\ m.who = r.who /\ m.token = r.token
        /\ m.status = p.status /\ m.todo = p.todo /\ Now(m) = Now(p)
    BY <1>2, <2>1 DEF Advances, Request, Sent, Now
  <2>3. Proceed(b, m)
    BY <1>1, <1>7
  <2> HIDE DEF m, p, v, r, t
  <2>4. Underway(emailOtp, m)
    BY <1>2, <2>2 DEF Advances, Underway, Goes, Sent
  <2>5. /\ r.kind = "me" => Now(m) = "done"
        /\ r.kind = "setup" /\ r.who = Default => Now(m) = "Insert"
        /\ r.kind # "me" /\ ~(r.kind = "setup" /\ r.who = Default) => Now(m) = "Commit"
        /\ m.status = IF Now(m) = "done" THEN "ok" ELSE "open"
    BY <1>2, <2>2 DEF Advances, After
  <2>6. r.kind # "me" /\ ~(r.kind = "setup" /\ r.who = Default) => r.who \in People
    BY <1>2, <1>4, <1>5, <1>7 DEF Request, Portals, Tickets
  <2>7. Knows(emailOtp, m)
    BY <1>3, <1>4, <2>2, <2>4, <2>5, <2>6 DEF Knows, Sent, TokenWho, Own, Enters
  <2> QED BY <1>1, <2>2, <2>3, <2>7, QuietShape DEF r
<1> QED BY <1>6, <1>7

LEMMA Seeding ==
  ASSUME NEW e \in BOOLEAN, NEW k \in Kinds, NEW q \in Portals, NEW t, NEW s,
         Script(e, k, q, t, s), Head(s) = "SeedRead"
  PROVE  LET z == <<"SeedSet">> \o Tail(s)
         IN z \in Seq(Steps) /\ z # <<>> /\ Head(z) = "SeedSet" /\ Script(e, k, q, t, z)
<1> DEFINE f == Final(e, t)
<1>1. k = "login" /\ q = "admin"
  BY Programs, Z3 DEF Place
<1>2. f \in Steps /\ f \in {"Mail", "Store"}
  BY DEF Final, Steps
<1>3. \/ s = <<"Password", f>>
      \/ s = <<f>>
      \/ s = <<"SeedRead", "Password", f>>
      \/ s = <<"SeedSet", "Password", f>>
  BY <1>1 DEF Script
<1> HIDE DEF f
<1>4. s = <<"SeedRead", "Password", f>>
  BY <1>2, <1>3, Cut1, Cut2, Cut3
<1>5. Tail(s) = <<"Password", f>>
  BY <1>4, Cut3
<1>6. "SeedSet" \in Steps /\ "Password" \in Steps
  BY DEF Steps
<1>7. <<"SeedSet">> \o <<"Password", f>> = <<"SeedSet", "Password", f>>
      /\ <<"SeedSet", "Password", f>> \in Seq(Steps)
  BY <1>2, <1>6, ShortPrograms
<1>8. <<"SeedSet", "Password", f>> # <<>> /\ Head(<<"SeedSet", "Password", f>>) = "SeedSet"
  BY Cut3
<1>9. Script(e, k, q, t, <<"SeedSet", "Password", f>>)
  BY <1>1 DEF Script, f
<1> QED BY <1>5, <1>7, <1>8, <1>9

(* What the databases hold.                                                *)
Stores ==
  /\ crossed \in BOOLEAN /\ revoked \subseteq People
  /\ accounts \in Tables /\ replica \in Tables
  /\ nonces \in 0..MaxNonce /\ clock \in 0..MaxClock /\ info \in 0..nonces
  /\ session \in [Portals -> [Tickets -> Token \cup {NoOne}]]
  /\ otp \in [{"login", "reset", "admin"} -> [People -> Codes \cup {NoOne}]]
  /\ \A p \in Admins(accounts) : accounts.emp[p] # NoOne
  /\ \A portal \in Portals, t \in Tickets :
       session[portal][t] # NoOne => session[portal][t].who = t
  /\ Stored

LEMMA StoresTyped == Shape => Stores
BY DEF Shape, TypeOK, Stores

(* The step of one handler that writes.                                    *)
LEMMA TurnShape ==
  ASSUME Shape, NEW b \in Browsers, NEW n \in Request, Turn(b, n),
         signedIn' \in [Browsers -> [Portals -> BOOLEAN]],
         UNCHANGED <<emailOtp, page, cookie>>, Stores',
         Knows(emailOtp, n), Sent(req[b], n),
         req[b].kind \in {"login", "verify"} => n.who = req[b].who,
         req[b].kind \in {"me", "change", "enable", "logout"} => n.token = req[b].token
  PROVE  Shape'
<1>1. emailOtp' = emailOtp /\ page' = page /\ cookie' = cookie
  OBVIOUS
<1>2. \A x \in Browsers : /\ Knows(emailOtp, req[x])'
                          /\ Matches(page[x], req[x], cookie[x])'
  BY <1>1, HandlerKeeps
<1>3. TypeOK'
  BY <1>1 DEF Shape, TypeOK, Turn, Stores
<1>4. Stored'
  BY DEF Stores
<1> QED BY <1>2, <1>3, <1>4 DEF Shape

LEMMA SeedReadShape ==
  ASSUME Shape, NEW b \in Browsers, SeedRead(b)
  PROVE  Shape'
<1> DEFINE r == req[b]
           p == Past(r)
           m == [r EXCEPT !.todo = <<"SeedSet">> \o Tail(@)]
<1>1. /\ At(b, "SeedRead")
      /\ UNCHANGED <<crossed, revoked, emailOtp, accounts, replica, nonces, clock, session, otp, cookie, page>>
  BY DEF SeedRead
<1>2. r \in Request /\ Now(r) = "SeedRead" /\ p \in Request /\ Advances(emailOtp, r, p, "SeedRead")
  BY <1>1, Continue DEF Steps
<1>3. Knows(emailOtp, r) /\ emailOtp \in BOOLEAN
  BY DEF Shape, TypeOK
<1>4. r.kind = "login" /\ r.portal = "admin"
  BY <1>2 DEF Advances, Place
<1>5. Sent(r, p) /\ p.who = r.who /\ p.token = r.token /\ p.flag = r.flag /\ Now(p) = "Password"
      /\ Underway(emailOtp, p) /\ p.status = "open"
  <2> HIDE DEF p, r
  <2> QED BY <1>2 DEF Advances, After, Given, Underway, Goes, Sent
<1>6. Knows(emailOtp, p)
  <2> HIDE DEF p, r
  <2> QED BY <1>3, <1>4, <1>5 DEF Knows, Sent, Own, TokenWho, Enters
<1>7. CASE Admins(accounts) # {}
  <2>1. info' = 0 /\ Ending(b, p, "admin", Default)
    BY <1>7 DEF SeedRead
  <2>2. Turn(b, p) /\ signedIn' \in [Browsers -> [Portals -> BOOLEAN]]
    BY <1>2, <2>1, EndingTurns DEF Shape, Portals
  <2>3. Stores'
    BY <1>1, <2>1, StoresTyped DEF Stores, Stored, Admins
  <2> QED BY <1>1, <1>2, <1>5, <2>2, <2>3, <1>6, TurnShape
<1>8. CASE Admins(accounts) = {} /\ MissingInfo
  <2>1. Proceed(b, m) /\ UNCHANGED <<stores, cookie, page>>
    BY <1>1, <1>8 DEF SeedRead, stores
  <2>2. LET z == <<"SeedSet">> \o Tail(r.todo)
        IN /\ z \in Seq(Steps) /\ z # <<>> /\ Head(z) = "SeedSet"
           /\ Script(emailOtp, r.kind, r.portal, r.who, z)
    <3>1. /\ r.kind \in Kinds /\ r.portal \in Portals /\ Head(r.todo) = "SeedRead"
          /\ Script(emailOtp, r.kind, r.portal, r.who, r.todo)
      BY <1>1, <1>2, <1>3 DEF Request, At, Knows, Underway
    <3> HIDE DEF r
    <3> QED BY <1>3, <3>1, Seeding, Z3
  <2>3. /\ m \in Request /\ Sent(r, m) /\ m.who = r.who /\ m.token = r.token /\ m.flag = r.flag
        /\ m.status = r.status /\ m.todo = <<"SeedSet">> \o Tail(r.todo)
    BY <1>2, <2>2 DEF Request, Sent
  <2>4. r.status = "open"
    BY <1>1 DEF At
  <2> HIDE DEF m, r
  <2>5. Now(m) = "SeedSet" /\ Underway(emailOtp, m)
    BY <2>2, <2>3, <2>4 DEF Now, Underway, Sent
  <2>6. Knows(emailOtp, m)
    BY <1>3, <1>4, <2>3, <2>4, <2>5 DEF Knows, Sent, Own, TokenWho, Enters
  <2> QED BY <2>1, <2>3, <2>6, QuietShape DEF r
<1>9. CASE Admins(accounts) = {} /\ ~MissingInfo
  <2>1. Proceed(b, p) /\ UNCHANGED <<stores, cookie, page>>
    BY <1>1, <1>9 DEF SeedRead, stores
  <2> QED BY <1>2, <1>5, <1>6, <2>1, QuietShape
<1> QED BY <1>7, <1>8, <1>9

LEMMA SeedSetShape ==
  ASSUME Shape, NEW b \in Browsers, SeedSet(b)
  PROVE  Shape'
<1> DEFINE r == req[b]
           p == Past(r)
<1>1. /\ At(b, "SeedSet") /\ nonces < MaxNonce /\ nonces' = nonces + 1 /\ info' = nonces + 1
      /\ Ending(b, p, "admin", Default) /\ crossed' \in BOOLEAN
      /\ UNCHANGED <<revoked, emailOtp, accounts, replica, clock, session, otp, cookie, page>>
  BY DEF SeedSet, Shape, TypeOK
<1>2. r \in Request /\ Now(r) = "SeedSet" /\ p \in Request /\ Advances(emailOtp, r, p, "SeedSet")
  BY <1>1, Continue DEF Steps
<1>3. Knows(emailOtp, r)
  BY DEF Shape
<1>4. r.kind = "login" /\ r.portal = "admin"
  BY <1>2 DEF Advances, Place
<1>5. Sent(r, p) /\ p.who = r.who /\ p.token = r.token /\ p.flag = r.flag /\ Now(p) = "Password"
      /\ Underway(emailOtp, p) /\ p.status = "open"
  <2> HIDE DEF p, r
  <2> QED BY <1>2 DEF Advances, After, Given, Underway, Goes, Sent
<1>6. Knows(emailOtp, p)
  <2> HIDE DEF p, r
  <2> QED BY <1>3, <1>4, <1>5 DEF Knows, Sent, Own, TokenWho, Enters
<1>7. Turn(b, p) /\ signedIn' \in [Browsers -> [Portals -> BOOLEAN]]
  BY <1>1, <1>2, EndingTurns DEF Shape, Portals
<1>8. Stores'
  BY <1>1, StoresTyped, BoundsAssumption DEF Stores, Stored, Admins
<1> QED BY <1>1, <1>2, <1>5, <1>7, <1>8, <1>6, TurnShape

LEMMA CheckPasswordShape ==
  ASSUME Shape, NEW b \in Browsers, CheckPassword(b)
  PROVE  Shape'
<1> DEFINE r == req[b]
           p == Past(r)
           e == IF r.who \in People THEN accounts.emp[r.who] ELSE NoOne
           a == IF r.who \in People THEN accounts.adm[r.who] ELSE NoOne
           In(nonce, must) == [p EXCEPT !.nonce = nonce, !.flag = must]
<1>1. /\ At(b, "Password") /\ UNCHANGED <<stores, cookie, page>>
      /\ \/ \E st \in {"401", "403"} : Proceed(b, Refused(r, st))
         \/ r.portal = "employee" /\ r.who # Default /\ e # NoOne /\ Proceed(b, In(e.nonce, FALSE))
         \/ r.portal = "admin" /\ r.who = Default /\ info # 0 /\ Proceed(b, In(info, TRUE))
         \/ r.portal = "admin" /\ r.who # Default /\ a # NoOne /\ Proceed(b, In(a.nonce, a.must))
  <2>1. r.portal \in {"employee", "admin"}
    BY DEF Shape, TypeOK, Request, Portals
  <2> QED BY <2>1 DEF CheckPassword
<1>2. r \in Request /\ Now(r) = "Password" /\ p \in Request /\ Advances(emailOtp, r, p, "Password")
  BY <1>1, Continue DEF Steps
<1>3. Knows(emailOtp, r)
  BY DEF Shape
<1>4. ASSUME NEW st \in {"401", "403"}, Proceed(b, Refused(r, st))
      PROVE  Shape'
  BY <1>1, <1>2, <1>3, <1>4, Refusal, QuietShape DEF Errors
<1>5. ASSUME NEW nonce \in 1..MaxNonce, NEW must \in BOOLEAN, Proceed(b, In(nonce, must)),
             r.portal = "employee" => ~must /\ r.who \in People,
             r.who \in Tickets
      PROVE  Shape'
  <2> DEFINE m == In(nonce, must)
  <2>0. nonce \in 0..MaxNonce
    BY BoundsAssumption
  <2> HIDE DEF p, r
  <2>1. /\ m \in Request /\ Sent(r, m) /\ m.who = r.who /\ m.token = r.token
        /\ m.status = p.status /\ m.todo = p.todo /\ Now(m) = Now(p) /\ m.nonce = nonce /\ m.flag = must
    BY <1>2, <2>0, ZenonT(60) DEF Advances, Request, Sent, Now
  <2> HIDE DEF m
  <2>2. /\ r.kind = "login" /\ Underway(emailOtp, m) /\ Now(m) = Final(emailOtp, r.who)
        /\ m.status = "open"
    <3>1. r.kind = "login"
      BY <1>2 DEF Advances, Place
    <3>2. Now(m) = Final(emailOtp, r.who)
      BY <1>2, <2>1 DEF Advances, After
    <3>3. Now(m) # "done"
      BY <3>2 DEF Final
    <3>4. m.status = "open" /\ m.todo # <<>>
      BY <1>2, <2>1, <3>3 DEF Advances
    <3>5. Underway(emailOtp, m)
      BY <1>2, <2>1, <3>4 DEF Advances, Underway, Goes, Sent
    <3> QED BY <3>1, <3>2, <3>4, <3>5
  <2>3. Knows(emailOtp, m)
    <3>1. Now(m) \in {"Mail", "Store"}
      BY <2>2 DEF Final
    <3> QED BY <1>3, <1>5, <2>1, <2>2, <3>1 DEF Knows, Sent, Own, TokenWho
  <2>4. Proceed(b, m)
    BY <1>5 DEF m
  <2> QED BY <1>1, <2>1, <2>3, <2>4, QuietShape DEF r
<1>6. accounts \in Tables /\ info \in 0..nonces /\ nonces \in 0..MaxNonce
  BY DEF Shape, TypeOK
<1>7. e # NoOne => r.who \in People /\ e.nonce \in 1..MaxNonce
  BY <1>6 DEF Tables, Employee
<1>8. a # NoOne => r.who \in People /\ a.nonce \in 1..MaxNonce /\ a.must \in BOOLEAN
  BY <1>6 DEF Tables, LocoAdmin
<1>9. info # 0 => info \in 1..MaxNonce
  BY <1>6, BoundsAssumption
<1> HIDE DEF a, e, r, In
<1> QED BY <1>1, <1>4, <1>5, <1>7, <1>8, <1>9 DEF Tickets

LEMMA MailCodeShape ==
  ASSUME Shape, NEW b \in Browsers, NEW code \in Codes, MailCode(b, code)
  PROVE  Shape'
<1> DEFINE r == req[b]
           p == Past(r)
<1>1. /\ At(b, "Mail")
      /\ UNCHANGED <<crossed, revoked, emailOtp, accounts, replica, nonces, clock, info, session, cookie, page>>
  BY DEF MailCode
<1>2. r \in Request /\ Now(r) = "Mail" /\ p \in Request /\ Advances(emailOtp, r, p, "Mail")
  BY <1>1, Continue DEF Steps
<1>3. Knows(emailOtp, r)
  BY DEF Shape
<1> DEFINE goes == /\ r.who \in People /\ emailOtp
                   /\ r.kind = "login" \/ accounts.emp[r.who] # NoOne
<1>4. CASE goes
  <2>1. otp' = [otp EXCEPT ![CodeOf(r)][r.who] = code] /\ Proceed(b, p)
    BY <1>4 DEF MailCode
  <2>2. Turn(b, p) /\ signedIn' = signedIn
    BY <1>2, <2>1, ProceedTurns DEF Shape
  <2>3. Stores'
    <3>1. Stores /\ CodeOf(r) \in {"login", "reset", "admin"}
      BY StoresTyped DEF CodeOf
    <3>2. otp' \in [{"login", "reset", "admin"} -> [People -> Codes \cup {NoOne}]]
      BY <2>1, <3>1 DEF Stores
    <3> HIDE DEF r
    <3> QED BY <1>1, <3>1, <3>2 DEF Stores, Stored, Admins
  <2> HIDE DEF p, r
  <2>4. Knows(emailOtp, p)
    <3>1. p.status = "ok" /\ Now(p) = "done"
      BY <1>2 DEF Advances, After
    <3>2. ~Enters(emailOtp, p)
      BY <1>2, <3>1 DEF Advances, Sent, Place, Enters
    <3> QED BY <1>2, <1>3, <3>1, <3>2 DEF Advances, Knows, Sent, Given, Underway, TokenWho
  <2> QED BY <1>1, <1>2, <2>2, <2>3, <2>4, TurnShape DEF Advances, Shape, TypeOK, r
<1>5. CASE ~goes
  <2>1. Proceed(b, Refused(r, "400")) /\ UNCHANGED <<stores, cookie, page>>
    BY <1>1, <1>5 DEF MailCode, stores
  <2> QED BY <1>2, <1>3, <2>1, Refusal, QuietShape DEF Errors
<1> QED BY <1>4, <1>5

LEMMA CheckCodeShape ==
  ASSUME Shape, NEW b \in Browsers, CheckCode(b)
  PROVE  Shape'
<1> DEFINE r == req[b]
           p == Past(r)
           stored == IF r.who \in People THEN otp[CodeOf(r)][r.who] ELSE NoOne
<1>1. /\ At(b, "Code") /\ UNCHANGED <<stores, cookie, page>>
      /\ Proceed(b, IF stored # NoOne /\ stored = r.code THEN p ELSE Refused(r, "400"))
  BY DEF CheckCode
<1>2. r \in Request /\ Now(r) = "Code" /\ p \in Request /\ Advances(emailOtp, r, p, "Code")
  BY <1>1, Continue DEF Steps
<1>3. Knows(emailOtp, r)
  BY DEF Shape
<1>4. stored # NoOne => r.who \in People
  OBVIOUS
<1>5. CASE stored # NoOne /\ stored = r.code
  <2>1. Proceed(b, p) /\ r.who \in People
    BY <1>1, <1>4, <1>5
  <2> HIDE DEF p, r
  <2>2. /\ r.kind \in {"verify", "reset"} /\ Now(p) = (IF r.kind = "reset" THEN "Commit" ELSE "Account")
        /\ p.status = "open"
    BY <1>2 DEF Advances, Place, After
  <2>3. Underway(emailOtp, p)
    BY <1>2, <2>2 DEF Advances, Underway, Goes, Sent
  <2>4. Knows(emailOtp, p)
    BY <1>2, <1>3, <2>1, <2>2, <2>3 DEF Advances, Knows, Sent, Given, TokenWho
  <2> QED BY <1>1, <1>2, <2>1, <2>4, QuietShape DEF Advances, r
<1>6. CASE ~(stored # NoOne /\ stored = r.code)
  <2>1. Proceed(b, Refused(r, "400"))
    BY <1>1, <1>6
  <2> QED BY <1>1, <1>2, <1>3, <2>1, Refusal, QuietShape DEF Errors
<1> QED BY <1>5, <1>6

LEMMA ReadAccountShape ==
  ASSUME Shape, NEW b \in Browsers, ReadAccount(b)
  PROVE  Shape'
<1> DEFINE r == req[b]
           p == Past(r)
           a == IF r.portal = "admin" THEN accounts.adm[r.who] ELSE accounts.emp[r.who]
           f == r.portal = "admin" /\ a.must
           m == [p EXCEPT !.nonce = a.nonce, !.flag = f]
<1>1. /\ At(b, "Account") /\ UNCHANGED <<stores, cookie, page>>
      /\ Proceed(b, IF a = NoOne THEN Refused(r, "400") ELSE m)
  BY SMTT(60) DEF ReadAccount
<1>2. r \in Request /\ Now(r) = "Account" /\ p \in Request /\ Advances(emailOtp, r, p, "Account")
  BY <1>1, Continue DEF Steps
<1>3. Knows(emailOtp, r) /\ accounts \in Tables
  BY DEF Shape, TypeOK
<1>4. r.kind = "verify" /\ r.who \in People
  BY <1>2, <1>3 DEF Advances, Place, Knows
<1>5. CASE a = NoOne
  BY <1>1, <1>2, <1>3, <1>5, Refusal, QuietShape DEF Errors
<1>6. CASE a # NoOne
  <2>1. a.nonce \in 0..MaxNonce /\ a.nonce # 0
    BY <1>3, <1>4, <1>6, BoundsAssumption DEF Tables, Employee, LocoAdmin
  <2>2. f \in BOOLEAN /\ (r.portal = "employee" => ~f)
    OBVIOUS
  <2>3. Proceed(b, m)
    BY <1>1, <1>6
  <2> HIDE DEF f, a, p, r
  <2>4. /\ m \in Request /\ Sent(r, m) /\ m.who = r.who /\ m.token = r.token
        /\ m.status = p.status /\ m.todo = p.todo /\ Now(m) = Now(p) /\ m.nonce = a.nonce /\ m.flag = f
    BY <1>2, <2>1, <2>2, ZenonT(60) DEF Advances, Request, Sent, Now
  <2> HIDE DEF m
  <2>5. /\ Now(m) = (IF r.portal = "admin" THEN "DropCode" ELSE "Store")
        /\ m.status = "open" /\ r.portal \in {"admin", "employee"}
    BY <1>2, <2>4 DEF Advances, After, Request, Portals
  <2>6. Underway(emailOtp, m)
    BY <1>2, <2>4, <2>5 DEF Advances, Underway, Goes, Sent
  <2>7. Knows(emailOtp, m)
    BY <1>3, <1>4, <2>1, <2>2, <2>4, <2>5, <2>6 DEF Knows, Sent, TokenWho, Tickets
  <2> QED BY <1>1, <2>3, <2>4, <2>7, QuietShape DEF r
<1> QED BY <1>5, <1>6

LEMMA InsertSuccessorShape ==
  ASSUME Shape, NEW b \in Browsers, InsertSuccessor(b)
  PROVE  Shape'
<1> DEFINE r == req[b]
           p == Past(r)
           f == accounts.emp[r.ticket] # NoOne
           m == [p EXCEPT !.flag = f]
<1>1. /\ At(b, "Insert") /\ UNCHANGED <<stores, cookie, page>>
      /\ \/ \E st \in {"403", "error"} : Proceed(b, Refused(r, st))
         \/ Proceed(b, m)
  BY DEF InsertSuccessor
<1>2. r \in Request /\ Now(r) = "Insert" /\ p \in Request /\ Advances(emailOtp, r, p, "Insert")
  BY <1>1, Continue DEF Steps
<1>3. Knows(emailOtp, r)
  BY DEF Shape
<1>4. ASSUME NEW st \in {"403", "error"}, Proceed(b, Refused(r, st))
      PROVE  Shape'
  BY <1>1, <1>2, <1>3, <1>4, Refusal, QuietShape DEF Errors
<1>5. CASE Proceed(b, m)
  <2>1. f \in BOOLEAN
    OBVIOUS
  <2> HIDE DEF f, p, r
  <2>2. /\ m \in Request /\ Sent(r, m) /\ m.who = r.who /\ m.token = r.token
        /\ m.status = p.status /\ m.todo = p.todo /\ Now(m) = Now(p)
    BY <1>2, <2>1, SMTT(60) DEF Advances, Request, Sent, Now
  <2> HIDE DEF m
  <2>3. r.kind = "setup" /\ Now(m) = "Forget" /\ m.status = "open"
    BY <1>2, <2>2 DEF Advances, Place, After
  <2>4. Underway(emailOtp, m)
    BY <1>2, <2>2, <2>3 DEF Advances, Underway, Goes, Sent
  <2>5. Knows(emailOtp, m)
    BY <1>3, <2>2, <2>3, <2>4 DEF Knows, Sent, TokenWho
  <2> QED BY <1>1, <1>5, <2>2, <2>5, QuietShape DEF r
<1> QED BY <1>1, <1>4, <1>5

LEMMA ForgetDefaultShape ==
  ASSUME Shape, NEW b \in Browsers, ForgetDefault(b)
  PROVE  Shape'
<1> DEFINE r == req[b]
           p == Past(r)
<1>1. /\ At(b, "Forget") /\ info' = 0 /\ Ending(b, p, "admin", Default)
      /\ UNCHANGED <<crossed, revoked, emailOtp, accounts, replica, nonces, clock, session, otp, cookie, page>>
  BY DEF ForgetDefault
<1>2. r \in Request /\ Now(r) = "Forget" /\ p \in Request /\ Advances(emailOtp, r, p, "Forget")
  BY <1>1, Continue DEF Steps
<1>3. Knows(emailOtp, r)
  BY DEF Shape
<1>4. Turn(b, p) /\ signedIn' \in [Browsers -> [Portals -> BOOLEAN]]
  BY <1>1, <1>2, EndingTurns DEF Shape, Portals
<1>5. Stores'
  BY <1>1, StoresTyped DEF Stores, Stored, Admins
<1>6. Knows(emailOtp, p)
  <2> HIDE DEF p, r
  <2>1. r.kind = "setup" /\ r.who = Default /\ Now(p) = "Commit" /\ p.status = "open"
    BY <1>2 DEF Advances, Place, After
  <2>2. Underway(emailOtp, p)
    BY <1>2, <2>1 DEF Advances, Underway, Goes, Sent
  <2> QED BY <1>2, <1>3, <2>1, <2>2 DEF Advances, Knows, Sent, TokenWho
<1>8. Sent(r, p) /\ p.who = r.who /\ p.token = r.token
  BY <1>2 DEF Advances
<1> QED BY <1>1, <1>2, <1>4, <1>5, <1>6, <1>8, TurnShape

LEMMA CommitNothingShape ==
  ASSUME Shape, NEW b \in Browsers, CommitNothing(b)
  PROVE  Shape'
<1>1. PICK st \in Errors : Proceed(b, Refused(req[b], st)) /\ UNCHANGED <<stores, cookie, page>>
  BY DEF CommitNothing, Errors
<1>2. req[b] \in Request /\ Knows(emailOtp, req[b])
  BY DEF Shape, TypeOK
<1> QED BY <1>1, <1>2, Refusal, QuietShape

LEMMA CommitPasswordShape ==
  ASSUME Shape, NEW b \in Browsers, CommitPassword(b)
  PROVE  /\ Shape'
         /\ \A x \in People : /\ accounts'.adm[x] = accounts.adm[x]
                              /\ accounts'.emp[x] = NoOne <=> accounts.emp[x] = NoOne
                              /\ accounts'.emp[x].nonce = accounts.emp[x].nonce
<1> DEFINE r == req[b]
           p == Past(r)
<1>1. /\ At(b, "Commit") /\ r.kind \in {"reset", "change"} /\ Proceed(b, p)
      /\ accounts.emp[r.who] # NoOne
      /\ accounts' = [accounts EXCEPT !.emp[r.who].pwd = r.new]
      /\ UNCHANGED <<crossed, revoked, emailOtp, replica, nonces, clock, info, session, otp, cookie, page>>
  BY DEF CommitPassword, Gone
<1>2. r \in Request /\ Now(r) = "Commit" /\ p \in Request /\ Advances(emailOtp, r, p, "Commit")
  BY <1>1, Continue DEF Steps
<1>3. Knows(emailOtp, r) /\ accounts \in Tables /\ Stores
  BY StoresTyped DEF Shape, Stores
<1>4. r.who \in People /\ accounts.emp[r.who] # NoOne /\ r.new \in Passwords
  BY <1>1, <1>2, <1>3 DEF Knows
<1> DEFINE e == [accounts.emp[r.who] EXCEPT !.pwd = r.new]
<1>5. e \in Employee /\ accounts' = [accounts EXCEPT !.emp[r.who] = e]
  <2>1. accounts.emp[r.who] \in Employee
    BY <1>3, <1>4 DEF Tables
  <2>2. e \in Employee
    BY <1>4, <2>1 DEF Employee, Secrets
  <2> QED BY <1>1, <2>2
<1> HIDE DEF e
<1>6. /\ accounts' \in Tables
      /\ \A x \in People : accounts'.adm[x] = accounts.adm[x]
      /\ \A x \in People : accounts'.emp[x] = IF x = r.who THEN e ELSE accounts.emp[x]
      /\ e # NoOne
  <2>1. e # NoOne
    BY <1>5, NoOneAssumption
  <2> HIDE DEF r
  <2> QED BY <1>3, <1>4, <1>5, <2>1 DEF Tables
<1>7. Turn(b, p) /\ signedIn' = signedIn
  BY <1>1, <1>2, ProceedTurns DEF Shape
<1>8. Stores'
  <2> HIDE DEF r
  <2> QED BY <1>1, <1>3, <1>6 DEF Stores, Stored, Admins
<1>9. Knows(emailOtp, p)
  <2> HIDE DEF p, r
  <2>2. Now(p) = (IF r.kind = "reset" THEN "DropCode" ELSE "done")
        /\ p.status = (IF r.kind = "reset" THEN "open" ELSE "ok")
    BY <1>1, <1>2 DEF Advances, Place, After
  <2>3. Underway(emailOtp, p)
    BY <1>1, <1>2, <2>2 DEF Advances, Underway, Goes, Sent
  <2> QED BY <1>1, <1>2, <1>3, <2>2, <2>3 DEF Advances, Knows, Sent, Enters, TokenWho
<1>10. Sent(r, p) /\ p.who = r.who /\ p.token = r.token
  BY <1>2, SMTT(60) DEF Advances
<1>11. Shape'
  BY <1>1, <1>2, <1>6, <1>7, <1>8, <1>9, <1>10, TurnShape DEF Shape, TypeOK
<1>12. e.nonce = accounts.emp[r.who].nonce
  <2>1. accounts.emp[r.who] \in Employee
    BY <1>3, <1>4 DEF Tables
  <2> QED BY <2>1 DEF e, Employee
<1> QED BY <1>4, <1>6, <1>11, <1>12

(* What a set-up writes.                                                   *)
LEMMA CommitSetupWrites ==
  ASSUME Shape, NEW b \in Browsers, CommitSetup(b)
  PROVE  LET r == req[b]
             n == nonces + 1
             p == IF r.who = Default THEN r.ticket ELSE r.who
         IN /\ n \in 1..MaxNonce /\ p \in People
            /\ r.who # Default => accounts.adm[p] # NoOne
            /\ accounts' \in Tables
            /\ accounts'.emp[p] # NoOne /\ accounts'.adm[p] # NoOne
            /\ accounts'.adm[p].nonce = n
            /\ accounts'.adm[p].must => r.who # Default /\ accounts.adm[p].must /\ ~r.flag
            /\ accounts.emp[p] # NoOne => accounts'.emp[p] = accounts.emp[p]
            /\ \A x \in People \ {p} : /\ accounts'.emp[x] = accounts.emp[x]
                                       /\ accounts'.adm[x] = accounts.adm[x]
<1> DEFINE r == req[b]
           n == nonces + 1
           p == IF r.who = Default THEN r.ticket ELSE r.who
<1>1. /\ At(b, "Commit") /\ r.kind = "setup" /\ nonces < MaxNonce
      /\ r.who # Default => accounts.adm[r.who] # NoOne
  BY DEF CommitSetup, Gone
<1>2. r \in Request /\ Now(r) = "Commit"
  BY <1>1, Continue DEF Steps
<1>3. Knows(emailOtp, r) /\ accounts \in Tables /\ Stores
  BY StoresTyped DEF Shape, Stores
<1>4. n \in 1..MaxNonce
  BY <1>1, <1>3, BoundsAssumption DEF Stores
<1>5. CASE r.who = Default
  <2> DEFINE e == Successor(accounts.emp[p], n)
             a == [pwd |-> r.new, nonce |-> n, must |-> FALSE, portal |-> r.flag]
  <2>1. p \in People /\ r.new \in Passwords /\ r.flag \in BOOLEAN
    BY <1>1, <1>2, <1>3, <1>5 DEF Knows, Request
  <2>2. a \in LocoAdmin /\ a.nonce = n /\ ~a.must
    BY <1>4, <2>1 DEF LocoAdmin, Secrets
  <2>3. e \in Employee /\ (accounts.emp[p] # NoOne => e = accounts.emp[p])
    BY <1>3, <1>4, <2>1 DEF Successor, Employee, Secrets, Tables
  <2>4. accounts' = [accounts EXCEPT !.emp[p] = e, !.adm[p] = a]
    BY <1>5 DEF CommitSetup
  <2>5. e # NoOne /\ a # NoOne
    BY <2>2, <2>3, NoOneAssumption
  <2> HIDE DEF e, a, p, n, r
  <2>6. /\ accounts' \in Tables
        /\ \A x \in People : /\ accounts'.emp[x] = IF x = p THEN e ELSE accounts.emp[x]
                             /\ accounts'.adm[x] = IF x = p THEN a ELSE accounts.adm[x]
    BY <1>3, <2>1, <2>2, <2>3, <2>4 DEF Tables
  <2> QED BY <1>4, <1>5, <2>1, <2>2, <2>3, <2>5, <2>6 DEF p, r, n
<1>6. CASE r.who # Default
  <2> DEFINE a == [accounts.adm[p] EXCEPT !.pwd = r.new, !.nonce = n,
                                          !.must = accounts.adm[p].must /\ ~r.flag]
  <2>1. p \in People /\ r.new \in Passwords /\ accounts.adm[p] # NoOne
    BY <1>1, <1>2, <1>3, <1>6 DEF Knows
  <2>2. accounts.adm[p] \in LocoAdmin
    BY <1>3, <2>1 DEF Tables
  <2>3. a \in LocoAdmin /\ a.nonce = n /\ (a.must => accounts.adm[p].must /\ ~r.flag)
    <3> HIDE DEF p, n, r
    <3>1. (accounts.adm[p].must /\ ~r.flag) \in BOOLEAN
      OBVIOUS
    <3> QED BY <1>4, <2>1, <2>2, <3>1, ZenonT(60) DEF LocoAdmin, Secrets
  <2>4. accounts' = [accounts EXCEPT !.adm[p] = a]
    <3>1. p = r.who
      BY <1>6
    <3>2. accounts' = [accounts EXCEPT !.adm[r.who] =
                        [accounts.adm[r.who] EXCEPT !.pwd = r.new, !.nonce = n,
                                                    !.must = accounts.adm[r.who].must /\ ~r.flag]]
      BY <1>6, Zenon DEF CommitSetup
    <3> HIDE DEF p, r, n
    <3> QED BY <3>1, <3>2
  <2>5. a # NoOne /\ accounts.emp[p] # NoOne
    BY <1>3, <2>1, <2>3, NoOneAssumption DEF Stores, Admins
  <2> HIDE DEF a, p, n, r
  <2>6. /\ accounts' \in Tables
        /\ \A x \in People : /\ accounts'.emp[x] = accounts.emp[x]
                             /\ accounts'.adm[x] = IF x = p THEN a ELSE accounts.adm[x]
    BY <1>3, <2>1, <2>3, <2>4 DEF Tables
  <2> QED BY <1>4, <1>6, <2>1, <2>3, <2>5, <2>6 DEF p, r, n
<1> QED BY <1>5, <1>6

LEMMA CommitSetupShape ==
  ASSUME Shape, NEW b \in Browsers, CommitSetup(b)
  PROVE  Shape'
<1> DEFINE r == req[b]
           p == Past(r)
           n == nonces + 1
           x == IF r.who = Default THEN r.ticket ELSE r.who
           m == IF r.who = Default THEN [p EXCEPT !.who = r.ticket, !.nonce = n]
                ELSE [p EXCEPT !.nonce = n]
<1>1. /\ At(b, "Commit") /\ r.kind = "setup" /\ nonces' = n /\ crossed' \in BOOLEAN
      /\ revoked' \subseteq People
      /\ IF r.who = Default THEN Proceed(b, m) ELSE Ending(b, m, "admin", r.who)
      /\ UNCHANGED <<emailOtp, replica, clock, info, session, otp, cookie, page>>
  BY DEF CommitSetup, TokenNonce, Shape, TypeOK
<1>2. r \in Request /\ Now(r) = "Commit" /\ p \in Request /\ Advances(emailOtp, r, p, "Commit")
  BY <1>1, Continue DEF Steps
<1>3. Knows(emailOtp, r) /\ Stores
  BY StoresTyped DEF Shape
<1>4. /\ n \in 1..MaxNonce /\ x \in People
      /\ accounts' \in Tables /\ accounts'.emp[x] # NoOne
      /\ \A y \in People \ {x} : /\ accounts'.emp[y] = accounts.emp[y]
                                 /\ accounts'.adm[y] = accounts.adm[y]
  BY CommitSetupWrites
<1>5. n \in 0..MaxNonce /\ n # 0
  BY <1>4, BoundsAssumption
<1>6. x # Default
  BY <1>4, DefaultAssumption
<1>7. /\ m \in Request /\ Sent(r, m) /\ m.who = x /\ m.token = r.token
      /\ m.status = p.status /\ m.todo = p.todo /\ Now(m) = Now(p) /\ m.nonce = n
  <2>1. x \in Tickets \cup {NoOne}
    BY <1>4 DEF Tickets
  <2>2. m = [p EXCEPT !.who = x, !.nonce = n]
    <3>1. p.who = r.who
      BY <1>2 DEF Advances
    <3>2. r.who # Default => [p EXCEPT !.nonce = n] = [p EXCEPT !.who = x, !.nonce = n]
      BY <1>2, <3>1 DEF Request
    <3> QED BY <3>2
  <2> HIDE DEF m, n, x, p, r
  <2> QED BY <1>2, <1>5, <2>1, <2>2, ZenonT(60) DEF Advances, Request, Sent, Now
<1>8. Turn(b, m) /\ signedIn' \in [Browsers -> [Portals -> BOOLEAN]]
  <2>1. CASE r.who = Default
    <3>1. Proceed(b, m)
      BY <1>1, <2>1
    <3> HIDE DEF m
    <3> QED BY <1>7, <3>1, ProceedTurns DEF Shape, TypeOK
  <2>2. CASE r.who # Default
    <3>1. Ending(b, m, "admin", r.who)
      BY <1>1, <2>2
    <3> HIDE DEF m
    <3> QED BY <1>7, <3>1, EndingTurns DEF Shape, Portals
  <2> QED BY <2>1, <2>2
<1>9. Stores'
  <2> HIDE DEF x, n, r
  <2>1. \A y \in People : accounts'.adm[y] # NoOne => accounts'.emp[y] # NoOne
    BY <1>3, <1>4 DEF Stores, Admins
  <2>3. nonces' \in 0..MaxNonce /\ info' \in 0..nonces'
    BY <1>1, <1>3, <1>5, BoundsAssumption DEF Stores, n
  <2> QED BY <1>1, <1>3, <1>4, <2>1, <2>3 DEF Stores, Stored, Admins
<1>10. Knows(emailOtp, m)
  <2> HIDE DEF m, n, x, p, r
  <2>2. Now(m) = "Store" /\ m.status = "open"
    BY <1>1, <1>2, <1>7 DEF Advances, After
  <2>3. Underway(emailOtp, m)
    BY <1>1, <1>2, <1>6, <1>7, <2>2 DEF Advances, Underway, Goes, Sent
  <2> QED BY <1>1, <1>3, <1>4, <1>5, <1>6, <1>7, <2>2, <2>3 DEF Knows, Sent, Tickets
<1> HIDE DEF m
<1> QED BY <1>1, <1>4, <1>7, <1>8, <1>9, <1>10, TurnShape

LEMMA CommitPortalShape ==
  ASSUME Shape, NEW b \in Browsers, CommitPortal(b)
  PROVE  /\ Shape'
         /\ accounts' \in Tables /\ req[b].who \in People /\ accounts'.emp[req[b].who] # NoOne
         /\ \A x \in People : /\ accounts'.adm[x] = NoOne <=> accounts.adm[x] = NoOne
                              /\ accounts.adm[x] # NoOne =>
                                   /\ accounts'.adm[x].nonce = accounts.adm[x].nonce
                                   /\ accounts'.adm[x].must = accounts.adm[x].must
                              /\ x # req[b].who => accounts'.emp[x] = accounts.emp[x]
<1> DEFINE r == req[b]
           p == Past(r)
           n == nonces + 1
<1>1. /\ At(b, "Commit") /\ r.kind = "enable" /\ nonces < MaxNonce /\ nonces' = n
      /\ accounts.adm[r.who] # NoOne
      /\ accounts' = [accounts EXCEPT !.emp[r.who] = [pwd |-> r.new, nonce |-> n],
                                      !.adm[r.who].portal = TRUE]
      /\ Ending(b, p, "employee", r.who)
      /\ UNCHANGED <<crossed, revoked, emailOtp, replica, clock, info, session, otp, cookie, page>>
  BY DEF CommitPortal, Gone
<1>2. r \in Request /\ Now(r) = "Commit" /\ p \in Request /\ Advances(emailOtp, r, p, "Commit")
  BY <1>1, Continue DEF Steps
<1>3. Knows(emailOtp, r) /\ Stores
  BY StoresTyped DEF Shape
<1>4. r.who \in People /\ accounts.adm[r.who] # NoOne /\ r.new \in Passwords
  BY <1>1, <1>2, <1>3 DEF Knows
<1>5. n \in 1..MaxNonce /\ n \in 0..MaxNonce
  BY <1>1, <1>3, BoundsAssumption DEF Stores
<1> DEFINE e == [pwd |-> r.new, nonce |-> n]
           a == [accounts.adm[r.who] EXCEPT !.portal = TRUE]
<1>6. /\ e \in Employee /\ a \in LocoAdmin /\ e # NoOne /\ a # NoOne
      /\ a.nonce = accounts.adm[r.who].nonce /\ a.must = accounts.adm[r.who].must
  <2>1. accounts.adm[r.who] \in LocoAdmin
    BY <1>3, <1>4 DEF Stores, Tables
  <2> HIDE DEF r, n
  <2>2. e \in Employee /\ a \in LocoAdmin /\ a.nonce = accounts.adm[r.who].nonce
        /\ a.must = accounts.adm[r.who].must
    BY <1>4, <1>5, <2>1 DEF Employee, LocoAdmin, Secrets
  <2> QED BY <2>2, NoOneAssumption
<1>7. accounts' = [accounts EXCEPT !.emp[r.who] = e, !.adm[r.who] = a]
  <2>1. accounts \in Tables
    BY <1>3 DEF Stores
  <2> HIDE DEF r, n
  <2> QED BY <1>1, <1>4, <2>1 DEF Tables
<1> HIDE DEF e, a, n
<1>8. /\ accounts' \in Tables
      /\ \A x \in People : /\ accounts'.emp[x] = IF x = r.who THEN e ELSE accounts.emp[x]
                           /\ accounts'.adm[x] = IF x = r.who THEN a ELSE accounts.adm[x]
  <2>1. accounts \in Tables
    BY <1>3 DEF Stores
  <2> HIDE DEF r
  <2>2. /\ accounts' \in Tables
        /\ \A x \in People : /\ accounts'.emp[x] = IF x = r.who THEN e ELSE accounts.emp[x]
                             /\ accounts'.adm[x] = IF x = r.who THEN a ELSE accounts.adm[x]
    BY <1>4, <1>6, <1>7, <2>1 DEF Tables
  <2> QED BY <2>2
<1>9. Turn(b, p) /\ signedIn' \in [Browsers -> [Portals -> BOOLEAN]]
  BY <1>1, <1>2, EndingTurns DEF Shape, Portals
<1>10. Stores'
  <2> HIDE DEF r
  <2>1. nonces' \in 0..MaxNonce /\ info' \in 0..nonces'
    BY <1>1, <1>3, <1>5, BoundsAssumption DEF Stores, n
  <2>2. \A x \in People : accounts'.adm[x] # NoOne => accounts'.emp[x] # NoOne
    BY <1>3, <1>6, <1>8 DEF Stores, Admins
  <2> QED BY <1>1, <1>3, <1>8, <2>1, <2>2 DEF Stores, Stored, Admins
<1>11. Knows(emailOtp, p)
  <2> HIDE DEF p, r
  <2>2. Now(p) = "done" /\ p.status = "ok"
    BY <1>1, <1>2 DEF Advances, After
  <2> QED BY <1>1, <1>2, <1>3, <2>2 DEF Advances, Knows, Sent, Enters, TokenWho, Underway
<1>12. Sent(r, p) /\ p.who = r.who /\ p.token = r.token
  BY <1>2 DEF Advances
<1>13. Shape'
  BY <1>1, <1>2, <1>8, <1>9, <1>10, <1>11, <1>12, TurnShape
<1> QED BY <1>1, <1>4, <1>6, <1>8, <1>13

LEMMA StoreSessionShape ==
  ASSUME Shape, NEW b \in Browsers, StoreSession(b)
  PROVE  Shape'
<1> DEFINE r == req[b]
           p == Past(r)
           t == [who |-> r.who, nonce |-> r.nonce, at |-> clock]
           m == [p EXCEPT !.token = t]
<1>1. /\ At(b, "Store") /\ session' = [session EXCEPT ![r.portal][r.who] = t]
      /\ Ending(b, m, r.portal, r.who)
      /\ UNCHANGED <<crossed, revoked, emailOtp, accounts, replica, nonces, clock, info, otp, cookie, page>>
  BY DEF StoreSession
<1>2. r \in Request /\ Now(r) = "Store" /\ p \in Request /\ Advances(emailOtp, r, p, "Store")
  BY <1>1, Continue DEF Steps
<1>3. Knows(emailOtp, r) /\ Stores
  BY StoresTyped DEF Shape
<1>4. /\ r.who \in Tickets /\ r.nonce # 0 /\ (r.portal = "employee" => r.who \in People)
      /\ r.portal \in Portals
  BY <1>2, <1>3 DEF Knows, Request
<1>5. t \in Token /\ t # NoOne /\ t.who = r.who /\ t.nonce = r.nonce
  <2>1. r.nonce \in 1..MaxNonce /\ clock \in 0..MaxClock
    BY <1>2, <1>3, <1>4, BoundsAssumption DEF Request, Stores
  <2>2. t \in Token
    BY <1>4, <2>1 DEF Token
  <2> QED BY <2>2, NoOneAssumption
<1> HIDE DEF t
<1>6. /\ m \in Request /\ Sent(r, m) /\ m.who = r.who /\ m.token = t
      /\ m.status = p.status /\ m.todo = p.todo /\ Now(m) = Now(p) /\ m.nonce = r.nonce
      /\ m.flag = r.flag
  <2> HIDE DEF p, r
  <2> QED BY <1>2, <1>5, ZenonT(60) DEF Advances, Request, Sent, Given, Now
<1>7. Turn(b, m) /\ signedIn' \in [Browsers -> [Portals -> BOOLEAN]]
  <2> HIDE DEF m
  <2> QED BY <1>1, <1>4, <1>6, EndingTurns DEF Shape
<1>8. Stores'
  <2> HIDE DEF r, m, p
  <2>1. /\ session' \in [Portals -> [Tickets -> Token \cup {NoOne}]]
        /\ \A q \in Portals, x \in Tickets :
             session'[q][x] = IF q = r.portal /\ x = r.who THEN t ELSE session[q][x]
    BY <1>1, <1>3, <1>4, <1>5 DEF Stores
  <2>2. \A q \in Portals, x \in Tickets : session'[q][x] # NoOne => session'[q][x].who = x
    BY <1>3, <1>5, <2>1 DEF Stores
  <2>3. session'["employee"][Default] = NoOne
    BY <1>3, <1>4, <2>1, DefaultAssumption DEF Stores, Stored, Portals, Tickets
  <2> QED BY <1>1, <1>3, <2>1, <2>2, <2>3 DEF Stores, Stored, Admins
<1>9. Knows(emailOtp, m)
  <2> HIDE DEF m, p, r
  <2>1. /\ Now(m) \in {"DropCode", "done", "DropDefault"}
        /\ m.status = IF Now(m) = "done" THEN "ok" ELSE "open"
        /\ Now(m) = "DropCode" => r.kind = "verify" /\ r.portal = "employee"
        /\ r.kind \in {"verify", "setup", "login"}
        /\ r.kind = "setup" => r.who # Default
    BY <1>2, <1>6 DEF Advances, After, Place
  <2>2. Underway(emailOtp, m)
    BY <1>2, <1>6, <2>1 DEF Advances, Underway, Goes, Sent
  <2> QED BY <1>1, <1>3, <1>5, <1>6, <2>1, <2>2 DEF Knows, Sent, Own
<1>10. r.kind \notin {"me", "change", "enable", "logout"}
  <2> HIDE DEF p, r
  <2> QED BY <1>2 DEF Advances, Place
<1> HIDE DEF m
<1> QED BY <1>1, <1>6, <1>7, <1>8, <1>9, <1>10, TurnShape

LEMMA DropCodeShape ==
  ASSUME Shape, NEW b \in Browsers, DropCode(b)
  PROVE  Shape'
<1> DEFINE r == req[b]
           p == Past(r)
<1>1. /\ At(b, "DropCode") /\ otp' = [otp EXCEPT ![CodeOf(r)][r.who] = NoOne] /\ Proceed(b, p)
      /\ UNCHANGED <<crossed, revoked, emailOtp, accounts, replica, nonces, clock, info, session, cookie, page>>
  BY DEF DropCode
<1>2. r \in Request /\ Now(r) = "DropCode" /\ p \in Request /\ Advances(emailOtp, r, p, "DropCode")
  BY <1>1, Continue DEF Steps
<1>3. Knows(emailOtp, r) /\ Stores
  BY StoresTyped DEF Shape
<1>4. Turn(b, p) /\ signedIn' = signedIn
  BY <1>1, <1>2, ProceedTurns DEF Shape
<1>5. Stores'
  <2>1. CodeOf(r) \in {"login", "reset", "admin"}
    BY DEF CodeOf
  <2>2. /\ otp' \in [{"login", "reset", "admin"} -> [People -> Codes \cup {NoOne}]]
        /\ \A k \in {"login", "reset", "admin"}, x \in People : otp'[k][x] # NoOne => otp[k][x] # NoOne
    BY <1>1, <1>3, <2>1 DEF Stores
  <2> QED BY <1>1, <1>3, <2>2 DEF Stores, Stored, Admins
<1>6. Knows(emailOtp, p)
  <2> HIDE DEF p, r
  <2>1. /\ r.kind \in {"verify", "reset"}
        /\ Now(p) = (IF r.kind = "verify" /\ r.portal = "admin" THEN "Store" ELSE "done")
        /\ p.status = IF Now(p) = "done" THEN "ok" ELSE "open"
    BY <1>2 DEF Advances, Place, After
  <2>2. Underway(emailOtp, p)
    BY <1>2, <2>1 DEF Advances, Underway, Goes, Sent
  <2>3. r.portal \in {"admin", "employee"}
    BY <1>2 DEF Request, Portals
  <2> QED BY <1>1, <1>2, <1>3, <2>1, <2>2, <2>3
          DEF Advances, Knows, Sent, Given, Own, Enters, TokenWho
<1>7. Sent(r, p) /\ p.who = r.who /\ p.token = r.token
  BY <1>2 DEF Advances
<1> QED BY <1>1, <1>2, <1>4, <1>5, <1>6, <1>7, TurnShape DEF Shape, TypeOK

LEMMA KeepSessionShape ==
  ASSUME Shape, NEW b \in Browsers, KeepSession(b)
  PROVE  Shape'
<1> DEFINE r == req[b]
           p == Past(r)
<1>1. At(b, "DropSession") /\ Proceed(b, p) /\ UNCHANGED <<stores, cookie, page>>
  BY DEF KeepSession
<1>2. r \in Request /\ Now(r) = "DropSession" /\ p \in Request /\ Advances(emailOtp, r, p, "DropSession")
  BY <1>1, Continue DEF Steps
<1>3. Knows(emailOtp, r)
  BY DEF Shape
<1>4. Knows(emailOtp, p) /\ Sent(r, p) /\ p.who = r.who /\ p.token = r.token
  <2> HIDE DEF p, r
  <2>1. r.kind = "logout" /\ Now(p) = "done" /\ p.status = "ok"
    BY <1>2 DEF Advances, Place, After
  <2> QED BY <1>2, <1>3, <2>1 DEF Advances, Knows, Sent, Given, Own, TokenWho, Underway, Enters
<1> QED BY <1>1, <1>2, <1>4, QuietShape

(* Sessions are dropped: that of the default administrator at the end of   *)
(* its set-up, that of whoever signs out.                                  *)
LEMMA DropShape ==
  ASSUME Shape, NEW b \in Browsers, DropDefault(b) \/ DropSession(b)
  PROVE  Shape'
<1> DEFINE r == req[b]
           p == Past(r)
<1>1. PICK s \in {"DropDefault", "DropSession"}, q \in Portals, t \in Tickets \cup {NoOne} :
        /\ At(b, s) /\ session' = [session EXCEPT ![q][t] = NoOne] /\ Ending(b, p, q, t)
        /\ UNCHANGED <<crossed, revoked, emailOtp, accounts, replica, nonces, clock, info, otp, cookie, page>>
  <2>1. r.portal \in Portals /\ r.who \in Tickets \cup {NoOne}
    BY DEF Shape, TypeOK, Request
  <2>2. CASE DropDefault(b)
    <3>1. /\ At(b, "DropDefault") /\ session' = [session EXCEPT !["admin"][Default] = NoOne]
          /\ Ending(b, p, "admin", Default)
          /\ UNCHANGED <<crossed, revoked, emailOtp, accounts, replica, nonces, clock, info, otp, cookie, page>>
      <4>1. session \in [Portals -> [Tickets -> Token \cup {NoOne}]]
        BY DEF Shape, TypeOK
      <4> QED BY <2>2, <4>1 DEF DropDefault, Portals
    <3> QED BY <3>1 DEF Portals, Tickets
  <2>3. CASE DropSession(b)
    BY <2>1, <2>3 DEF DropSession
  <2> QED BY <2>2, <2>3
<1>2. r \in Request /\ Now(r) = s /\ p \in Request /\ Advances(emailOtp, r, p, s)
  BY <1>1, Continue DEF Steps
<1>3. Knows(emailOtp, r) /\ Stores
  BY StoresTyped DEF Shape
<1>4. Turn(b, p) /\ signedIn' \in [Browsers -> [Portals -> BOOLEAN]]
  BY <1>1, <1>2, EndingTurns DEF Shape
<1>5. Stores'
  <2>1. /\ session' \in [Portals -> [Tickets -> Token \cup {NoOne}]]
        /\ \A k \in Portals, x \in Tickets : session'[k][x] \in {session[k][x], NoOne}
    BY <1>1, <1>3 DEF Stores
  <2>2. session'["employee"][Default] = NoOne
    BY <1>3, <2>1 DEF Stores, Stored, Portals, Tickets
  <2> QED BY <1>1, <1>3, <2>1, <2>2 DEF Stores, Stored, Admins
<1>6. Knows(emailOtp, p)
  <2> HIDE DEF p, r
  <2>1. r.kind \in {"setup", "logout"} /\ Now(p) = "done" /\ p.status = "ok"
        /\ (r.kind = "setup" => s = "DropDefault")
    BY <1>1, <1>2 DEF Advances, Place, After
  <2> QED BY <1>1, <1>2, <1>3, <2>1 DEF Advances, Knows, Sent, Given, Own, TokenWho, Underway, Enters
<1>7. Sent(r, p) /\ p.who = r.who /\ p.token = r.token
  BY <1>2 DEF Advances
<1> QED BY <1>1, <1>2, <1>4, <1>5, <1>6, <1>7, TurnShape

LEMMA FailShape ==
  ASSUME Shape, NEW b \in Browsers, Fail(b)
  PROVE  Shape'
<1>1. req[b] \in Request /\ Knows(emailOtp, req[b])
  BY DEF Shape, TypeOK
<1>2. Proceed(b, Refused(req[b], "error")) /\ UNCHANGED <<stores, cookie, page>>
  BY DEF Fail
<1> QED BY <1>1, <1>2, Refusal, QuietShape DEF Errors

-----------------------------------------------------------------------------
(* What browsers ask for.                                                  *)

(* The request n of kind k in portal q for t, as it is sent with cookies c *)
(* and not yet started.                                                    *)
Posed(e, c, q, k, t, n) ==
  /\ n \in Request /\ n.kind = k /\ n.portal = q /\ n.token = c[q] /\ n.lag = c.lag
  /\ n.who = IF k \in {"me", "change", "setup", "enable", "logout"} THEN TokenWho(n) ELSE t
  /\ n.nonce = 0 /\ n.flag = FALSE /\ n.clean = TRUE
  /\ n.status = IF k = "logout" /\ n.who = NoOne THEN "ok" ELSE "open"
  /\ Now(n) = IF n.status = "ok" THEN "done" ELSE Start(k, q)
  /\ Underway(e, n)

LEMMA Asked ==
  ASSUME emailOtp \in BOOLEAN, NEW q \in Portals, NEW k \in Kinds \ {"none"},
         NEW t \in Tickets \cup {NoOne},
         NEW c \in [employee : Token \cup {NoOne}, admin : Token \cup {NoOne}, lag : BOOLEAN]
  PROVE  /\ Posed(emailOtp, c, q, k, t, Ask(c, q, k, t))
         /\ LET n == Ask(c, q, k, t)
            IN n.pwd = NoOne /\ n.new = NoOne /\ n.ticket = NoOne /\ n.code = NoOne
<1> DEFINE w == IF k \in {"me", "change", "setup", "enable", "logout"}
                THEN IF c[q] = NoOne THEN NoOne ELSE c[q].who ELSE t
           h == Handler(k, q, w)
           n == Ask(c, q, k, t)
<1>1. n = [NoRequest EXCEPT !.kind = k, !.portal = q, !.who = w, !.token = c[q], !.lag = c.lag,
                            !.todo = h, !.status = IF h = <<>> THEN "ok" ELSE "open"]
  BY DEF Ask
<1>2. /\ h \in Seq(Steps)
      /\ h = <<>> <=> k = "logout" /\ w = NoOne
      /\ h # <<>> => Script(emailOtp, k, q, w, h) /\ Head(h) = Start(k, q)
  <2> HIDE DEF w
  <2> QED BY Handlers, Z3
<1>3. c[q] \in Token \cup {NoOne} /\ w \in Tickets \cup {NoOne} /\ c.lag \in BOOLEAN
  BY DEF Portals, Token
<1>4. 0 \in 0..MaxNonce
  BY BoundsAssumption
<1> HIDE DEF w, h, n
<1>5. /\ n \in Request /\ n.kind = k /\ n.portal = q /\ n.token = c[q] /\ n.lag = c.lag
      /\ n.who = w /\ n.todo = h /\ n.nonce = 0 /\ n.flag = FALSE /\ n.clean = TRUE
      /\ n.status = (IF h = <<>> THEN "ok" ELSE "open")
      /\ n.pwd = NoOne /\ n.new = NoOne /\ n.ticket = NoOne /\ n.code = NoOne
  BY <1>1, <1>2, <1>3, <1>4, ZenonT(60) DEF NoRequest, Request, Portals
<1>6. w = IF k \in {"me", "change", "setup", "enable", "logout"} THEN TokenWho(n) ELSE t
  BY <1>5 DEF w, TokenWho
<1>7. /\ n.status = IF k = "logout" /\ w = NoOne THEN "ok" ELSE "open"
      /\ Now(n) = IF n.status = "ok" THEN "done" ELSE Start(k, q)
      /\ Underway(emailOtp, n)
  BY <1>2, <1>5 DEF Now, Underway
<1> QED BY <1>5, <1>6, <1>7 DEF Posed, n

(* The arguments of a request may be filled in.                            *)
LEMMA Filled ==
  ASSUME NEW e, NEW c, NEW q, NEW k, NEW t, NEW n, NEW m \in Request, Posed(e, c, q, k, t, n),
         m.kind = n.kind, m.portal = n.portal, m.who = n.who, m.token = n.token,
         m.lag = n.lag, m.todo = n.todo, m.nonce = n.nonce, m.flag = n.flag,
         m.status = n.status, m.clean = n.clean
  PROVE  Posed(e, c, q, k, t, m)
BY DEF Posed, Now, Underway, TokenWho

LEMMA PosedKnows ==
  ASSUME NEW e, NEW c, NEW q, NEW k \in Kinds \ {"none"}, NEW t, NEW n, Posed(e, c, q, k, t, n),
         k \in {"reset", "change", "setup", "enable"} => n.new \in Passwords,
         k \in {"setup", "enable"} => q = "admin",
         k = "setup" /\ n.who = Default => n.ticket \in People
  PROVE  Knows(e, n)
<1>1. Now(n) \in {"Session", "SeedRead", "Password", "Code", "Mail", "DropSession", "done"}
      /\ (Now(n) = "Session" => k \in {"me", "change", "setup", "enable"})
      /\ (n.status = "ok" => k = "logout")
  BY DEF Posed, Start, Kinds
<1> QED BY <1>1 DEF Posed, Knows, Enters

LEMMA NoRequestIs ==
  ASSUME NEW e
  PROVE  NoRequest \in Request /\ Knows(e, NoRequest) /\ Now(NoRequest) = "done"
<1>1. <<>> \in Seq(Steps) /\ 0 \in 0..MaxNonce
  BY BoundsAssumption
<1>2. NoRequest \in Request
  BY <1>1 DEF NoRequest, Request, Kinds, Portals
<1>3. Now(NoRequest) = "done"
  BY DEF NoRequest, Now
<1> QED BY <1>2, <1>3 DEF NoRequest, Knows, Underway, Enters

(* What a user makes of the page of browser b and of its request.          *)
Poses(b, p, n) ==
  /\ p \in Page /\ n \in Request /\ Knows(emailOtp, n) /\ Matches(p, n, cookie[b])
  /\ n.kind # "none" => \E t : Posed(emailOtp, cookie[b], n.portal, n.kind, t, n)
  /\ p.at = "adminDashboard" /\ p.stage # "check" =>
       page[b].at = "adminDashboard" /\ page[b].stage # "check" /\ p.who = page[b].who
  /\ p.refused => page[b].refused
  /\ p.bounced => page[b].bounced /\ PortalOf(p.at) = PortalOf(page[b].at)

LEMMA UserSteps ==
  ASSUME Shape, UserStep
  PROVE  \E b \in Browsers : \E p, n : Idle(b) /\ Show(b, p, n) /\ Poses(b, p, n)
<1>0. PICK b \in Browsers :
        \/ \E at \in {"login", "forgot", "reset", "dashboard", "adminLogin", "adminDashboard"} :
             Visit(b, at)
        \/ \E t \in Tickets, pwd \in Passwords \cup {DefaultPassword} :
             SignIn(b, t, pwd) \/ AdminSignIn(b, t, pwd)
        \/ \E code \in Codes : EnterCode(b, code) \/ EnterAdminCode(b, code)
        \/ ResendCode(b) \/ GoBack(b) \/ OpenProfile(b)
        \/ SignOut(b) \/ AdminSignOut(b) \/ CancelSetUp(b)
        \/ \E t \in Tickets : ForgotPassword(b, t)
        \/ \E t \in People, code \in Codes, new \in Passwords : ResetPassword(b, t, code, new)
        \/ \E pwd, new \in Passwords :
             ChangePassword(b, pwd, new) \/ ChangeAdminPassword(b, pwd, new) \/ EnablePortal(b, pwd, new)
        \/ \E pwd \in Passwords \cup {DefaultPassword}, new \in Passwords,
              t \in People \cup {NoOne} : SetUp(b, pwd, new, t)
  BY DEF UserStep
<1> DEFINE c == cookie[b]
           o == page[b]
<1>1. /\ emailOtp \in BOOLEAN /\ o \in Page /\ Matches(o, req[b], c)
      /\ c \in [employee : Token \cup {NoOne}, admin : Token \cup {NoOne}, lag : BOOLEAN]
  BY DEF Shape, TypeOK
<1> SUFFICES Idle(b) /\ \E p, n : Show(b, p, n) /\ Poses(b, p, n)
  OBVIOUS
<1>2. Idle(b)
  BY <1>0 DEF Visit, SignIn, AdminSignIn, EnterCode, EnterAdminCode, ResendCode, GoBack, OpenProfile,
     SignOut, AdminSignOut, CancelSetUp, ForgotPassword, ResetPassword, ChangePassword,
     ChangeAdminPassword, EnablePortal, SetUp
<1>3. o.stage \notin {"check", "load"}
  BY <1>1, <1>2 DEF Matches, Idle
<1> HIDE DEF c, o
\* A page that is kept, and one of its forms.
<1>4. ASSUME NEW p \in Page, p.at = o.at, o.at \in {"setup", "adminDashboard"} => p.who = o.who,
             p.stage \notin {"check", "load"}, p.refused => o.refused, p.bounced => o.bounced,
             NEW q, NEW k \in Kinds \ {"none"}, NEW t, NEW n, Posed(emailOtp, c, q, k, t, n),
             q = PortalOf(o.at),
             k \in {"reset", "change", "setup", "enable"} => n.new \in Passwords,
             k \in {"setup", "enable"} => q = "admin",
             k = "setup" => o.at = "setup" /\ (o.who = Default => n.ticket \in People),
             k = "me" => o.at = "adminDashboard",
             k \in {"login", "verify"} => p.who = t
      PROVE  Poses(b, p, n)
  <2>1. k = "setup" /\ n.who = Default => n.ticket \in People
    <3>1. SUFFICES ASSUME k = "setup", n.who = Default
                   PROVE  o.who = Default
      BY <1>4
    <3>2. c.admin # NoOne /\ c.admin.who = Default
      BY <1>4, <3>1, NoOneAssumption DEF Posed, TokenWho, Tickets
    <3> QED BY <1>1, <1>4, <3>1, <3>2 DEF Matches
  <2>2. Knows(emailOtp, n)
    BY <1>4, <2>1, PosedKnows, Z3
  <2>3. Matches(p, n, c)
    BY <1>1, <1>4 DEF Matches, Posed, Kinds
  <2>4. n \in Request /\ n.kind = k /\ n.portal = q
    BY <1>4 DEF Posed
  <2>5. \E x : Posed(emailOtp, c, n.portal, n.kind, x, n)
    BY <1>4, <2>4
  <2>6. /\ p.at = "adminDashboard" => o.at = "adminDashboard" /\ o.stage # "check" /\ p.who = o.who
        /\ p.refused => o.refused
        /\ p.bounced => o.bounced /\ PortalOf(p.at) = PortalOf(o.at)
    BY <1>3, <1>4
  <2> QED BY <1>4, <2>2, <2>3, <2>4, <2>5, <2>6, Zenon DEF Poses, o, c
<1>5. CASE \E at \in {"login", "forgot", "reset", "dashboard", "adminLogin", "adminDashboard"} : Visit(b, at)
  <2>1. PICK at \in {"login", "forgot", "reset", "dashboard", "adminLogin", "adminDashboard"} : Visit(b, at)
    BY <1>5
  <2> USE DEF c
  <2> DEFINE p == Opened(at)
             n == Mount(c, at)
  <2>2. Show(b, p, n)
    BY <2>1 DEF Visit
  <2>3. /\ p \in Page /\ p.at = at /\ ~p.refused /\ ~p.bounced
        /\ p.stage = IF at \in {"login", "dashboard", "adminLogin", "adminDashboard"} THEN "check" ELSE "ready"
    BY <2>1 DEF Opened, Page
  <2>4. CASE p.stage = "check"
    <3>1. n = Ask(c, PortalOf(at), "me", NoOne) /\ PortalOf(at) \in Portals /\ "me" \in Kinds \ {"none"}
      BY <2>4 DEF Mount, PortalOf, Portals, Kinds
    <3> HIDE DEF n, p
    <3>2. Posed(emailOtp, c, PortalOf(at), "me", NoOne, n)
      BY <1>1, <3>1, Asked
    <3>3. Knows(emailOtp, n)
      BY <3>1, <3>2, PosedKnows
    <3>4. n \in Request /\ n.kind = "me" /\ n.portal = PortalOf(at) /\ n.token = c[n.portal]
      BY <3>2 DEF Posed
    <3>5. Matches(p, n, c)
      BY <2>3, <2>4, <3>4 DEF Matches
    <3>6. Poses(b, p, n)
      BY <2>3, <2>4, <3>2, <3>3, <3>4, <3>5 DEF Poses
    <3> QED BY <1>2, <2>2, <3>6
  <2>5. CASE p.stage # "check"
    <3>1. n = NoRequest /\ p.stage = "ready"
      BY <2>1, <2>3, <2>5 DEF Mount
    <3> HIDE DEF n, p
    <3>2. n \in Request /\ Knows(emailOtp, n) /\ n.kind = "none"
      BY <3>1, NoRequestIs DEF NoRequest
    <3>3. Matches(p, n, c)
      BY <2>1, <2>3, <3>1, <3>2 DEF Matches
    <3>4. Poses(b, p, n)
      BY <2>1, <2>3, <2>5, <3>1, <3>2, <3>3 DEF Poses
    <3> QED BY <1>2, <2>2, <3>4
  <2> QED BY <2>4, <2>5
<1>10. CASE \E t \in Tickets, pwd \in Passwords \cup {DefaultPassword} : SignIn(b, t, pwd) \/ AdminSignIn(b, t, pwd)
  <2>1. PICK t \in Tickets, pwd \in Passwords \cup {DefaultPassword} :
          SignIn(b, t, pwd) \/ AdminSignIn(b, t, pwd)
    BY <1>10
  <2>2. CASE SignIn(b, t, pwd)
    <3> DEFINE p == [o EXCEPT !.who = t]
               m == Ask(c, "employee", "login", t)
               n == [m EXCEPT !.pwd = pwd]
    <3>1. Show(b, p, n)
      BY <2>2 DEF SignIn, o, c
    <3>2. o.at = "login"
      BY <2>2 DEF SignIn, SignInForm, o
    <3>3. /\ p \in Page /\ p.at = o.at /\ (o.at \in {"setup", "adminDashboard"} => p.who = o.who)
          /\ p.stage \notin {"check", "load"} /\ (p.refused => o.refused) /\ (p.bounced => o.bounced)
          /\ t \in Tickets \cup {NoOne} /\ p.who = t
      BY <1>1, <1>3, <3>2 DEF Page, Tickets
    <3>4. "login" \in Kinds \ {"none"} /\ "employee" \in Portals /\ "employee" = PortalOf(o.at)
      BY <3>2 DEF Kinds, Portals, PortalOf, AdminSide
    <3>5. Posed(emailOtp, c, "employee", "login", t, m)
      BY <1>1, <3>3, <3>4, Asked, Z3
    <3> HIDE DEF p, m
    <3>6. /\ n \in Request /\ n.kind = m.kind /\ n.portal = m.portal /\ n.who = m.who
          /\ n.token = m.token /\ n.lag = m.lag /\ n.todo = m.todo /\ n.nonce = m.nonce
          /\ n.flag = m.flag /\ n.status = m.status /\ n.clean = m.clean
      <4>1. m \in Request
        BY <3>5 DEF Posed
      <4> QED BY <4>1 DEF Request, Secrets
    <3> HIDE DEF n
    <3>7. Posed(emailOtp, c, "employee", "login", t, n)
      BY <3>5, <3>6, Filled, Z3
    <3>8. Poses(b, p, n)
      BY <1>4, <3>2, <3>3, <3>4, <3>6, <3>7, Z3
    <3> QED BY <1>2, <3>1, <3>8
  <2>3. CASE AdminSignIn(b, t, pwd)
    <3> DEFINE p == [o EXCEPT !.who = t, !.refused = FALSE]
               m == Ask(c, "admin", "login", t)
               n == [m EXCEPT !.pwd = pwd]
    <3>1. Show(b, p, n)
      BY <2>3 DEF AdminSignIn, o, c
    <3>2. o.at = "adminLogin"
      BY <2>3 DEF AdminSignIn, AdminSignInForm, o
    <3>3. /\ p \in Page /\ p.at = o.at /\ (o.at \in {"setup", "adminDashboard"} => p.who = o.who)
          /\ p.stage \notin {"check", "load"} /\ (p.refused => o.refused) /\ (p.bounced => o.bounced)
          /\ t \in Tickets \cup {NoOne} /\ p.who = t
      BY <1>1, <1>3, <3>2 DEF Page, Tickets
    <3>4. "login" \in Kinds \ {"none"} /\ "admin" \in Portals /\ "admin" = PortalOf(o.at)
      BY <3>2 DEF Kinds, Portals, PortalOf, AdminSide
    <3>5. Posed(emailOtp, c, "admin", "login", t, m)
      BY <1>1, <3>3, <3>4, Asked, Z3
    <3> HIDE DEF p, m
    <3>6. /\ n \in Request /\ n.kind = m.kind /\ n.portal = m.portal /\ n.who = m.who
          /\ n.token = m.token /\ n.lag = m.lag /\ n.todo = m.todo /\ n.nonce = m.nonce
          /\ n.flag = m.flag /\ n.status = m.status /\ n.clean = m.clean
      <4>1. m \in Request
        BY <3>5 DEF Posed
      <4> QED BY <4>1 DEF Request, Secrets
    <3> HIDE DEF n
    <3>7. Posed(emailOtp, c, "admin", "login", t, n)
      BY <3>5, <3>6, Filled, Z3
    <3>8. Poses(b, p, n)
      BY <1>4, <3>2, <3>3, <3>4, <3>6, <3>7, Z3
    <3> QED BY <1>2, <3>1, <3>8
  <2> QED BY <2>1, <2>2, <2>3
<1>11. CASE \E code \in Codes : EnterCode(b, code) \/ EnterAdminCode(b, code)
  <2>1. PICK code \in Codes :
          EnterCode(b, code) \/ EnterAdminCode(b, code)
    BY <1>11
  <2>2. CASE EnterCode(b, code)
    <3> DEFINE p == o
               m == Ask(c, "employee", "verify", o.who)
               n == [m EXCEPT !.code = code]
    <3>1. Show(b, p, n)
      BY <2>2 DEF EnterCode, o, c
    <3>2. o.at = "otp"
      BY <2>2 DEF EnterCode, CodeForm, o
    <3>3. /\ p \in Page /\ p.at = o.at /\ (o.at \in {"setup", "adminDashboard"} => p.who = o.who)
          /\ p.stage \notin {"check", "load"} /\ (p.refused => o.refused) /\ (p.bounced => o.bounced)
          /\ o.who \in Tickets \cup {NoOne} /\ p.who = o.who
      BY <1>1, <1>3, <3>2 DEF Page
    <3>4. "verify" \in Kinds \ {"none"} /\ "employee" \in Portals /\ "employee" = PortalOf(o.at)
      BY <3>2 DEF Kinds, Portals, PortalOf, AdminSide
    <3>5. Posed(emailOtp, c, "employee", "verify", o.who, m)
      BY <1>1, <3>3, <3>4, Asked, Z3
    <3> HIDE DEF p, m
    <3>6. /\ n \in Request /\ n.kind = m.kind /\ n.portal = m.portal /\ n.who = m.who
          /\ n.token = m.token /\ n.lag = m.lag /\ n.todo = m.todo /\ n.nonce = m.nonce
          /\ n.flag = m.flag /\ n.status = m.status /\ n.clean = m.clean
      <4>1. m \in Request
        BY <3>5 DEF Posed
      <4> QED BY <4>1 DEF Request, Secrets
    <3> HIDE DEF n
    <3>7. Posed(emailOtp, c, "employee", "verify", o.who, n)
      BY <3>5, <3>6, Filled, Z3
    <3>8. Poses(b, p, n)
      BY <1>4, <3>2, <3>3, <3>4, <3>6, <3>7, Z3
    <3> QED BY <1>2, <3>1, <3>8
  <2>3. CASE EnterAdminCode(b, code)
    <3> DEFINE p == o
               m == Ask(c, "admin", "verify", o.who)
               n == [m EXCEPT !.code = code]
    <3>1. Show(b, p, n)
      BY <2>3 DEF EnterAdminCode, o, c
    <3>2. o.at = "adminOtp"
      BY <2>3 DEF EnterAdminCode, AdminCodeForm, o
    <3>3. /\ p \in Page /\ p.at = o.at /\ (o.at \in {"setup", "adminDashboard"} => p.who = o.who)
          /\ p.stage \notin {"check", "load"} /\ (p.refused => o.refused) /\ (p.bounced => o.bounced)
          /\ o.who \in Tickets \cup {NoOne} /\ p.who = o.who
      BY <1>1, <1>3, <3>2 DEF Page
    <3>4. "verify" \in Kinds \ {"none"} /\ "admin" \in Portals /\ "admin" = PortalOf(o.at)
      BY <3>2 DEF Kinds, Portals, PortalOf, AdminSide
    <3>5. Posed(emailOtp, c, "admin", "verify", o.who, m)
      BY <1>1, <3>3, <3>4, Asked, Z3
    <3> HIDE DEF p, m
    <3>6. /\ n \in Request /\ n.kind = m.kind /\ n.portal = m.portal /\ n.who = m.who
          /\ n.token = m.token /\ n.lag = m.lag /\ n.todo = m.todo /\ n.nonce = m.nonce
          /\ n.flag = m.flag /\ n.status = m.status /\ n.clean = m.clean
      <4>1. m \in Request
        BY <3>5 DEF Posed
      <4> QED BY <4>1 DEF Request, Secrets
    <3> HIDE DEF n
    <3>7. Posed(emailOtp, c, "admin", "verify", o.who, n)
      BY <3>5, <3>6, Filled, Z3
    <3>8. Poses(b, p, n)
      BY <1>4, <3>2, <3>3, <3>4, <3>6, <3>7, Z3
    <3> QED BY <1>2, <3>1, <3>8
  <2> QED BY <2>1, <2>2, <2>3
<1>12. CASE \E t \in Tickets : ForgotPassword(b, t)
  <2>1. PICK t \in Tickets :
          ForgotPassword(b, t)
    BY <1>12
  <2>2. CASE ForgotPassword(b, t)
    <3> DEFINE p == o
               m == Ask(c, "employee", "forgot", t)
    <3>1. Show(b, p, m)
      BY <2>2 DEF ForgotPassword, o, c
    <3>2. o.at = "forgot"
      BY <2>2 DEF ForgotPassword, ForgotForm, o
    <3>3. /\ p \in Page /\ p.at = o.at /\ (o.at \in {"setup", "adminDashboard"} => p.who = o.who)
          /\ p.stage \notin {"check", "load"} /\ (p.refused => o.refused) /\ (p.bounced => o.bounced)
          /\ t \in Tickets \cup {NoOne}
      BY <1>1, <1>3, <3>2 DEF Page, Tickets
    <3>4. "forgot" \in Kinds \ {"none"} /\ "employee" \in Portals /\ "employee" = PortalOf(o.at)
      BY <3>2 DEF Kinds, Portals, PortalOf, AdminSide
    <3>5. Posed(emailOtp, c, "employee", "forgot", t, m)
      BY <1>1, <3>3, <3>4, Asked, Z3
    <3> HIDE DEF p, m
    <3>6. Poses(b, p, m)
      BY <1>4, <3>2, <3>3, <3>4, <3>5, Z3
    <3> QED BY <1>2, <3>1, <3>6
  <2> QED BY <2>1, <2>2
<1>13. CASE \E t \in People, code \in Codes, new \in Passwords : ResetPassword(b, t, code, new)
  <2>1. PICK t \in People, code \in Codes, new \in Passwords :
          ResetPassword(b, t, code, new)
    BY <1>13
  <2>2. CASE ResetPassword(b, t, code, new)
    <3> DEFINE p == o
               m == Ask(c, "employee", "reset", t)
               n == [m EXCEPT !.code = code, !.new = new]
    <3>1. Show(b, p, n)
      BY <2>2 DEF ResetPassword, o, c
    <3>2. o.at = "reset"
      BY <2>2 DEF ResetPassword, ResetForm, o
    <3>3. /\ p \in Page /\ p.at = o.at /\ (o.at \in {"setup", "adminDashboard"} => p.who = o.who)
          /\ p.stage \notin {"check", "load"} /\ (p.refused => o.refused) /\ (p.bounced => o.bounced)
          /\ t \in Tickets \cup {NoOne}
      BY <1>1, <1>3, <3>2 DEF Page, Tickets
    <3>4. "reset" \in Kinds \ {"none"} /\ "employee" \in Portals /\ "employee" = PortalOf(o.at)
      BY <3>2 DEF Kinds, Portals, PortalOf, AdminSide
    <3>5. Posed(emailOtp, c, "employee", "reset", t, m)
      BY <1>1, <3>3, <3>4, Asked, Z3
    <3> HIDE DEF p, m
    <3>6. /\ n \in Request /\ n.kind = m.kind /\ n.portal = m.portal /\ n.who = m.who
          /\ n.token = m.token /\ n.lag = m.lag /\ n.todo = m.todo /\ n.nonce = m.nonce
          /\ n.flag = m.flag /\ n.status = m.status /\ n.clean = m.clean
          /\ n.new = new
      <4>1. m \in Request
        BY <3>5 DEF Posed
      <4> QED BY <4>1 DEF Request, Secrets
    <3> HIDE DEF n
    <3>7. Posed(emailOtp, c, "employee", "reset", t, n)
      BY <3>5, <3>6, Filled, Z3
    <3>8. Poses(b, p, n)
      BY <1>4, <3>2, <3>3, <3>4, <3>6, <3>7, Z3
    <3> QED BY <1>2, <3>1, <3>8
  <2> QED BY <2>1, <2>2
<1>14. CASE \E pwd, new \in Passwords :
             ChangePassword(b, pwd, new) \/ ChangeAdminPassword(b, pwd, new) \/ EnablePortal(b, pwd, new)
  <2>1. PICK pwd \in Passwords, new \in Passwords :
          ChangePassword(b, pwd, new) \/ ChangeAdminPassword(b, pwd, new) \/ EnablePortal(b, pwd, new)
    BY <1>14
  <2>2. CASE ChangePassword(b, pwd, new)
    <3> DEFINE p == o
               m == Ask(c, "employee", "change", NoOne)
               n == [m EXCEPT !.pwd = pwd, !.new = new]
    <3>1. Show(b, p, n)
      BY <2>2 DEF ChangePassword, o, c
    <3>2. o.at = "dashboard"
      BY <2>2 DEF ChangePassword, ProfileShown, o
    <3>3. /\ p \in Page /\ p.at = o.at /\ (o.at \in {"setup", "adminDashboard"} => p.who = o.who)
          /\ p.stage \notin {"check", "load"} /\ (p.refused => o.refused) /\ (p.bounced => o.bounced)
          /\ NoOne \in Tickets \cup {NoOne}
      BY <1>1, <1>3, <3>2 DEF Page
    <3>4. "change" \in Kinds \ {"none"} /\ "employee" \in Portals /\ "employee" = PortalOf(o.at)
      BY <3>2 DEF Kinds, Portals, PortalOf, AdminSide
    <3>5. Posed(emailOtp, c, "employee", "change", NoOne, m)
      BY <1>1, <3>3, <3>4, Asked, Z3
    <3> HIDE DEF p, m
    <3>6. /\ n \in Request /\ n.kind = m.kind /\ n.portal = m.portal /\ n.who = m.who
          /\ n.token = m.token /\ n.lag = m.lag /\ n.todo = m.todo /\ n.nonce = m.nonce
          /\ n.flag = m.flag /\ n.status = m.status /\ n.clean = m.clean
          /\ n.new = new
      <4>1. m \in Request
        BY <3>5 DEF Posed
      <4> QED BY <4>1 DEF Request, Secrets
    <3> HIDE DEF n
    <3>7. Posed(emailOtp, c, "employee", "change", NoOne, n)
      BY <3>5, <3>6, Filled, Z3
    <3>8. Poses(b, p, n)
      BY <1>4, <3>2, <3>3, <3>4, <3>6, <3>7, Z3
    <3> QED BY <1>2, <3>1, <3>8
  <2>3. CASE ChangeAdminPassword(b, pwd, new)
    <3> DEFINE p == o
               m == Ask(c, "admin", "change", NoOne)
               n == [m EXCEPT !.pwd = pwd, !.new = new]
    <3>1. Show(b, p, n)
      BY <2>3 DEF ChangeAdminPassword, o, c
    <3>2. o.at = "adminDashboard"
      BY <2>3 DEF ChangeAdminPassword, AdminProfileShown, o
    <3>3. /\ p \in Page /\ p.at = o.at /\ (o.at \in {"setup", "adminDashboard"} => p.who = o.who)
          /\ p.stage \notin {"check", "load"} /\ (p.refused => o.refused) /\ (p.bounced => o.bounced)
          /\ NoOne \in Tickets \cup {NoOne}
      BY <1>1, <1>3, <3>2 DEF Page
    <3>4. "change" \in Kinds \ {"none"} /\ "admin" \in Portals /\ "admin" = PortalOf(o.at)
      BY <3>2 DEF Kinds, Portals, PortalOf, AdminSide
    <3>5. Posed(emailOtp, c, "admin", "change", NoOne, m)
      BY <1>1, <3>3, <3>4, Asked, Z3
    <3> HIDE DEF p, m
    <3>6. /\ n \in Request /\ n.kind = m.kind /\ n.portal = m.portal /\ n.who = m.who
          /\ n.token = m.token /\ n.lag = m.lag /\ n.todo = m.todo /\ n.nonce = m.nonce
          /\ n.flag = m.flag /\ n.status = m.status /\ n.clean = m.clean
          /\ n.new = new
      <4>1. m \in Request
        BY <3>5 DEF Posed
      <4> QED BY <4>1 DEF Request, Secrets
    <3> HIDE DEF n
    <3>7. Posed(emailOtp, c, "admin", "change", NoOne, n)
      BY <3>5, <3>6, Filled, Z3
    <3>8. Poses(b, p, n)
      BY <1>4, <3>2, <3>3, <3>4, <3>6, <3>7, Z3
    <3> QED BY <1>2, <3>1, <3>8
  <2>4. CASE EnablePortal(b, pwd, new)
    <3> DEFINE p == o
               m == Ask(c, "admin", "enable", NoOne)
               n == [m EXCEPT !.pwd = pwd, !.new = new]
    <3>1. Show(b, p, n)
      BY <2>4 DEF EnablePortal, o, c
    <3>2. o.at = "adminDashboard"
      BY <2>4 DEF EnablePortal, EnableForm, HeaderOffers, ProfileOffers, AdminProfileShown, o
    <3>3. /\ p \in Page /\ p.at = o.at /\ (o.at \in {"setup", "adminDashboard"} => p.who = o.who)
          /\ p.stage \notin {"check", "load"} /\ (p.refused => o.refused) /\ (p.bounced => o.bounced)
          /\ NoOne \in Tickets \cup {NoOne}
      BY <1>1, <1>3, <3>2 DEF Page
    <3>4. "enable" \in Kinds \ {"none"} /\ "admin" \in Portals /\ "admin" = PortalOf(o.at)
      BY <3>2 DEF Kinds, Portals, PortalOf, AdminSide
    <3>5. Posed(emailOtp, c, "admin", "enable", NoOne, m)
      BY <1>1, <3>3, <3>4, Asked, Z3
    <3> HIDE DEF p, m
    <3>6. /\ n \in Request /\ n.kind = m.kind /\ n.portal = m.portal /\ n.who = m.who
          /\ n.token = m.token /\ n.lag = m.lag /\ n.todo = m.todo /\ n.nonce = m.nonce
          /\ n.flag = m.flag /\ n.status = m.status /\ n.clean = m.clean
          /\ n.new = new
      <4>1. m \in Request
        BY <3>5 DEF Posed
      <4> QED BY <4>1 DEF Request, Secrets
    <3> HIDE DEF n
    <3>7. Posed(emailOtp, c, "admin", "enable", NoOne, n)
      BY <3>5, <3>6, Filled, Z3
    <3>8. Poses(b, p, n)
      BY <1>4, <3>2, <3>3, <3>4, <3>6, <3>7, Z3
    <3> QED BY <1>2, <3>1, <3>8
  <2> QED BY <2>1, <2>2, <2>3, <2>4
<1>15. CASE \E pwd \in Passwords \cup {DefaultPassword}, new \in Passwords,
              t \in People \cup {NoOne} : SetUp(b, pwd, new, t)
  <2>1. PICK pwd \in Passwords \cup {DefaultPassword}, new \in Passwords,
              t \in People \cup {NoOne} :
          SetUp(b, pwd, new, t)
    BY <1>15
  <2>2. CASE SetUp(b, pwd, new, t)
    <3> DEFINE p == o
               m == Ask(c, "admin", "setup", NoOne)
               n == [m EXCEPT !.pwd = pwd, !.new = new, !.ticket = t]
    <3>1. Show(b, p, n)
      BY <2>2 DEF SetUp, o, c
    <3>2. o.at = "setup" /\ (o.who = Default => t \in People)
      BY <2>2 DEF SetUp, SetUpForm, o
    <3>3. /\ p \in Page /\ p.at = o.at /\ (o.at \in {"setup", "adminDashboard"} => p.who = o.who)
          /\ p.stage \notin {"check", "load"} /\ (p.refused => o.refused) /\ (p.bounced => o.bounced)
          /\ NoOne \in Tickets \cup {NoOne}
      BY <1>1, <1>3, <3>2 DEF Page
    <3>4. "setup" \in Kinds \ {"none"} /\ "admin" \in Portals /\ "admin" = PortalOf(o.at)
      BY <3>2 DEF Kinds, Portals, PortalOf, AdminSide
    <3>5. Posed(emailOtp, c, "admin", "setup", NoOne, m)
      BY <1>1, <3>3, <3>4, Asked, Z3
    <3> HIDE DEF p, m
    <3>6. /\ n \in Request /\ n.kind = m.kind /\ n.portal = m.portal /\ n.who = m.who
          /\ n.token = m.token /\ n.lag = m.lag /\ n.todo = m.todo /\ n.nonce = m.nonce
          /\ n.flag = m.flag /\ n.status = m.status /\ n.clean = m.clean
          /\ n.new = new /\ n.ticket = t
      <4>1. m \in Request
        BY <3>5 DEF Posed
      <4> QED BY <4>1 DEF Request, Secrets
    <3> HIDE DEF n
    <3>7. Posed(emailOtp, c, "admin", "setup", NoOne, n)
      BY <3>5, <3>6, Filled, Z3
    <3>8. Poses(b, p, n)
      BY <1>4, <3>2, <3>3, <3>4, <3>6, <3>7, Z3
    <3> QED BY <1>2, <3>1, <3>8
  <2> QED BY <2>1, <2>2
<1>16. CASE ResendCode(b)
  <2> DEFINE p == o
             m == Ask(c, "employee", "resend", o.who)
  <2>1. Show(b, p, m)
    BY <1>16 DEF ResendCode, o, c
  <2>2. o.at = "otp"
    BY <1>16 DEF ResendCode, CodeForm, o
  <2>3. /\ p \in Page /\ p.at = o.at /\ (o.at \in {"setup", "adminDashboard"} => p.who = o.who)
        /\ p.stage \notin {"check", "load"} /\ (p.refused => o.refused) /\ (p.bounced => o.bounced)
        /\ o.who \in Tickets \cup {NoOne}
    BY <1>1, <1>3, <2>2 DEF Page
  <2>4. "resend" \in Kinds \ {"none"} /\ "employee" \in Portals /\ "employee" = PortalOf(o.at)
    BY <2>2 DEF Kinds, Portals, PortalOf, AdminSide
  <2>5. Posed(emailOtp, c, "employee", "resend", o.who, m)
    BY <1>1, <2>3, <2>4, Asked, Z3
  <2> HIDE DEF p, m
  <2>6. Poses(b, p, m)
    BY <1>4, <2>2, <2>3, <2>4, <2>5, Z3
  <2> QED BY <1>2, <2>1, <2>6
<1>17. CASE OpenProfile(b)
  <2> DEFINE p == [o EXCEPT !.stage = "profile"]
             m == Ask(c, "admin", "me", NoOne)
  <2>1. Show(b, p, m)
    BY <1>17 DEF OpenProfile, o, c
  <2>2. o.at = "adminDashboard"
    BY <1>17 DEF OpenProfile, o
  <2>3. /\ p \in Page /\ p.at = o.at /\ (o.at \in {"setup", "adminDashboard"} => p.who = o.who)
        /\ p.stage \notin {"check", "load"} /\ (p.refused => o.refused) /\ (p.bounced => o.bounced)
        /\ NoOne \in Tickets \cup {NoOne}
    BY <1>1, <1>3, <2>2 DEF Page
  <2>4. "me" \in Kinds \ {"none"} /\ "admin" \in Portals /\ "admin" = PortalOf(o.at)
    BY <2>2 DEF Kinds, Portals, PortalOf, AdminSide
  <2>5. Posed(emailOtp, c, "admin", "me", NoOne, m)
    BY <1>1, <2>3, <2>4, Asked, Z3
  <2> HIDE DEF p, m
  <2>6. Poses(b, p, m)
    BY <1>4, <2>2, <2>3, <2>4, <2>5, Z3
  <2> QED BY <1>2, <2>1, <2>6
<1>18. CASE SignOut(b)
  <2> DEFINE p == o
             m == Ask(c, "employee", "logout", NoOne)
  <2>1. Show(b, p, m)
    BY <1>18 DEF SignOut, o, c
  <2>2. o.at = "dashboard"
    BY <1>18 DEF SignOut, o
  <2>3. /\ p \in Page /\ p.at = o.at /\ (o.at \in {"setup", "adminDashboard"} => p.who = o.who)
        /\ p.stage \notin {"check", "load"} /\ (p.refused => o.refused) /\ (p.bounced => o.bounced)
        /\ NoOne \in Tickets \cup {NoOne}
    BY <1>1, <1>3, <2>2 DEF Page
  <2>4. "logout" \in Kinds \ {"none"} /\ "employee" \in Portals /\ "employee" = PortalOf(o.at)
    BY <2>2 DEF Kinds, Portals, PortalOf, AdminSide
  <2>5. Posed(emailOtp, c, "employee", "logout", NoOne, m)
    BY <1>1, <2>3, <2>4, Asked, Z3
  <2> HIDE DEF p, m
  <2>6. Poses(b, p, m)
    BY <1>4, <2>2, <2>3, <2>4, <2>5, Z3
  <2> QED BY <1>2, <2>1, <2>6
<1>19. CASE AdminSignOut(b)
  <2> DEFINE p == o
             m == Ask(c, "admin", "logout", NoOne)
  <2>1. Show(b, p, m)
    BY <1>19 DEF AdminSignOut, o, c
  <2>2. o.at = "adminDashboard"
    BY <1>19 DEF AdminSignOut, o
  <2>3. /\ p \in Page /\ p.at = o.at /\ (o.at \in {"setup", "adminDashboard"} => p.who = o.who)
        /\ p.stage \notin {"check", "load"} /\ (p.refused => o.refused) /\ (p.bounced => o.bounced)
        /\ NoOne \in Tickets \cup {NoOne}
    BY <1>1, <1>3, <2>2 DEF Page
  <2>4. "logout" \in Kinds \ {"none"} /\ "admin" \in Portals /\ "admin" = PortalOf(o.at)
    BY <2>2 DEF Kinds, Portals, PortalOf, AdminSide
  <2>5. Posed(emailOtp, c, "admin", "logout", NoOne, m)
    BY <1>1, <2>3, <2>4, Asked, Z3
  <2> HIDE DEF p, m
  <2>6. Poses(b, p, m)
    BY <1>4, <2>2, <2>3, <2>4, <2>5, Z3
  <2> QED BY <1>2, <2>1, <2>6
<1>20. CASE CancelSetUp(b)
  <2> DEFINE p == o
             m == Ask(c, "admin", "logout", NoOne)
  <2>1. Show(b, p, m)
    BY <1>20 DEF CancelSetUp, o, c
  <2>2. o.at = "setup"
    BY <1>20 DEF CancelSetUp, o
  <2>3. /\ p \in Page /\ p.at = o.at /\ (o.at \in {"setup", "adminDashboard"} => p.who = o.who)
        /\ p.stage \notin {"check", "load"} /\ (p.refused => o.refused) /\ (p.bounced => o.bounced)
        /\ NoOne \in Tickets \cup {NoOne}
    BY <1>1, <1>3, <2>2 DEF Page
  <2>4. "logout" \in Kinds \ {"none"} /\ "admin" \in Portals /\ "admin" = PortalOf(o.at)
    BY <2>2 DEF Kinds, Portals, PortalOf, AdminSide
  <2>5. Posed(emailOtp, c, "admin", "logout", NoOne, m)
    BY <1>1, <2>3, <2>4, Asked, Z3
  <2> HIDE DEF p, m
  <2>6. Poses(b, p, m)
    BY <1>4, <2>2, <2>3, <2>4, <2>5, Z3
  <2> QED BY <1>2, <2>1, <2>6
<1>21. CASE GoBack(b)
  <2> DEFINE p == [o EXCEPT !.at = "adminLogin"]
             n == NoRequest
  <2>1. Show(b, p, n)
    BY <1>21 DEF GoBack, o
  <2>2. o.at = "adminOtp"
    BY <1>21 DEF GoBack, AdminCodeForm, o
  <2>3. /\ p \in Page /\ p.at = "adminLogin" /\ p.stage = o.stage
        /\ p.refused = o.refused /\ p.bounced = o.bounced
    BY <1>1 DEF Page
  <2>4. n \in Request /\ Knows(emailOtp, n) /\ n.kind = "none"
    BY NoRequestIs DEF NoRequest
  <2> HIDE DEF p, n
  <2>5. Matches(p, n, c)
    BY <1>3, <2>3, <2>4 DEF Matches
  <2>6. Poses(b, p, n)
    BY <2>2, <2>3, <2>4, <2>5 DEF Poses, o, c, PortalOf, AdminSide
  <2> QED BY <1>2, <2>1, <2>6
<1> QED BY <1>0, <1>5, <1>10, <1>11, <1>12, <1>13, <1>14, <1>15, <1>16, <1>17, <1>18, <1>19, <1>20, <1>21

(* What the answer to the request of browser b makes of its page.          *)
AnsweredPage(b) ==
  LET r == req[b]
  IN CASE r.kind = "me" -> AfterMe(page[b], r)
       [] r.kind \in {"login", "verify"} -> AfterLogin(b, r)
       [] r.kind = "logout" -> AfterLogout(b, r)
       [] OTHER -> AfterForm(b, r)

AnsweredRequest(p, c) ==
  IF p.stage \in {"check", "load"} THEN Ask(c, PortalOf(p.at), "me", NoOne) ELSE NoRequest

LEMMA OpenedPage ==
  ASSUME NEW at \in {"login", "otp", "forgot", "reset", "expired", "dashboard",
                     "adminLogin", "adminOtp", "setup", "adminDashboard", "blank"}
  PROVE  /\ Opened(at) \in Page /\ Opened(at).at = at
         /\ Opened(at).stage = IF at \in {"login", "dashboard", "adminLogin", "adminDashboard"}
                               THEN "check" ELSE "ready"
         /\ Opened(at).who = NoOne /\ ~Opened(at).refused /\ ~Opened(at).bounced
BY DEF Opened, Page

LEMMA HomePage ==
  ASSUME NEW r
  PROVE  /\ Home(r) \in Page /\ Home(r).at = IF r.portal = "admin" THEN "adminDashboard" ELSE "dashboard"
         /\ Home(r).stage = "check" /\ ~Home(r).refused /\ ~Home(r).bounced
<1>1. CASE r.portal = "admin"
  <2>1. Home(r) = Opened("adminDashboard")
    BY <1>1 DEF Home
  <2> QED BY <1>1, <2>1, OpenedPage
<1>2. CASE r.portal # "admin"
  <2>1. Home(r) = Opened("dashboard")
    BY <1>2 DEF Home
  <2> QED BY <1>2, <2>1, OpenedPage
<1> QED BY <1>1, <1>2

LEMMA BouncedPage ==
  ASSUME NEW r \in Request
  PROVE  /\ Bounced(r) \in Page /\ Bounced(r).at = IF r.portal = "admin" THEN "adminLogin" ELSE "expired"
         /\ Bounced(r).stage = IF r.portal = "admin" THEN "check" ELSE "ready"
         /\ ~Bounced(r).refused /\ Bounced(r).bounced = (r.lag /\ r.status # "error")
<1> DEFINE at == IF r.portal = "admin" THEN "adminLogin" ELSE "expired"
           o == Opened(at)
           l == r.lag /\ r.status # "error"
<1>1. Bounced(r) = [o EXCEPT !.bounced = l]
  BY DEF Bounced
<1>2. o \in Page /\ o.at = at /\ ~o.refused /\ o.stage = IF r.portal = "admin" THEN "check" ELSE "ready"
  BY OpenedPage
<1>3. l \in BOOLEAN
  BY DEF Request
<1> HIDE DEF o, l
<1>4. /\ Bounced(r) \in Page /\ Bounced(r).at = o.at /\ Bounced(r).stage = o.stage
      /\ Bounced(r).refused = o.refused /\ Bounced(r).bounced = l
  BY <1>1, <1>2, <1>3 DEF Page
<1> QED BY <1>2, <1>4 DEF l

(* After the answer to me.                                                 *)
LEMMA AfterMeIs ==
  ASSUME NEW o \in Page, NEW r \in Request, r.kind = "me", r.portal = PortalOf(o.at),
         o.at \in {"login", "dashboard", "adminLogin", "adminDashboard"},
         r.status # "open"
  PROVE  LET p == AfterMe(o, r)
         IN /\ p \in Page /\ p.at # "setup"
            /\ p.stage \in {"check", "load"} =>
                 p.at \in {"login", "dashboard", "adminLogin", "adminDashboard"}
            /\ p.refused => o.refused /\ p.at = o.at
            /\ \/ p.bounced /\ o.bounced /\ p.at = o.at
               \/ p.bounced = (r.lag /\ r.status # "error") /\ p.at \in {"adminLogin", "expired"}
                  /\ PortalOf(p.at) = r.portal /\ r.status # "ok"
               \/ ~p.bounced
            /\ p.at = "adminDashboard" /\ p.stage # "check" =>
                 /\ o.at = "adminDashboard"
                 /\ r.status = "ok" => p.who = r.who \/ (o.stage # "check" /\ p.who = o.who)
                 /\ r.status # "ok" => o.stage # "check" /\ p.who = o.who
<1> DEFINE p == AfterMe(o, r)
           h == Home(r)
           w == Bounced(r)
<1>1. /\ r.portal \in {"admin", "employee"} /\ r.who \in Tickets \cup {NoOne} /\ r.flag \in BOOLEAN
      /\ o.stage \in {"check", "load", "profile", "ready"}
  BY DEF Request, Portals, Page
<1>2. /\ h \in Page /\ h.at = IF r.portal = "admin" THEN "adminDashboard" ELSE "dashboard"
      /\ h.stage = "check" /\ ~h.refused /\ ~h.bounced
  BY HomePage
<1>3. /\ w \in Page /\ w.at = IF r.portal = "admin" THEN "adminLogin" ELSE "expired"
      /\ w.stage = IF r.portal = "admin" THEN "check" ELSE "ready"
      /\ ~w.refused /\ w.bounced = (r.lag /\ r.status # "error")
      /\ PortalOf(w.at) = r.portal
  BY <1>1, BouncedPage DEF PortalOf, AdminSide
<1> HIDE DEF h, w
<1>4. \/ p = h
      \/ p = w /\ r.status # "ok"
      \/ p = [o EXCEPT !.stage = "ready"] /\ o.at \in {"login", "adminLogin"}
      \/ /\ p = [o EXCEPT !.stage = "load", !.who = IF r.portal = "admin" THEN r.who ELSE @]
         /\ r.status = "ok" /\ o.at \in {"dashboard", "adminDashboard"}
      \/ /\ p = [o EXCEPT !.stage = "ready", !.who = IF r.status = "ok" THEN r.who ELSE @,
                          !.portal = IF r.status = "ok" /\ r.portal = "admin" THEN r.flag ELSE @]
         /\ o.stage \in {"load", "ready"}
      \/ p = [o EXCEPT !.offer = ~(r.status = "ok" /\ r.flag)] /\ o.stage = "profile"
  <2>1. CASE o.at \in {"login", "adminLogin"}
    <3>1. p = AtSignIn(o, r)
      BY <2>1 DEF AfterMe
    <3> QED BY <2>1, <3>1 DEF AtSignIn, h
  <2>2. CASE o.at \notin {"login", "adminLogin"} /\ o.stage = "check"
    <3>1. p = AtGuard(o, r)
      BY <2>2 DEF AfterMe
    <3> QED BY <2>2, <3>1 DEF AtGuard, w
  <2>3. CASE o.at \notin {"login", "adminLogin"} /\ o.stage \in {"load", "ready"}
    <3>1. p = AtDashboard(o, r)
      BY <2>3 DEF AfterMe
    <3> QED BY <2>3, <3>1 DEF AtDashboard, w
  <2>4. CASE o.at \notin {"login", "adminLogin"} /\ o.stage = "profile"
    <3>1. p = AtProfile(o, r)
      BY <2>4 DEF AfterMe
    <3> QED BY <2>4, <3>1 DEF AtProfile, w
  <2> QED BY <1>1, <2>1, <2>2, <2>3, <2>4
<1>5. (r.portal = "admin" <=> o.at \in {"adminLogin", "adminDashboard"})
  BY DEF PortalOf, AdminSide
<1> HIDE DEF p
<1>6. CASE p = h \/ (p = w /\ r.status # "ok")
  BY <1>1, <1>2, <1>3, <1>6 DEF p
<1>7. CASE p = [o EXCEPT !.stage = "ready"] /\ o.at \in {"login", "adminLogin"}
  BY <1>7 DEF p, Page
<1>8. CASE /\ p = [o EXCEPT !.stage = "load", !.who = IF r.portal = "admin" THEN r.who ELSE @]
           /\ r.status = "ok" /\ o.at \in {"dashboard", "adminDashboard"}
  BY <1>1, <1>5, <1>8 DEF p, Page
<1>9. CASE /\ p = [o EXCEPT !.stage = "ready", !.who = IF r.status = "ok" THEN r.who ELSE @,
                          !.portal = IF r.status = "ok" /\ r.portal = "admin" THEN r.flag ELSE @]
           /\ o.stage \in {"load", "ready"}
  BY <1>1, <1>9, ZenonT(60) DEF p, Page
<1>10. CASE p = [o EXCEPT !.offer = ~(r.status = "ok" /\ r.flag)] /\ o.stage = "profile"
  BY <1>1, <1>10 DEF p, Page
<1> QED BY <1>4, <1>6, <1>7, <1>8, <1>9, <1>10

(* After the answer to a sign-in, to a form and to signing out.            *)
LEMMA AfterLoginIs ==
  ASSUME emailOtp \in BOOLEAN, NEW b \in Browsers, page[b] \in Page, NEW r \in Request,
         r.kind \in {"login", "verify"}, r.status # "open",
         r.portal = PortalOf(page[b].at), page[b].stage \notin {"check", "load"},
         r.flag => r.portal = "admin"
  PROVE  LET p == AfterLogin(b, r)
             o == page[b]
             in == r.status = "ok" /\ Enters(emailOtp, r)
         IN /\ p \in Page
            /\ p.stage \in {"check", "load"} => p.at \in {"dashboard", "adminDashboard"}
            /\ p.refused => \/ o.refused
                            \/ /\ r.status \in {"401", "403"} /\ r.clean /\ r.portal = "admin"
                               /\ r.who = Default /\ r.pwd = DefaultPassword
            /\ p.bounced => o.bounced /\ PortalOf(p.at) = PortalOf(o.at) /\ (in => r.flag)
            /\ p.at = "setup" => p.who = o.who /\ (in \/ o.at = "setup") /\ (in => r.flag)
            /\ p.at = "adminDashboard" /\ p.stage # "check" =>
                 o.at = "adminDashboard" /\ p.who = o.who
<1> DEFINE p == AfterLogin(b, r)
           o == page[b]
           in == r.status = "ok" /\ Enters(emailOtp, r)
           h == Home(r)
           v == /\ r.status \in {"401", "403"} /\ r.clean
                /\ r.portal = "admin" /\ r.who = Default
                /\ r.pwd = DefaultPassword
           w == r.kind = "verify"
<1>1. /\ h \in Page /\ h.at = IF r.portal = "admin" THEN "adminDashboard" ELSE "dashboard"
      /\ h.stage = "check" /\ ~h.refused /\ ~h.bounced
  BY HomePage
<1>2. /\ Opened("otp") \in Page /\ Opened("otp").at = "otp" /\ Opened("otp").stage = "ready"
      /\ ~Opened("otp").refused /\ ~Opened("otp").bounced
  BY OpenedPage
<1>3. Entered(r) <=> Enters(emailOtp, r)
  BY EnteredIs
<1>4. /\ r.portal \in {"admin", "employee"} /\ r.who \in Tickets \cup {NoOne}
      /\ v \in BOOLEAN /\ w \in BOOLEAN
  BY DEF Request, Portals
<1> HIDE DEF h
<1>5. \/ p = [o EXCEPT !.refused = v] /\ r.status # "ok"
      \/ p = [o EXCEPT !.at = "adminOtp"] /\ r.status = "ok" /\ ~in /\ r.portal = "admin"
      \/ p = [Opened("otp") EXCEPT !.who = r.who] /\ r.status = "ok" /\ ~in
      \/ p = [o EXCEPT !.at = "setup", !.coded = w] /\ in /\ r.flag
      \/ p = h /\ in
  BY <1>3 DEF AfterLogin, h
<1>6. AdminSide("setup") /\ AdminSide("adminOtp") /\ (r.portal = "admin" <=> AdminSide(o.at))
  BY DEF PortalOf, AdminSide
<1>7. in => r.status = "ok"
  OBVIOUS
<1>8. v => /\ r.status \in {"401", "403"} /\ r.clean /\ r.portal = "admin"
           /\ r.who = Default /\ r.pwd = DefaultPassword
  OBVIOUS
<1> HIDE DEF p, v, w, in
<1>9. CASE p = [o EXCEPT !.refused = v] /\ r.status # "ok"
  BY <1>4, <1>7, <1>8, <1>9 DEF Page, p, in
<1>10. CASE p = [o EXCEPT !.at = "adminOtp"] /\ r.status = "ok" /\ ~in /\ r.portal = "admin"
  BY <1>4, <1>6, <1>10 DEF Page, p, in, PortalOf
<1>11. CASE p = [Opened("otp") EXCEPT !.who = r.who] /\ r.status = "ok" /\ ~in
  <2>1. /\ p \in Page /\ p.at = "otp" /\ p.stage = "ready" /\ ~p.refused /\ ~p.bounced
    BY <1>2, <1>4, <1>11 DEF Page
  <2> QED BY <2>1 DEF p
<1>12. CASE p = [o EXCEPT !.at = "setup", !.coded = w] /\ in /\ r.flag
  <2>1. /\ p \in Page /\ p.at = "setup" /\ p.stage = o.stage /\ p.refused = o.refused
        /\ p.bounced = o.bounced /\ p.who = o.who
    BY <1>4, <1>12 DEF Page
  <2>2. r.portal = "admin" => PortalOf(p.at) = PortalOf(o.at)
    BY <1>6, <2>1 DEF PortalOf
  <2> QED BY <1>4, <1>6, <1>12, <2>1, <2>2 DEF p, in
<1>13. CASE p = h /\ in
  BY <1>1, <1>13 DEF p
<1> QED BY <1>5, <1>9, <1>10, <1>11, <1>12, <1>13

LEMMA AfterFormIs ==
  ASSUME NEW b \in Browsers, page[b] \in Page, NEW r \in Request,
         r.kind \in {"resend", "forgot", "reset", "change", "setup", "enable"},
         r.portal = PortalOf(page[b].at), page[b].stage \notin {"check", "load"}
  PROVE  LET p == AfterForm(b, r)
             o == page[b]
         IN /\ p \in Page
            /\ p.stage \in {"check", "load"} => p.at \in {"login", "dashboard", "adminLogin", "adminDashboard"}
            /\ p.refused => o.refused
            /\ \/ ~p.bounced
               \/ p.bounced /\ o.bounced /\ p.at = o.at
               \/ /\ p.bounced = (r.lag /\ r.status # "error") /\ PortalOf(p.at) = r.portal
                  /\ p.at \in {"adminLogin", "expired"} /\ r.status = "401" /\ o.at # "setup"
            /\ p.at = "setup" => p.who = o.who /\ o.at = "setup" /\ ~(r.kind = "setup" /\ r.status = "ok")
            /\ p.at = "adminDashboard" /\ p.stage # "check" =>
                 o.at = "adminDashboard" /\ p.who = o.who
<1> DEFINE p == AfterForm(b, r)
           o == page[b]
           h == Home(r)
           w == Bounced(r)
<1>1. /\ h \in Page /\ h.at = IF r.portal = "admin" THEN "adminDashboard" ELSE "dashboard"
      /\ h.stage = "check" /\ ~h.refused /\ ~h.bounced
  BY HomePage
<1>2. /\ w \in Page /\ w.at = IF r.portal = "admin" THEN "adminLogin" ELSE "expired"
      /\ w.stage = IF r.portal = "admin" THEN "check" ELSE "ready"
      /\ ~w.refused /\ w.bounced = (r.lag /\ r.status # "error")
  BY BouncedPage
<1>3. \A at \in {"blank", "reset", "login"} :
        /\ Opened(at) \in Page /\ Opened(at).at = at
        /\ Opened(at).stage = IF at = "login" THEN "check" ELSE "ready"
        /\ ~Opened(at).refused /\ ~Opened(at).bounced
  BY OpenedPage
<1>4. r.portal \in {"admin", "employee"} /\ r.who \in Tickets \cup {NoOne}
  BY DEF Request, Portals
<1> HIDE DEF h, w
<1>5. \/ p = w /\ r.status = "401" /\ o.at # "setup"
      \/ p = Opened("blank")
      \/ p = [Opened("reset") EXCEPT !.who = r.who]
      \/ p = Opened("login")
      \/ p = h
      \/ p = [o EXCEPT !.portal = TRUE] /\ ~(r.kind = "setup" /\ r.status = "ok")
      \/ p = o /\ ~(r.kind = "setup" /\ r.status = "ok")
  BY DEF AfterForm, h, w
<1>6. PortalOf("adminLogin") = "admin" /\ PortalOf("expired") = "employee"
  BY DEF PortalOf, AdminSide
<1> HIDE DEF p
<1>7. CASE p = w /\ r.status = "401" /\ o.at # "setup"
  BY <1>2, <1>4, <1>6, <1>7 DEF p
<1>8. CASE p = Opened("blank") \/ p = Opened("login")
  BY <1>3, <1>8 DEF p
<1>9. CASE p = [Opened("reset") EXCEPT !.who = r.who]
  <2>1. p \in Page /\ p.at = "reset" /\ p.stage = "ready" /\ ~p.refused /\ ~p.bounced
    BY <1>3, <1>4, <1>9 DEF Page
  <2> QED BY <2>1 DEF p
<1>10. CASE p = h
  BY <1>1, <1>10 DEF p
<1>11. CASE /\ p = [o EXCEPT !.portal = TRUE] \/ p = o
            /\ ~(r.kind = "setup" /\ r.status = "ok")
  <2>1. /\ p \in Page /\ p.at = o.at /\ p.stage = o.stage /\ p.refused = o.refused
        /\ p.bounced = o.bounced /\ p.who = o.who
    BY <1>11 DEF Page
  <2> QED BY <1>11, <2>1 DEF p
<1> QED BY <1>5, <1>7, <1>8, <1>9, <1>10, <1>11

LEMMA AfterLogoutIs ==
  ASSUME NEW b \in Browsers, page[b] \in Page, NEW r \in Request,
         r.portal = PortalOf(page[b].at), page[b].stage \notin {"check", "load"}
  PROVE  LET p == AfterLogout(b, r)
             o == page[b]
         IN /\ p \in Page /\ p.at \in {"login", "adminLogin", "adminOtp"}
            /\ p.stage \in {"check", "load"} => p.at \in {"login", "adminLogin"}
            /\ p.refused => o.refused
            /\ p.bounced => o.bounced /\ PortalOf(p.at) = PortalOf(o.at)
<1> DEFINE p == AfterLogout(b, r)
           o == page[b]
<1>1. CASE o.at = "setup"
  <2>1. p = [o EXCEPT !.at = IF o.coded THEN "adminOtp" ELSE "adminLogin"]
    BY <1>1 DEF AfterLogout
  <2> HIDE DEF p
  <2>2. /\ p \in Page /\ p.at \in {"adminLogin", "adminOtp"} /\ p.stage = o.stage
        /\ p.refused = o.refused /\ p.bounced = o.bounced
    BY <2>1 DEF Page
  <2> QED BY <1>1, <2>2 DEF p, PortalOf, AdminSide
<1>2. CASE o.at # "setup"
  <2>1. p \in {Opened("adminLogin"), Opened("login")}
    BY <1>2 DEF AfterLogout
  <2>2. \A at \in {"login", "adminLogin"} : /\ Opened(at) \in Page /\ Opened(at).at = at
                                          /\ ~Opened(at).refused /\ ~Opened(at).bounced
    BY OpenedPage
  <2> HIDE DEF p
  <2> QED BY <2>1, <2>2 DEF p
<1> QED BY <1>1, <1>2

LEMMA CookiesIs ==
  ASSUME Shape, NEW b \in Browsers
  PROVE  LET r == req[b]
             c == Cookies(b)
             in == r.status = "ok" /\ Enters(emailOtp, r)
         IN /\ c \in [employee : Token \cup {NoOne}, admin : Token \cup {NoOne}, lag : BOOLEAN]
            /\ c[r.portal] = IF r.status = "ok" /\ r.kind = "logout" THEN NoOne
                             ELSE IF in THEN r.token ELSE cookie[b][r.portal]
            /\ \A q \in Portals \ {r.portal} : c[q] = cookie[b][q]
            /\ c.lag = IF r.kind # "me" THEN cookie[b].lag \/ r.status = "ok"
                       ELSE IF r.lag /\ r.status # "error" THEN FALSE ELSE cookie[b].lag
<1> DEFINE r == req[b]
           o == cookie[b]
           in == r.status = "ok" /\ Enters(emailOtp, r)
           v == IF r.status = "ok" /\ r.kind = "logout" THEN NoOne
                ELSE IF in THEN r.token ELSE o[r.portal]
           l == IF r.kind # "me" THEN o.lag \/ r.status = "ok"
                ELSE IF r.lag /\ r.status # "error" THEN FALSE ELSE o.lag
<1>1. /\ r \in Request /\ emailOtp \in BOOLEAN
      /\ o \in [employee : Token \cup {NoOne}, admin : Token \cup {NoOne}, lag : BOOLEAN]
  BY DEF Shape, TypeOK
<1>2. Entered(r) <=> Enters(emailOtp, r)
  BY <1>1, EnteredIs
<1>3. Enters(emailOtp, r) => r.kind # "logout"
  BY DEF Enters
<1>4. Cookies(b) = [o EXCEPT ![r.portal] = v, !.lag = l]
  BY <1>2, <1>3 DEF Cookies
<1>5. r.portal \in {"employee", "admin"} /\ v \in Token \cup {NoOne} /\ l \in BOOLEAN
  BY <1>1 DEF Request, Portals
<1> HIDE DEF v, l, o, in, r
<1>6. /\ Cookies(b) \in [employee : Token \cup {NoOne}, admin : Token \cup {NoOne}, lag : BOOLEAN]
      /\ Cookies(b)[r.portal] = v /\ Cookies(b).lag = l
      /\ \A q \in {"employee", "admin"} \ {r.portal} : Cookies(b)[q] = o[q]
  <2>1. CASE r.portal = "employee"
    BY <1>1, <1>4, <1>5, <2>1
  <2>2. CASE r.portal = "admin"
    BY <1>1, <1>4, <1>5, <2>2
  <2> QED BY <1>5, <2>1, <2>2
<1> QED BY <1>6 DEF v, l, o, in, r, Portals

(* The page, the cookies and the request of a browser after its answer.    *)
LEMMA AnswerIs ==
  ASSUME Shape, NEW b \in Browsers, Answer(b)
  PROVE  LET r == req[b]
             p == AnsweredPage(b)
             c == Cookies(b)
             n == AnsweredRequest(p, c)
         IN /\ r \in Request /\ r.kind # "none" /\ r.status # "open"
            /\ page' = [page EXCEPT ![b] = p] /\ cookie' = [cookie EXCEPT ![b] = c]
            /\ req' = [req EXCEPT ![b] = n] /\ UNCHANGED stores
            /\ signedIn' = [signedIn EXCEPT ![b][r.portal] =
                              IF r.status = "ok" /\ Enters(emailOtp, r) THEN r.clean
                              ELSE @ /\ ~(r.status = "ok" /\ r.kind = "logout")]
            /\ p \in Page /\ n \in Request /\ n.kind \in {"none", "me"}
            /\ c \in [employee : Token \cup {NoOne}, admin : Token \cup {NoOne}, lag : BOOLEAN]
            /\ n.kind # "none" => Posed(emailOtp, c, n.portal, "me", NoOne, n)
            /\ r.kind # "me" => page[b].stage \notin {"check", "load"}
            /\ Knows(emailOtp, n) /\ Matches(p, n, c)
<1> DEFINE r == req[b]
           o == page[b]
           p == AnsweredPage(b)
           c == Cookies(b)
           n == AnsweredRequest(p, c)
           in == r.status = "ok" /\ Enters(emailOtp, r)
           out == r.status = "ok" /\ r.kind = "logout"
<1>1. /\ r \in Request /\ o \in Page /\ emailOtp \in BOOLEAN
      /\ Knows(emailOtp, r) /\ Matches(o, r, cookie[b])
  BY DEF Shape, TypeOK
<1>2. /\ r.kind # "none" /\ r.status # "open"
      /\ page' = [page EXCEPT ![b] = p] /\ cookie' = [cookie EXCEPT ![b] = c]
      /\ req' = [req EXCEPT ![b] = n] /\ UNCHANGED stores
      /\ signedIn' = [signedIn EXCEPT ![b][r.portal] = IF in THEN r.clean ELSE @ /\ ~out]
  <2>1. Entered(r) <=> Enters(emailOtp, r)
    BY <1>1, EnteredIs
  <2> QED BY <2>1 DEF Answer, AnsweredPage, AnsweredRequest
<1>3. /\ c \in [employee : Token \cup {NoOne}, admin : Token \cup {NoOne}, lag : BOOLEAN]
      /\ c[r.portal] = IF r.status = "ok" /\ r.kind = "logout" THEN NoOne
                       ELSE IF in THEN r.token ELSE cookie[b][r.portal]
      /\ \A q \in Portals \ {r.portal} : c[q] = cookie[b][q]
  BY CookiesIs
<1>4. /\ r.kind \in {"me", "login", "verify", "resend", "forgot", "reset", "change", "setup", "enable", "logout"}
      /\ r.portal \in {"admin", "employee"}
  BY <1>1, <1>2 DEF Request, Kinds, Portals
<1>5. /\ r.portal = PortalOf(o.at) /\ (r.kind # "me" => o.stage \notin {"check", "load"})
      /\ r.kind = "me" => o.at \in {"login", "dashboard", "adminLogin", "adminDashboard"}
  BY <1>1, <1>2 DEF Matches
<1>6. r.kind \in {"login", "verify"} /\ r.flag => r.portal = "admin"
  BY <1>1, <1>4 DEF Knows
<1> HIDE DEF c
<1>7. /\ p \in Page
      /\ p.stage \in {"check", "load"} => p.at \in {"login", "dashboard", "adminLogin", "adminDashboard"}
      /\ p.at = "setup" /\ c.admin # NoOne => c.admin.who = p.who
  <2>1. CASE r.kind = "me"
    <3>1. p = AfterMe(o, r)
      BY <2>1 DEF AnsweredPage
    <3> HIDE DEF p, o, r
    <3> QED BY <1>1, <1>2, <1>5, <2>1, <3>1, AfterMeIs
  <2>2. CASE r.kind \in {"login", "verify"}
    <3>1. p = AfterLogin(b, r)
      BY <2>2 DEF AnsweredPage
    <3> HIDE DEF p, r
    <3>2. /\ p \in Page /\ (p.stage \in {"check", "load"} => p.at \in {"dashboard", "adminDashboard"})
          /\ p.at = "setup" => p.who = o.who /\ (in \/ o.at = "setup") /\ (in => r.flag)
      BY <1>1, <1>2, <1>5, <1>6, <2>2, <3>1, AfterLoginIs
    <3>3. in => Own(r)
      BY <1>1 DEF Knows
    <3>4. CASE in /\ p.at = "setup"
      <4>1. r.portal = "admin" /\ c.admin = r.token /\ p.who = r.who
        BY <1>1, <1>3, <1>6, <2>2, <3>2, <3>4 DEF Matches
      <4> QED BY <2>2, <3>2, <3>3, <3>4, <4>1 DEF Own
    <3>5. CASE ~in /\ p.at = "setup"
      <4>1. c.admin = cookie[b].admin
        BY <1>3, <1>4, <2>2, <3>5 DEF Portals
      <4> QED BY <1>1, <3>2, <3>5, <4>1 DEF Matches
    <3> QED BY <3>2, <3>4, <3>5
  <2>3. CASE r.kind = "logout"
    <3>1. p = AfterLogout(b, r)
      BY <2>3 DEF AnsweredPage
    <3> HIDE DEF p, r
    <3> QED BY <1>1, <1>5, <2>3, <3>1, AfterLogoutIs
  <2>4. CASE r.kind \in {"resend", "forgot", "reset", "change", "setup", "enable"}
    <3>1. p = AfterForm(b, r)
      BY <2>4 DEF AnsweredPage
    <3> HIDE DEF p, r
    <3>2. /\ p \in Page
          /\ p.stage \in {"check", "load"} => p.at \in {"login", "dashboard", "adminLogin", "adminDashboard"}
          /\ p.at = "setup" => p.who = o.who /\ o.at = "setup" /\ ~(r.kind = "setup" /\ r.status = "ok")
      BY <1>1, <1>5, <2>4, <3>1, AfterFormIs
    <3>3. p.at = "setup" => c.admin = cookie[b].admin
      <4>1. p.at = "setup" => ~in
        BY <2>4, <3>2 DEF Enters
      <4> HIDE DEF in
      <4> QED BY <1>3, <1>4, <2>4, <4>1 DEF Portals
    <3> QED BY <1>1, <3>2, <3>3 DEF Matches
  <2> QED BY <1>4, <2>1, <2>2, <2>3, <2>4
<1> HIDE DEF p
<1>8. /\ n \in Request /\ n.kind \in {"none", "me"}
      /\ n.kind # "none" => Posed(emailOtp, c, n.portal, "me", NoOne, n)
      /\ Knows(emailOtp, n) /\ Matches(p, n, c)
  <2>1. CASE p.stage \in {"check", "load"}
    <3> DEFINE q == PortalOf(p.at)
    <3>1. n = Ask(c, q, "me", NoOne)
      BY <2>1 DEF AnsweredRequest
    <3>2. q \in Portals /\ "me" \in Kinds \ {"none"}
      BY DEF PortalOf, Portals, Kinds
    <3> HIDE DEF q, n
    <3>3. Posed(emailOtp, c, q, "me", NoOne, n)
      BY <1>1, <1>3, <3>1, <3>2, Asked, Z3
    <3>4. Knows(emailOtp, n)
      BY <3>2, <3>3, PosedKnows, Z3
    <3>5. n \in Request /\ n.kind = "me" /\ n.portal = q /\ n.token = c[q]
      BY <3>3 DEF Posed
    <3>6. Matches(p, n, c)
      BY <1>7, <2>1, <3>5 DEF Matches, q
    <3> QED BY <3>3, <3>4, <3>5, <3>6
  <2>2. CASE p.stage \notin {"check", "load"}
    <3>1. n = NoRequest
      BY <2>2 DEF AnsweredRequest
    <3> HIDE DEF n
    <3>2. n \in Request /\ Knows(emailOtp, n) /\ n.kind = "none"
      BY <3>1, NoRequestIs DEF NoRequest
    <3>3. Matches(p, n, c)
      BY <1>7, <2>2, <3>2 DEF Matches
    <3> QED BY <3>2, <3>3
  <2> QED BY <2>1, <2>2
<1> HIDE DEF n
<1> QED BY <1>1, <1>2, <1>3, <1>5, <1>7, <1>8 DEF p, c, n

-----------------------------------------------------------------------------
(* Shape is an invariant.                                                  *)

(* A step that leaves the databases alone and is seen by one browser.      *)
LEMMA BrowserShape ==
  ASSUME Shape, NEW b \in Browsers, NEW p \in Page, NEW n \in Request, NEW c,
         UNCHANGED stores, page' = [page EXCEPT ![b] = p], req' = [req EXCEPT ![b] = n],
         cookie' = [cookie EXCEPT ![b] = c],
         c \in [employee : Token \cup {NoOne}, admin : Token \cup {NoOne}, lag : BOOLEAN],
         signedIn' \in [Browsers -> [Portals -> BOOLEAN]],
         Knows(emailOtp, n), Matches(p, n, c)
  PROVE  Shape'
<1>1. /\ emailOtp' = emailOtp /\ accounts' = accounts /\ replica' = replica /\ nonces' = nonces
      /\ clock' = clock /\ info' = info /\ session' = session /\ otp' = otp /\ crossed' = crossed /\ revoked' = revoked
  BY DEF stores
<1>2. TypeOK'
  BY <1>1 DEF Shape, TypeOK, Admins
<1>3. Stored'
  BY <1>1 DEF Shape, Stored
<1>4. \A x \in Browsers : Knows(emailOtp, req'[x]) /\ Matches(page'[x], req'[x], cookie'[x])
  BY DEF Shape, TypeOK
<1>5. \A x \in Browsers : /\ Knows(emailOtp, req[x])'
                          /\ Matches(page[x], req[x], cookie[x])'
  BY <1>1, <1>4
<1> QED BY <1>2, <1>3, <1>5 DEF Shape

LEMMA UserShape ==
  ASSUME Shape, UserStep
  PROVE  Shape'
<1>1. PICK b \in Browsers : \E p, n : Show(b, p, n) /\ Poses(b, p, n)
  BY UserSteps
<1>2. PICK p, n : Show(b, p, n) /\ Poses(b, p, n)
  BY <1>1
<1>3. /\ cookie' = [cookie EXCEPT ![b] = cookie[b]] /\ signedIn' \in [Browsers -> [Portals -> BOOLEAN]]
      /\ cookie[b] \in [employee : Token \cup {NoOne}, admin : Token \cup {NoOne}, lag : BOOLEAN]
  BY <1>2 DEF Show, Shape, TypeOK
<1> QED BY <1>2, <1>3, BrowserShape DEF Show, Poses

LEMMA AnswerShape ==
  ASSUME Shape, NEW b \in Browsers, Answer(b)
  PROVE  Shape'
<1> DEFINE p == AnsweredPage(b)
           c == Cookies(b)
           n == AnsweredRequest(p, c)
           in == req[b].status = "ok" /\ Enters(emailOtp, req[b])
           out == req[b].status = "ok" /\ req[b].kind = "logout"
<1>1. /\ req[b] \in Request /\ UNCHANGED stores
      /\ page' = [page EXCEPT ![b] = p] /\ cookie' = [cookie EXCEPT ![b] = c]
      /\ req' = [req EXCEPT ![b] = n]
      /\ signedIn' = [signedIn EXCEPT ![b][req[b].portal] =
                           IF in THEN req[b].clean ELSE @ /\ ~out]
      /\ p \in Page /\ n \in Request
      /\ c \in [employee : Token \cup {NoOne}, admin : Token \cup {NoOne}, lag : BOOLEAN]
      /\ Knows(emailOtp, n) /\ Matches(p, n, c)
  BY AnswerIs
<1> HIDE DEF p, c, n, in, out
<1>2. signedIn' \in [Browsers -> [Portals -> BOOLEAN]]
  <2>1. /\ signedIn \in [Browsers -> [Portals -> BOOLEAN]] /\ req[b].clean \in BOOLEAN
        /\ req[b].portal \in Portals
    BY <1>1 DEF Shape, TypeOK, Request
  <2>2. (IF in THEN req[b].clean ELSE signedIn[b][req[b].portal] /\ ~out) \in BOOLEAN
    BY <2>1
  <2> QED BY <1>1, <2>1, <2>2, Zenon
<1> QED BY <1>1, <1>2, BrowserShape

(* Requests of t in the portals Q are overtaken, and nobody is signed in   *)
(* there as t any more.                                                    *)
Overtakes(Q, t) ==
  /\ req' \in [Browsers -> Request] /\ signedIn' \in [Browsers -> [Portals -> BOOLEAN]]
  /\ \A x \in Browsers :
       /\ req'[x] = req[x] \/ req'[x] = [req[x] EXCEPT !.clean = FALSE]
       /\ req[x].portal \in Q /\ req[x].who = t => ~req'[x].clean
  /\ \A x \in Browsers, q \in Portals :
       signedIn'[x][q] => /\ signedIn[x][q]
                          /\ ~(q \in Q /\ cookie[x][q] # NoOne /\ cookie[x][q].who = t)

LEMMA OvertakeIs ==
  ASSUME TypeOK, NEW Q, NEW t, Overtake(Q, t)
  PROVE  Overtakes(Q, t)
<1>1. req \in [Browsers -> Request] /\ signedIn \in [Browsers -> [Portals -> BOOLEAN]]
  BY DEF TypeOK
<1>2. /\ signedIn' = [x \in Browsers |-> [q \in Portals |->
           signedIn[x][q] /\ ~(q \in Q /\ cookie[x][q] # NoOne /\ cookie[x][q].who = t)]]
      /\ req' = [x \in Browsers |-> IF req[x].portal \in Q /\ req[x].who = t
                                    THEN [req[x] EXCEPT !.clean = FALSE] ELSE req[x]]
  BY DEF Overtake
<1>3. \A x \in Browsers : /\ req'[x] \in Request
                          /\ req'[x] = req[x] \/ req'[x] = [req[x] EXCEPT !.clean = FALSE]
                          /\ req[x].portal \in Q /\ req[x].who = t => ~req'[x].clean
  <2> SUFFICES ASSUME NEW x \in Browsers
               PROVE  /\ req'[x] \in Request
                      /\ req'[x] = req[x] \/ req'[x] = [req[x] EXCEPT !.clean = FALSE]
                      /\ req[x].portal \in Q /\ req[x].who = t => ~req'[x].clean
    OBVIOUS
  <2>1. req[x] \in Request /\ req'[x] = IF req[x].portal \in Q /\ req[x].who = t
                                       THEN [req[x] EXCEPT !.clean = FALSE] ELSE req[x]
    BY <1>1, <1>2
  <2> QED BY <2>1, Overtaken
<1>4. req' \in [Browsers -> Request]
  BY <1>2, <1>3
<1>5. \A x \in Browsers, q \in Portals :
        signedIn'[x][q] <=> signedIn[x][q] /\ ~(q \in Q /\ cookie[x][q] # NoOne /\ cookie[x][q].who = t)
  BY <1>2, Zenon
<1>6. signedIn' \in [Browsers -> [Portals -> BOOLEAN]]
  BY <1>1, <1>2
<1> QED BY <1>3, <1>4, <1>5, <1>6 DEF Overtakes

LEMMA OvertakesKeeps ==
  ASSUME Shape, NEW Q, NEW t, Overtakes(Q, t), Stores', UNCHANGED <<emailOtp, cookie, page>>
  PROVE  Shape'
<1>1. emailOtp' = emailOtp /\ cookie' = cookie /\ page' = page
  OBVIOUS
<1>2. \A x \in Browsers : Knows(emailOtp, req'[x]) /\ Matches(page[x], req'[x], cookie[x])
  <2> SUFFICES ASSUME NEW x \in Browsers
               PROVE  Knows(emailOtp, req'[x]) /\ Matches(page[x], req'[x], cookie[x])
    OBVIOUS
  <2>1. /\ req[x] \in Request /\ Knows(emailOtp, req[x]) /\ Matches(page[x], req[x], cookie[x])
        /\ req'[x] = req[x] \/ req'[x] = [req[x] EXCEPT !.clean = FALSE]
    BY DEF Shape, TypeOK, Overtakes
  <2>2. Sent(req[x], req'[x]) /\ req'[x].who = req[x].who /\ req'[x].token = req[x].token
    BY <2>1, Overtaken DEF Sent
  <2> QED BY <2>1, <2>2, StaysKnown, StaysMatched
<1>3. TypeOK'
  BY <1>1 DEF Shape, TypeOK, Stores, Overtakes
<1>4. \A x \in Browsers : /\ Knows(emailOtp, req[x])'
                          /\ Matches(page[x], req[x], cookie[x])'
  BY <1>1, <1>2
<1> QED BY <1>3, <1>4 DEF Shape, Stores

LEMMA ExpireShape ==
  ASSUME Shape, NEW q \in Portals, NEW t \in Tickets, ExpireSession(q, t)
  PROVE  Shape'
<1>1. /\ session' = [session EXCEPT ![q][t] = NoOne] /\ Overtake({q}, t)
      /\ UNCHANGED <<crossed, revoked, emailOtp, accounts, replica, nonces, clock, info, otp, cookie, page>>
  BY DEF ExpireSession
<1>2. Stores'
  <2>1. /\ session' \in [Portals -> [Tickets -> Token \cup {NoOne}]]
        /\ \A k \in Portals, x \in Tickets : session'[k][x] \in {session[k][x], NoOne}
    BY <1>1, StoresTyped DEF Stores
  <2>2. session'["employee"][Default] = NoOne
    BY <2>1, StoresTyped DEF Stores, Stored, Portals, Tickets
  <2> QED BY <1>1, <2>1, <2>2, StoresTyped DEF Stores, Stored, Admins
<1>3. Overtakes({q}, t)
  BY <1>1, OvertakeIs DEF Shape
<1> QED BY <1>1, <1>2, <1>3, OvertakesKeeps

(* What the administrators do to the account of p; Q: the portals whose    *)
(* sessions of p it ends.                                                  *)
Managed(Q, p) ==
  /\ UNCHANGED <<crossed, emailOtp, replica, clock, info, session, otp, cookie, page>>
  /\ Overtakes(Q, p) /\ Stores'
  /\ \A x \in People \ {p} : accounts'.emp[x] = accounts.emp[x] /\ accounts'.adm[x] = accounts.adm[x]
  /\ "employee" \notin Q /\ accounts.emp[p] # NoOne =>
       accounts'.emp[p] # NoOne /\ accounts'.emp[p].nonce = accounts.emp[p].nonce
  /\ "admin" \notin Q /\ accounts.adm[p] # NoOne => accounts'.adm[p] = accounts.adm[p]
  /\ \/ accounts'.adm[p] \in {accounts.adm[p], NoOne}
     \/ accounts.adm[p] = NoOne /\ accounts'.adm[p].must /\ ~Inserting(p)
  /\ Admins(accounts) # {} /\ Admins(accounts') # {}
  /\ revoked \subseteq revoked'
  /\ accounts.adm[p] # NoOne /\ accounts'.adm[p] = NoOne => p \in revoked'

(* The rows of p become e and a.                                           *)
Writes(p, e, a) ==
  /\ e \in Employee \cup {NoOne} /\ a \in LocoAdmin \cup {NoOne} /\ (a # NoOne => e # NoOne)
  /\ accounts' = [accounts EXCEPT !.emp[p] = e, !.adm[p] = a]
  /\ nonces' \in {nonces, nonces + 1} /\ nonces' \in 0..MaxNonce /\ revoked' \subseteq People
  /\ UNCHANGED <<crossed, replica, clock, info, session, otp>>

LEMMA AdminWrites ==
  ASSUME Shape, NEW p \in People, NEW e, NEW a, Writes(p, e, a)
  PROVE  /\ Stores'
         /\ \A x \in People : /\ accounts'.emp[x] = IF x = p THEN e ELSE accounts.emp[x]
                              /\ accounts'.adm[x] = IF x = p THEN a ELSE accounts.adm[x]
<1>1. Stores
  BY StoresTyped
<1>2. /\ accounts' \in Tables
      /\ \A x \in People : /\ accounts'.emp[x] = IF x = p THEN e ELSE accounts.emp[x]
                           /\ accounts'.adm[x] = IF x = p THEN a ELSE accounts.adm[x]
  <2>1. accounts \in Tables
    BY <1>1 DEF Stores
  <2> QED BY <2>1 DEF Tables, Writes
<1>3. \A x \in Admins(accounts') : accounts'.emp[x] # NoOne
  BY <1>1, <1>2 DEF Stores, Admins, Writes
<1>4. info' \in 0..nonces'
  BY <1>1, BoundsAssumption DEF Stores, Writes
<1>5. Stores'
  BY <1>1, <1>2, <1>3, <1>4 DEF Stores, Stored, Writes
<1> QED BY <1>2, <1>5

LEMMA AdminIs ==
  ASSUME Shape, AdminStep
  PROVE  \E p \in People, Q \in SUBSET Portals : Managed(Q, p)
<1>1. Administered => Admins(accounts) # {}
  BY DEF Administered
<1>2. /\ accounts \in Tables /\ revoked \subseteq People /\ nonces \in 0..MaxNonce
      /\ \A x \in Admins(accounts) : accounts.emp[x] # NoOne
  BY DEF Shape, TypeOK
<1>3. nonces < MaxNonce => nonces + 1 \in 0..MaxNonce /\ nonces + 1 \in 1..MaxNonce
  BY <1>2, BoundsAssumption
<1>4. UNCHANGED <<req, signedIn>> => \A t : Overtakes({}, t)
  BY DEF Shape, TypeOK, Overtakes
<1>5. ASSUME NEW p \in People, NEW pwd \in Passwords, CreateEmployee(p, pwd)
      PROVE  Managed({}, p)
  <2> DEFINE e == [pwd |-> pwd, nonce |-> nonces + 1]
             a == accounts.adm[p]
  <2>1. /\ nonces < MaxNonce /\ nonces' = nonces + 1 /\ accounts.emp[p] = NoOne /\ Administered
        /\ accounts' = [accounts EXCEPT !.emp[p] = e]
        /\ UNCHANGED <<crossed, revoked, emailOtp, replica, clock, info, session, otp, cookie, page,
                       req, signedIn>>
    BY <1>5 DEF CreateEmployee
  <2>2. e \in Employee /\ e # NoOne
    <3>1. e \in Employee
      BY <1>3, <2>1 DEF Employee, Secrets
    <3> QED BY <3>1, NoOneAssumption
  <2>3. a = NoOne
    BY <1>2, <2>1 DEF Admins
  <2> HIDE DEF e
  <2>4. accounts' = [accounts EXCEPT !.emp[p] = e, !.adm[p] = a]
    BY <1>2, <2>1 DEF Tables
  <2>5. /\ Stores'
        /\ \A x \in People : /\ accounts'.emp[x] = IF x = p THEN e ELSE accounts.emp[x]
                             /\ accounts'.adm[x] = IF x = p THEN a ELSE accounts.adm[x]
    <3> HIDE DEF a
    <3>1. Writes(p, e, a)
      BY <1>2, <1>3, <2>1, <2>2, <2>3, <2>4 DEF Writes
    <3> QED BY <3>1, AdminWrites
  <2>6. Admins(accounts') = Admins(accounts)
    BY <2>5 DEF Admins
  <2> HIDE DEF a
  <2> QED BY <1>1, <1>4, <2>1, <2>3, <2>5, <2>6 DEF Managed, a
<1>6. ASSUME NEW p \in People, NEW pwd \in Passwords, UpdateEmployee(p, pwd)
      PROVE  Managed({}, p)
  <2> DEFINE e == [accounts.emp[p] EXCEPT !.pwd = pwd]
             a == accounts.adm[p]
  <2>1. /\ accounts.emp[p] # NoOne /\ Administered
        /\ accounts' = [accounts EXCEPT !.emp[p] = e]
        /\ UNCHANGED <<crossed, revoked, emailOtp, replica, nonces, clock, info, session, otp, cookie,
                       page, req, signedIn>>
    BY <1>2, <1>6 DEF UpdateEmployee, Tables
  <2>2. e \in Employee /\ e # NoOne /\ e.nonce = accounts.emp[p].nonce
    <3>1. accounts.emp[p] \in Employee
      BY <1>2, <2>1 DEF Tables
    <3>2. e \in Employee /\ e.nonce = accounts.emp[p].nonce
      BY <3>1 DEF Employee, Secrets
    <3> QED BY <3>2, NoOneAssumption
  <2>3. a \in LocoAdmin \cup {NoOne}
    BY <1>2 DEF Tables
  <2> HIDE DEF e
  <2>4. accounts' = [accounts EXCEPT !.emp[p] = e, !.adm[p] = a]
    BY <1>2, <2>1 DEF Tables
  <2>5. /\ Stores'
        /\ \A x \in People : /\ accounts'.emp[x] = IF x = p THEN e ELSE accounts.emp[x]
                             /\ accounts'.adm[x] = IF x = p THEN a ELSE accounts.adm[x]
    <3> HIDE DEF a
    <3>1. Writes(p, e, a)
      BY <1>2, <2>1, <2>2, <2>3, <2>4 DEF Writes
    <3> QED BY <3>1, AdminWrites
  <2>6. Admins(accounts') = Admins(accounts)
    BY <2>5 DEF Admins
  <2> HIDE DEF a
  <2> QED BY <1>1, <1>4, <2>1, <2>2, <2>5, <2>6 DEF Managed, a
<1>7. ASSUME NEW p \in People, DeleteEmployee(p)
      PROVE  Managed(Portals, p)
  <2>1. /\ Administered /\ Admins(accounts) # {p}
        /\ accounts' = [accounts EXCEPT !.emp[p] = NoOne, !.adm[p] = NoOne]
        /\ revoked' = revoked \cup ({p} \cap Admins(accounts)) /\ Overtake(Portals, p)
        /\ UNCHANGED <<crossed, emailOtp, replica, nonces, clock, info, session, otp, cookie, page>>
    BY <1>7 DEF DeleteEmployee
  <2>2. /\ Stores'
        /\ \A x \in People : /\ accounts'.emp[x] = IF x = p THEN NoOne ELSE accounts.emp[x]
                             /\ accounts'.adm[x] = IF x = p THEN NoOne ELSE accounts.adm[x]
    <3>1. Writes(p, NoOne, NoOne)
      BY <1>2, <2>1 DEF Writes
    <3> QED BY <3>1, AdminWrites, Zenon
  <2>3. Admins(accounts') # {}
    <3>1. PICK x \in Admins(accounts) : x # p
      BY <1>1, <2>1
    <3> QED BY <2>2, <3>1 DEF Admins
  <2>4. Overtakes(Portals, p)
    BY <2>1, OvertakeIs DEF Shape
  <2> QED BY <1>1, <2>1, <2>2, <2>3, <2>4 DEF Managed, Portals, Admins
<1>8. ASSUME NEW p \in People, Promote(p)
      PROVE  Managed({}, p)
  <2> DEFINE e == accounts.emp[p]
             a == [pwd |-> accounts.emp[p].pwd, nonce |-> nonces + 1, must |-> TRUE, portal |-> TRUE]
  <2>1. /\ nonces < MaxNonce /\ nonces' = nonces + 1 /\ Administered /\ ~Inserting(p)
        /\ accounts.emp[p] # NoOne /\ accounts.adm[p] = NoOne
        /\ accounts' = [accounts EXCEPT !.adm[p] = a]
        /\ UNCHANGED <<crossed, revoked, emailOtp, replica, clock, info, session, otp, cookie, page,
                       req, signedIn>>
    BY <1>8 DEF Promote
  <2>2. e \in Employee
    BY <1>2, <2>1 DEF Tables
  <2>3. a \in LocoAdmin /\ a # NoOne /\ a.must
    <3>1. a \in LocoAdmin /\ a.must
      BY <1>3, <2>1, <2>2 DEF LocoAdmin, Employee
    <3> QED BY <3>1, NoOneAssumption
  <2> HIDE DEF a
  <2>4. accounts' = [accounts EXCEPT !.emp[p] = e, !.adm[p] = a]
    BY <1>2, <2>1 DEF Tables
  <2>5. /\ Stores'
        /\ \A x \in People : /\ accounts'.emp[x] = IF x = p THEN e ELSE accounts.emp[x]
                             /\ accounts'.adm[x] = IF x = p THEN a ELSE accounts.adm[x]
    <3>1. e # NoOne
      BY <2>1
    <3> HIDE DEF e
    <3>2. Writes(p, e, a)
      BY <1>2, <1>3, <2>1, <2>2, <2>3, <2>4, <3>1 DEF Writes
    <3> QED BY <3>2, AdminWrites
  <2>6. Admins(accounts') # {}
    BY <2>3, <2>5 DEF Admins
  <2> HIDE DEF e
  <2> QED BY <1>1, <1>4, <2>1, <2>3, <2>5, <2>6 DEF Managed, e
<1>9. ASSUME NEW p \in People, RemoveAdmin(p)
      PROVE  Managed({"admin"}, p)
  <2> DEFINE e == accounts.emp[p]
  <2>1. /\ Administered /\ accounts.adm[p] # NoOne /\ Admins(accounts) # {p}
        /\ accounts' = [accounts EXCEPT !.adm[p] = NoOne]
        /\ revoked' = revoked \cup {p} /\ Overtake({"admin"}, p)
        /\ UNCHANGED <<crossed, emailOtp, replica, nonces, clock, info, session, otp, cookie, page>>
    BY <1>9 DEF RemoveAdmin
  <2>2. e \in Employee \cup {NoOne}
    BY <1>2 DEF Tables
  <2> HIDE DEF e
  <2>3. accounts' = [accounts EXCEPT !.emp[p] = e, !.adm[p] = NoOne]
    BY <1>2, <2>1 DEF Tables, e
  <2>4. /\ Stores'
        /\ \A x \in People : /\ accounts'.emp[x] = IF x = p THEN e ELSE accounts.emp[x]
                             /\ accounts'.adm[x] = IF x = p THEN NoOne ELSE accounts.adm[x]
    <3>1. Writes(p, e, NoOne)
      BY <1>2, <2>1, <2>2, <2>3 DEF Writes
    <3> QED BY <3>1, AdminWrites
  <2>5. Admins(accounts') # {}
    <3>1. PICK x \in Admins(accounts) : x # p
      BY <1>1, <2>1
    <3> QED BY <2>4, <3>1 DEF Admins
  <2>6. Overtakes({"admin"}, p)
    BY <2>1, OvertakeIs DEF Shape
  <2> QED BY <1>1, <2>1, <2>4, <2>5, <2>6 DEF Managed, e
<1>10. {} \in SUBSET Portals /\ {"admin"} \in SUBSET Portals /\ Portals \in SUBSET Portals
  BY DEF Portals
<1> QED BY <1>5, <1>6, <1>7, <1>8, <1>9, <1>10, Zenon DEF AdminStep

LEMMA AdminShape ==
  ASSUME Shape, AdminStep
  PROVE  Shape'
<1>1. PICK p \in People, Q \in SUBSET Portals : Managed(Q, p)
  BY AdminIs
<1> QED BY <1>1, OvertakesKeeps DEF Managed

(* A cookie expires: requests and pages do not notice yet.                 *)
LEMMA ExpireCookieShape ==
  ASSUME Shape, NEW b \in Browsers, ExpireCookie(b) \/ ExpireLag(b)
  PROVE  Shape'
<1>1. PICK c : /\ cookie' = [cookie EXCEPT ![b] = c] /\ UNCHANGED <<stores, page, req>>
               /\ c \in {[cookie[b] EXCEPT !.admin = NoOne], [cookie[b] EXCEPT !.lag = FALSE]}
               /\ signedIn' \in {signedIn, [signedIn EXCEPT ![b].admin = FALSE]}
  <2>1. CASE ExpireCookie(b)
    <3>1. cookie' = [cookie EXCEPT ![b] = [cookie[b] EXCEPT !.admin = NoOne]]
      BY <2>1 DEF ExpireCookie, Shape, TypeOK
    <3> QED BY <2>1, <3>1 DEF ExpireCookie
  <2>2. CASE ExpireLag(b)
    <3>1. cookie' = [cookie EXCEPT ![b] = [cookie[b] EXCEPT !.lag = FALSE]]
      BY <2>2 DEF ExpireLag, Shape, TypeOK
    <3> QED BY <2>2, <3>1 DEF ExpireLag
  <2> QED BY <2>1, <2>2
<1>2. cookie[b] \in [employee : Token \cup {NoOne}, admin : Token \cup {NoOne}, lag : BOOLEAN]
      /\ req[b].portal \in {"employee", "admin"}
  BY DEF Shape, TypeOK, Request, Portals
<1>3. /\ c \in [employee : Token \cup {NoOne}, admin : Token \cup {NoOne}, lag : BOOLEAN]
      /\ \A q \in {"employee", "admin"} : c[q] \in {cookie[b][q], NoOne}
  BY <1>1, <1>2
<1>4. signedIn' \in [Browsers -> [Portals -> BOOLEAN]]
  <2>1. signedIn \in [Browsers -> [Portals -> BOOLEAN]]
    BY DEF Shape, TypeOK
  <2>2. CASE signedIn' = [signedIn EXCEPT ![b].admin = FALSE]
    <3>1. [signedIn[b] EXCEPT !.admin = FALSE] \in [Portals -> BOOLEAN]
      BY <2>1
    <3> QED BY <2>1, <2>2, <3>1
  <2> QED BY <1>1, <2>1, <2>2
<1>5. Matches(page[b], req[b], cookie[b]) /\ Knows(emailOtp, req[b])
      /\ page[b] \in Page /\ req[b] \in Request
  BY DEF Shape, TypeOK
<1>6. Matches(page[b], req[b], c)
  <2>1. c.admin \in {cookie[b].admin, NoOne} /\ c[req[b].portal] \in {cookie[b][req[b].portal], NoOne}
    BY <1>2, <1>3
  <2> QED BY <1>5, <2>1 DEF Matches
<1>7. page' = [page EXCEPT ![b] = page[b]] /\ req' = [req EXCEPT ![b] = req[b]]
  BY <1>1 DEF Shape, TypeOK
<1> QED BY <1>1, <1>3, <1>4, <1>5, <1>6, <1>7, BrowserShape

(* A code expires, time goes by, the replica catches up.                   *)
LEMMA StoreShape ==
  ASSUME Shape, Stores', UNCHANGED <<emailOtp, accounts, cookie, page, req, signedIn>>
  PROVE  Shape'
<1>1. /\ emailOtp' = emailOtp /\ accounts' = accounts /\ cookie' = cookie
      /\ page' = page /\ req' = req /\ signedIn' = signedIn
  OBVIOUS
<1>2. TypeOK'
  BY <1>1 DEF Shape, TypeOK, Stores
<1>3. \A x \in Browsers : /\ Knows(emailOtp, req[x])'
                          /\ Matches(page[x], req[x], cookie[x])'
  BY <1>1 DEF Shape
<1> QED BY <1>2, <1>3 DEF Shape, Stores

LEMMA FaultShape ==
  ASSUME Shape, FaultStep \/ Replicate
  PROVE  Shape'
<1>1. Stores
  BY StoresTyped
<1>2. CASE \E b \in Browsers : Fail(b) \/ ExpireCookie(b) \/ ExpireLag(b)
  BY <1>2, FailShape, ExpireCookieShape
<1>3. CASE \E q \in Portals, t \in Tickets : ExpireSession(q, t)
  BY <1>3, ExpireShape
<1>4. CASE \E k \in {"login", "reset", "admin"}, t \in People : ExpireCode(k, t)
  <2>1. PICK k \in {"login", "reset", "admin"}, t \in People : ExpireCode(k, t)
    BY <1>4
  <2>2. /\ otp' = [otp EXCEPT ![k][t] = NoOne]
        /\ UNCHANGED <<crossed, revoked, emailOtp, accounts, replica, nonces, clock, info, session,
                       cookie, page, req, signedIn>>
    BY <2>1 DEF ExpireCode
  <2>3. /\ otp' \in [{"login", "reset", "admin"} -> [People -> Codes \cup {NoOne}]]
        /\ \A j \in {"login", "reset", "admin"}, x \in People : otp'[j][x] # NoOne => otp[j][x] # NoOne
    BY <1>1, <2>2 DEF Stores
  <2>4. Stores'
    BY <1>1, <2>2, <2>3 DEF Stores, Stored, Admins
  <2> QED BY <2>2, <2>4, StoreShape
<1>5. CASE Tick
  <2>1. clock' \in 0..MaxClock
    BY <1>1, <1>5, BoundsAssumption DEF Tick, Stores
  <2>2. Stores'
    BY <1>1, <1>5, <2>1 DEF Tick, Stores, Stored, Admins
  <2> QED BY <1>5, <2>2, StoreShape DEF Tick
<1>6. CASE Replicate
  <2>1. Stores'
    BY <1>1, <1>6 DEF Replicate, Stores, Stored, Admins
  <2> QED BY <1>6, <2>1, StoreShape DEF Replicate
<1> QED BY <1>2, <1>3, <1>4, <1>5, <1>6 DEF FaultStep

LEMMA ShapeStep == Shape /\ [Next]_vars => Shape'
<1> SUFFICES ASSUME Shape, [Next]_vars
             PROVE  Shape'
  OBVIOUS
<1>1. CASE UserStep \/ AdminStep
  BY <1>1, UserShape, AdminShape
<1>2. CASE FaultStep \/ Replicate
  BY <1>2, FaultShape
<1>3. ASSUME NEW b \in Browsers,
             \/ CheckSession(b) \/ CheckRow(b) \/ SeedRead(b) \/ SeedSet(b) \/ CheckPassword(b)
             \/ \E code \in Codes : MailCode(b, code)
             \/ CheckCode(b) \/ ReadAccount(b) \/ InsertSuccessor(b) \/ ForgetDefault(b)
             \/ CommitNothing(b) \/ CommitPassword(b) \/ CommitSetup(b) \/ CommitPortal(b)
             \/ StoreSession(b)
             \/ DropCode(b) \/ DropDefault(b) \/ DropSession(b) \/ KeepSession(b) \/ Answer(b)
      PROVE  Shape'
  BY <1>3, CheckSessionShape, CheckRowShape, SeedReadShape, SeedSetShape, CheckPasswordShape,
     MailCodeShape, CheckCodeShape, ReadAccountShape, InsertSuccessorShape, ForgetDefaultShape,
     CommitNothingShape, KeepSessionShape, CommitPasswordShape, CommitSetupShape, CommitPortalShape, StoreSessionShape, DropCodeShape,
     DropShape, AnswerShape
<1>4. CASE UNCHANGED vars
  BY <1>4, StoresTyped, StoreShape DEF vars, Stores, Stored, Admins
<1> QED BY <1>1, <1>2, <1>3, <1>4 DEF Next, SystemStep

LEMMA ShapeInit == Init => Shape
<1> SUFFICES ASSUME Init
             PROVE  Shape
  OBVIOUS
<1> DEFINE o == Opened("login")
           c == [employee |-> NoOne, admin |-> NoOne, lag |-> FALSE]
           n == Ask(c, PortalOf("login"), "me", NoOne)
<1>1. o \in Page /\ o.at = "login" /\ o.stage = "check"
  BY OpenedPage
<1>2. emailOtp \in BOOLEAN /\ PortalOf("login") \in Portals /\ "me" \in Kinds \ {"none"}
      /\ c \in [employee : Token \cup {NoOne}, admin : Token \cup {NoOne}, lag : BOOLEAN]
  BY DEF Init, PortalOf, Portals, Kinds
<1>3. \A b \in Browsers : page[b] = o /\ cookie[b] = c /\ req[b] = n
  BY <1>1 DEF Init, Mount
<1>4. /\ page \in [Browsers -> Page]
      /\ cookie \in [Browsers -> [employee : Token \cup {NoOne}, admin : Token \cup {NoOne}, lag : BOOLEAN]]
      /\ signedIn \in [Browsers -> [Portals -> BOOLEAN]]
  BY <1>1, <1>2 DEF Init
<1> HIDE DEF o, c
<1>5. Posed(emailOtp, c, PortalOf("login"), "me", NoOne, n)
  BY <1>2, Asked, Z3
<1> HIDE DEF n
<1>6. Knows(emailOtp, n)
  BY <1>2, <1>5, PosedKnows, Z3
<1>7. n \in Request /\ n.kind = "me" /\ n.portal = PortalOf("login") /\ n.token = c[n.portal]
  BY <1>5 DEF Posed
<1>8. Matches(o, n, c)
  BY <1>1, <1>7 DEF Matches
<1>9. req \in [Browsers -> Request]
  BY <1>3, <1>7 DEF Init
<1>10. Stores
  <2>1. nonces \in 0..MaxNonce /\ clock \in 0..MaxClock /\ info \in 0..nonces
    BY BoundsAssumption DEF Init
  <2>2. /\ session \in [Portals -> [Tickets -> Token \cup {NoOne}]]
        /\ \A q \in Portals, t \in Tickets : session[q][t] = NoOne
    BY DEF Init
  <2>3. /\ otp \in [{"login", "reset", "admin"} -> [People -> Codes \cup {NoOne}]]
        /\ \A k \in {"login", "reset", "admin"}, p \in People : otp[k][p] = NoOne
    BY DEF Init
  <2>4. crossed \in BOOLEAN /\ revoked \subseteq People /\ accounts \in Tables /\ replica \in Tables
        /\ \A p \in Admins(accounts) : accounts.emp[p] # NoOne
    BY DEF Init
  <2>5. session["employee"][Default] = NoOne
    BY <2>2 DEF Portals, Tickets
  <2> QED BY <2>1, <2>2, <2>3, <2>4, <2>5 DEF Stores, Stored
<1>11. TypeOK
  BY <1>2, <1>4, <1>9, <1>10 DEF TypeOK, Stores
<1> QED BY <1>3, <1>6, <1>8, <1>10, <1>11 DEF Shape, Stores

(* The type invariant, with what the programs of the handlers and the      *)
(* pages that wait for them have to do with each other.                    *)
THEOREM TypeCorrect == Spec => []TypeOK
<1>1. Shape => TypeOK
  BY DEF Shape
<1> QED BY <1>1, ShapeInit, ShapeStep, PTL DEF Spec

-----------------------------------------------------------------------------
(* What every step of a handler has in common.                             *)

(* The step s of the handler of the request of browser b.                  *)
Does(b, s) ==
  \/ s = "Session" /\ CheckSession(b)
  \/ s = "Row" /\ CheckRow(b)
  \/ s = "SeedRead" /\ SeedRead(b)
  \/ s = "SeedSet" /\ SeedSet(b)
  \/ s = "Password" /\ CheckPassword(b)
  \/ s = "Mail" /\ \E code \in Codes : MailCode(b, code)
  \/ s = "Code" /\ CheckCode(b)
  \/ s = "Account" /\ ReadAccount(b)
  \/ s = "Insert" /\ InsertSuccessor(b)
  \/ s = "Forget" /\ ForgetDefault(b)
  \/ s = "Commit" /\ (CommitNothing(b) \/ CommitPassword(b) \/ CommitSetup(b) \/ CommitPortal(b))
  \/ s = "Store" /\ StoreSession(b)
  \/ s = "DropCode" /\ DropCode(b)
  \/ s = "DropDefault" /\ DropDefault(b)
  \/ s = "DropSession" /\ (DropSession(b) \/ KeepSession(b))

(* The steps that may refuse.                                              *)
Gates == {"Session", "Row", "Password", "Mail", "Code", "Account", "Insert", "Commit"}

(* It refuses, or goes on to what comes after s; only some steps change    *)
(* what is known.                                                          *)
Handled(b, s, n) ==
  LET r == req[b]
  IN /\ r.status = "open" /\ Now(r) = s /\ Place(emailOtp, r.kind, r.portal, r.who, s)
     /\ Turn(b, n) /\ Sent(r, n) /\ n.clean = r.clean
     /\ emailOtp' = emailOtp /\ page' = page /\ cookie' = cookie
     /\ \/ /\ n.status \in Errors /\ Now(n) = "done" /\ n.who = r.who /\ n.token = r.token
           /\ s \in Gates
        \/ /\ Now(n) \in After(emailOtp, r.kind, r.portal, r.who, s)
                         \cup (IF s = "SeedRead" THEN {"SeedSet"} ELSE {})
           /\ n.status = IF Now(n) = "done" THEN "ok" ELSE "open"
           /\ s # "Store" => n.token = r.token
           /\ ~(s = "Commit" /\ r.kind = "setup") => n.who = r.who
           /\ s \notin {"Row", "Password", "Account", "Insert"} => n.flag = r.flag
           /\ s \notin {"Password", "Account", "Commit"} => n.nonce = r.nonce

LEMMA Handles ==
  ASSUME Shape, NEW b \in Browsers, NEW s \in Steps, At(b, s), NEW n \in Request,
         Proceed(b, n) \/ \E q \in Portals : \E t : Ending(b, n, q, t),
         emailOtp' = emailOtp, page' = page, cookie' = cookie,
         \/ s \in Gates /\ \E st \in Errors : n = Refused(req[b], st)
         \/ /\ Sent(Past(req[b]), n) /\ n.todo = Past(req[b]).todo /\ n.status = Past(req[b]).status
            /\ n.clean = req[b].clean
            /\ s # "Store" => n.token = req[b].token
            /\ ~(s = "Commit" /\ req[b].kind = "setup") => n.who = req[b].who
            /\ s \notin {"Row", "Password", "Account", "Insert"} => n.flag = req[b].flag
            /\ s \notin {"Password", "Account", "Commit"} => n.nonce = req[b].nonce
  PROVE  Handled(b, s, n)
<1> DEFINE r == req[b]
           p == Past(r)
<1>1. /\ r \in Request /\ r.status = "open" /\ Now(r) = s /\ p \in Request
      /\ Advances(emailOtp, r, p, s)
  BY Continue
<1>2. Turn(b, n)
  <2>1. TypeOK
    BY DEF Shape
  <2> QED BY <2>1, ProceedTurns, EndingTurns
<1>3. CASE s \in Gates /\ \E st \in Errors : n = Refused(r, st)
  <2>1. PICK st \in Errors : n = Refused(r, st)
    BY <1>3
  <2>2. Sent(r, n) /\ Given(r, n) /\ n.who = r.who /\ n.token = r.token /\ n.status = st /\ Now(n) = "done"
    BY <1>1, <2>1, Refusal
  <2> HIDE DEF r, p
  <2>3. /\ r.status = "open" /\ Now(r) = s /\ Place(emailOtp, r.kind, r.portal, r.who, s)
        /\ n.clean = r.clean
    BY <1>1, <2>2 DEF Advances, Given
  <2> QED BY <1>2, <1>3, <2>2, <2>3 DEF Handled, r
<1>4. CASE /\ Sent(p, n) /\ n.todo = p.todo /\ n.status = p.status
           /\ n.clean = r.clean
           /\ s # "Store" => n.token = r.token
           /\ ~(s = "Commit" /\ r.kind = "setup") => n.who = r.who
           /\ s \notin {"Row", "Password", "Account", "Insert"} => n.flag = r.flag
           /\ s \notin {"Password", "Account", "Commit"} => n.nonce = r.nonce
  <2>1. Now(n) = Now(p)
    BY <1>4 DEF Now
  <2> HIDE DEF p, r
  <2>2. Sent(r, n)
    BY <1>1, <1>4 DEF Advances, Sent
  <2>3. /\ Place(emailOtp, r.kind, r.portal, r.who, s)
        /\ Now(n) \in After(emailOtp, r.kind, r.portal, r.who, s)
        /\ n.status = IF Now(n) = "done" THEN "ok" ELSE "open"
    BY <1>1, <1>4, <2>1 DEF Advances
  <2> QED BY <1>1, <1>2, <1>4, <2>2, <2>3 DEF Handled, r
<1> QED BY <1>3, <1>4

LEMMA Becomes ==
  ASSUME Shape', NEW b \in Browsers, NEW n,
         Proceed(b, n) \/ \E q \in Portals : \E t : Ending(b, n, q, t)
  PROVE  n \in Request /\ req'[b] = n
BY DEF Shape, TypeOK, Proceed, Ending

LEMMA HandlerSteps ==
  ASSUME Shape, Shape', NEW b \in Browsers, NEW s \in Steps, Does(b, s)
  PROVE  Handled(b, s, req'[b])
<1> DEFINE r == req[b]
           p == Past(r)
<1>1. /\ At(b, s) /\ emailOtp' = emailOtp /\ page' = page /\ cookie' = cookie
  BY DEF Does, CheckSession, CheckRow, SeedRead, SeedSet, CheckPassword, MailCode, CheckCode,
     ReadAccount, InsertSuccessor, ForgetDefault, CommitNothing, CommitPassword, CommitSetup,
     CommitPortal, StoreSession, DropCode, DropDefault, DropSession, KeepSession, stores
<1>2. /\ r \in Request /\ p \in Request /\ Advances(emailOtp, r, p, s)
  BY <1>1, Continue
<1>3. /\ Sent(p, p) /\ p.token = r.token /\ p.who = r.who /\ p.flag = r.flag /\ p.nonce = r.nonce
      /\ p.clean = r.clean
  BY <1>2 DEF Sent, Advances, Given
<1>4. ASSUME NEW n, Proceed(b, n) \/ \E q \in Portals : \E t : Ending(b, n, q, t),
             n = p \/ (s \in Gates /\ \E st \in Errors : n = Refused(r, st))
      PROVE  Handled(b, s, req'[b])
  <2>1. n \in Request /\ req'[b] = n
    BY <1>4, Becomes
  <2> HIDE DEF p
  <2> QED BY <1>1, <1>3, <1>4, <2>1, Handles DEF p
<1>5. ASSUME NEW n, Proceed(b, n), NEW f, n = [p EXCEPT !.flag = f], s \in {"Row", "Insert"}
      PROVE  Handled(b, s, req'[b])
  <2>1. n \in Request /\ req'[b] = n
    BY <1>5, Becomes
  <2> HIDE DEF p, r
  <2>2. /\ Sent(p, n) /\ n.todo = p.todo /\ n.status = p.status /\ n.clean = r.clean
        /\ n.token = r.token /\ n.who = r.who /\ n.nonce = r.nonce
    BY <1>2, <1>3, <1>5 DEF Request, Sent
  <2> QED BY <1>1, <1>5, <2>1, <2>2, Handles DEF p, r
<1>6. ASSUME NEW n, Proceed(b, n), NEW f, NEW m, n = [p EXCEPT !.nonce = m, !.flag = f],
             s \in {"Password", "Account"}
      PROVE  Handled(b, s, req'[b])
  <2>1. n \in Request /\ req'[b] = n
    BY <1>6, Becomes
  <2> HIDE DEF p, r
  <2>2. /\ Sent(p, n) /\ n.todo = p.todo /\ n.status = p.status /\ n.clean = r.clean
        /\ n.token = r.token /\ n.who = r.who
    BY <1>2, <1>3, <1>6 DEF Request, Sent
  <2> QED BY <1>1, <1>6, <2>1, <2>2, Handles DEF p, r
<1>7. CASE s \in {"Session", "SeedSet", "Forget", "DropCode", "DropDefault", "DropSession"}
  <2>1. \/ s = "Session" /\ \E st \in Errors : Proceed(b, Refused(r, st))
        \/ Proceed(b, p) \/ \E q \in Portals : \E t : Ending(b, p, q, t)
    <3>1. r.portal \in Portals /\ "admin" \in Portals /\ "401" \in Errors
      BY <1>2 DEF Request, Portals, Errors
    <3> QED BY <1>7, <3>1 DEF Does, CheckSession, SeedSet, ForgetDefault, DropCode, DropDefault,
         DropSession, KeepSession
  <2> QED BY <1>4, <2>1 DEF Gates
<1>8. CASE s \in {"Mail", "Code"}
  <2>1. (\E st \in Errors : Proceed(b, Refused(r, st))) \/ Proceed(b, p)
    BY <1>8 DEF Does, MailCode, CheckCode, Errors
  <2> QED BY <1>4, <1>8, <2>1 DEF Gates
<1>9. CASE s = "Row"
  <2> DEFINE v == CASE r.portal = "employee" -> EmployeeVerdict(r)
                    [] r.portal = "admin" /\ r.who = Default -> DefaultVerdict(r)
                    [] r.portal = "admin" /\ r.who # Default -> AdminVerdict(r)
             t == TablesFor(r)
             f == /\ r.portal = "admin" /\ r.who # Default /\ t.adm[r.who] # NoOne
                  /\ IF r.kind = "setup" THEN t.adm[r.who].must ELSE t.adm[r.who].portal
  <2>1. Proceed(b, IF v = "ok" THEN [p EXCEPT !.flag = f] ELSE Refused(r, v))
    BY <1>9 DEF Does, CheckRow
  <2>2. v \in Errors \cup {"ok"}
    <3>1. Knows(emailOtp, r) /\ Now(r) = "Row"
      BY <1>1, <1>9, Continue DEF Shape
    <3>2. /\ r.kind \in {"me", "change", "enable", "setup"} /\ r.who \in Tickets
          /\ r.portal = "employee" => r.who \in People
          /\ r.kind \in {"setup", "enable"} => r.portal = "admin"
      BY <1>2, <1>9, <3>1 DEF Advances, Place, Knows, Own, Request, Token
    <3> QED BY <1>2, <3>2, Verdicts
  <2> HIDE DEF v, f
  <2> QED BY <1>4, <1>5, <1>9, <2>1, <2>2 DEF Gates
<1>10. CASE s = "Insert"
  <2>1. \/ \E st \in Errors : Proceed(b, Refused(r, st))
        \/ Proceed(b, [p EXCEPT !.flag = accounts.emp[r.ticket] # NoOne])
    BY <1>10 DEF Does, InsertSuccessor, Errors
  <2> QED BY <1>4, <1>5, <1>10, <2>1 DEF Gates
<1>11. CASE s = "Account"
  <2>1. \/ \E st \in Errors : Proceed(b, Refused(r, st))
        \/ \E f, m : Proceed(b, [p EXCEPT !.nonce = m, !.flag = f])
    BY <1>11 DEF Does, ReadAccount, Errors
  <2> QED BY <1>4, <1>6, <1>11, <2>1 DEF Gates
<1>12. CASE s = "Password"
  <2>1. r.portal \in {"employee", "admin"}
    BY <1>2, SMTT(60) DEF Request, Portals
  <2>2. \/ \E st \in Errors : Proceed(b, Refused(r, st))
        \/ \E f, m : Proceed(b, [p EXCEPT !.nonce = m, !.flag = f])
    BY <1>12, <2>1 DEF Does, CheckPassword, Errors
  <2> QED BY <1>4, <1>6, <1>12, <2>2 DEF Gates
<1>13. CASE s = "Commit"
  <2>1. CASE CommitPassword(b)
    BY <1>4, <2>1 DEF CommitPassword
  <2>2. CASE CommitPortal(b)
    BY <1>4, <2>2 DEF CommitPortal, Portals
  <2>3. CASE CommitSetup(b)
    <3>1. PICK n : \E w : \E m : /\ Proceed(b, n) \/ Ending(b, n, "admin", r.who)
                                 /\ n = [p EXCEPT !.who = w, !.nonce = m] \/ n = [p EXCEPT !.nonce = m]
      <4>1. CASE r.who = Default
        <5>1. Proceed(b, [p EXCEPT !.who = r.ticket, !.nonce = nonces + 1])
          BY <2>3, <4>1 DEF CommitSetup
        <5> HIDE DEF p, r
        <5> QED BY <5>1
      <4>2. CASE r.who # Default
        <5>1. Ending(b, [p EXCEPT !.nonce = TokenNonce(r)], "admin", r.who)
          BY <2>3, <4>2 DEF CommitSetup
        <5> HIDE DEF p, r
        <5> QED BY <5>1
      <4> QED BY <4>1, <4>2
    <3>2. n \in Request /\ req'[b] = n /\ r.kind = "setup"
      BY <2>3, <3>1, Becomes DEF Portals, CommitSetup
    <3> HIDE DEF p, r
    <3>3. /\ Sent(p, n) /\ n.todo = p.todo /\ n.status = p.status /\ n.clean = r.clean
          /\ n.token = r.token /\ n.flag = r.flag
      BY <1>2, <1>3, <3>1 DEF Request, Sent
    <3> QED BY <1>1, <1>13, <3>1, <3>2, <3>3, Handles, SMTT(60) DEF p, r, Portals
  <2>4. CASE CommitNothing(b)
    <3>1. \E st \in Errors : Proceed(b, Refused(r, st))
      BY <2>4 DEF CommitNothing, Errors
    <3> QED BY <1>4, <1>13, <3>1 DEF Gates
  <2> QED BY <1>13, <2>1, <2>2, <2>3, <2>4 DEF Does
<1>14. CASE s = "Store"
  <2>1. PICK n, t : Ending(b, n, r.portal, r.who) /\ n = [p EXCEPT !.token = t]
    BY <1>14 DEF Does, StoreSession
  <2>2. n \in Request /\ req'[b] = n /\ r.portal \in Portals
    BY <1>2, <2>1, Becomes DEF Request
  <2> HIDE DEF p, r
  <2>3. /\ Sent(p, n) /\ n.todo = p.todo /\ n.status = p.status /\ n.clean = r.clean
        /\ n.who = r.who /\ n.flag = r.flag /\ n.nonce = r.nonce
    BY <1>2, <1>3, <2>1 DEF Request, Sent
  <2> QED BY <1>1, <1>14, <2>1, <2>2, <2>3, Handles DEF p, r
<1>15. CASE s = "SeedRead"
  <2>1. CASE Proceed(b, p) \/ Ending(b, p, "admin", Default)
    BY <1>4, <2>1 DEF Portals
  <2>2. CASE Proceed(b, [r EXCEPT !.todo = <<"SeedSet">> \o Tail(@)])
    <3> DEFINE n == [r EXCEPT !.todo = <<"SeedSet">> \o Tail(@)]
    <3>1. n \in Request /\ req'[b] = n
      BY <2>2, Becomes
    <3>2. Turn(b, n)
      BY <2>2, <3>1, ProceedTurns DEF Shape
    <3>3. /\ <<"SeedSet">> \o Tail(r.todo) # <<>> /\ Head(<<"SeedSet">> \o Tail(r.todo)) = "SeedSet"
      <4>1. /\ r.kind \in Kinds /\ r.portal \in Portals /\ Head(r.todo) = "SeedRead"
            /\ Script(emailOtp, r.kind, r.portal, r.who, r.todo) /\ emailOtp \in BOOLEAN
        BY <1>1, <1>2, <1>15 DEF Request, At, Shape, TypeOK, Knows, Underway
      <4> HIDE DEF r
      <4> QED BY <4>1, Seeding, Z3T(60)
    <3>4. /\ n.todo = <<"SeedSet">> \o Tail(r.todo)
          /\ Sent(r, n) /\ n.clean = r.clean /\ n.who = r.who /\ n.token = r.token /\ n.flag = r.flag
          /\ n.nonce = r.nonce /\ n.status = r.status
      BY <1>2 DEF Request, Sent
    <3>5. r.status = "open" /\ Now(r) = "SeedRead"
      BY <1>1, <1>15, Continue
    <3> HIDE DEF n, r
    <3>6. Now(n) = "SeedSet"
      BY <3>3, <3>4, <3>5 DEF Now
    <3>7. Place(emailOtp, r.kind, r.portal, r.who, s)
      BY <1>2 DEF Advances
    <3> QED BY <1>1, <1>15, <3>1, <3>2, <3>4, <3>5, <3>6, <3>7 DEF Handled, r
  <2>3. \/ Proceed(b, p) \/ Ending(b, p, "admin", Default)
        \/ Proceed(b, [r EXCEPT !.todo = <<"SeedSet">> \o Tail(@)])
    BY <1>15 DEF Does, SeedRead
  <2> QED BY <2>1, <2>2, <2>3
<1> QED BY <1>7, <1>8, <1>9, <1>10, <1>11, <1>12, <1>13, <1>14, <1>15, SMTT(60) DEF Steps

(* The steps there are.                                                    *)
LEMMA StepsAre ==
  ASSUME Shape, [Next]_vars
  PROVE  \/ \E b \in Browsers : \E p, n : Idle(b) /\ Show(b, p, n) /\ Poses(b, p, n)
         \/ \E b \in Browsers, s \in Steps : Does(b, s)
         \/ \E b \in Browsers : Answer(b)
         \/ \E p \in People, Q \in SUBSET Portals : Managed(Q, p)
         \/ FaultStep \/ Replicate
         \/ UNCHANGED vars
<1>1. CASE UserStep \/ AdminStep
  BY <1>1, UserSteps, AdminIs
<1>2. ASSUME NEW b \in Browsers,
             \/ CheckSession(b) \/ CheckRow(b) \/ SeedRead(b) \/ SeedSet(b) \/ CheckPassword(b)
             \/ \E code \in Codes : MailCode(b, code)
             \/ CheckCode(b) \/ ReadAccount(b) \/ InsertSuccessor(b) \/ ForgetDefault(b)
             \/ CommitNothing(b) \/ CommitPassword(b) \/ CommitSetup(b) \/ CommitPortal(b)
             \/ StoreSession(b)
             \/ DropCode(b) \/ DropDefault(b) \/ DropSession(b) \/ KeepSession(b)
      PROVE  \E s \in Steps : Does(b, s)
  BY <1>2 DEF Does, Steps
<1> QED BY <1>1, <1>2 DEF Next, SystemStep

-----------------------------------------------------------------------------
(* The set-up comes first.                                                 *)

(* What the faults and the replication leave alone.                        *)
LEMMA FaultsAre ==
  ASSUME Shape, FaultStep \/ Replicate
  PROVE  /\ page' = page /\ accounts' = accounts /\ info' = info /\ emailOtp' = emailOtp
         /\ nonces' = nonces /\ crossed' = crossed /\ revoked' = revoked
         /\ replica' = replica \/ replica' = accounts
         /\ \A x \in Browsers : \/ req'[x] \in {req[x], [req[x] EXCEPT !.clean = FALSE]}
                                \/ req'[x] = Refused(req[x], "error")
<1>1. CASE \E q \in Portals, t \in Tickets : ExpireSession(q, t)
  <2>1. PICK q \in Portals, t \in Tickets : ExpireSession(q, t)
    BY <1>1
  <2>2. /\ Overtake({q}, t)
        /\ UNCHANGED <<crossed, revoked, emailOtp, accounts, replica, nonces, clock, info, otp, cookie, page>>
    BY <2>1 DEF ExpireSession
  <2> QED BY <2>2, OvertakeIs DEF Shape, Overtakes
<1>2. CASE ~ \E q \in Portals, t \in Tickets : ExpireSession(q, t)
  BY <1>2 DEF Shape, TypeOK, FaultStep, Replicate, Fail, ExpireCookie, ExpireLag, ExpireCode, Tick,
     Proceed, stores
<1> QED BY <1>1, <1>2

(* The administrator t has a row and has finished the set-up ...           *)
Ready(t) == t \in Admins(accounts) /\ ~accounts.adm[t].must

(* ... or has been removed since.                                          *)
Cleared(t) == Ready(t) \/ t \in revoked

StaysCleared == \A t : Cleared(t) => Cleared(t)'

LEMMA CommitClears ==
  ASSUME Shape, NEW b \in Browsers, CommitPassword(b) \/ CommitSetup(b) \/ CommitPortal(b)
  PROVE  StaysCleared
<1>1. CASE CommitPassword(b)
  <2>1. revoked' = revoked
    BY <1>1 DEF CommitPassword
  <2>2. \A x \in People : accounts'.adm[x] = accounts.adm[x]
    BY <1>1, CommitPasswordShape
  <2> QED BY <2>1, <2>2 DEF StaysCleared, Cleared, Ready, Admins
<1>2. CASE CommitPortal(b)
  <2>1. revoked' = revoked
    BY <1>2 DEF CommitPortal
  <2>2. \A x \in People : accounts.adm[x] # NoOne =>
          accounts'.adm[x] # NoOne /\ accounts'.adm[x].must = accounts.adm[x].must
    BY <1>2, CommitPortalShape
  <2> QED BY <2>1, <2>2 DEF StaysCleared, Cleared, Ready, Admins
<1>3. CASE CommitSetup(b)
  <2> DEFINE p == IF req[b].who = Default THEN req[b].ticket ELSE req[b].who
  <2>1. /\ accounts'.adm[p] # NoOne /\ (accounts'.adm[p].must => accounts.adm[p].must)
        /\ \A x \in People \ {p} : accounts'.adm[x] = accounts.adm[x]
    BY <1>3, CommitSetupWrites
  <2>2. revoked' = {x \in revoked : accounts'.adm[x] = NoOne \/ accounts'.adm[x].must}
    BY <1>3 DEF CommitSetup
  <2>3. revoked \subseteq People
    BY DEF Shape, TypeOK
  <2> HIDE DEF p
  <2>4. ASSUME NEW t, Ready(t)
        PROVE  Ready(t)'
    BY <2>1, <2>4 DEF Ready, Admins
  <2>5. ASSUME NEW t \in revoked
        PROVE  Cleared(t)'
    BY <2>2, <2>3, <2>5 DEF Cleared, Ready, Admins
  <2> QED BY <2>4, <2>5 DEF StaysCleared, Cleared
<1> QED BY <1>1, <1>2, <1>3

LEMMA ManagedClears ==
  ASSUME NEW p \in People, NEW Q, Managed(Q, p)
  PROVE  StaysCleared
<1>1. /\ \A x \in People \ {p} : accounts'.adm[x] = accounts.adm[x]
      /\ revoked \subseteq revoked'
      /\ accounts.adm[p] # NoOne =>
           accounts'.adm[p] = accounts.adm[p] \/ (accounts'.adm[p] = NoOne /\ p \in revoked')
  BY DEF Managed
<1> QED BY <1>1 DEF StaysCleared, Cleared, Ready, Admins

LEMMA Rows ==
  ASSUME Shape, [Next]_vars
  PROVE  /\ StaysCleared
         /\ replica' = replica \/ (replica' = accounts /\ accounts' = accounts)
<1>0. accounts' = accounts /\ revoked' = revoked => StaysCleared
  BY DEF StaysCleared, Cleared, Ready, Admins
<1>1. CASE \E b \in Browsers : \E p, n : Idle(b) /\ Show(b, p, n) /\ Poses(b, p, n)
  BY <1>0, <1>1 DEF Show, stores
<1>2. ASSUME NEW b \in Browsers, NEW s \in Steps, Does(b, s)
      PROVE  StaysCleared /\ replica' = replica
  <2>1. CASE s = "Commit" /\ ~CommitNothing(b)
    <3>1. replica' = replica
      BY <1>2, <2>1 DEF Does, CommitPassword, CommitSetup, CommitPortal
    <3> QED BY <1>2, <2>1, <3>1, CommitClears DEF Does
  <2>2. CASE s # "Commit" \/ CommitNothing(b)
    <3>1. accounts' = accounts /\ revoked' = revoked /\ replica' = replica
      BY <1>2, <2>2 DEF Does, CheckSession, CheckRow, SeedRead, SeedSet, CheckPassword, MailCode,
         CheckCode, ReadAccount, InsertSuccessor, ForgetDefault, CommitNothing, StoreSession,
         DropCode, DropDefault, DropSession, KeepSession, stores
    <3> QED BY <1>0, <3>1
  <2> QED BY <2>1, <2>2
<1>3. CASE \E b \in Browsers : Answer(b)
  BY <1>0, <1>3, AnswerIs DEF stores
<1>4. CASE FaultStep \/ Replicate
  BY <1>0, <1>4, FaultsAre
<1>5. CASE UNCHANGED vars
  BY <1>0, <1>5 DEF vars
<1>6. CASE \E p \in People, Q \in SUBSET Portals : Managed(Q, p)
  BY <1>6, ManagedClears DEF Managed
<1> QED BY <1>1, <1>2, <1>3, <1>4, <1>5, <1>6, StepsAre

(* What the answers make of a page, whatever the request.                  *)
LEMMA AnsweredPageIs ==
  ASSUME Shape, NEW b \in Browsers, Answer(b)
  PROVE  LET r == req[b]
             o == page[b]
             p == AnsweredPage(b)
             in == r.status = "ok" /\ Enters(emailOtp, r)
         IN /\ r.portal = PortalOf(o.at)
            /\ p.refused => \/ o.refused
                            \/ /\ r.kind = "login" \/ r.kind = "verify"
                               /\ r.status \in {"401", "403"} /\ r.clean /\ r.portal = "admin"
                               /\ r.who = Default /\ r.pwd = DefaultPassword
            /\ p.at = "setup" => ~(r.kind = "setup" /\ r.status = "ok")
            /\ p.at = "adminDashboard" /\ p.stage # "check" =>
                 /\ o.at = "adminDashboard"
                 /\ \/ r.kind = "me" /\ r.status = "ok" /\ p.who = r.who
                    \/ o.stage # "check" /\ p.who = o.who
            /\ p.bounced =>
                 \/ /\ o.bounced /\ PortalOf(p.at) = PortalOf(o.at)
                    /\ r.kind \in {"login", "verify"} /\ in => r.flag
                    /\ r.kind # "logout" => p.at = o.at \/ r.kind \in {"login", "verify"}
                 \/ /\ r.lag /\ r.status \notin {"error", "ok"} /\ PortalOf(p.at) = r.portal
                    /\ r.kind = "me" \/ (r.status = "401" /\ o.at # "setup")
                    /\ r.kind \in {"me", "resend", "forgot", "reset", "change", "setup", "enable"}
<1> DEFINE r == req[b]
           o == page[b]
           p == AnsweredPage(b)
<1>1. /\ r \in Request /\ o \in Page /\ r.kind # "none" /\ r.status # "open" /\ emailOtp \in BOOLEAN
      /\ r.portal = PortalOf(o.at)
      /\ r.kind = "me" => o.at \in {"login", "dashboard", "adminLogin", "adminDashboard"}
      /\ r.kind # "me" => o.stage \notin {"check", "load"}
      /\ r.kind \in {"login", "verify"} => (r.flag => r.portal = "admin")
  BY AnswerIs DEF Shape, TypeOK, Matches, Knows, Request, Portals
<1>2. CASE r.kind = "me"
  BY <1>1, <1>2, AfterMeIs, ZenonT(60) DEF AnsweredPage
<1>3. CASE r.kind \in {"login", "verify"}
  BY <1>1, <1>3, AfterLoginIs DEF AnsweredPage
<1>4. CASE r.kind = "logout"
  BY <1>1, <1>4, AfterLogoutIs DEF AnsweredPage
<1>5. CASE r.kind \in {"resend", "forgot", "reset", "change", "setup", "enable"}
  BY <1>1, <1>5, AfterFormIs, ZenonT(60) DEF AnsweredPage
<1> QED BY <1>1, <1>2, <1>3, <1>4, <1>5, SMTT(60) DEF Request, Kinds

(* An administrator whose set-up the replica knows to be finished has      *)
(* finished it on the primary, or has been removed there.                  *)
Behind == \A p \in People : replica.adm[p] # NoOne /\ ~replica.adm[p].must => Cleared(p)

(* Whoever is shown the control center, or let in, is ready or removed.    *)
Guarded(b) ==
  /\ page[b].at = "adminDashboard" /\ page[b].stage # "check" => Cleared(page[b].who)
  /\ req[b].kind = "me" /\ req[b].portal = "admin" /\ req[b].status = "ok" => Cleared(req[b].who)

SetupInv == Shape /\ Behind /\ \A b \in Browsers : Guarded(b)

LEMMA BehindStep ==
  ASSUME Shape, Behind, [Next]_vars
  PROVE  Behind'
<1>1. /\ StaysCleared
      /\ replica' = replica \/ (replica' = accounts /\ accounts' = accounts)
  BY Rows
<1>2. CASE replica' = replica
  BY <1>1, <1>2 DEF Behind, StaysCleared
<1>3. CASE replica' = accounts /\ accounts' = accounts
  BY <1>3 DEF Behind, Cleared, Ready, Admins
<1> QED BY <1>1, <1>2, <1>3

(* A row lets in only whom it may.                                         *)
LEMMA RowLetsIn ==
  ASSUME Shape, Shape', Behind, NEW b \in Browsers, CheckRow(b),
         LET n == req'[b] IN n.kind = "me" /\ n.portal = "admin" /\ n.status = "ok"
  PROVE  Cleared(req[b].who)'
<1> DEFINE r == req[b]
           n == req'[b]
           v == CASE r.portal = "employee" -> EmployeeVerdict(r)
                  [] r.portal = "admin" /\ r.who = Default -> DefaultVerdict(r)
                  [] r.portal = "admin" /\ r.who # Default -> AdminVerdict(r)
           a == TablesFor(r).adm[r.who]
<1>1. Does(b, "Row") /\ "Row" \in Steps /\ At(b, "Row")
  BY DEF Does, Steps, CheckRow
<1>2. r.kind = "me" /\ r.portal = "admin" /\ n.who = r.who
  <2>1. Handled(b, "Row", n)
    BY <1>1, HandlerSteps
  <2>2. Sent(r, n)
    BY <2>1 DEF Handled
  <2>3. n.who = r.who
    BY <2>1 DEF Handled
  <2> QED BY <2>2, <2>3 DEF Sent
<1>3. r \in Request /\ r.who \in Tickets
  <2>1. r \in Request /\ Now(r) = "Row" /\ Knows(emailOtp, r)
    BY <1>1, Continue DEF Shape
  <2> QED BY <2>1 DEF Knows, Own, Request, Token
<1>4. /\ v \in Errors \cup {"ok"}
      /\ r.who = Default /\ v = "ok" => r.kind = "setup"
      /\ r.who # Default /\ v = "ok" => a # NoOne /\ ~a.must
      /\ TablesFor(r) \in {accounts, replica}
  <2> HIDE DEF r
  <2> QED BY <1>2, <1>3, Verdicts
<1>5. v = "ok"
  <2>1. \E f : n = IF v = "ok" THEN [Past(r) EXCEPT !.flag = f] ELSE Refused(r, v)
    <3> DEFINE w == TablesFor(r)
               f == /\ r.portal = "admin" /\ r.who # Default /\ w.adm[r.who] # NoOne
                    /\ IF r.kind = "setup" THEN w.adm[r.who].must ELSE w.adm[r.who].portal
               m == IF v = "ok" THEN [Past(r) EXCEPT !.flag = f] ELSE Refused(r, v)
    <3>1. Proceed(b, m)
      BY DEF CheckRow
    <3> HIDE DEF m
    <3>2. n = m
      BY <3>1, Becomes
    <3> QED BY <3>2 DEF m
  <2>2. Refused(r, v).status = v
    BY <1>3 DEF Refused, Request
  <2> HIDE DEF v
  <2> QED BY <2>1, <2>2, SMTT(60)
<1>6. Cleared(r.who)
  <2>1. r.who \in People /\ a # NoOne /\ ~a.must
    BY <1>2, <1>3, <1>4, <1>5 DEF Tickets
  <2> HIDE DEF r, v
  <2> QED BY <1>4, <2>1 DEF Behind, Cleared, Ready, Admins
<1>7. accounts' = accounts /\ revoked' = revoked
  BY DEF CheckRow, stores
<1> QED BY <1>2, <1>6, <1>7 DEF Cleared, Ready, Admins

LEMMA GuardedStep ==
  ASSUME SetupInv, Shape', [Next]_vars, NEW x \in Browsers
  PROVE  Guarded(x)'
<1>1. /\ Shape /\ Behind /\ Guarded(x)
  BY DEF SetupInv
<1>2. \A t : Cleared(t) => Cleared(t)'
  BY Rows, <1>1 DEF StaysCleared
<1>3. CASE \E b \in Browsers : \E p, n : Idle(b) /\ Show(b, p, n) /\ Poses(b, p, n)
  <2>1. PICK b \in Browsers : \E p, n : Idle(b) /\ Show(b, p, n) /\ Poses(b, p, n)
    BY <1>3
  <2>2. PICK p, n : Show(b, p, n) /\ Poses(b, p, n)
    BY <2>1
  <2>3. page' = [page EXCEPT ![b] = p] /\ req' = [req EXCEPT ![b] = n]
    BY <2>2 DEF Show
  <2>4. n.kind = "me" => n.status = "open"
    <3>1. n.kind = "me" => \E t : Posed(emailOtp, cookie[b], n.portal, n.kind, t, n)
      BY <2>2 DEF Poses
    <3> QED BY <3>1 DEF Posed
  <2>5. p.at = "adminDashboard" /\ p.stage # "check" =>
           page[b].at = "adminDashboard" /\ page[b].stage # "check" /\ p.who = page[b].who
    BY <2>2 DEF Poses
  <2>6. page'[x] = (IF x = b THEN p ELSE page[x]) /\ req'[x] = (IF x = b THEN n ELSE req[x])
    BY <1>1, <2>3 DEF Shape, TypeOK
  <2> QED BY <1>1, <1>2, <2>4, <2>5, <2>6 DEF Guarded
<1>4. ASSUME NEW b \in Browsers, NEW s \in Steps, Does(b, s)
      PROVE  Guarded(x)'
  <2>1. Handled(b, s, req'[b])
    BY <1>1, <1>4, HandlerSteps
  <2>2. page' = page /\ Turn(b, req'[b])
    BY <2>1 DEF Handled
  <2>3. CASE x # b
    <3>1. req'[x] = req[x] \/ req'[x] = [req[x] EXCEPT !.clean = FALSE]
      BY <2>2, <2>3 DEF Turn
    <3>2. req'[x].kind = req[x].kind /\ req'[x].portal = req[x].portal
          /\ req'[x].status = req[x].status /\ req'[x].who = req[x].who
      BY <1>1, <3>1, SMTT(60) DEF Shape, TypeOK, Request
    <3> QED BY <1>1, <1>2, <2>2, <3>2 DEF Guarded
  <2>4. CASE x = b
    <3> SUFFICES ASSUME NEW t, t = req'[b].who, req'[b].kind = "me", req'[b].portal = "admin",
                        req'[b].status = "ok"
                 PROVE  Cleared(t)'
      <4>1. page'[x].at = "adminDashboard" /\ page'[x].stage # "check" => Cleared(page'[x].who)
        BY <1>1, <2>2 DEF Guarded
      <4>2. \A z : Cleared(z) => Cleared(z)'
        BY <1>2
      <4> QED BY <2>4, <4>1, <4>2 DEF Guarded, Cleared, Ready, Admins
    <3>1. s = "Row"
      <4> DEFINE n == req'[b]
                 r == req[b]
      <4>0. n.kind = "me" /\ n.status = "ok"
        OBVIOUS
      <4>a. Handled(b, s, n)
        BY <2>1
      <4> HIDE DEF n, r
      <4>1. Sent(r, n) /\ Place(emailOtp, r.kind, r.portal, r.who, s)
            /\ Now(n) \in After(emailOtp, r.kind, r.portal, r.who, s)
                         \cup (IF s = "SeedRead" THEN {"SeedSet"} ELSE {})
            /\ n.status = IF Now(n) = "done" THEN "ok" ELSE "open"
        BY <4>0, <4>a DEF Handled, r, Errors
      <4>2. r.kind = "me" /\ Now(n) = "done"
        BY <4>0, <4>1 DEF Sent
      <4> QED BY <4>1, <4>2 DEF Place, After, Steps
    <3>2. CheckRow(b)
      BY <1>4, <3>1 DEF Does
    <3> QED BY <1>1, <3>2, RowLetsIn DEF Cleared, Ready, Admins
  <2> QED BY <2>3, <2>4
<1>5. ASSUME NEW b \in Browsers, Answer(b)
      PROVE  Guarded(x)'
  <2> DEFINE p == AnsweredPage(b)
             n == AnsweredRequest(p, Cookies(b))
  <2>1. /\ page' = [page EXCEPT ![b] = p] /\ req' = [req EXCEPT ![b] = n]
        /\ n.kind # "none" => Posed(emailOtp, Cookies(b), n.portal, "me", NoOne, n)
    BY <1>1, <1>5, AnswerIs
  <2>2. /\ req[b].portal = PortalOf(page[b].at)
        /\ p.at = "adminDashboard" /\ p.stage # "check" =>
                 /\ page[b].at = "adminDashboard"
                 /\ \/ req[b].kind = "me" /\ req[b].status = "ok" /\ p.who = req[b].who
                    \/ page[b].stage # "check" /\ p.who = page[b].who
    BY <1>1, <1>5, AnsweredPageIs
  <2> HIDE DEF p, n
  <2>3. n.kind = "me" => n.status = "open"
    BY <2>1 DEF Posed
  <2>4. page'[x] = (IF x = b THEN p ELSE page[x]) /\ req'[x] = (IF x = b THEN n ELSE req[x])
    BY <1>1, <2>1 DEF Shape, TypeOK
  <2>5. PortalOf("adminDashboard") = "admin"
    BY DEF PortalOf, AdminSide
  <2>6. Guarded(b)
    BY DEF SetupInv
  <2> QED BY <1>1, <1>2, <2>2, <2>3, <2>4, <2>5, <2>6 DEF Guarded
<1>6. CASE FaultStep \/ Replicate
  <2>1. page' = page /\ (req'[x] \in {req[x], [req[x] EXCEPT !.clean = FALSE]}
                         \/ req'[x] = Refused(req[x], "error"))
    BY <1>1, <1>6, FaultsAre
  <2>2. /\ req'[x].kind = req[x].kind /\ req'[x].portal = req[x].portal /\ req'[x].who = req[x].who
        /\ req'[x].status \in {req[x].status, "error"}
    <3>1. req[x] \in Request
      BY <1>1 DEF Shape, TypeOK
    <3>2. CASE req'[x] \in {req[x], [req[x] EXCEPT !.clean = FALSE]}
      BY <3>1, <3>2 DEF Request
    <3>3. CASE req'[x] = Refused(req[x], "error")
      BY <3>1, <3>3 DEF Request, Refused
    <3> QED BY <2>1, <3>2, <3>3
  <2> QED BY <1>1, <1>2, <2>1, <2>2 DEF Guarded
<1>7. CASE UNCHANGED vars
  BY <1>1, <1>2, <1>7 DEF vars, Guarded
<1>8. ASSUME NEW p \in People, NEW Q \in SUBSET Portals, Managed(Q, p)
      PROVE  Guarded(x)'
  <2>1. page' = page /\ (req'[x] = req[x] \/ req'[x] = [req[x] EXCEPT !.clean = FALSE])
    BY <1>8 DEF Managed, Overtakes
  <2>2. /\ req'[x].kind = req[x].kind /\ req'[x].portal = req[x].portal /\ req'[x].who = req[x].who
        /\ req'[x].status = req[x].status
    BY <1>1, <2>1, SMTT(60) DEF Shape, TypeOK, Request
  <2> QED BY <1>1, <1>2, <2>1, <2>2 DEF Guarded
<1> QED BY <1>1, <1>3, <1>4, <1>5, <1>6, <1>7, <1>8, StepsAre

LEMMA SetupInvInit == Init => SetupInv
<1> SUFFICES ASSUME Init
             PROVE  SetupInv
  OBVIOUS
<1>1. Shape /\ Behind
  BY ShapeInit DEF Init, Behind, Cleared, Ready, Admins
<1>2. ASSUME NEW b \in Browsers
      PROVE  Guarded(b)
  <2>1. page[b] = Opened("login") /\ req[b] = Mount(cookie[b], "login")
    BY DEF Init
  <2>2. page[b].at = "login" /\ page[b].stage = "check"
    BY <2>1, OpenedPage
  <2>3. req[b] = Ask(cookie[b], "employee", "me", NoOne)
    BY <2>1, OpenedPage DEF Mount, PortalOf, AdminSide
  <2>4. Posed(emailOtp, cookie[b], "employee", "me", NoOne, req[b])
    <3>1. /\ cookie[b] \in [employee : Token \cup {NoOne}, admin : Token \cup {NoOne}, lag : BOOLEAN]
          /\ emailOtp \in BOOLEAN
      BY <1>1 DEF Shape, TypeOK
    <3>2. "employee" \in Portals /\ "me" \in Kinds \ {"none"} /\ NoOne \in Tickets \cup {NoOne}
      BY DEF Portals, Kinds
    <3>3. Posed(emailOtp, cookie[b], "employee", "me", NoOne, Ask(cookie[b], "employee", "me", NoOne))
      BY <3>1, <3>2, Asked
    <3> QED BY <2>3, <3>3
  <2> QED BY <2>2, <2>4 DEF Guarded, Posed
<1> QED BY <1>1, <1>2 DEF SetupInv

(* The control center opens only for an administrator whose set-up is      *)
(* finished: what a lagging replica lets in has finished on the primary,   *)
(* or has been removed there since.                                        *)
THEOREM ControlCenter == Spec => []SetupFirst
<1>1. Init => SetupInv
  BY SetupInvInit
<1>2. SetupInv /\ [Next]_vars => SetupInv'
  BY ShapeStep, BehindStep, GuardedStep DEF SetupInv
<1>3. SetupInv => SetupFirst
  BY DEF SetupInv, Guarded, Cleared, Ready, SetupFirst
<1> QED BY <1>1, <1>2, <1>3, PTL DEF Spec

-----------------------------------------------------------------------------
(* The default administrator.                                              *)

(* How every step but one of a handler leaves the request of browser x.    *)
Quiet(x) ==
  LET n == req'[x]
  IN \/ n \in {req[x], [req[x] EXCEPT !.clean = FALSE]}
     \/ n = Refused(req[x], "error")
     \/ n.kind = "none" /\ Now(n) = "done"
     \/ n.kind # "none" /\ \E c, t : Posed(emailOtp, c, n.portal, n.kind, t, n)

LEMMA QuietSteps ==
  ASSUME Shape, [Next]_vars, ~ \E b \in Browsers, s \in Steps : Does(b, s)
  PROVE  /\ info' = info /\ crossed' = crossed /\ emailOtp' = emailOtp
         /\ Admins(accounts) = {} <=> Admins(accounts') = {}
         /\ accounts' = accounts \/ \E p \in People, Q \in SUBSET Portals : Managed(Q, p)
         /\ \A x \in Browsers : Quiet(x)
<1>1. ASSUME NEW n, n.kind = "none", Knows(emailOtp, n)
      PROVE  Now(n) = "done"
  BY <1>1 DEF Knows, Underway, Script, Now
<1>2. CASE \E b \in Browsers : \E p, n : Idle(b) /\ Show(b, p, n) /\ Poses(b, p, n)
  <2>1. PICK b \in Browsers : \E p, n : Idle(b) /\ Show(b, p, n) /\ Poses(b, p, n)
    BY <1>2
  <2>2. PICK p, n : Show(b, p, n) /\ Poses(b, p, n)
    BY <2>1
  <2>3. /\ n.kind # "none" => \E t : Posed(emailOtp, cookie[b], n.portal, n.kind, t, n)
        /\ Knows(emailOtp, n)
    BY <2>2 DEF Poses
  <2>4. /\ \A x \in Browsers : req'[x] = IF x = b THEN n ELSE req[x]
        /\ UNCHANGED stores
    BY <2>2 DEF Show, Shape, TypeOK
  <2>5. ASSUME NEW x \in Browsers
        PROVE  Quiet(x)
    <3>1. CASE x # b
      BY <2>4, <3>1 DEF Quiet
    <3>2. CASE x = b /\ n.kind = "none"
      BY <1>1, <2>3, <2>4, <3>2 DEF Quiet
    <3>3. CASE x = b /\ n.kind # "none"
      BY <2>3, <2>4, <3>3 DEF Quiet
    <3> QED BY <3>1, <3>2, <3>3
  <2> QED BY <2>4, <2>5 DEF stores
<1>3. ASSUME NEW b \in Browsers, Answer(b)
      PROVE  UNCHANGED stores /\ \A x \in Browsers : Quiet(x)
  <2> DEFINE c == Cookies(b)
             n == AnsweredRequest(AnsweredPage(b), c)
  <2>1. /\ req' = [req EXCEPT ![b] = n] /\ UNCHANGED stores
        /\ n.kind \in {"none", "me"}
        /\ n.kind # "none" => Posed(emailOtp, c, n.portal, "me", NoOne, n)
        /\ Knows(emailOtp, n)
    BY <1>3, AnswerIs
  <2> HIDE DEF c, n
  <2>2. \A x \in Browsers : req'[x] = IF x = b THEN n ELSE req[x]
    BY <2>1 DEF Shape, TypeOK
  <2>3. ASSUME NEW x \in Browsers
        PROVE  Quiet(x)
    <3>1. CASE x # b
      BY <2>2, <3>1 DEF Quiet
    <3>2. CASE x = b /\ n.kind = "none"
      BY <1>1, <2>1, <2>2, <3>2 DEF Quiet
    <3>3. CASE x = b /\ n.kind = "me"
      BY <2>1, <2>2, <3>3 DEF Quiet
    <3> QED BY <2>1, <3>1, <3>2, <3>3
  <2> QED BY <2>1, <2>3
<1>4. CASE FaultStep \/ Replicate
  BY <1>4, FaultsAre DEF Quiet
<1>5. CASE UNCHANGED vars
  BY <1>5 DEF vars, Quiet
<1>6. CASE \E p \in People, Q \in SUBSET Portals : Managed(Q, p)
  BY <1>6 DEF Managed, Overtakes, Quiet
<1> QED BY <1>2, <1>3, <1>4, <1>5, <1>6, StepsAre DEF stores

(* The first steps of the handlers.                                        *)
Starts == {"Session", "SeedRead", "Password", "Code", "Mail", "DropSession"}

(* Such a step puts a handler at its beginning, or leaves it where it is.  *)
LEMMA QuietIs ==
  ASSUME Shape, NEW x \in Browsers, Quiet(x)
  PROVE  LET r == req[x]
             n == req'[x]
         IN \/ Now(n) = "done" /\ (n.kind \in {"login", "verify", "setup"} => n.status = "error")
            \/ Now(n) \in Starts /\ n.status = "open" /\ Now(n) = Start(n.kind, n.portal)
            \/ /\ Sent(r, n) /\ Now(n) = Now(r) /\ n.who = r.who /\ n.status = r.status
               /\ n.token = r.token /\ n.nonce = r.nonce /\ n.flag = r.flag
               /\ n.clean => r.clean
<1> DEFINE r == req[x]
           n == req'[x]
<1>1. r \in Request
  BY DEF Shape, TypeOK
<1>2. CASE n \in {r, [r EXCEPT !.clean = FALSE]}
  <2> HIDE DEF r
  <2>1. /\ Sent(r, n) /\ n.who = r.who /\ n.status = r.status /\ n.todo = r.todo
        /\ n.token = r.token /\ n.nonce = r.nonce /\ n.flag = r.flag /\ (n.clean => r.clean)
    BY <1>1, <1>2 DEF Request, Sent
  <2>2. Now(n) = Now(r)
    BY <2>1 DEF Now
  <2> QED BY <2>1, <2>2 DEF r
<1>3. CASE n = Refused(r, "error")
  BY <1>1, <1>3, Refusal DEF Errors
<1>4. CASE n.kind = "none" /\ Now(n) = "done"
  BY <1>4
<1>5. ASSUME NEW c, NEW t, n.kind # "none", Posed(emailOtp, c, n.portal, n.kind, t, n)
      PROVE  \/ Now(n) = "done" /\ (n.kind \in {"login", "verify", "setup"} => n.status = "error")
             \/ Now(n) \in Starts /\ n.status = "open" /\ Now(n) = Start(n.kind, n.portal)
  <2>1. /\ n.kind \in Kinds /\ n.status = IF n.kind = "logout" /\ n.who = NoOne THEN "ok" ELSE "open"
        /\ Now(n) = IF n.status = "ok" THEN "done" ELSE Start(n.kind, n.portal)
    BY <1>5 DEF Posed, Request
  <2> HIDE DEF n
  <2> QED BY <1>5, <2>1 DEF Start, Starts, Kinds
<1> QED BY <1>2, <1>3, <1>4, <1>5 DEF Quiet

(* Which step of a handler has led to where it stands.                     *)
LEMMA CameFrom ==
  ASSUME NEW b \in Browsers, NEW s \in Steps, NEW n, Handled(b, s, n)
  PROVE  /\ Now(n) = "SeedSet" => s = "SeedRead"
         /\ Now(n) = "Password" /\ n.portal = "admin" => s \in {"SeedRead", "SeedSet"}
         /\ Now(n) = "Commit" /\ n.kind = "setup" /\ n.who = Default => s = "Forget"
         /\ n.kind = req[b].kind /\ n.portal = req[b].portal /\ n.pwd = req[b].pwd
         /\ n.clean = req[b].clean
         /\ n.kind = "login" => n.who = req[b].who
<1> DEFINE r == req[b]
<1>1. /\ Sent(r, n) /\ Place(emailOtp, r.kind, r.portal, r.who, s) /\ n.clean = r.clean
      /\ \/ n.status \in Errors /\ Now(n) = "done" /\ n.who = r.who
         \/ /\ Now(n) \in After(emailOtp, r.kind, r.portal, r.who, s)
                          \cup (IF s = "SeedRead" THEN {"SeedSet"} ELSE {})
            /\ ~(s = "Commit" /\ r.kind = "setup") => n.who = r.who
  BY DEF Handled
<1> HIDE DEF r
<1>2. Now(n) = "SeedSet" => s = "SeedRead"
  BY <1>1 DEF After, Final, Steps
<1>3. Now(n) = "Password" => s \in {"SeedRead", "SeedSet"}
  BY <1>1 DEF After, Final, Steps
<1>4. Now(n) = "Commit" /\ n.kind = "setup" /\ n.who = Default => s = "Forget"
  BY <1>1 DEF After, Final, Steps, Place, Sent
<1>5. n.kind = "login" => s # "Commit"
  BY <1>1 DEF Place, Sent
<1> QED BY <1>1, <1>2, <1>3, <1>4, <1>5 DEF Sent, r

(* What the steps of the handlers do to what Redis and the tables say of   *)
(* the default administrator.                                              *)
LEMMA DefaultSteps ==
  ASSUME Shape, Shape', NEW b \in Browsers, NEW s \in Steps, Does(b, s)
  PROVE  /\ crossed => crossed'
         /\ s \notin {"SeedRead", "SeedSet", "Forget"} => info' = info
         /\ s = "SeedRead" /\ Admins(accounts) = {}
              => info' = info /\ (Now(req'[b]) = "SeedSet" \/ info # 0)
         /\ s = "SeedRead" /\ Admins(accounts) # {} => info' = 0 /\ Now(req'[b]) # "SeedSet"
         /\ s = "SeedSet" => /\ info' # 0
                             /\ crossed' = (crossed \/ \E x \in Browsers : req[x].kind = "setup")
         /\ s = "Forget" => info' = 0 /\ \A x \in Browsers \ {b} :
                              req[x].portal = "admin" /\ req[x].who = Default => ~req'[x].clean
         /\ Admins(accounts) # {} => Admins(accounts') # {}
         /\ \/ Admins(accounts') = Admins(accounts)
            \/ /\ s = "Commit" /\ req[b].kind = "setup" /\ req[b].who = Default
               /\ crossed' = (crossed \/ \E x \in Browsers : At(x, "SeedSet"))
<1> DEFINE r == req[b]
<1>0. TypeOK /\ r \in Request /\ nonces \in Nat
  BY DEF Shape, TypeOK
<1>1. CASE s \notin {"SeedRead", "SeedSet", "Forget", "Commit"} \/ (s = "Commit" /\ CommitNothing(b))
  <2>1. accounts' = accounts /\ info' = info /\ crossed' = crossed
    BY <1>1 DEF Does, CheckSession, CheckRow, CheckPassword, MailCode, CheckCode, ReadAccount,
       InsertSuccessor, CommitNothing, StoreSession, DropCode, DropDefault, DropSession, KeepSession,
       stores, Steps
  <2> QED BY <1>1, <2>1, SMTT(60)
<1>2. CASE s = "SeedRead"
  <2>1. SeedRead(b)
    BY <1>2 DEF Does
  <2>2. accounts' = accounts /\ crossed' = crossed
    BY <2>1 DEF SeedRead
  <2>3. CASE Admins(accounts) # {}
    <3>1. info' = 0 /\ Ending(b, Past(r), "admin", Default)
      BY <2>1, <2>3 DEF SeedRead
    <3>2. req'[b] = Past(r)
      BY <3>1, Becomes DEF Portals
    <3>3. Now(Past(r)) # "SeedSet"
      <4>1. At(b, "SeedRead") /\ "SeedRead" \in Steps
        BY <2>1 DEF SeedRead, Steps
      <4>2. Advances(emailOtp, r, Past(r), "SeedRead")
        BY <4>1, Continue
      <4> QED BY <4>2 DEF Advances, After
    <3> QED BY <1>2, <2>2, <2>3, <3>1, <3>2, <3>3
  <2>4. CASE Admins(accounts) = {}
    <3>1. info' = info
      BY <2>1, <2>4 DEF SeedRead
    <3>2. CASE info = 0
      <4> DEFINE n == [r EXCEPT !.todo = <<"SeedSet">> \o Tail(@)]
      <4>1. Proceed(b, n)
        BY <2>1, <2>4, <3>2 DEF SeedRead, MissingInfo
      <4>2. req'[b] = n
        BY <4>1, Becomes
      <4>3. r.status = "open" /\ r.todo \in Seq(Steps) /\ r.todo # <<>> /\ Head(r.todo) = "SeedRead"
            /\ Script(emailOtp, r.kind, r.portal, r.who, r.todo)
        BY <1>0, <2>1 DEF SeedRead, At, Request, Shape, Knows, Underway
      <4>4. LET z == <<"SeedSet">> \o Tail(r.todo) IN z # <<>> /\ Head(z) = "SeedSet"
        <5>1. emailOtp \in BOOLEAN /\ r.kind \in Kinds /\ r.portal \in Portals
          BY <1>0 DEF TypeOK, Request
        <5> HIDE DEF r
        <5> QED BY <4>3, <5>1, Seeding, Z3
      <4>5. n.status = "open" /\ n.todo = <<"SeedSet">> \o Tail(r.todo)
        BY <1>0, <4>3 DEF Request
      <4>6. Now(n) = "SeedSet"
        BY <4>4, <4>5 DEF Now
      <4>7. Now(req'[b]) = "SeedSet"
        BY <4>2, <4>6
      <4> HIDE DEF n
      <4> QED BY <1>2, <2>2, <2>4, <3>1, <4>7
    <3> QED BY <1>2, <2>2, <2>4, <3>1, <3>2
  <2> QED BY <2>3, <2>4
<1>3. CASE s = "SeedSet"
  <2>1. /\ info' = nonces + 1 /\ accounts' = accounts
        /\ crossed' = (crossed \/ \E x \in Browsers : req[x].kind = "setup")
    BY <1>3 DEF Does, SeedSet
  <2>2. info' # 0
    BY <1>0, <2>1
  <2> QED BY <1>3, <2>1, <2>2
<1>4. CASE s = "Forget"
  <2>1. /\ info' = 0 /\ accounts' = accounts /\ crossed' = crossed
        /\ Ending(b, Past(r), "admin", Default)
    BY <1>4 DEF Does, ForgetDefault
  <2>2. Past(r) \in Request /\ "admin" \in Portals
    BY <2>1, Becomes DEF Portals
  <2>3. \A x \in Browsers \ {b} : req[x].portal = "admin" /\ req[x].who = Default => ~req'[x].clean
    BY <1>0, <2>1, <2>2, EndingTurns
  <2> QED BY <1>4, <2>1, <2>3
<1>5. CASE s = "Commit" /\ CommitPassword(b)
  <2>1. info' = info /\ crossed' = crossed
    BY <1>5 DEF CommitPassword
  <2>2. \A x \in People : accounts'.adm[x] = accounts.adm[x]
    BY <1>5, CommitPasswordShape
  <2> QED BY <1>5, <2>1, <2>2 DEF Admins
<1>6. CASE s = "Commit" /\ CommitPortal(b)
  <2>1. info' = info /\ crossed' = crossed
    BY <1>6 DEF CommitPortal
  <2>2. \A x \in People : accounts'.adm[x] = NoOne <=> accounts.adm[x] = NoOne
    BY <1>6, CommitPortalShape
  <2> QED BY <1>6, <2>1, <2>2 DEF Admins
<1>7. CASE s = "Commit" /\ CommitSetup(b)
  <2>1. /\ info' = info /\ crossed' = (crossed \/ \E x \in Browsers : At(x, "SeedSet"))
        /\ r.kind = "setup"
    BY <1>7 DEF CommitSetup
  <2>2. CASE r.who = Default
    <3>1. r.ticket \in People /\ accounts'.adm[r.ticket] # NoOne
      BY <1>7, <2>2, CommitSetupWrites
    <3> QED BY <1>7, <2>1, <2>2, <3>1 DEF Admins
  <2>3. CASE r.who # Default
    <3>1. /\ r.who \in People /\ accounts.adm[r.who] # NoOne /\ accounts'.adm[r.who] # NoOne
          /\ \A x \in People \ {r.who} : accounts'.adm[x] = accounts.adm[x]
      BY <1>7, <2>3, CommitSetupWrites
    <3>2. Admins(accounts') = Admins(accounts)
      BY <3>1 DEF Admins
    <3> QED BY <1>7, <2>1, <3>2
  <2> QED BY <2>2, <2>3
<1> QED BY <1>1, <1>2, <1>3, <1>4, <1>5, <1>6, <1>7 DEF Does

(* While no seeding and set-up have crossed: with an administrator, the    *)
(* default one is gone and nobody is about to seed it; and it is gone when *)
(* its successor is about to be stored.                                    *)
Retired ==
  ~crossed =>
    /\ Admins(accounts) # {} => info = 0 /\ \A x \in Browsers : Now(req[x]) # "SeedSet"
    /\ \A x \in Browsers :
         Now(req[x]) = "Commit" /\ req[x].kind = "setup" /\ req[x].who = Default => info = 0

LEMMA RetiredStep ==
  ASSUME Shape, Shape', Retired, [Next]_vars
  PROVE  Retired'
<1> SUFFICES ASSUME ~crossed'
             PROVE  /\ Admins(accounts') # {} => info' = 0 /\ \A x \in Browsers : Now(req'[x]) # "SeedSet"
                    /\ \A x \in Browsers :
                         Now(req'[x]) = "Commit" /\ req'[x].kind = "setup" /\ req'[x].who = Default
                           => info' = 0
  BY DEF Retired
<1>1. CASE ~ \E b \in Browsers, s \in Steps : Does(b, s)
  <2>1. /\ Admins(accounts') # {} => Admins(accounts) # {}
        /\ info' = info /\ crossed' = crossed /\ \A x \in Browsers : Quiet(x)
    BY <1>1, QuietSteps
  <2>2. ASSUME NEW x \in Browsers
        PROVE  /\ Now(req'[x]) = "SeedSet" => Now(req[x]) = "SeedSet"
               /\ Now(req'[x]) = "Commit" /\ req'[x].kind = "setup" /\ req'[x].who = Default =>
                    Now(req[x]) = "Commit" /\ req[x].kind = "setup" /\ req[x].who = Default
    BY <2>1, QuietIs DEF Starts, Sent
  <2> QED BY <2>1, <2>2 DEF Retired
<1>2. ASSUME NEW b \in Browsers, NEW s \in Steps, Does(b, s)
      PROVE  /\ Admins(accounts') # {} => info' = 0 /\ \A x \in Browsers : Now(req'[x]) # "SeedSet"
             /\ \A x \in Browsers :
                  Now(req'[x]) = "Commit" /\ req'[x].kind = "setup" /\ req'[x].who = Default
                    => info' = 0
  <2>1. Handled(b, s, req'[b])
    BY <1>2, HandlerSteps
  <2>2. /\ Now(req[b]) = s /\ Turn(b, req'[b])
        /\ Now(req'[b]) = "SeedSet" => s = "SeedRead"
        /\ Now(req'[b]) = "Commit" /\ req'[b].kind = "setup" /\ req'[b].who = Default => s = "Forget"
    BY <2>1, CameFrom DEF Handled
  <2>3. ASSUME NEW x \in Browsers \ {b}
        PROVE  Now(req'[x]) = Now(req[x]) /\ req'[x].kind = req[x].kind /\ req'[x].who = req[x].who
    <3>1. req[x] \in Request /\ req'[x] \in {req[x], [req[x] EXCEPT !.clean = FALSE]}
      BY <2>2 DEF Turn, Shape, TypeOK
    <3> QED BY <3>1 DEF Request, Now
  <2>4. ~crossed /\ \A x \in Browsers : Now(req[x]) = "SeedSet" <=> At(x, "SeedSet")
    BY <1>2, DefaultSteps DEF Now, At
  <2>5. /\ Admins(accounts) # {} => info = 0 /\ \A x \in Browsers : Now(req[x]) # "SeedSet"
        /\ \A x \in Browsers :
             Now(req[x]) = "Commit" /\ req[x].kind = "setup" /\ req[x].who = Default => info = 0
    BY <2>4 DEF Retired
  <2>6. CASE s = "SeedRead"
    <3>1. /\ Admins(accounts') = Admins(accounts)
          /\ Admins(accounts) = {} => info' = info
          /\ Admins(accounts) # {} => info' = 0 /\ Now(req'[b]) # "SeedSet"
      BY <1>2, <2>6, DefaultSteps
    <3> QED BY <2>2, <2>3, <2>5, <2>6, <3>1
  <2>7. CASE s = "SeedSet"
    <3>1. /\ Admins(accounts') = Admins(accounts) /\ \A x \in Browsers : req[x].kind # "setup"
      BY <1>2, <2>4, <2>7, DefaultSteps
    <3>2. Admins(accounts) = {}
      BY <2>2, <2>5, <2>7
    <3> QED BY <2>2, <2>3, <2>7, <3>1, <3>2
  <2>8. CASE s = "Forget"
    <3>1. info' = 0
      BY <1>2, <2>8, DefaultSteps
    <3>2. Admins(accounts') = Admins(accounts)
      BY <1>2, <2>8, DefaultSteps
    <3> QED BY <2>2, <2>3, <2>5, <2>8, <3>1, <3>2
  <2>9. CASE s \notin {"SeedRead", "SeedSet", "Forget"}
    <3>1. info' = info
      BY <1>2, <2>9, DefaultSteps
    <3>2. CASE Admins(accounts') = Admins(accounts)
      BY <2>2, <2>3, <2>5, <2>9, <3>1, <3>2
    <3>3. CASE /\ s = "Commit" /\ req[b].kind = "setup" /\ req[b].who = Default
               /\ crossed' = (crossed \/ \E x \in Browsers : At(x, "SeedSet"))
      BY <2>2, <2>3, <2>4, <2>5, <3>1, <3>3
    <3> QED BY <1>2, <3>2, <3>3, DefaultSteps
  <2> QED BY <2>6, <2>7, <2>8, <2>9
<1> QED BY <1>1, <1>2

LEMMA RetiredInit == Init => Retired
<1> SUFFICES ASSUME Init
             PROVE  Retired
  OBVIOUS
<1>1. Admins(accounts) # {} => info = 0
  BY DEF Init
<1>2. ASSUME NEW x \in Browsers
      PROVE  Now(req[x]) \in {"Session", "done"}
  <2>1. req[x] = Ask(cookie[x], "employee", "me", NoOne) /\ cookie[x].employee = NoOne
    BY OpenedPage DEF Init, Mount, PortalOf, AdminSide
  <2>2. /\ cookie[x] \in [employee : Token \cup {NoOne}, admin : Token \cup {NoOne}, lag : BOOLEAN]
        /\ emailOtp \in BOOLEAN
    BY ShapeInit DEF Shape, TypeOK
  <2>3. "employee" \in Portals /\ "me" \in Kinds \ {"none"} /\ NoOne \in Tickets \cup {NoOne}
    BY DEF Portals, Kinds
  <2>4. Posed(emailOtp, cookie[x], "employee", "me", NoOne, Ask(cookie[x], "employee", "me", NoOne))
    BY <2>2, <2>3, Asked
  <2> QED BY <2>1, <2>4 DEF Posed, Start
<1> QED BY <1>1, <1>2 DEF Retired

(* Once there is an administrator no token of the default one is accepted, *)
(* whatever sign-ins and set-ups have been interleaved, unless a seeding   *)
(* and a set-up crossed: then DropDefault is what has to undo it.          *)
THEOREM NoDefaultLeft == Spec => []DefaultRetired
<1>1. Init => Shape /\ Retired
  BY ShapeInit, RetiredInit
<1>2. Shape /\ Retired /\ [Next]_vars => (Shape /\ Retired)'
  BY ShapeStep, RetiredStep
<1>3. Shape /\ Retired => DefaultRetired
  <2> SUFFICES ASSUME Shape, Retired, Admins(accounts) # {}, ~crossed
               PROVE  ~Accepted("admin", Default)
    BY DEF DefaultRetired
  <2>1. info = 0
    BY DEF Retired
  <2>2. session["admin"][Default] \in Token \cup {NoOne}
    BY DEF Shape, TypeOK, Portals, Tickets
  <2>3. session["admin"][Default] # NoOne => session["admin"][Default].nonce # 0
    BY <2>2, BoundsAssumption DEF Token
  <2> QED BY <2>1, <2>3 DEF Accepted
<1> QED BY <1>1, <1>2, <1>3, PTL DEF Spec

(* A sign-in of the default administrator that nobody has come between     *)
(* finds it, or an administrator, and is refused only for an administrator *)
(* or a wrong password.                                                    *)
Seeded(r) ==
  /\ r.kind = "login" /\ r.portal = "admin" /\ r.who = Default /\ r.clean =>
       /\ Now(r) = "Password" => Admins(accounts) # {} \/ info # 0
       /\ r.status \in {"401", "403"} /\ r.pwd = DefaultPassword => Admins(accounts) # {}
  /\ r.kind = "verify" => r.status \notin {"401", "403"}

GetsIn == \A x \in Browsers : Seeded(req[x]) /\ (page[x].refused => Admins(accounts) # {})

(* Why the password of the default administrator is refused.               *)
LEMMA DefaultRefused ==
  ASSUME Shape, Shape', NEW b \in Browsers, CheckPassword(b), Seeded(req[b]),
         req[b].portal = "admin", req[b].who = Default, req[b].clean,
         req'[b].status \in {"401", "403"}, req[b].pwd = DefaultPassword
  PROVE  Admins(accounts) # {}
<1> DEFINE r == req[b]
<1> SUFFICES ASSUME Admins(accounts) = {}
             PROVE  FALSE
  OBVIOUS
<1>1. r \in Request /\ At(b, "Password") /\ "Password" \in Steps
  BY DEF Shape, TypeOK, CheckPassword, Steps
<1>2. Now(r) = "Password" /\ r.kind = "login" /\ Past(r) \in Request /\ Past(r).status \in {"open", "ok"}
  <2>1. Now(r) = "Password" /\ Past(r) \in Request /\ Advances(emailOtp, r, Past(r), "Password")
    BY <1>1, Continue
  <2> HIDE DEF r
  <2> QED BY <2>1 DEF Advances, Place
<1>3. info # 0
  BY <1>2 DEF Seeded
<1>4. Proceed(b, [Past(r) EXCEPT !.nonce = info, !.flag = TRUE])
  BY <1>3 DEF CheckPassword
<1>5. req'[b] = [Past(r) EXCEPT !.nonce = info, !.flag = TRUE]
  BY <1>4, Becomes
<1>6. req'[b].status = Past(r).status
  BY <1>2, <1>5 DEF Request
<1> QED BY <1>2, <1>6

LEMMA GetsInStep ==
  ASSUME Shape, Shape', GetsIn, [Next]_vars
  PROVE  GetsIn'
<1>1. Admins(accounts) # {} => Admins(accounts') # {}
  <2>1. CASE \E b \in Browsers, s \in Steps : Does(b, s)
    BY <2>1, DefaultSteps
  <2> QED BY <2>1, QuietSteps
<1>2. \A x \in Browsers : req[x] \in Request
  BY DEF Shape, TypeOK
<1>3. ASSUME NEW x \in Browsers
      PROVE  Seeded(req[x])'
  <2> DEFINE n == req'[x]
             r == req[x]
  <2> SUFFICES /\ n.kind = "login" /\ n.portal = "admin" /\ n.who = Default /\ n.clean =>
                    /\ Now(n) = "Password" => Admins(accounts') # {} \/ info' # 0
                    /\ n.status \in {"401", "403"} /\ n.pwd = DefaultPassword => Admins(accounts') # {}
               /\ n.kind = "verify" => n.status \notin {"401", "403"}
    BY DEF Seeded
  <2>1. r.kind = "login" /\ r.portal = "admin" /\ r.who = Default /\ r.clean =>
          /\ Now(r) = "Password" => Admins(accounts) # {} \/ info # 0
          /\ r.status \in {"401", "403"} /\ r.pwd = DefaultPassword => Admins(accounts) # {}
    BY DEF GetsIn, Seeded
  <2>2. r.kind = "verify" => r.status \notin {"401", "403"}
    BY DEF GetsIn, Seeded
  <2>3. CASE ~ \E b \in Browsers, s \in Steps : Does(b, s)
    <3>1. info' = info /\ Quiet(x)
      BY <2>3, QuietSteps
    <3>2. \/ Now(n) = "done" /\ (n.kind \in {"login", "verify"} => n.status = "error")
          \/ n.status = "open" /\ Now(n) = Start(n.kind, n.portal)
          \/ /\ Sent(r, n) /\ Now(n) = Now(r) /\ n.who = r.who /\ n.status = r.status
             /\ n.clean => r.clean
      BY <3>1, QuietIs
    <3> HIDE DEF n, r
    <3> QED BY <1>1, <2>1, <2>2, <3>1, <3>2 DEF Start, Sent
  <2>4. ASSUME NEW b \in Browsers, NEW s \in Steps, Does(b, s), x # b
        PROVE  /\ n.kind = "login" /\ n.portal = "admin" /\ n.who = Default /\ n.clean =>
                    /\ Now(n) = "Password" => Admins(accounts') # {} \/ info' # 0
                    /\ n.status \in {"401", "403"} /\ n.pwd = DefaultPassword => Admins(accounts') # {}
               /\ n.kind = "verify" => n.status \notin {"401", "403"}
    <3>1. Handled(b, s, req'[b])
      BY <2>4, HandlerSteps
    <3>2. n \in {r, [r EXCEPT !.clean = FALSE]}
      BY <2>4, <3>1 DEF Handled, Turn
    <3>3. /\ n.kind = r.kind /\ n.portal = r.portal /\ n.who = r.who /\ n.pwd = r.pwd
          /\ n.status = r.status /\ Now(n) = Now(r) /\ (n.clean => r.clean)
      BY <1>2, <3>2 DEF Request, Now
    <3>4. CASE s = "Forget"
      <4>1. r.portal = "admin" /\ r.who = Default => ~n.clean
        BY <2>4, <3>4, DefaultSteps
      <4> HIDE DEF n, r
      <4> QED BY <2>1, <2>2, <3>3, <4>1
    <3>5. CASE s # "Forget"
      <4>1. Admins(accounts) # {} \/ info # 0 => Admins(accounts') # {} \/ info' # 0
        BY <1>1, <2>4, <3>5, DefaultSteps
      <4> HIDE DEF n, r
      <4> QED BY <1>1, <2>1, <2>2, <3>3, <4>1
    <3> QED BY <3>4, <3>5
  <2>5. ASSUME NEW s \in Steps, Does(x, s)
        PROVE  /\ n.kind = "login" /\ n.portal = "admin" /\ n.who = Default /\ n.clean =>
                    /\ Now(n) = "Password" => Admins(accounts') # {} \/ info' # 0
                    /\ n.status \in {"401", "403"} /\ n.pwd = DefaultPassword => Admins(accounts') # {}
               /\ n.kind = "verify" => n.status \notin {"401", "403"}
    <3>1. Handled(x, s, n)
      BY <2>5, HandlerSteps
    <3>2. /\ n.kind = r.kind /\ n.portal = r.portal /\ n.pwd = r.pwd /\ n.clean = r.clean
          /\ n.kind = "login" => n.who = r.who
          /\ Now(n) = "Password" /\ n.portal = "admin" => s \in {"SeedRead", "SeedSet"}
      BY <3>1, CameFrom
    <3>3. Now(n) = "Password" /\ n.portal = "admin" => Admins(accounts') # {} \/ info' # 0
      <4>1. CASE s = "SeedRead"
        BY <1>1, <2>5, <4>1, DefaultSteps
      <4>2. CASE s = "SeedSet"
        BY <2>5, <4>2, DefaultSteps
      <4> HIDE DEF n
      <4> QED BY <3>2, <4>1, <4>2
    <3>4. n.status \in {"401", "403"} /\ n.kind \in {"login", "verify"} =>
             \/ r.kind = "verify" /\ s \in {"Code", "Account"}
             \/ r.kind = "login" /\ (s = "Password" \/ r.who # Default)
      <4>1. /\ Place(emailOtp, r.kind, r.portal, r.who, s)
            /\ n.status \in {"ok", "open"} \/ s \in Gates
        BY <3>1 DEF Handled
      <4> HIDE DEF n, r
      <4> QED BY <3>2, <4>1 DEF Place, Gates
    <3>5. s \in {"Code", "Account"} => n.status \notin {"401", "403"}
      <4>1. CASE s \in {"Code", "Account"}
        <5>1. Proceed(x, Refused(r, "400")) \/ \E m : Proceed(x, m) /\ m.status = Past(r).status
          <6>1. CASE s = "Code"
            BY <2>5, <6>1 DEF Does, CheckCode
          <6>2. CASE s = "Account"
            <7>1. \/ Proceed(x, Refused(r, "400"))
                  \/ \E f, z : Proceed(x, [Past(r) EXCEPT !.nonce = z, !.flag = f])
              BY <2>5, <6>2 DEF Does, ReadAccount
            <7>2. ASSUME NEW f, NEW z
                  PROVE  [Past(r) EXCEPT !.nonce = z, !.flag = f].status = Past(r).status
              BY <1>2 DEF Past, Request
            <7> QED BY <7>1, <7>2, ZenonT(60)
          <6> QED BY <4>1, <6>1, <6>2
        <5>2. /\ Refused(r, "400").status = "400" /\ Past(r).status \in {"ok", "open"}
          BY <1>2 DEF Refused, Past, Request
        <5> QED BY <5>1, <5>2, Becomes
      <4> QED BY <4>1
    <3>6. n.kind = "login" /\ n.portal = "admin" /\ n.who = Default /\ n.clean
            /\ n.status \in {"401", "403"} /\ n.pwd = DefaultPassword => Admins(accounts') # {}
      <4> SUFFICES ASSUME n.kind = "login", n.portal = "admin", n.who = Default, n.clean,
                          n.status \in {"401", "403"}, n.pwd = DefaultPassword
                   PROVE  Admins(accounts') # {}
        OBVIOUS
      <4>1. s = "Password" /\ r.portal = "admin" /\ r.who = Default /\ r.clean /\ r.pwd = DefaultPassword
        BY <3>2, <3>4
      <4>2. CheckPassword(x)
        BY <2>5, <4>1 DEF Does
      <4>3. Seeded(r)
        BY DEF GetsIn
      <4> QED BY <1>1, <4>1, <4>2, <4>3, DefaultRefused
    <3> HIDE DEF n, r
    <3> QED BY <3>2, <3>3, <3>4, <3>5, <3>6
  <2> HIDE DEF n
  <2> QED BY <2>3, <2>4, <2>5
<1>4. ASSUME NEW x \in Browsers, page'[x].refused
      PROVE  Admins(accounts') # {}
  <2>0. page[x].refused => Admins(accounts) # {}
    BY DEF GetsIn
  <2>1. CASE \E b \in Browsers : \E p, n : Idle(b) /\ Show(b, p, n) /\ Poses(b, p, n)
    <3>1. PICK b \in Browsers : \E p, n : Show(b, p, n) /\ Poses(b, p, n)
      BY <2>1
    <3>2. PICK p, n : Show(b, p, n) /\ Poses(b, p, n)
      BY <3>1
    <3>3. page'[x] = (IF x = b THEN p ELSE page[x]) /\ (p.refused => page[b].refused)
      BY <3>2 DEF Show, Poses, Shape, TypeOK
    <3> QED BY <1>1, <1>4, <2>0, <3>3
  <2>2. CASE \E b \in Browsers, s \in Steps : Does(b, s)
    <3>1. page' = page
      BY <2>2, HandlerSteps DEF Handled
    <3> QED BY <1>1, <1>4, <2>0, <3>1
  <2>3. ASSUME NEW b \in Browsers, Answer(b)
        PROVE  Admins(accounts') # {}
    <3> DEFINE p == AnsweredPage(b)
    <3>1. page' = [page EXCEPT ![b] = p]
      BY <2>3, AnswerIs
    <3>2. p.refused => \/ page[b].refused
                       \/ /\ req[b].kind = "login" \/ req[b].kind = "verify"
                          /\ req[b].status \in {"401", "403"} /\ req[b].clean /\ req[b].portal = "admin"
                          /\ req[b].who = Default /\ req[b].pwd = DefaultPassword
      BY <2>3, AnsweredPageIs
    <3> HIDE DEF p
    <3>3. page'[x] = (IF x = b THEN p ELSE page[x])
      BY <3>1 DEF Shape, TypeOK
    <3>4. Seeded(req[b])
      BY DEF GetsIn
    <3> QED BY <1>1, <1>4, <2>0, <3>2, <3>3, <3>4 DEF Seeded
  <2>4. CASE FaultStep \/ Replicate
    BY <1>1, <1>4, <2>0, <2>4, FaultsAre
  <2>5. CASE UNCHANGED vars
    BY <1>1, <1>4, <2>0, <2>5 DEF vars
  <2>6. CASE \E p \in People, Q \in SUBSET Portals : Managed(Q, p)
    BY <1>1, <1>4, <2>0, <2>6 DEF Managed
  <2> QED BY <2>1, <2>2, <2>3, <2>4, <2>5, <2>6, StepsAre
<1> QED BY <1>3, <1>4 DEF GetsIn

LEMMA GetsInInit == Init => GetsIn
<1> SUFFICES ASSUME Init, NEW x \in Browsers
             PROVE  Seeded(req[x]) /\ ~page[x].refused
  BY DEF GetsIn
<1>1. ~page[x].refused
  BY OpenedPage DEF Init
<1>2. req[x] = Ask(cookie[x], "employee", "me", NoOne)
  BY OpenedPage DEF Init, Mount, PortalOf, AdminSide
<1>3. req[x].kind = "me"
  BY <1>2 DEF Ask, NoRequest
<1> QED BY <1>1, <1>3 DEF Seeded

(* As long as there is no administrator the default one gets in with its   *)
(* password: whoever is refused was refused because of an administrator.   *)
THEOREM DefaultEnters == Spec => []DefaultGetsIn
<1>1. Init => Shape /\ GetsIn
  BY ShapeInit, GetsInInit
<1>2. Shape /\ GetsIn /\ [Next]_vars => (Shape /\ GetsIn)'
  BY ShapeStep, GetsInStep
<1>3. GetsIn => DefaultGetsIn
  BY DEF GetsIn, DefaultGetsIn
<1> QED BY <1>1, <1>2, <1>3, PTL DEF Spec

-----------------------------------------------------------------------------
(* Staying signed in.                                                      *)

(* Those who can have a session in portal q.                               *)
Holder(q, t) == q \in Portals /\ t \in Tickets /\ (q = "employee" => t \in People)

(* With the tables acc and the nonce inf in Redis a token of t with the     *)
(* nonce n is accepted.                                                    *)
Valid(acc, inf, q, t, n) ==
  IF t = Default THEN inf = n
  ELSE IF q = "admin" THEN acc.adm[t] # NoOne /\ acc.adm[t].nonce = n
  ELSE acc.emp[t] # NoOne /\ acc.emp[t].nonce = n

(* A step leaves the session of t in portal q as it is, and accepted ...   *)
Same(q, t) == /\ session'[q][t] = session[q][t]
              /\ \A n : Valid(accounts, info, q, t, n) => Valid(accounts', info', q, t, n)

(* ... or nobody is signed in as t any more, and whoever but browser b is  *)
(* signing in as t knows that it has been overtaken.                       *)
Ended(b, q, t) ==
  /\ \A x \in Browsers : signedIn'[x][q] /\ cookie[x][q] # NoOne => cookie[x][q].who # t
  /\ \A x \in Browsers \ {b} : req[x].portal = q /\ req[x].who = t => ~req'[x].clean

(* A default administrator is about to store its successor, and holds the  *)
(* key of the new row.                                                     *)
Migrating(r) == r.kind = "setup" /\ r.who = Default /\ Now(r) \in {"Forget", "Commit"}

Moves ==
  /\ \A x \in Browsers : Migrating(req[x]) => accounts.adm[req[x].ticket] = NoOne
  /\ \A x, y \in Browsers : Migrating(req[x]) /\ Migrating(req[y]) /\ x # y
                              => req[x].ticket # req[y].ticket

LEMMA EndingEnds ==
  ASSUME Shape, Shape', NEW b \in Browsers, NEW n, NEW q \in Portals, NEW t, Ending(b, n, q, t)
  PROVE  /\ Ended(b, q, t)
         /\ \A x \in Browsers, p \in Portals : signedIn'[x][p] => signedIn[x][p]
<1>1. n \in Request
  BY Becomes
<1>2. TypeOK
  BY DEF Shape
<1> QED BY <1>1, <1>2, EndingTurns DEF Ended

LEMMA SetupEnds ==
  ASSUME Shape, Shape', Moves, NEW b \in Browsers, CommitSetup(b)
  PROVE  /\ \A q, t : Holder(q, t) => Same(q, t) \/ Ended(b, q, t)
         /\ \A x \in Browsers, q \in Portals : signedIn'[x][q] => signedIn[x][q]
<1> DEFINE r == req[b]
           p == IF r.who = Default THEN r.ticket ELSE r.who
<1>1. /\ info' = info /\ session' = session
      /\ Now(r) = "Commit" /\ r.kind = "setup"
  BY DEF CommitSetup, At, Now
<1>2. /\ p \in People /\ accounts.emp[p] # NoOne => accounts'.emp[p] = accounts.emp[p]
      /\ \A x \in People \ {p} : /\ accounts'.emp[x] = accounts.emp[x]
                                 /\ accounts'.adm[x] = accounts.adm[x]
  BY CommitSetupWrites
<1>3. p \in People
  BY CommitSetupWrites
<1>4. \A q, t : Holder(q, t) /\ ~(q = "admin" /\ t = p) => Same(q, t)
  <2> HIDE DEF p
  <2>1. ASSUME NEW q, NEW t, Holder(q, t), ~(q = "admin" /\ t = p)
        PROVE  Same(q, t)
    <3>1. CASE t = Default
      BY <1>1, <3>1 DEF Same, Valid
    <3>2. CASE t # Default /\ q = "admin"
      BY <1>1, <1>2, <2>1, <3>2 DEF Same, Valid, Holder, Tickets
    <3>3. CASE t # Default /\ q = "employee"
      <4>1. t \in People /\ (accounts.emp[t] # NoOne => accounts'.emp[t] = accounts.emp[t])
        BY <1>2, <1>3, <2>1, <3>3 DEF Holder
      <4> QED BY <1>1, <3>3, <4>1 DEF Same, Valid
    <3> QED BY <2>1, <3>1, <3>2, <3>3 DEF Holder, Portals
  <2> QED BY <2>1
<1>5. CASE r.who = Default
  <2>1. p = r.ticket /\ accounts.adm[p] = NoOne
    BY <1>1, <1>5 DEF Moves, Migrating
  <2>2. p # Default
    BY <1>3, DefaultAssumption
  <2> HIDE DEF p, r
  <2>3. Same("admin", p)
    BY <1>1, <2>1, <2>2 DEF Same, Valid
  <2>4. signedIn' = signedIn
    BY <1>5 DEF CommitSetup, Proceed, r
  <2> QED BY <1>4, <2>3, <2>4
<1>6. CASE r.who # Default
  <2>1. \E n : Ending(b, n, "admin", r.who)
    BY <1>6 DEF CommitSetup
  <2>2. "admin" \in Portals
    BY DEF Portals
  <2>3. /\ Ended(b, "admin", r.who)
        /\ \A x \in Browsers, q \in Portals : signedIn'[x][q] => signedIn[x][q]
    BY <2>1, <2>2, EndingEnds
  <2>4. p = r.who
    BY <1>6
  <2> HIDE DEF p, r
  <2> QED BY <1>4, <2>3, <2>4
<1> QED BY <1>5, <1>6

(* No step of a handler ends a session that it does not mean to end.       *)
LEMMA StepsEnd ==
  ASSUME Shape, Shape', Moves, NEW b \in Browsers, NEW s \in Steps, Does(b, s)
  PROVE  /\ \A q, t : Holder(q, t) => Same(q, t) \/ Ended(b, q, t)
         /\ \A x \in Browsers, q \in Portals : signedIn'[x][q] => signedIn[x][q]
<1> DEFINE r == req[b]
           Ends(q, t) == /\ Ended(b, q, t)
                         /\ \A x \in Browsers, p \in Portals : signedIn'[x][p] => signedIn[x][p]
<1>0. /\ r \in Request /\ r.portal \in Portals /\ "admin" \in Portals /\ "employee" \in Portals
      /\ session \in [Portals -> [Tickets -> Token \cup {NoOne}]]
  BY DEF Shape, TypeOK, Request, Portals
<1>1. CASE \/ s \in {"Session", "Row", "Password", "Mail", "Code", "Account", "Insert", "DropCode"}
           \/ s = "Commit" /\ CommitNothing(b)
           \/ s = "DropSession" /\ KeepSession(b)
  <2>1. /\ accounts' = accounts /\ info' = info /\ session' = session /\ signedIn' = signedIn
    <3>1. CASE s = "Password"
      <4>1. r.portal \in {"employee", "admin"}
        BY <1>0, SMTT(60) DEF Portals
      <4>2. accounts' = accounts /\ info' = info /\ session' = session /\ CheckPassword(b)
        BY <3>1 DEF Does, CheckPassword, stores
      <4>3. \E n : Proceed(b, n)
        BY <4>1, <4>2 DEF CheckPassword
      <4> QED BY <4>2, <4>3 DEF Proceed
    <3>2. CASE s # "Password"
      BY <1>1, <3>2 DEF Does, CheckSession, CheckRow, MailCode, CheckCode, ReadAccount,
         InsertSuccessor, DropCode, CommitNothing, KeepSession, Proceed, stores
    <3> QED BY <3>1, <3>2
  <2> QED BY <2>1 DEF Same, Valid
<1>2. CASE s = "SeedRead" \/ s = "SeedSet" \/ s = "Forget"
  <2>1. /\ accounts' = accounts /\ session' = session
        /\ \/ info' = info /\ signedIn' = signedIn
           \/ \E n : Ending(b, n, "admin", Default)
    BY <1>2 DEF Does, SeedRead, SeedSet, ForgetDefault, Proceed
  <2>2. CASE info' = info /\ signedIn' = signedIn
    BY <2>1, <2>2 DEF Same, Valid
  <2>3. CASE \E n : Ending(b, n, "admin", Default)
    <3>1. Ends("admin", Default)
      BY <1>0, <2>3, EndingEnds
    <3>2. \A q, t : Holder(q, t) /\ ~(q = "admin" /\ t = Default) => Same(q, t)
      BY <2>1, DefaultAssumption DEF Holder, Portals, Same, Valid
    <3> QED BY <3>1, <3>2
  <2> QED BY <2>1, <2>2, <2>3
<1>3. CASE s \in {"Store", "DropDefault"} \/ (s = "DropSession" /\ DropSession(b))
  <2>1. /\ accounts' = accounts /\ info' = info
        /\ \E q \in Portals : \E t : /\ \E v : session' = [session EXCEPT ![q][t] = v]
                                 /\ \E n : Ending(b, n, q, t)
    <3>1. CASE s = "Store"
      BY <1>0, <1>3, <3>1 DEF Does, StoreSession
    <3>2. CASE s = "DropDefault"
      BY <1>0, <1>3, <3>2 DEF Does, DropDefault
    <3>3. CASE s = "DropSession"
      BY <1>0, <1>3, <3>3 DEF Does, DropSession
    <3> QED BY <1>3, <3>1, <3>2, <3>3
  <2>a. PICK q \in Portals : \E t : /\ \E v : session' = [session EXCEPT ![q][t] = v]
                                    /\ \E n : Ending(b, n, q, t)
    BY <2>1
  <2>2. PICK t : /\ \E v : session' = [session EXCEPT ![q][t] = v]
                 /\ \E n : Ending(b, n, q, t)
    BY <2>a
  <2>3. Ends(q, t)
    BY <2>2, EndingEnds
  <2>4. \A p, u : Holder(p, u) /\ ~(p = q /\ u = t) => Same(p, u)
    <3>1. ASSUME NEW p, NEW u, Holder(p, u), ~(p = q /\ u = t)
          PROVE  Same(p, u)
      <4>1. session'[p][u] = session[p][u]
        BY <1>0, <2>2, <3>1 DEF Holder
      <4> QED BY <2>1, <4>1 DEF Same, Valid
    <3> QED BY <3>1
  <2> QED BY <2>3, <2>4
<1>4. CASE s = "Commit" /\ CommitPassword(b)
  <2>1. info' = info /\ session' = session /\ signedIn' = signedIn
    BY <1>4 DEF CommitPassword, Proceed
  <2>2. \A x \in People : /\ accounts'.adm[x] = accounts.adm[x]
                          /\ accounts'.emp[x] = NoOne <=> accounts.emp[x] = NoOne
                          /\ accounts'.emp[x].nonce = accounts.emp[x].nonce
    BY <1>4, CommitPasswordShape
  <2> QED BY <2>1, <2>2 DEF Same, Valid, Holder, Tickets
<1>5. CASE s = "Commit" /\ CommitPortal(b)
  <2>1. info' = info /\ session' = session /\ \E n : Ending(b, n, "employee", r.who)
    BY <1>5 DEF CommitPortal
  <2>2. Ends("employee", r.who)
    BY <1>0, <2>1, EndingEnds
  <2>3. \A x \in People : /\ accounts'.adm[x] = NoOne <=> accounts.adm[x] = NoOne
                          /\ accounts.adm[x] # NoOne => accounts'.adm[x].nonce = accounts.adm[x].nonce
                          /\ x # r.who => accounts'.emp[x] = accounts.emp[x]
    BY <1>5, CommitPortalShape
  <2> HIDE DEF r
  <2>4. \A q, t : Holder(q, t) /\ ~(q = "employee" /\ t = r.who) => Same(q, t)
    BY <2>1, <2>3 DEF Same, Valid, Holder, Tickets, Portals
  <2> QED BY <2>2, <2>4
<1>6. CASE s = "Commit" /\ CommitSetup(b)
  BY <1>6, SetupEnds
<1> QED BY <1>1, <1>2, <1>3, <1>4, <1>5, <1>6 DEF Does, Steps

(* Nor does another administrator, but of whose rows it deletes.           *)
LEMMA ManagedEnds ==
  ASSUME Shape, NEW p \in People, NEW Q \in SUBSET Portals, Managed(Q, p)
  PROVE  \A q, t : Holder(q, t) => Same(q, t) \/ (q \in Q /\ t = p)
<1> SUFFICES ASSUME NEW q, NEW t, Holder(q, t), ~(q \in Q /\ t = p)
             PROVE  Same(q, t)
  OBVIOUS
<1>1. /\ info' = info /\ session' = session
      /\ \A x \in People \ {p} : /\ accounts'.emp[x] = accounts.emp[x]
                                 /\ accounts'.adm[x] = accounts.adm[x]
      /\ "employee" \notin Q /\ accounts.emp[p] # NoOne =>
           accounts'.emp[p] # NoOne /\ accounts'.emp[p].nonce = accounts.emp[p].nonce
      /\ "admin" \notin Q /\ accounts.adm[p] # NoOne => accounts'.adm[p] = accounts.adm[p]
  BY DEF Managed
<1>2. CASE t = Default
  BY <1>1, <1>2 DEF Same, Valid
<1>3. CASE t # Default /\ q = "admin"
  BY <1>1, <1>3 DEF Same, Valid, Holder, Tickets
<1>4. CASE t # Default /\ q = "employee"
  BY <1>1, <1>4 DEF Same, Valid, Holder
<1> QED BY <1>2, <1>3, <1>4 DEF Holder, Portals

(* Steps of a handler leave the requests of other browsers where they are. *)
LEMMA Elsewhere ==
  ASSUME Shape, NEW b \in Browsers, NEW n, Turn(b, n), NEW x \in Browsers \ {b}
  PROVE  LET r == req[x]
             m == req'[x]
         IN /\ Sent(r, m) /\ Now(m) = Now(r) /\ m.who = r.who /\ m.status = r.status
            /\ m.token = r.token /\ m.nonce = r.nonce /\ m.flag = r.flag
            /\ m.clean => r.clean
<1>1. req[x] \in Request /\ req'[x] \in {req[x], [req[x] EXCEPT !.clean = FALSE]}
  BY DEF Shape, TypeOK, Turn
<1> DEFINE r == req[x]
           m == req'[x]
<1>2. r \in Request /\ m \in {r, [r EXCEPT !.clean = FALSE]}
  BY <1>1
<1> HIDE DEF r, m
<1>3. /\ Sent(r, m) /\ m.who = r.who /\ m.status = r.status /\ m.todo = r.todo
      /\ m.token = r.token /\ m.nonce = r.nonce /\ m.flag = r.flag
      /\ m.clean => r.clean
  BY <1>2 DEF Request, Sent
<1>4. Now(m) = Now(r)
  BY <1>3 DEF Now
<1> QED BY <1>3, <1>4 DEF r, m

(* Who migrates after the step s, and what it has found out.               *)
LEMMA Migrates ==
  ASSUME Shape, Shape', NEW b \in Browsers, NEW s \in Steps, Does(b, s), Migrating(req'[b])
  PROVE  /\ s = "Insert" \/ (s = "Forget" /\ Migrating(req[b]))
         /\ req'[b].ticket = req[b].ticket /\ accounts' = accounts
         /\ s = "Insert" =>
              /\ accounts.adm[req[b].ticket] = NoOne
              /\ \A x \in Browsers \ {b} : Migrating(req[x]) => req[x].ticket # req[b].ticket
<1> DEFINE r == req[b]
           n == req'[b]
<1>1. /\ Sent(r, n) /\ Place(emailOtp, r.kind, r.portal, r.who, s) /\ Now(r) = s
      /\ n.status # "open" => Now(n) = "done"
      /\ n.status = "open" => /\ Now(n) \in After(emailOtp, r.kind, r.portal, r.who, s)
                                     \cup (IF s = "SeedRead" THEN {"SeedSet"} ELSE {})
                              /\ ~(s = "Commit" /\ r.kind = "setup") => n.who = r.who
  <2>1. Handled(b, s, n)
    BY HandlerSteps
  <2> HIDE DEF n
  <2> QED BY <2>1 DEF Handled, Errors
<1>2. n.kind = "setup" /\ n.who = Default /\ Now(n) \in {"Forget", "Commit"}
  BY DEF Migrating
<1>3. s = "Insert" \/ (s = "Forget" /\ Migrating(r))
  <2> HIDE DEF n, r
  <2>1. r.kind = "setup" /\ n.status = "open"
    BY <1>1, <1>2 DEF Sent
  <2>2. s # "Commit"
    BY <1>1, <1>2, <2>1 DEF After
  <2>3. n.who = r.who
    BY <1>1, <2>1, <2>2
  <2> QED BY <1>1, <1>2, <2>1, <2>3 DEF After, Final, Place, Steps, Migrating
<1>4. accounts' = accounts
  BY <1>3 DEF Does, InsertSuccessor, ForgetDefault, stores
<1>5. ASSUME s = "Insert"
      PROVE  /\ accounts.adm[r.ticket] = NoOne
             /\ \A x \in Browsers \ {b} : Migrating(req[x]) => req[x].ticket # r.ticket
  <2>1. InsertSuccessor(b)
    BY <1>5 DEF Does
  <2>2. accounts.adm[r.ticket] = NoOne
    <3> SUFFICES ASSUME accounts.adm[r.ticket] # NoOne
                 PROVE  FALSE
      OBVIOUS
    <3>1. \E st : Proceed(b, Refused(r, st)) /\ st # "open"
      BY <2>1 DEF InsertSuccessor
    <3>2. PICK st : n = Refused(r, st) /\ st # "open"
      BY <3>1, Becomes
    <3>3. n.status # "open"
      BY <3>2 DEF Refused, Shape, TypeOK, Request
    <3> QED BY <1>1, <1>2, <3>3
  <2>3. \A x \in Browsers \ {b} : ~(req[x].ticket = r.ticket /\ (At(x, "Forget") \/ At(x, "Commit")))
    BY <2>1 DEF InsertSuccessor, Inserting
  <2>4. \A x \in Browsers : Migrating(req[x]) => At(x, "Forget") \/ At(x, "Commit")
    BY DEF Migrating, At, Now
  <2> QED BY <2>2, <2>3, <2>4
<1>6. n.ticket = r.ticket
  BY <1>1 DEF Sent
<1> QED BY <1>3, <1>4, <1>5, <1>6

(* Only commits write the tables.                                          *)
LEMMA CommitsElse ==
  ASSUME NEW b \in Browsers, NEW s \in Steps, Does(b, s), s # "Commit" \/ CommitNothing(b)
  PROVE  accounts' = accounts
<1>1. CASE CommitNothing(b)
  BY <1>1 DEF CommitNothing, stores
<1>2. CASE s # "Commit"
  BY <1>2 DEF Does, CheckSession, CheckRow, SeedRead, SeedSet, CheckPassword, MailCode,
     CheckCode, ReadAccount, InsertSuccessor, ForgetDefault, StoreSession, DropCode,
     DropDefault, DropSession, KeepSession, stores
<1> QED BY <1>1, <1>2

(* No commit gives the key of a migration to an administrator.             *)
LEMMA KeyIsFree ==
  ASSUME Shape, Shape', Moves, NEW b \in Browsers, NEW s \in Steps, Does(b, s),
         NEW x \in Browsers \ {b}, Migrating(req[x])
  PROVE  accounts'.adm[req[x].ticket] = NoOne
<1> DEFINE t == req[x].ticket
<1>1. t \in People /\ accounts.adm[t] = NoOne
  BY DEF Moves, Migrating, Shape, Knows
<1>2. CASE s # "Commit" \/ CommitNothing(b)
  <2>1. accounts' = accounts
    BY <1>2, CommitsElse
  <2> QED BY <1>1, <2>1, SMTT(60)
<1>3. CASE s = "Commit" /\ CommitPassword(b)
  BY <1>1, <1>3, CommitPasswordShape
<1>4. CASE s = "Commit" /\ CommitPortal(b)
  BY <1>1, <1>4, CommitPortalShape
<1>5. CASE s = "Commit" /\ CommitSetup(b)
  <2> DEFINE p == IF req[b].who = Default THEN req[b].ticket ELSE req[b].who
  <2>1. /\ req[b].who # Default => accounts.adm[p] # NoOne
        /\ \A y \in People \ {p} : accounts'.adm[y] = accounts.adm[y]
    BY <1>5, CommitSetupWrites
  <2>2. Now(req[b]) = "Commit" /\ req[b].kind = "setup"
    BY <1>5 DEF CommitSetup, At, Now
  <2>3. t # p
    <3>1. CASE req[b].who = Default
      <4>1. Migrating(req[b])
        BY <2>2, <3>1 DEF Migrating
      <4> QED BY <3>1, <4>1 DEF Moves
    <3>2. CASE req[b].who # Default
      BY <1>1, <2>1, <3>2
    <3> QED BY <3>1, <3>2
  <2> HIDE DEF p, t
  <2> QED BY <1>1, <2>1, <2>3 DEF t
<1> QED BY <1>2, <1>3, <1>4, <1>5 DEF Does

LEMMA MovesStep ==
  ASSUME Shape, Shape', Moves, [Next]_vars
  PROVE  Moves'
<1>1. CASE ~ \E b \in Browsers, s \in Steps : Does(b, s)
  <2>1. /\ accounts' = accounts \/ \E p \in People, Q \in SUBSET Portals : Managed(Q, p)
        /\ \A x \in Browsers : Quiet(x)
    BY <1>1, QuietSteps
  <2>2. ASSUME NEW x \in Browsers, Migrating(req'[x])
        PROVE  Migrating(req[x]) /\ req'[x].ticket = req[x].ticket
    BY <2>1, <2>2, QuietIs DEF Migrating, Starts, Sent
  <2>3. ASSUME NEW x \in Browsers, Migrating(req[x])
        PROVE  accounts'.adm[req[x].ticket] = NoOne
    <3>1. req[x].ticket \in People /\ accounts.adm[req[x].ticket] = NoOne
      BY <2>3 DEF Moves, Migrating, Shape, Knows
    <3>2. CASE accounts' = accounts
      BY <3>1, <3>2, SMTT(60)
    <3>3. ASSUME NEW p \in People, NEW Q \in SUBSET Portals, Managed(Q, p)
          PROVE  accounts'.adm[req[x].ticket] = NoOne
      <4>1. CASE req[x].ticket # p
        BY <3>1, <3>3, <4>1 DEF Managed
      <4>2. CASE req[x].ticket = p
        <5>1. Inserting(p)
          BY <2>3, <4>2 DEF Inserting, Migrating, Now, At
        <5> QED BY <3>1, <3>3, <4>2, <5>1 DEF Managed
      <4> QED BY <4>1, <4>2
    <3> QED BY <2>1, <3>2, <3>3
  <2> QED BY <2>2, <2>3 DEF Moves
<1>2. ASSUME NEW b \in Browsers, NEW s \in Steps, Does(b, s)
      PROVE  Moves'
  <2>1. Turn(b, req'[b])
    BY <1>2, HandlerSteps DEF Handled
  <2>2. \A x \in Browsers \ {b} : /\ Migrating(req'[x]) => Migrating(req[x])
                                  /\ req'[x].ticket = req[x].ticket
    BY <2>1, Elsewhere DEF Migrating, Sent
  <2>3. \A x \in Browsers \ {b} : Migrating(req'[x]) => accounts'.adm[req'[x].ticket] = NoOne
    BY <1>2, <2>2, KeyIsFree
  <2>4. Migrating(req'[b]) => accounts'.adm[req'[b].ticket] = NoOne
    BY <1>2, Migrates DEF Moves
  <2>5. \A x \in Browsers \ {b} : Migrating(req'[b]) /\ Migrating(req'[x])
                                     => req'[x].ticket # req'[b].ticket
    BY <1>2, <2>2, Migrates DEF Moves
  <2>6. \A x \in Browsers : Migrating(req'[x]) => accounts'.adm[req'[x].ticket] = NoOne
    BY <2>3, <2>4
  <2>7. ASSUME NEW x \in Browsers, NEW y \in Browsers,
               Migrating(req'[x]), Migrating(req'[y]), x # y
        PROVE  req'[x].ticket # req'[y].ticket
    BY <2>2, <2>5, <2>7 DEF Moves
  <2> QED BY <2>6, <2>7 DEF Moves
<1> QED BY <1>1, <1>2

(* Where a request has its session already.                                *)
Stands(e, r) == \/ r.status = "ok" /\ Enters(e, r)
                \/ Now(r) = "DropCode" /\ r.kind = "verify" /\ r.portal = "employee"
                \/ Now(r) = "DropDefault"
Enrolls(r) == \/ Now(r) = "Store"
              \/ Now(r) = "DropCode" /\ r.kind = "verify" /\ r.portal = "admin"

(* As long as nobody has overtaken it a sign-in that is about to store its *)
(* session has a nonce that is accepted, and one that has stored it has    *)
(* the session that is stored.                                             *)
Fresh(e, acc, inf, ses, r) ==
  r.clean =>
    /\ Enrolls(r) => Valid(acc, inf, r.portal, r.who, r.nonce)
    /\ Stands(e, r) => /\ ses[r.portal][r.who] = r.token
                       /\ Valid(acc, inf, r.portal, r.who, r.token.nonce)

(* Whoever is signed in has the session that is stored.                    *)
Kept(b) ==
  \A q \in Portals : signedIn[b][q] =>
    LET k == cookie[b][q]
    IN k # NoOne /\ session[q][k.who] = k /\ Valid(accounts, info, q, k.who, k.nonce)

(* Which step leads there.                                                 *)
LEMMA FreshFrom ==
  ASSUME Shape, NEW b \in Browsers, NEW s \in Steps, NEW n, Handled(b, s, n)
  PROVE  LET r == req[b]
         IN /\ Enrolls(n) => \/ s \in {"Password", "Account"}
                             \/ s = "DropCode" /\ Enrolls(r)
                             \/ s = "Commit" /\ r.kind = "setup"
            /\ Stands(emailOtp, n) => \/ s = "Store" /\ Enrolls(r)
                                      \/ s = "DropCode" /\ Stands(emailOtp, r)
                                      \/ s = "DropDefault" /\ Stands(emailOtp, r) /\ r.who # Default
            /\ Enrolls(n) \/ Stands(emailOtp, n) => n.status \in {"open", "ok"}
            /\ s # "Commit" => n.who = r.who
            /\ s # "Store" => n.token = r.token
            /\ Enrolls(n) /\ s \notin {"Password", "Account", "Commit"} => n.nonce = r.nonce
            /\ n.portal = r.portal /\ n.clean = r.clean
<1> DEFINE r == req[b]
<1>1. /\ Sent(r, n) /\ Place(emailOtp, r.kind, r.portal, r.who, s) /\ n.clean = r.clean /\ Now(r) = s
      /\ \/ n.status \in Errors /\ Now(n) = "done" /\ n.who = r.who /\ n.token = r.token /\ s \in Gates
         \/ /\ Now(n) \in After(emailOtp, r.kind, r.portal, r.who, s)
                          \cup (IF s = "SeedRead" THEN {"SeedSet"} ELSE {})
            /\ ~(s = "Commit" /\ r.kind = "setup") => n.who = r.who
            /\ n.status = IF Now(n) = "done" THEN "ok" ELSE "open"
            /\ s # "Store" => n.token = r.token
            /\ s \notin {"Password", "Account", "Commit"} => n.nonce = r.nonce
  BY DEF Handled
<1>0. r.portal \in {"employee", "admin"}
  BY DEF Shape, TypeOK, Request, Portals
<1> HIDE DEF r
<1>2. CASE n.status \in Errors /\ Now(n) = "done"
  <2>1. ~Enrolls(n) /\ ~Stands(emailOtp, n)
    BY <1>2 DEF Errors, Enrolls, Stands
  <2> QED BY <1>1, <1>2, <2>1 DEF Sent, Errors, r
<1>3. CASE /\ Now(n) \in After(emailOtp, r.kind, r.portal, r.who, s)
                          \cup (IF s = "SeedRead" THEN {"SeedSet"} ELSE {})
           /\ n.status = IF Now(n) = "done" THEN "ok" ELSE "open"
           /\ ~(s = "Commit" /\ r.kind = "setup") => n.who = r.who
           /\ s # "Store" => n.token = r.token
           /\ s \notin {"Password", "Account", "Commit"} => n.nonce = r.nonce
  <2>1. n.kind = r.kind /\ n.portal = r.portal
    BY <1>1 DEF Sent
  <2>2. Enrolls(n) => \/ s \in {"Password", "Account"}
                      \/ s = "DropCode" /\ Enrolls(r)
                      \/ s = "Commit" /\ r.kind = "setup"
    BY <1>1, <1>3, <2>1 DEF After, Final, Place, Steps, Enrolls
  <2>3. Stands(emailOtp, n) => \/ s = "Store" /\ Enrolls(r)
                               \/ s = "DropCode" /\ Stands(emailOtp, r)
                               \/ s = "DropDefault" /\ Stands(emailOtp, r) /\ r.who # Default
    <3>1. ASSUME n.status = "ok", Enters(emailOtp, n)
          PROVE  \/ s = "Store"
                 \/ s = "DropCode" /\ r.kind = "verify" /\ r.portal # "admin"
                 \/ s = "DropDefault" /\ r.who # Default
      BY <1>1, <1>3, <2>1, <3>1 DEF After, Final, Place, Steps, Enters
    <3>2. ASSUME Now(n) = "DropCode", n.kind = "verify", n.portal = "employee"
          PROVE  s = "Store"
      BY <1>1, <1>3, <2>1, <3>2 DEF After, Final, Place, Steps
    <3>3. ASSUME Now(n) = "DropDefault"
          PROVE  s = "Store"
      BY <1>1, <1>3, <3>3 DEF After, Final, Place, Steps
    <3> QED BY <1>0, <1>1, <3>1, <3>2, <3>3 DEF Stands, Enrolls
  <2>4. n.status \in {"open", "ok"}
    BY <1>3
  <2> QED BY <1>1, <1>3, <2>1, <2>2, <2>3, <2>4 DEF r
<1> QED BY <1>1, <1>2, <1>3

(* A handler that has not been refused went on.                            *)
LEMMA WentOn ==
  ASSUME Shape, Shape', NEW b \in Browsers, NEW s \in Steps, At(b, s),
         req'[b].status \in {"open", "ok"}
  PROVE  /\ \A st \in Errors : ~Proceed(b, Refused(req[b], st))
         /\ \A z, f : Proceed(b, [Past(req[b]) EXCEPT !.nonce = z, !.flag = f])
                       => req'[b].nonce = z /\ req'[b].flag = f
<1> DEFINE r == req[b]
           n == req'[b]
<1>1. r \in Request /\ Past(r) \in Request
  BY Continue
<1>2. ASSUME NEW st \in Errors, Proceed(b, Refused(r, st))
      PROVE  FALSE
  <2>1. n = Refused(r, st)
    BY <1>2, Becomes
  <2>2. Refused(r, st).status = st
    BY <1>1 DEF Refused, Request
  <2> QED BY <2>1, <2>2 DEF Errors
<1>3. ASSUME NEW z, NEW f, Proceed(b, [Past(r) EXCEPT !.nonce = z, !.flag = f])
      PROVE  n.nonce = z /\ n.flag = f
  <2> DEFINE m == [Past(r) EXCEPT !.nonce = z, !.flag = f]
  <2>1. n = m
    BY <1>3, Becomes
  <2>2. m.nonce = z /\ m.flag = f
    BY <1>1 DEF Request
  <2> QED BY <2>1, <2>2
<1> QED BY <1>2, <1>3

(* What a password that is right finds is accepted, and so is what a code  *)
(* that is right finds.                                                    *)
LEMMA PasswordFinds ==
  ASSUME Shape, Shape', NEW b \in Browsers, CheckPassword(b),
         req'[b].status \in {"open", "ok"}
  PROVE  LET n == req'[b]
             r == req[b]
         IN /\ Valid(accounts, info, r.portal, r.who, n.nonce)
            /\ r.portal = "admin" /\ r.who # Default => n.flag = accounts.adm[r.who].must
<1> DEFINE r == req[b]
           n == req'[b]
           e == IF r.who \in People THEN accounts.emp[r.who] ELSE NoOne
           a == IF r.who \in People THEN accounts.adm[r.who] ELSE NoOne
           Out == \E st \in Errors : Proceed(b, Refused(r, st))
           In(z, f) == Proceed(b, [Past(r) EXCEPT !.nonce = z, !.flag = f])
<1>1. /\ At(b, "Password") /\ "Password" \in Steps /\ r.portal \in {"employee", "admin"}
  BY DEF CheckPassword, Steps, Shape, TypeOK, Request, Portals
<1>2. CASE r.portal = "employee"
  <2>1. Out \/ ((r.who # Default /\ e # NoOne) /\ In(e.nonce, FALSE))
    BY <1>2 DEF CheckPassword, Errors
  <2>2. (r.who # Default /\ e # NoOne) /\ n.nonce = e.nonce
    <3> HIDE DEF e
    <3> QED BY <1>1, <2>1, WentOn
  <2> QED BY <1>2, <2>2 DEF Valid
<1>3. CASE r.portal = "admin" /\ r.who = Default
  <2>1. Out \/ (TRUE /\ In(info, TRUE))
    BY <1>3 DEF CheckPassword, Errors
  <2>2. n.nonce = info
    BY <1>1, <2>1, WentOn
  <2> QED BY <1>3, <2>2 DEF Valid
<1>4. CASE r.portal = "admin" /\ r.who # Default
  <2>1. Out \/ (a # NoOne /\ In(a.nonce, a.must))
    BY <1>4 DEF CheckPassword, Errors
  <2>2. a # NoOne /\ n.nonce = a.nonce /\ n.flag = a.must
    <3> HIDE DEF a
    <3> QED BY <1>1, <2>1, WentOn
  <2> QED BY <1>4, <2>2 DEF Valid
<1> QED BY <1>1, <1>2, <1>3, <1>4, SMTT(60)

LEMMA AccountFinds ==
  ASSUME Shape, Shape', NEW b \in Browsers, ReadAccount(b),
         req'[b].status \in {"open", "ok"}
  PROVE  LET n == req'[b]
             r == req[b]
         IN /\ Valid(accounts, info, r.portal, r.who, n.nonce)
            /\ r.portal = "admin" => r.who # Default /\ n.flag = accounts.adm[r.who].must
<1> DEFINE r == req[b]
           n == req'[b]
           a == IF r.portal = "admin" THEN accounts.adm[r.who] ELSE accounts.emp[r.who]
           Out == \E st \in Errors : Proceed(b, Refused(r, st))
           In(z, f) == Proceed(b, [Past(r) EXCEPT !.nonce = z, !.flag = f])
<1>1. /\ At(b, "Account") /\ "Account" \in Steps
  BY DEF ReadAccount, Steps
<1>2. r.who # Default
  <2>1. Now(r) = "Account" /\ Knows(emailOtp, r)
    BY <1>1, Continue DEF Shape
  <2> QED BY <2>1, DefaultAssumption DEF Knows
<1>3. Out \/ (a # NoOne /\ In(a.nonce, r.portal = "admin" /\ a.must))
  BY DEF ReadAccount, Errors
<1>4. a # NoOne /\ n.nonce = a.nonce /\ n.flag = (r.portal = "admin" /\ a.must)
  <2> HIDE DEF a
  <2> QED BY <1>1, <1>3, WentOn
<1>5. r.portal = "admin" /\ a # NoOne => a.must \in BOOLEAN
  <2>1. r.who \in People /\ accounts \in Tables
    <3>1. Now(r) = "Account" /\ Knows(emailOtp, r)
      BY <1>1, Continue DEF Shape
    <3> QED BY <3>1 DEF Knows, Shape, TypeOK
  <2> QED BY <2>1, SMTT(60) DEF Tables, LocoAdmin
<1>6. Valid(accounts, info, r.portal, r.who, n.nonce)
  BY <1>2, <1>4 DEF Valid
<1>7. r.portal = "admin" => a = accounts.adm[r.who]
  OBVIOUS
<1> HIDE DEF a, n
<1> QED BY <1>2, <1>4, <1>5, <1>6, <1>7 DEF n

(* What a set-up has just stored is accepted.                              *)
LEMMA SetupFinds ==
  ASSUME Shape, Shape', NEW b \in Browsers, CommitSetup(b)
  PROVE  LET n == req'[b]
         IN Valid(accounts', info', "admin", n.who, n.nonce)
<1> DEFINE r == req[b]
           n == req'[b]
           p == IF r.who = Default THEN r.ticket ELSE r.who
<1>1. /\ p \in People /\ accounts'.adm[p] # NoOne /\ accounts'.adm[p].nonce = nonces + 1
  BY CommitSetupWrites
<1>2. r \in Request /\ Past(r) \in Request
  <2>1. At(b, "Commit") /\ "Commit" \in Steps
    BY DEF CommitSetup, Steps
  <2> QED BY <2>1, Continue
<1>3. n.who = p /\ n.nonce = nonces + 1
  <2>1. CASE r.who = Default
    <3> DEFINE m == [Past(r) EXCEPT !.who = r.ticket, !.nonce = nonces + 1]
    <3>1. Proceed(b, m)
      BY <2>1 DEF CommitSetup
    <3>2. n = m
      BY <3>1, Becomes
    <3> QED BY <1>2, <2>1, <3>2 DEF Request
  <2>2. CASE r.who # Default
    <3> DEFINE m == [Past(r) EXCEPT !.nonce = nonces + 1]
    <3>1. Ending(b, m, "admin", r.who) /\ "admin" \in Portals
      BY <2>2 DEF CommitSetup, TokenNonce, Portals
    <3>2. n = m
      BY <3>1, Becomes
    <3>3. Past(r).who = r.who
      BY <1>2 DEF Past, Request
    <3> QED BY <1>2, <2>2, <3>2, <3>3 DEF Request
  <2> QED BY <2>1, <2>2
<1>4. p # Default
  BY <1>1, DefaultAssumption
<1> HIDE DEF p, n
<1> QED BY <1>1, <1>3, <1>4 DEF Valid, n

(* The session that is stored is the one the request has.                  *)
LEMMA StoreFinds ==
  ASSUME Shape, Shape', NEW b \in Browsers, StoreSession(b)
  PROVE  LET n == req'[b]
             r == req[b]
         IN n.token.nonce = r.nonce /\ session'[r.portal][r.who] = n.token
<1> DEFINE r == req[b]
           t == [who |-> r.who, nonce |-> r.nonce, at |-> clock]
           m == [Past(r) EXCEPT !.token = t]
<1>1. /\ At(b, "Store") /\ "Store" \in Steps
  BY DEF StoreSession, Steps
<1>2. r \in Request /\ Past(r) \in Request /\ r.portal \in Portals /\ r.who \in Tickets
  <2>1. Now(r) = "Store" /\ Knows(emailOtp, r)
    BY <1>1, Continue DEF Shape
  <2> QED BY <1>1, <2>1, Continue DEF Knows, Request
<1>3. req'[b] = m
  <2>1. Ending(b, m, r.portal, r.who)
    BY DEF StoreSession
  <2> HIDE DEF m
  <2> QED BY <1>2, <2>1, Becomes
<1>4. m.token = t /\ t.nonce = r.nonce
  BY <1>2 DEF Request
<1>5. session'[r.portal][r.who] = t
  BY <1>2 DEF StoreSession, Shape, TypeOK
<1> QED BY <1>3, <1>4, <1>5

(* Who signs in, or has, can have a session.                               *)
LEMMA HolderOf ==
  ASSUME Shape, NEW x \in Browsers
  PROVE  LET r == req[x]
         IN /\ Enrolls(r) => Holder(r.portal, r.who)
            /\ Stands(emailOtp, r) /\ session[r.portal][r.who] = r.token => Holder(r.portal, r.who)
            /\ Stands(emailOtp, r) => r.token \in Token /\ r.token.who = r.who
<1> DEFINE r == req[x]
<1>1. r \in Request /\ Knows(emailOtp, r) /\ Stored
  BY DEF Shape, TypeOK
<1>2. NoOne \notin Token /\ r.portal \in Portals
  BY <1>1, NoOneAssumption DEF Request
<1>3. Enrolls(r) => Holder(r.portal, r.who)
  BY <1>1, <1>2 DEF Knows, Enrolls, Holder
<1>4. Stands(emailOtp, r) => r.token \in Token /\ r.token.who = r.who
  BY <1>1 DEF Knows, Stands, Own, Request
<1>5. ASSUME Stands(emailOtp, r), session[r.portal][r.who] = r.token
      PROVE  Holder(r.portal, r.who)
  <2>1. r.who \in Tickets
    BY <1>4, <1>5 DEF Token
  <2>2. r.portal = "employee" => r.who # Default
    BY <1>1, <1>2, <1>4, <1>5 DEF Stored
  <2> QED BY <1>2, <2>1, <2>2 DEF Holder, Tickets
<1> QED BY <1>3, <1>4, <1>5

(* A sign-in in another browser.                                           *)
LEMMA FreshElsewhere ==
  ASSUME Shape, NEW x \in Browsers, NEW m, emailOtp' = emailOtp,
         Fresh(emailOtp, accounts, info, session, req[x]),
         Sent(req[x], m), Now(m) = Now(req[x]), m.who = req[x].who, m.status = req[x].status,
         m.token = req[x].token, m.nonce = req[x].nonce,
         m.clean => req[x].clean /\ (Holder(m.portal, m.who) => Same(m.portal, m.who))
  PROVE  Fresh(emailOtp', accounts', info', session', m)
<1> DEFINE r == req[x]
<1>1. /\ m.portal = r.portal /\ m.who = r.who /\ m.token = r.token /\ m.nonce = r.nonce
      /\ Enrolls(m) = Enrolls(r) /\ Stands(emailOtp, m) = Stands(emailOtp, r)
  BY DEF Sent, Enrolls, Stands, Enters
<1> SUFFICES ASSUME m.clean
             PROVE  /\ Enrolls(r) => Valid(accounts', info', r.portal, r.who, r.nonce)
                    /\ Stands(emailOtp, r) =>
                         /\ session'[r.portal][r.who] = r.token
                         /\ Valid(accounts', info', r.portal, r.who, r.token.nonce)
  BY <1>1 DEF Fresh
<1>2. /\ Enrolls(r) => Valid(accounts, info, r.portal, r.who, r.nonce)
      /\ Stands(emailOtp, r) => /\ session[r.portal][r.who] = r.token
                                /\ Valid(accounts, info, r.portal, r.who, r.token.nonce)
  BY DEF Fresh
<1>3. Enrolls(r) \/ Stands(emailOtp, r) => Same(r.portal, r.who)
  BY <1>1, <1>2, HolderOf
<1> HIDE DEF r
<1> QED BY <1>2, <1>3 DEF Same

(* A sign-in whose handler takes a step.                                   *)
LEMMA FreshOwn ==
  ASSUME Shape, Shape', NEW b \in Browsers, NEW s \in Steps, Does(b, s),
         Fresh(emailOtp, accounts, info, session, req[b])
  PROVE  Fresh(emailOtp', accounts', info', session', req'[b])
<1> DEFINE r == req[b]
           n == req'[b]
<1>1. Handled(b, s, n)
  BY HandlerSteps
<1>2. /\ emailOtp' = emailOtp
      /\ Enrolls(n) => \/ s \in {"Password", "Account"}
                       \/ s = "DropCode" /\ Enrolls(r)
                       \/ s = "Commit" /\ r.kind = "setup"
      /\ Stands(emailOtp, n) => \/ s = "Store" /\ Enrolls(r)
                                \/ s = "DropCode" /\ Stands(emailOtp, r)
                                \/ s = "DropDefault" /\ Stands(emailOtp, r) /\ r.who # Default
      /\ Enrolls(n) \/ Stands(emailOtp, n) => n.status \in {"open", "ok"}
      /\ s # "Commit" => n.who = r.who
      /\ s # "Store" => n.token = r.token
      /\ Enrolls(n) /\ s \notin {"Password", "Account", "Commit"} => n.nonce = r.nonce
      /\ n.portal = r.portal /\ n.clean = r.clean
  BY <1>1, FreshFrom DEF Handled
<1> SUFFICES ASSUME n.clean
             PROVE  /\ Enrolls(n) => Valid(accounts', info', n.portal, n.who, n.nonce)
                    /\ Stands(emailOtp, n) =>
                         /\ session'[n.portal][n.who] = n.token
                         /\ Valid(accounts', info', n.portal, n.who, n.token.nonce)
  BY <1>2 DEF Fresh
<1>3. /\ Enrolls(r) => Valid(accounts, info, r.portal, r.who, r.nonce)
      /\ Stands(emailOtp, r) => /\ session[r.portal][r.who] = r.token
                                /\ Valid(accounts, info, r.portal, r.who, r.token.nonce)
  BY <1>2, SMTT(60) DEF Fresh
<1>4. s \in {"Password", "Account", "DropCode", "Store", "DropDefault"} =>
        accounts' = accounts /\ info' = info
  BY DEF Does, CheckPassword, ReadAccount, DropCode, StoreSession, DropDefault, stores
<1>5. ASSUME Enrolls(n)
      PROVE  Valid(accounts', info', n.portal, n.who, n.nonce)
  <2>1. CASE s = "Password"
    <3>1. CheckPassword(b)
      BY <2>1 DEF Does
    <3>2. Valid(accounts, info, r.portal, r.who, n.nonce)
      BY <1>2, <1>5, <3>1, PasswordFinds
    <3> HIDE DEF n, r
    <3> QED BY <1>2, <1>4, <2>1, <3>2
  <2>2. CASE s = "Account"
    <3>1. ReadAccount(b)
      BY <2>2 DEF Does
    <3>2. Valid(accounts, info, r.portal, r.who, n.nonce)
      BY <1>2, <1>5, <3>1, AccountFinds
    <3> HIDE DEF n, r
    <3> QED BY <1>2, <1>4, <2>2, <3>2
  <2>3. CASE s = "DropCode" /\ Enrolls(r)
    <3> HIDE DEF n, r
    <3> QED BY <1>2, <1>3, <1>4, <1>5, <2>3
  <2>4. CASE s = "Commit" /\ r.kind = "setup"
    <3>a. At(b, s) /\ \A st \in Errors : ~Proceed(b, Refused(r, st))
      BY <1>2, <1>5, <2>4, WentOn DEF Does, CommitNothing, CommitPassword, CommitSetup, CommitPortal
    <3>b. ~CommitNothing(b)
      <4>1. CommitNothing(b) => Proceed(b, Refused(r, "400")) \/ Proceed(b, Refused(r, "error"))
        BY DEF CommitNothing
      <4> QED BY <3>a, <4>1 DEF Errors
    <3>1. CommitSetup(b)
      BY <2>4, <3>b DEF Does, CommitPassword, CommitPortal
    <3>2. Valid(accounts', info', "admin", n.who, n.nonce)
      BY <3>1, SetupFinds
    <3>3. r.portal = "admin"
      BY <2>4 DEF Shape, Knows
    <3> HIDE DEF n, r
    <3> QED BY <1>2, <3>2, <3>3
  <2> QED BY <1>2, <1>5, <2>1, <2>2, <2>3, <2>4
<1>6. ASSUME Stands(emailOtp, n)
      PROVE  /\ session'[n.portal][n.who] = n.token
             /\ Valid(accounts', info', n.portal, n.who, n.token.nonce)
  <2>1. CASE s = "Store" /\ Enrolls(r)
    <3>1. StoreSession(b)
      BY <2>1 DEF Does
    <3>2. n.token.nonce = r.nonce /\ session'[r.portal][r.who] = n.token
      BY <3>1, StoreFinds
    <3> HIDE DEF n, r
    <3> QED BY <1>2, <1>3, <1>4, <2>1, <3>2
  <2>2. CASE s = "DropCode" /\ Stands(emailOtp, r)
    <3>1. session' = session
      BY <2>2 DEF Does, DropCode
    <3> HIDE DEF n, r
    <3> QED BY <1>2, <1>3, <1>4, <2>2, <3>1
  <2>3. CASE s = "DropDefault" /\ Stands(emailOtp, r) /\ r.who # Default
    <3>1. session' = [session EXCEPT !.admin[Default] = NoOne]
      BY <2>3 DEF Does, DropDefault
    <3>2. session'[r.portal][r.who] = session[r.portal][r.who]
      <4>1. session \in [Portals -> [Tickets -> Token \cup {NoOne}]] /\ r.portal \in Portals
        BY DEF Shape, TypeOK, Request
      <4>2. r.who \in Tickets
        BY <2>3, HolderOf DEF Token
      <4> HIDE DEF r
      <4> QED BY <2>3, <3>1, <4>1, <4>2 DEF Portals
    <3> HIDE DEF n, r
    <3> QED BY <1>2, <1>3, <1>4, <2>3, <3>2
  <2> QED BY <1>2, <1>6, <2>1, <2>2, <2>3
<1> QED BY <1>5, <1>6

LEMMA FaultEnds ==
  ASSUME Shape, FaultStep \/ Replicate
  PROVE  /\ \A x \in Browsers, q \in Portals :
              signedIn'[x][q] => /\ signedIn[x][q] /\ cookie'[x][q] = cookie[x][q]
                                 /\ cookie[x][q] # NoOne =>
                                      session'[q][cookie[x][q].who] = session[q][cookie[x][q].who]
         /\ \A x \in Browsers : req'[x].clean /\ req[x].who \in Tickets
              => session'[req[x].portal][req[x].who] = session[req[x].portal][req[x].who]
<1>0. /\ session \in [Portals -> [Tickets -> Token \cup {NoOne}]]
      /\ signedIn \in [Browsers -> [Portals -> BOOLEAN]]
      /\ cookie \in [Browsers -> [employee : Token \cup {NoOne}, admin : Token \cup {NoOne},
                                  lag : BOOLEAN]]
      /\ req \in [Browsers -> Request]
  BY DEF Shape, TypeOK
<1>1. CASE \/ \E b \in Browsers : Fail(b)
           \/ \E k \in {"login", "reset", "admin"}, t \in People : ExpireCode(k, t)
           \/ Tick \/ Replicate
  BY <1>1 DEF Fail, ExpireCode, Tick, Replicate, Proceed, stores
<1>2. ASSUME NEW b \in Browsers, ExpireLag(b)
      PROVE  /\ session' = session /\ signedIn' = signedIn
             /\ \A x \in Browsers, q \in Portals : cookie'[x][q] = cookie[x][q]
  BY <1>0, <1>2 DEF ExpireLag, stores, Portals
<1>3. ASSUME NEW b \in Browsers, ExpireCookie(b)
      PROVE  /\ session' = session
             /\ \A x \in Browsers, q \in Portals :
                  signedIn'[x][q] => signedIn[x][q] /\ cookie'[x][q] = cookie[x][q]
  BY <1>0, <1>3 DEF ExpireCookie, stores, Portals
<1>4. ASSUME NEW p \in Portals, NEW t \in Tickets, ExpireSession(p, t)
      PROVE  /\ \A x \in Browsers, q \in Portals :
                  signedIn'[x][q] => /\ signedIn[x][q] /\ cookie'[x][q] = cookie[x][q]
                                     /\ cookie[x][q] # NoOne =>
                                          session'[q][cookie[x][q].who] = session[q][cookie[x][q].who]
             /\ \A x \in Browsers : req'[x].clean /\ req[x].who \in Tickets
                  => session'[req[x].portal][req[x].who] = session[req[x].portal][req[x].who]
  <2>1. session' = [session EXCEPT ![p][t] = NoOne] /\ cookie' = cookie /\ Overtakes({p}, t)
    BY <1>4, OvertakeIs DEF ExpireSession, Shape
  <2>2. ASSUME NEW q \in Portals, NEW u \in Tickets, ~(q = p /\ u = t)
        PROVE  session'[q][u] = session[q][u]
    BY <1>0, <2>1, <2>2
  <2>3. ASSUME NEW x \in Browsers, NEW q \in Portals, signedIn'[x][q]
        PROVE  /\ signedIn[x][q] /\ cookie'[x][q] = cookie[x][q]
               /\ cookie[x][q] # NoOne =>
                    session'[q][cookie[x][q].who] = session[q][cookie[x][q].who]
    <3>1. signedIn[x][q] /\ ~(q = p /\ cookie[x][q] # NoOne /\ cookie[x][q].who = t)
      BY <2>1, <2>3 DEF Overtakes
    <3>2. cookie[x][q] # NoOne => cookie[x][q].who \in Tickets
      BY <1>0 DEF Portals, Token
    <3> QED BY <2>1, <2>2, <3>1, <3>2
  <2>4. ASSUME NEW x \in Browsers, req'[x].clean, req[x].who \in Tickets
        PROVE  session'[req[x].portal][req[x].who] = session[req[x].portal][req[x].who]
    <3>1. ~(req[x].portal = p /\ req[x].who = t)
      BY <2>1, <2>4 DEF Overtakes
    <3>2. req[x].portal \in Portals
      BY <1>0 DEF Request
    <3> QED BY <2>2, <2>4, <3>1, <3>2
  <2> QED BY <2>3, <2>4
<1> QED BY <1>1, <1>2, <1>3, <1>4 DEF FaultStep

(* The sign-ins that a step leaves alone.                                  *)
LEMMA FreshStep ==
  ASSUME Shape, Shape', Moves, [Next]_vars, NEW x \in Browsers,
         Fresh(emailOtp, accounts, info, session, req[x])
  PROVE  Fresh(emailOtp', accounts', info', session', req'[x])
<1> DEFINE r == req[x]
           m == req'[x]
<1>1. ASSUME NEW b \in Browsers, NEW s \in Steps, Does(b, s)
      PROVE  Fresh(emailOtp', accounts', info', session', m)
  <2>1. CASE x = b
    BY <1>1, <2>1, FreshOwn
  <2>2. CASE x # b
    <3>1. Turn(b, req'[b]) /\ emailOtp' = emailOtp
      BY <1>1, HandlerSteps DEF Handled
    <3>2. /\ Sent(r, m) /\ Now(m) = Now(r) /\ m.who = r.who /\ m.status = r.status
          /\ m.token = r.token /\ m.nonce = r.nonce /\ (m.clean => r.clean)
      BY <2>2, <3>1, Elsewhere
    <3>3. m.clean /\ Holder(m.portal, m.who) => Same(m.portal, m.who)
      <4>1. Holder(m.portal, m.who) => Same(m.portal, m.who) \/ Ended(b, m.portal, m.who)
        BY <1>1, StepsEnd
      <4>2. Ended(b, r.portal, r.who) => ~m.clean
        BY <2>2 DEF Ended
      <4> HIDE DEF m, r
      <4> QED BY <3>2, <4>1, <4>2 DEF Sent
    <3> HIDE DEF m
    <3> QED BY <3>1, <3>2, <3>3, FreshElsewhere
  <2> QED BY <2>1, <2>2
<1>2. CASE ~ \E b \in Browsers, s \in Steps : Does(b, s)
  <2>1. /\ info' = info /\ emailOtp' = emailOtp /\ Quiet(x)
        /\ accounts' = accounts \/ \E p \in People, Q \in SUBSET Portals : Managed(Q, p)
    BY <1>2, QuietSteps
  <2>a. ASSUME NEW p \in People, NEW Q \in SUBSET Portals, Managed(Q, p)
        PROVE  m.clean /\ Holder(r.portal, r.who) => Same(r.portal, r.who)
    <3>1. m.clean => ~(r.portal \in Q /\ r.who = p)
      BY <2>a DEF Managed, Overtakes
    <3>2. Holder(r.portal, r.who) => Same(r.portal, r.who) \/ (r.portal \in Q /\ r.who = p)
      BY <2>a, ManagedEnds
    <3> QED BY <3>1, <3>2
  <2>b. ASSUME ~ \E p \in People, Q \in SUBSET Portals : Managed(Q, p)
        PROVE  m.clean /\ r.who \in Tickets => session'[r.portal][r.who] = session[r.portal][r.who]
    <3>1. CASE \E b \in Browsers : \E p, n : Idle(b) /\ Show(b, p, n) /\ Poses(b, p, n)
      BY <3>1 DEF Show, stores
    <3>2. CASE \E b \in Browsers : Answer(b)
      BY <3>2 DEF Answer, stores
    <3>3. CASE FaultStep \/ Replicate
      BY <3>3, FaultEnds
    <3>4. CASE UNCHANGED vars
      BY <3>4 DEF vars
    <3> QED BY <1>2, <2>b, <3>1, <3>2, <3>3, <3>4, StepsAre
  <2>2. m.clean /\ Holder(r.portal, r.who) => Same(r.portal, r.who)
    <3>1. CASE \E p \in People, Q \in SUBSET Portals : Managed(Q, p)
      <4> HIDE DEF m, r
      <4> QED BY <2>a, <3>1
    <3>2. CASE ~ \E p \in People, Q \in SUBSET Portals : Managed(Q, p)
      BY <2>1, <2>b, <3>2 DEF Same, Holder
    <3> QED BY <3>1, <3>2
  <2>3. \/ Now(m) = "done" /\ (m.kind \in {"login", "verify", "setup"} => m.status = "error")
        \/ Now(m) \in Starts /\ m.status = "open"
        \/ /\ Sent(r, m) /\ Now(m) = Now(r) /\ m.who = r.who /\ m.status = r.status
           /\ m.token = r.token /\ m.nonce = r.nonce /\ (m.clean => r.clean)
    BY <2>1, QuietIs
  <2> HIDE DEF m
  <2>4. ASSUME Now(m) = "done", m.kind \in {"login", "verify", "setup"} => m.status = "error"
        PROVE  Fresh(emailOtp', accounts', info', session', m)
    BY <2>4 DEF Fresh, Enrolls, Stands, Enters
  <2>5. ASSUME Now(m) \in Starts, m.status = "open"
        PROVE  Fresh(emailOtp', accounts', info', session', m)
    BY <2>5 DEF Fresh, Enrolls, Stands, Starts
  <2>6. ASSUME Sent(r, m), Now(m) = Now(r), m.who = r.who, m.status = r.status,
               m.token = r.token, m.nonce = r.nonce, m.clean => r.clean
        PROVE  Fresh(emailOtp', accounts', info', session', m)
    <3>1. m.clean /\ Holder(m.portal, m.who) => Same(m.portal, m.who)
      BY <2>2, <2>6 DEF Sent
    <3> QED BY <2>1, <2>6, <3>1, FreshElsewhere
  <2> QED BY <2>3, <2>4, <2>5, <2>6 DEF m
<1> QED BY <1>1, <1>2

LEMMA KeptDoes ==
  ASSUME Shape, Shape', Moves, NEW x \in Browsers, Kept(x),
         NEW b \in Browsers, NEW s \in Steps, Does(b, s)
  PROVE  Kept(x)'
<1>1. Handled(b, s, req'[b])
  BY HandlerSteps
<1>2. cookie' = cookie /\ Turn(b, req'[b])
  BY <1>1 DEF Handled
<1>3. ASSUME NEW q \in Portals, signedIn'[x][q]
      PROVE  LET k == cookie[x][q]
             IN k # NoOne /\ session'[q][k.who] = k /\ Valid(accounts', info', q, k.who, k.nonce)
  <2> DEFINE k == cookie[x][q]
  <2>1. signedIn[x][q] /\ \A t : Holder(q, t) => Same(q, t) \/ Ended(b, q, t)
    BY <1>3, StepsEnd
  <2>2. k # NoOne /\ session[q][k.who] = k /\ Valid(accounts, info, q, k.who, k.nonce)
    BY <2>1 DEF Kept
  <2>3. k \in Token
    BY <2>2 DEF Shape, TypeOK, Portals
  <2>4. Holder(q, k.who)
    <3>1. q = "employee" => k.who # Default
      BY <2>2 DEF Shape, Stored
    <3> QED BY <2>3, <3>1 DEF Token, Tickets, Holder
  <2>5. ~Ended(b, q, k.who)
    BY <1>3, <2>2 DEF Ended
  <2>6. Same(q, k.who)
    BY <2>1, <2>4, <2>5
  <2> HIDE DEF k
  <2> QED BY <2>2, <2>6 DEF Same, k
<1> QED BY <1>2, <1>3 DEF Kept

LEMMA KeptUser ==
  ASSUME Shape, NEW x \in Browsers, Kept(x),
         NEW b \in Browsers, NEW p, NEW n, Show(b, p, n), Poses(b, p, n)
  PROVE  Kept(x)'
<1>1. /\ accounts' = accounts /\ info' = info /\ session' = session /\ cookie' = cookie
      /\ signedIn' = signedIn
  BY DEF Show, stores
<1> QED BY <1>1 DEF Kept

LEMMA KeptAnswer ==
  ASSUME Shape, NEW x \in Browsers, Kept(x), NEW b \in Browsers, Answer(b),
         Fresh(emailOtp, accounts, info, session, req[b])
  PROVE  Kept(x)'
<1> DEFINE r == req[b]
           c == Cookies(b)
           in == r.status = "ok" /\ Enters(emailOtp, r)
           out == r.status = "ok" /\ r.kind = "logout"
<1>1. /\ r \in Request /\ cookie' = [cookie EXCEPT ![b] = c] /\ UNCHANGED stores
      /\ signedIn' = [signedIn EXCEPT ![b][r.portal] = IF in THEN r.clean ELSE @ /\ ~out]
  BY AnswerIs
<1>2. /\ c[r.portal] = IF r.status = "ok" /\ r.kind = "logout" THEN NoOne
                       ELSE IF in THEN r.token ELSE cookie[b][r.portal]
      /\ \A q \in Portals \ {r.portal} : c[q] = cookie[b][q]
  BY CookiesIs
<1>3. in => r.token \in Token /\ r.token.who = r.who
  BY HolderOf DEF Stands
<1>4. in /\ r.clean => /\ session[r.portal][r.who] = r.token
                       /\ Valid(accounts, info, r.portal, r.who, r.token.nonce)
  BY DEF Fresh, Stands
<1>5. /\ accounts' = accounts /\ info' = info /\ session' = session
      /\ cookie'[x] = (IF x = b THEN c ELSE cookie[x])
      /\ \A q \in Portals : signedIn'[x][q] =>
           IF x = b /\ q = r.portal THEN IF in THEN r.clean ELSE signedIn[b][q] /\ ~out
                                    ELSE signedIn[x][q]
  <2>1. /\ cookie \in [Browsers -> [employee : Token \cup {NoOne}, admin : Token \cup {NoOne},
                                    lag : BOOLEAN]]
        /\ signedIn \in [Browsers -> [Portals -> BOOLEAN]]
    BY DEF Shape, TypeOK
  <2>2. /\ accounts' = accounts /\ info' = info /\ session' = session
        /\ cookie'[x] = (IF x = b THEN c ELSE cookie[x])
    BY <1>1, <2>1 DEF stores
  <2> DEFINE v == IF in THEN r.clean ELSE signedIn[b][r.portal] /\ ~out
  <2>3. signedIn' = [signedIn EXCEPT ![b] = [@ EXCEPT ![r.portal] = v]]
    BY <1>1
  <2> HIDE DEF v, in, out, r
  <2>4. ASSUME NEW q \in Portals
        PROVE  signedIn'[x][q] = IF x = b /\ q = r.portal THEN v ELSE signedIn[x][q]
    BY <2>1, <2>3, Zenon
  <2>5. v = IF in THEN r.clean ELSE signedIn[b][r.portal] /\ ~out
    BY DEF v
  <2> QED BY <2>2, <2>4, <2>5
<1>6. r.portal \in Portals /\ NoOne \notin Token
  BY <1>1, NoOneAssumption DEF Request
<1> HIDE DEF c, in, out
<1>7. ASSUME NEW q \in Portals, signedIn'[x][q]
      PROVE  LET k == cookie'[x][q]
             IN k # NoOne /\ session[q][k.who] = k /\ Valid(accounts, info, q, k.who, k.nonce)
  <2>1. CASE x = b /\ q = r.portal /\ in
    <3>1. r.clean /\ c[q] = r.token
      BY <1>2, <1>5, <1>7, <2>1 DEF in, Enters
    <3> QED BY <1>3, <1>4, <1>5, <1>6, <2>1, <3>1
  <2>2. CASE ~(x = b /\ q = r.portal /\ in)
    <3>1. signedIn[x][q] /\ (x = b /\ q = r.portal => ~out)
      BY <1>5, <1>7, <2>2
    <3>2. cookie'[x][q] = cookie[x][q]
      <4>1. CASE x # b
        BY <1>5, <4>1
      <4>2. CASE x = b /\ q # r.portal
        BY <1>2, <1>5, <4>2
      <4>3. CASE x = b /\ q = r.portal
        <5>1. ~(r.status = "ok" /\ r.kind = "logout")
          BY <3>1, <4>3 DEF out
        <5> QED BY <1>2, <1>5, <2>2, <4>3, <5>1
      <4> QED BY <4>1, <4>2, <4>3
    <3> QED BY <3>1, <3>2 DEF Kept
  <2> QED BY <2>1, <2>2
<1> QED BY <1>5, <1>7 DEF Kept

LEMMA KeptFault ==
  ASSUME Shape, NEW x \in Browsers, Kept(x), FaultStep \/ Replicate
  PROVE  Kept(x)'
<1>1. accounts' = accounts /\ info' = info
  BY FaultsAre
<1>2. \A q \in Portals :
         signedIn'[x][q] => /\ signedIn[x][q] /\ cookie'[x][q] = cookie[x][q]
                            /\ cookie[x][q] # NoOne =>
                                 session'[q][cookie[x][q].who] = session[q][cookie[x][q].who]
  BY FaultEnds
<1>3. ASSUME NEW q \in Portals, signedIn'[x][q]
      PROVE  LET k == cookie'[x][q]
             IN k # NoOne /\ session'[q][k.who] = k /\ Valid(accounts', info', q, k.who, k.nonce)
  BY <1>1, <1>2, <1>3 DEF Kept
<1> QED BY <1>3 DEF Kept

(* Whoever stays signed in while an administrator works on somebody's rows *)
(* is not that somebody, or not in the portal that is lost.                *)
LEMMA KeptManaged ==
  ASSUME Shape, NEW x \in Browsers, Kept(x),
         NEW p \in People, NEW Q \in SUBSET Portals, Managed(Q, p)
  PROVE  Kept(x)'
<1>1. ASSUME NEW q \in Portals, signedIn'[x][q]
      PROVE  LET k == cookie[x][q]
             IN k # NoOne /\ session'[q][k.who] = k /\ Valid(accounts', info', q, k.who, k.nonce)
  <2> DEFINE k == cookie[x][q]
  <2>1. signedIn[x][q] /\ ~(q \in Q /\ k # NoOne /\ k.who = p)
    BY <1>1 DEF Managed, Overtakes
  <2>2. k # NoOne /\ session[q][k.who] = k /\ Valid(accounts, info, q, k.who, k.nonce)
    BY <2>1 DEF Kept
  <2>3. Holder(q, k.who)
    <3>1. k \in Token
      BY <2>2 DEF Shape, TypeOK, Portals
    <3>2. q = "employee" => k.who # Default
      BY <2>2 DEF Shape, Stored
    <3> QED BY <3>1, <3>2 DEF Token, Tickets, Holder
  <2>4. Same(q, k.who)
    BY <2>1, <2>2, <2>3, ManagedEnds
  <2> HIDE DEF k
  <2> QED BY <2>2, <2>4 DEF Same, k
<1>2. cookie' = cookie
  BY DEF Managed
<1> QED BY <1>1, <1>2 DEF Kept

KeepInv ==
  /\ Shape /\ Moves
  /\ \A x \in Browsers : Fresh(emailOtp, accounts, info, session, req[x]) /\ Kept(x)

LEMMA KeepStep == KeepInv /\ [Next]_vars => KeepInv'
<1> SUFFICES ASSUME KeepInv, [Next]_vars
             PROVE  KeepInv'
  OBVIOUS
<1>1. Shape /\ Moves /\ Shape' /\ Moves'
  BY ShapeStep, MovesStep DEF KeepInv
<1>2. ASSUME NEW x \in Browsers
      PROVE  Fresh(emailOtp', accounts', info', session', req'[x])
  BY <1>1, FreshStep DEF KeepInv
<1>3. ASSUME NEW x \in Browsers
      PROVE  Kept(x)'
  <2>0. Kept(x)
    BY DEF KeepInv
  <2>1. CASE \E b \in Browsers : \E p, n : Idle(b) /\ Show(b, p, n) /\ Poses(b, p, n)
    <3>1. PICK b \in Browsers : \E p, n : Show(b, p, n) /\ Poses(b, p, n)
      BY <2>1
    <3>2. PICK p, n : Show(b, p, n) /\ Poses(b, p, n)
      BY <3>1
    <3> QED BY <1>1, <2>0, <3>2, KeptUser
  <2>2. CASE \E b \in Browsers, s \in Steps : Does(b, s)
    BY <1>1, <2>0, <2>2, KeptDoes
  <2>3. CASE \E b \in Browsers : Answer(b)
    BY <1>1, <2>0, <2>3, KeptAnswer DEF KeepInv
  <2>4. CASE FaultStep \/ Replicate
    BY <1>1, <2>0, <2>4, KeptFault
  <2>5. CASE UNCHANGED vars
    BY <2>0, <2>5 DEF vars, Kept
  <2>6. CASE \E p \in People, Q \in SUBSET Portals : Managed(Q, p)
    BY <1>1, <2>0, <2>6, KeptManaged
  <2> QED BY <1>1, <2>1, <2>2, <2>3, <2>4, <2>5, <2>6, StepsAre
<1> QED BY <1>1, <1>2, <1>3 DEF KeepInv

LEMMA KeepInit == Init => KeepInv
<1> SUFFICES ASSUME Init
             PROVE  KeepInv
  OBVIOUS
<1>1. ASSUME NEW x \in Browsers
      PROVE  req[x].kind = "me"
  <2>1. req[x] = Ask(cookie[x], "employee", "me", NoOne)
    BY OpenedPage DEF Init, Mount, PortalOf, AdminSide
  <2> QED BY <2>1 DEF Ask, NoRequest
<1>2. Shape
  BY ShapeInit
<1>3. Moves
  BY <1>1 DEF Moves, Migrating
<1>4. ASSUME NEW x \in Browsers
      PROVE  Fresh(emailOtp, accounts, info, session, req[x])
  <2>1. Knows(emailOtp, req[x]) /\ req[x].kind = "me"
    BY <1>1, <1>2 DEF Shape
  <2>2. Now(req[x]) \in {"Session", "Row", "done"}
    BY <2>1 DEF Knows, Underway, Script, Now
  <2> QED BY <2>1, <2>2 DEF Fresh, Enrolls, Stands, Enters
<1>5. ASSUME NEW x \in Browsers
      PROVE  Kept(x)
  BY <1>1 DEF Init, Kept
<1> QED BY <1>2, <1>3, <1>4, <1>5 DEF KeepInv

(* Whoever has signed in, or set up an account, stays signed in until      *)
(* someone signs in, signs out, sets up an account or enables the employee *)
(* portal for the same ticket, or an administrator deletes the employee or *)
(* removes the administrator, or the session runs out: no step about       *)
(* another ticket and no failed request ends it (get_current_user,         *)
(* require_admin).                                                         *)
THEOREM StaysSignedIn == Spec => []KeepsSignedIn
<1>1. KeepInv => KeepsSignedIn
  <2> SUFFICES ASSUME KeepInv, NEW b \in Browsers, NEW q \in Portals, signedIn[b][q]
               PROVE  LET k == cookie[b][q]
                      IN k # NoOne /\ session[q][k.who] = k /\ Accepted(q, k.who)
    BY DEF KeepsSignedIn
  <2>1. LET k == cookie[b][q]
        IN k # NoOne /\ session[q][k.who] = k /\ Valid(accounts, info, q, k.who, k.nonce)
    BY DEF KeepInv, Kept
  <2> QED BY <2>1 DEF Accepted, Valid
<1> QED BY <1>1, KeepInit, KeepStep, PTL DEF Spec

-----------------------------------------------------------------------------
(* The first read after a write.                                           *)

(* If whoever is signed in at browser b has an account, its set-up is      *)
(* still to be done.                                                       *)
Owing(b, q) ==
  signedIn[b][q] /\ (q = "admin" => cookie[b][q].who \in Admins(accounts))
    => q = "admin" /\ accounts.adm[cookie[b][q].who].must

(* A sign-in that goes on to the set-up owes it.                           *)
Charged(e, acc, r) ==
  r.kind \in {"login", "verify"} /\ r.portal = "admin" /\ r.who \in People /\ r.clean /\ r.flag
  /\ (Enrolls(r) \/ Stands(e, r))
    => acc.adm[r.who].must

(* Why a request of whom the cookie is about is turned away.               *)
TurnedAway(r) == \/ r.kind = "me" /\ r.lag /\ r.status \notin {"open", "ok", "error"}
                 \/ r.kind \in {"change", "enable"} /\ r.status = "401"

First(b) ==
  /\ page[b].bounced => Owing(b, PortalOf(page[b].at))
  /\ TurnedAway(req[b]) => Owing(b, req[b].portal)
  /\ req[b].kind \in {"resend", "forgot", "reset"} => req[b].status # "401"
  /\ Charged(emailOtp, accounts, req[b])

FirstInv == KeepInv /\ \A x \in Browsers : First(x)

(* A set-up is finished only by whoever ends the sessions of its account.  *)
LEMMA MustStays ==
  ASSUME Shape, Shape', NEW b \in Browsers, NEW s \in Steps, Does(b, s),
         NEW t \in People, accounts.adm[t] # NoOne
  PROVE  accounts'.adm[t].must = accounts.adm[t].must \/ Ended(b, "admin", t)
         \/ \E x \in Browsers : Migrating(req[x]) /\ req[x].ticket = t
<1>1. CASE s # "Commit" \/ CommitNothing(b)
  <2>1. accounts' = accounts
    BY <1>1, CommitsElse
  <2> QED BY <2>1, SMTT(60)
<1>2. CASE s = "Commit" /\ CommitPassword(b)
  BY <1>2, CommitPasswordShape
<1>3. CASE s = "Commit" /\ CommitPortal(b)
  BY <1>3, CommitPortalShape
<1>4. CASE s = "Commit" /\ CommitSetup(b)
  <2> DEFINE r == req[b]
             p == IF r.who = Default THEN r.ticket ELSE r.who
  <2>1. \A y \in People \ {p} : accounts'.adm[y] = accounts.adm[y]
    BY <1>4, CommitSetupWrites
  <2>2. CASE t # p
    <3> HIDE DEF p
    <3> QED BY <2>1, <2>2
  <2>3. CASE t = p /\ r.who # Default
    <3>1. \E n : Ending(b, n, "admin", t)
      BY <1>4, <2>3 DEF CommitSetup
    <3>2. "admin" \in Portals
      BY DEF Portals
    <3> HIDE DEF p, r
    <3> QED BY <3>1, <3>2, EndingEnds
  <2>4. CASE t = p /\ r.who = Default
    <3>1. Migrating(r)
      BY <1>4, <2>4 DEF CommitSetup, At, Now, Migrating
    <3> QED BY <2>4, <3>1
  <2> QED BY <2>2, <2>3, <2>4
<1> QED BY <1>1, <1>2, <1>3, <1>4 DEF Does

LEMMA OwingStays ==
  ASSUME KeepInv, Shape', NEW x \in Browsers, NEW q \in Portals, Owing(x, q),
         NEW b \in Browsers, NEW s \in Steps, Does(b, s)
  PROVE  Owing(x, q)'
<1> DEFINE k == cookie[x][q]
<1>1. Shape /\ Moves /\ Kept(x)
  BY DEF KeepInv
<1>2. cookie' = cookie
  BY <1>1, HandlerSteps DEF Handled
<1> SUFFICES ASSUME signedIn'[x][q], q = "admin" => k.who \in Admins(accounts')
             PROVE  q = "admin" /\ accounts'.adm[k.who].must
  BY <1>2 DEF Owing
<1>3. signedIn[x][q] /\ ~Ended(b, q, k.who)
  BY <1>1, StepsEnd DEF Ended, Kept
<1>4. Valid(accounts, info, q, k.who, k.nonce)
  BY <1>1, <1>3 DEF Kept
<1>5. q = "admin" => k.who \in People /\ k.who # Default
  BY DefaultAssumption DEF Admins
<1>6. q = "admin" => accounts.adm[k.who] # NoOne
  BY <1>4, <1>5 DEF Valid
<1>7. q = "admin" /\ accounts.adm[k.who].must
  BY <1>3, <1>5, <1>6 DEF Owing, Admins
<1>8. ~ \E y \in Browsers : Migrating(req[y]) /\ req[y].ticket = k.who
  BY <1>1, <1>6, <1>7 DEF Moves
<1> HIDE DEF k
<1> QED BY <1>1, <1>3, <1>5, <1>6, <1>7, <1>8, MustStays

LEMMA ChargedElsewhere ==
  ASSUME KeepInv, Shape', NEW b \in Browsers, NEW s \in Steps, Does(b, s), NEW x \in Browsers \ {b},
         Charged(emailOtp, accounts, req[x])
  PROVE  Charged(emailOtp', accounts', req'[x])
<1> DEFINE r == req[x]
           m == req'[x]
<1>1. Shape /\ Moves /\ Fresh(emailOtp, accounts, info, session, r)
  BY DEF KeepInv
<1>2. Turn(b, req'[b]) /\ emailOtp' = emailOtp
  BY <1>1, HandlerSteps DEF Handled
<1>3. /\ Sent(r, m) /\ Now(m) = Now(r) /\ m.who = r.who /\ m.status = r.status
      /\ m.flag = r.flag /\ (m.clean => r.clean)
  BY <1>1, <1>2, Elsewhere
<1>4. /\ m.kind = r.kind /\ m.portal = r.portal
      /\ Enrolls(m) = Enrolls(r) /\ Stands(emailOtp, m) = Stands(emailOtp, r)
  BY <1>3 DEF Sent, Enrolls, Stands, Enters
<1> SUFFICES ASSUME r.kind \in {"login", "verify"}, r.portal = "admin", r.who \in People, m.clean,
                    r.flag, Enrolls(r) \/ Stands(emailOtp, r)
             PROVE  accounts'.adm[r.who].must
  BY <1>2, <1>3, <1>4 DEF Charged
<1>5. r.clean /\ accounts.adm[r.who].must
  BY <1>3 DEF Charged
<1>6. accounts.adm[r.who] # NoOne
  BY <1>1, <1>5, DefaultAssumption DEF Fresh, Valid
<1>7. ~Ended(b, "admin", r.who)
  BY DEF Ended
<1>8. ~ \E y \in Browsers : Migrating(req[y]) /\ req[y].ticket = r.who
  BY <1>1, <1>6 DEF Moves
<1> HIDE DEF r, m
<1> QED BY <1>1, <1>5, <1>6, <1>7, <1>8, MustStays DEF r

LEMMA ChargedOwn ==
  ASSUME Shape, Shape', NEW b \in Browsers, NEW s \in Steps, Does(b, s),
         Charged(emailOtp, accounts, req[b])
  PROVE  Charged(emailOtp', accounts', req'[b])
<1> DEFINE r == req[b]
           n == req'[b]
<1>1. Handled(b, s, n)
  BY HandlerSteps
<1>2. /\ emailOtp' = emailOtp /\ Sent(r, n)
      /\ Place(emailOtp, r.kind, r.portal, r.who, s)
      /\ s \notin {"Row", "Password", "Account", "Insert"} /\ n.status \in {"open", "ok"} => n.flag = r.flag
  BY <1>1 DEF Handled, Errors
<1>3. /\ Enrolls(n) => \/ s \in {"Password", "Account"}
                       \/ s = "DropCode" /\ Enrolls(r)
                       \/ s = "Commit" /\ r.kind = "setup"
      /\ Stands(emailOtp, n) => \/ s = "Store" /\ Enrolls(r)
                                \/ s = "DropCode" /\ Stands(emailOtp, r)
                                \/ s = "DropDefault" /\ Stands(emailOtp, r) /\ r.who # Default
      /\ Enrolls(n) \/ Stands(emailOtp, n) => n.status \in {"open", "ok"}
      /\ s # "Commit" => n.who = r.who
      /\ n.portal = r.portal /\ n.clean = r.clean /\ n.kind = r.kind
  BY <1>1, <1>2, FreshFrom DEF Sent
<1>a. emailOtp' = emailOtp
  BY <1>2
<1> SUFFICES ASSUME n.kind \in {"login", "verify"}, n.portal = "admin", n.who \in People, n.clean,
                    n.flag, Enrolls(n) \/ Stands(emailOtp, n)
             PROVE  accounts'.adm[n.who].must
  BY <1>a DEF Charged
<1>4. s \in {"Password", "Account", "DropCode", "Store"} /\ n.who = r.who /\ n.who # Default
  <2>1. n.who # Default
    BY DefaultAssumption, SMTT(60)
  <2> HIDE DEF n, r
  <2> QED BY <1>2, <1>3, <2>1 DEF Place
<1>5. accounts' = accounts
  BY <1>4 DEF Does, CheckPassword, ReadAccount, DropCode, StoreSession, stores
<1>6. CASE s = "Password"
  <2>1. CheckPassword(b)
    BY <1>6 DEF Does
  <2>2. n.flag = accounts.adm[r.who].must
    BY <1>3, <1>4, <2>1, PasswordFinds
  <2> QED BY <1>4, <1>5, <2>2
<1>7. CASE s = "Account"
  <2>1. ReadAccount(b)
    BY <1>7 DEF Does
  <2>2. n.flag = accounts.adm[r.who].must
    BY <1>3, <1>4, <2>1, AccountFinds
  <2> QED BY <1>4, <1>5, <2>2
<1>8. CASE s \in {"DropCode", "Store"}
  <2>1. n.flag = r.flag /\ (Enrolls(r) \/ Stands(emailOtp, r))
    <3> HIDE DEF n, r
    <3> QED BY <1>2, <1>3, <1>8
  <2> QED BY <1>3, <1>4, <1>5, <2>1 DEF Charged
<1> QED BY <1>4, <1>6, <1>7, <1>8

(* Whoever is signed in, and is turned away, owes the set-up.              *)
LEMMA NoSessionLeft ==
  ASSUME KeepInv, NEW b \in Browsers,
         LET r == req[b]
         IN /\ r.kind \in {"me", "change", "enable"}
            /\ ~(r.token # NoOne /\ session[r.portal][r.who] = r.token)
  PROVE  ~signedIn[b][req[b].portal]
<1> DEFINE r == req[b]
           k == cookie[b][r.portal]
<1>1. /\ Kept(b) /\ r \in Request /\ Knows(emailOtp, r)
      /\ Matches(page[b], r, cookie[b])
  BY DEF KeepInv, Shape, TypeOK
<1>2. r.portal \in Portals /\ k \in {NoOne, r.token} /\ r.who = TokenWho(r)
  BY <1>1 DEF Request, Matches, Knows
<1> SUFFICES ASSUME signedIn[b][r.portal]
             PROVE  FALSE
  OBVIOUS
<1>3. k # NoOne /\ session[r.portal][k.who] = k
  BY <1>1, <1>2 DEF Kept
<1> HIDE DEF r, k
<1> QED BY <1>2, <1>3 DEF TokenWho, r

LEMMA RowTurnsAway ==
  ASSUME KeepInv, Shape', NEW b \in Browsers, CheckRow(b), TurnedAway(req'[b])
  PROVE  Owing(b, req[b].portal)
<1> DEFINE r == req[b]
           n == req'[b]
           q == r.portal
           k == cookie[b][q]
           v == CASE r.portal = "employee" -> EmployeeVerdict(r)
                  [] r.portal = "admin" /\ r.who = Default -> DefaultVerdict(r)
                  [] r.portal = "admin" /\ r.who # Default -> AdminVerdict(r)
           a == TablesFor(r).adm[r.who]
           e == TablesFor(r).emp[r.who]
<1>0. Shape /\ Kept(b)
  BY DEF KeepInv
<1>1. Does(b, "Row") /\ "Row" \in Steps /\ At(b, "Row")
  BY DEF Does, Steps, CheckRow
<1>2. Sent(r, n)
  <2>1. Handled(b, "Row", n)
    BY <1>0, <1>1, HandlerSteps
  <2> QED BY <2>1 DEF Handled
<1>3. /\ r \in Request /\ r.who \in Tickets /\ q \in Portals /\ Own(r)
      /\ r.kind \in {"me", "change", "enable"} /\ (r.kind = "enable" => q = "admin")
      /\ q = "employee" => r.who \in People
      /\ k \in {NoOne, r.token}
  <2>1. /\ r \in Request /\ Now(r) = "Row" /\ Knows(emailOtp, r)
        /\ Matches(page[b], r, cookie[b])
    BY <1>0, <1>1, Continue DEF Shape
  <2>2. r.kind \in {"me", "change", "enable"}
    BY <1>2 DEF TurnedAway, Sent
  <2> QED BY <2>1, <2>2 DEF Knows, Own, Matches, Request, Token
<1>4. /\ v \in Errors \cup {"ok"}
      /\ q = "employee" /\ v = "401" => e = NoOne \/ e.nonce # r.token.nonce
      /\ q = "employee" /\ r.kind = "me" => v \in {"ok", "401"}
      /\ q = "admin" /\ r.who # Default =>
           /\ v = "401" => a = NoOne \/ a.nonce # r.token.nonce
           /\ r.kind = "me" /\ v # "ok" => a = NoOne \/ a.nonce # r.token.nonce \/ a.must
      /\ r.kind # "me" \/ r.lag => TablesFor(r) = accounts
  <2> HIDE DEF r
  <2> QED BY <1>0, <1>3, Verdicts
<1>5. v = n.status /\ n.status \notin {"open", "ok"}
  <2>1. \E f : n = IF v = "ok" THEN [Past(r) EXCEPT !.flag = f] ELSE Refused(r, v)
    <3> DEFINE t == TablesFor(r)
               f == /\ r.portal = "admin" /\ r.who # Default /\ t.adm[r.who] # NoOne
                    /\ IF r.kind = "setup" THEN t.adm[r.who].must ELSE t.adm[r.who].portal
               m == IF v = "ok" THEN [Past(r) EXCEPT !.flag = f] ELSE Refused(r, v)
    <3>1. Proceed(b, m)
      BY DEF CheckRow
    <3> HIDE DEF m
    <3>2. n = m
      BY <3>1, Becomes
    <3> QED BY <3>2 DEF m
  <2>2. Refused(r, v).status = v
    BY <1>3 DEF Refused, Request
  <2>3. n.status \notin {"open", "ok"}
    BY DEF TurnedAway
  <2>4. \A f : [Past(r) EXCEPT !.flag = f].status \in {"open", "ok"}
    BY <1>3 DEF Past, Request
  <2> HIDE DEF v, n, r
  <2> QED BY <2>1, <2>2, <2>3, <2>4
<1>6. TablesFor(r) = accounts
  BY <1>2, <1>4, SMTT(60) DEF TurnedAway, Sent
<1> SUFFICES ASSUME signedIn[b][q], q = "admin" => k.who \in Admins(accounts)
             PROVE  q = "admin" /\ accounts.adm[k.who].must
  BY DEF Owing
<1>7. k = r.token /\ k.who = r.who /\ Valid(accounts, info, q, k.who, k.nonce)
  BY <1>0, <1>3 DEF Kept, Own
<1>8. q = "admin" => r.who \in People /\ r.who # Default
  BY <1>7, DefaultAssumption DEF Admins
<1>9. r.who \in People /\ r.who # Default
  BY <1>3, <1>8, DefaultAssumption DEF Portals
<1>10. /\ n.kind = r.kind /\ n.lag = r.lag
       /\ n.status = "401" \/ (r.kind = "me" /\ n.status # "ok")
  BY <1>2 DEF Sent, TurnedAway
<1>11. q \in {"employee", "admin"}
  BY <1>3 DEF Portals
<1>12. a = accounts.adm[r.who] /\ e = accounts.emp[r.who]
  BY <1>6
<1> HIDE DEF r, n, v, a, e, k, q
<1> QED BY <1>3, <1>4, <1>5, <1>7, <1>9, <1>10, <1>11, <1>12 DEF Valid

(* A commit does not say that somebody is signed out.                      *)
LEMMA CommitAnswers ==
  ASSUME Shape, Shape', NEW b \in Browsers, Does(b, "Commit"), req[b].kind # "setup"
  PROVE  req'[b].status # "401"
<1> DEFINE r == req[b]
<1>1. /\ r \in Request /\ Past(r).status \in {"open", "ok"} /\ "employee" \in Portals
      /\ \A st \in {"400", "error"} : Refused(r, st).status = st
  BY DEF Past, Refused, Request, Shape, TypeOK, Portals
<1>2. CASE CommitNothing(b)
  <2>1. \E st \in {"400", "error"} : Proceed(b, Refused(r, st))
    BY <1>2 DEF CommitNothing
  <2>2. \E st \in {"400", "error"} : req'[b] = Refused(r, st)
    BY <2>1, Becomes
  <2> QED BY <1>1, <2>2
<1>3. CASE CommitPassword(b) \/ CommitPortal(b)
  <2>1. Proceed(b, Past(r)) \/ Ending(b, Past(r), "employee", r.who)
    BY <1>3 DEF CommitPassword, CommitPortal
  <2>2. req'[b] = Past(r)
    BY <1>1, <2>1, Becomes
  <2> QED BY <1>1, <2>2
<1> QED BY <1>2, <1>3 DEF Does, CommitSetup

LEMMA TurnsAway ==
  ASSUME KeepInv, Shape', NEW b \in Browsers, NEW s \in Steps, Does(b, s)
  PROVE  /\ req'[b].portal = req[b].portal
         /\ TurnedAway(req'[b]) => Owing(b, req[b].portal)
         /\ req'[b].kind \in {"resend", "forgot", "reset"} => req'[b].status # "401"
<1> DEFINE r == req[b]
           n == req'[b]
<1>0. Shape
  BY DEF KeepInv
<1>1. Handled(b, s, n)
  BY <1>0, HandlerSteps
<1>2. /\ Sent(r, n) /\ Place(emailOtp, r.kind, r.portal, r.who, s)
      /\ (n.status \in Errors /\ s \in Gates) \/ n.status \in {"open", "ok"}
  BY <1>1 DEF Handled
<1>3. n.kind = r.kind /\ n.portal = r.portal /\ n.lag = r.lag
  BY <1>2 DEF Sent
<1>4. ASSUME TurnedAway(n)
      PROVE  s \in {"Session", "Row"} /\ r.kind \in {"me", "change", "enable"}
             /\ n.status \notin {"open", "ok"}
  <2>1. r.kind # "setup" /\ s = "Commit" => n.status # "401"
    BY <1>0, CommitAnswers
  <2> HIDE DEF r, n
  <2> QED BY <1>2, <1>3, <1>4, <2>1 DEF TurnedAway, Place, Gates
<1>5. ASSUME TurnedAway(n), s = "Session"
      PROVE  Owing(b, r.portal)
  <2>1. CheckSession(b)
    BY <1>5, SMTT(60) DEF Does
  <2>2. r \in Request /\ Past(r) \in Request /\ Past(r).status \in {"open", "ok"}
    <3>1. At(b, "Session")
      BY <2>1 DEF CheckSession
    <3>2. r \in Request /\ Past(r) \in Request
      BY <1>0, <3>1, Continue DEF Steps
    <3> QED BY <3>2 DEF Past, Request
  <2>3. CASE r.token # NoOne /\ session[r.portal][r.who] = r.token
    <3>1. Proceed(b, Past(r))
      BY <2>1, <2>3 DEF CheckSession
    <3>2. n = Past(r)
      BY <3>1, Becomes
    <3> QED BY <1>4, <1>5, <2>2, <3>2
  <2>4. CASE ~(r.token # NoOne /\ session[r.portal][r.who] = r.token)
    <3>1. ~signedIn[b][r.portal]
      BY <1>4, <1>5, <2>4, NoSessionLeft
    <3> QED BY <3>1 DEF Owing
  <2> QED BY <2>3, <2>4
<1>6. ASSUME TurnedAway(n), s = "Row"
      PROVE  Owing(b, r.portal)
  BY <1>6, RowTurnsAway DEF Does
<1>7. ASSUME n.kind \in {"resend", "forgot", "reset"}, n.status = "401"
      PROVE  FALSE
  <2>1. s \in {"Mail", "Code"}
    <3>1. r.kind # "setup" /\ s = "Commit" => n.status # "401"
      BY <1>0, CommitAnswers
    <3> HIDE DEF r, n
    <3> QED BY <1>2, <1>3, <1>7, <3>1 DEF Place, Gates
  <2>2. r \in Request /\ Past(r).status \in {"open", "ok"}
    BY <1>0 DEF Past, Request, Shape, TypeOK
  <2>3. Refused(r, "400").status = "400"
    BY <2>2 DEF Refused, Request
  <2>4. Proceed(b, Past(r)) \/ Proceed(b, Refused(r, "400"))
    BY <2>1 DEF Does, MailCode, CheckCode
  <2>5. n = Past(r) \/ n = Refused(r, "400")
    BY <2>4, Becomes
  <2> QED BY <1>7, <2>2, <2>3, <2>5
<1> QED BY <1>3, <1>4, <1>5, <1>6, <1>7

(* Nothing is known yet of a request that has just been sent.              *)
LEMMA NothingYet ==
  ASSUME NEW e, NEW acc, NEW n,
         n.kind # "none" => \E c, t : Posed(e, c, n.portal, n.kind, t, n)
  PROVE  /\ ~TurnedAway(n) /\ Charged(e, acc, n)
         /\ n.kind \in {"resend", "forgot", "reset"} => n.status # "401"
<1>1. CASE n.kind = "none"
  BY <1>1 DEF TurnedAway, Charged
<1>2. ASSUME n.kind # "none", NEW c, NEW t, Posed(e, c, n.portal, n.kind, t, n)
      PROVE  /\ n.kind # "logout" => n.status = "open"
             /\ n.status \in {"open", "ok"}
             /\ n.kind \in {"login", "verify"} => Now(n) \in {"SeedRead", "Password", "Code"}
  BY <1>2 DEF Posed, Start
<1>3. CASE n.kind # "none"
  <2>1. /\ n.kind # "logout" => n.status = "open"
        /\ n.status \in {"open", "ok"}
        /\ n.kind \in {"login", "verify"} => Now(n) \in {"SeedRead", "Password", "Code"}
    BY <1>2, <1>3
  <2> QED BY <2>1 DEF TurnedAway, Charged, Enrolls, Stands
<1> QED BY <1>1, <1>3

LEMMA FirstUser ==
  ASSUME Shape, NEW x \in Browsers, First(x),
         NEW b \in Browsers, NEW p, NEW n, Show(b, p, n), Poses(b, p, n)
  PROVE  First(x)'
<1>1. /\ accounts' = accounts /\ emailOtp' = emailOtp /\ cookie' = cookie /\ signedIn' = signedIn
      /\ req'[x] = IF x = b THEN n ELSE req[x]
      /\ page'[x] = IF x = b THEN p ELSE page[x]
  BY DEF Show, stores, Shape, TypeOK
<1>2. /\ n.kind # "none" => \E t : Posed(emailOtp, cookie[b], n.portal, n.kind, t, n)
      /\ p.bounced => page[b].bounced /\ PortalOf(p.at) = PortalOf(page[b].at)
  BY DEF Poses
<1>3. /\ ~TurnedAway(n) /\ Charged(emailOtp, accounts, n)
      /\ n.kind \in {"resend", "forgot", "reset"} => n.status # "401"
  BY <1>2, NothingYet
<1>4. \A q : Owing(x, q)' = Owing(x, q)
  BY <1>1 DEF Owing
<1> QED BY <1>1, <1>2, <1>3, <1>4 DEF First

LEMMA FirstDoes ==
  ASSUME KeepInv, Shape', NEW x \in Browsers, First(x),
         NEW b \in Browsers, NEW s \in Steps, Does(b, s)
  PROVE  First(x)'
<1>0. Shape
  BY DEF KeepInv
<1>1. Handled(b, s, req'[b])
  BY <1>0, HandlerSteps
<1>2. page' = page /\ Turn(b, req'[b])
  BY <1>1 DEF Handled
<1>3. page[x] \in Page /\ req[x] \in Request /\ PortalOf(page[x].at) \in Portals
  BY <1>0 DEF Shape, TypeOK, PortalOf, Portals
<1>4. req[x].portal \in Portals
  BY <1>3 DEF Request
<1>5. page'[x].bounced => Owing(x, PortalOf(page[x].at))'
  BY <1>2, <1>3, OwingStays DEF First
<1>6. /\ req'[x].portal = req[x].portal
      /\ TurnedAway(req'[x]) => Owing(x, req[x].portal)
      /\ req'[x].kind \in {"resend", "forgot", "reset"} => req'[x].status # "401"
      /\ Charged(emailOtp', accounts', req'[x])
  <2>1. CASE x = b
    BY <1>0, <2>1, TurnsAway, ChargedOwn DEF First
  <2>2. CASE x # b
    <3>1. Sent(req[x], req'[x]) /\ req'[x].status = req[x].status
      BY <1>0, <1>2, <2>2, Elsewhere
    <3>2. /\ req'[x].portal = req[x].portal /\ req'[x].kind = req[x].kind
          /\ req'[x].lag = req[x].lag
      BY <3>1 DEF Sent
    <3>3. Charged(emailOtp', accounts', req'[x])
      BY <2>2, ChargedElsewhere DEF First
    <3> QED BY <3>1, <3>2, <3>3 DEF First, TurnedAway
  <2> QED BY <2>1, <2>2
<1>7. TurnedAway(req'[x]) => Owing(x, req[x].portal)'
  BY <1>4, <1>6, OwingStays
<1> QED BY <1>2, <1>5, <1>6, <1>7 DEF First

LEMMA FirstFault ==
  ASSUME Shape, NEW x \in Browsers, First(x), FaultStep \/ Replicate
  PROVE  First(x)'
<1> DEFINE r == req[x]
           n == req'[x]
<1>1. /\ page' = page /\ accounts' = accounts /\ emailOtp' = emailOtp
      /\ n \in {r, [r EXCEPT !.clean = FALSE]} \/ n = Refused(r, "error")
  BY FaultsAre
<1>2. r \in Request /\ r.portal \in Portals /\ PortalOf(page[x].at) \in Portals
  BY DEF Shape, TypeOK, Request, PortalOf, Portals
<1>3. ASSUME NEW q \in Portals, Owing(x, q)
      PROVE  Owing(x, q)'
  <2>1. signedIn'[x][q] => signedIn[x][q] /\ cookie'[x][q] = cookie[x][q]
    BY FaultEnds
  <2> QED BY <1>1, <1>3, <2>1 DEF Owing
<1>4. /\ n.portal = r.portal
      /\ TurnedAway(n) => TurnedAway(r)
      /\ n.kind \in {"resend", "forgot", "reset"} => n.status # "401"
      /\ Charged(emailOtp, accounts, n)
  <2>1. CASE n = r
    BY <2>1 DEF First
  <2>2. CASE n = [r EXCEPT !.clean = FALSE]
    <3> HIDE DEF r, n
    <3>1. Sent(r, n) /\ n.status = r.status /\ ~n.clean
      BY <1>2, <2>2, Overtaken
    <3> QED BY <3>1 DEF First, TurnedAway, Charged, Sent, r
  <2>3. CASE n = Refused(r, "error")
    <3> HIDE DEF r, n
    <3>1. Sent(r, n) /\ n.status = "error" /\ Now(n) = "done"
      BY <1>2, <2>3, Refusal, SMTT(60) DEF Errors
    <3> QED BY <3>1 DEF TurnedAway, Charged, Sent, Enrolls, Stands
  <2> QED BY <1>1, <2>1, <2>2, <2>3
<1> QED BY <1>1, <1>2, <1>3, <1>4 DEF First

(* Whoever an answer sends away, or leaves where it has been sent away to, *)
(* owes the set-up if it is signed in after the answer.                    *)
LEMMA SentAway ==
  ASSUME KeepInv, NEW b \in Browsers, First(b), Answer(b), AnsweredPage(b).bounced,
         NEW w, w = PortalOf(AnsweredPage(b).at)
  PROVE  Owing(b, w)'
<1> DEFINE r == req[b]
           o == page[b]
           p == AnsweredPage(b)
           c == Cookies(b)
           in == r.status = "ok" /\ Enters(emailOtp, r)
           out == r.status = "ok" /\ r.kind = "logout"
           q == r.portal
           k == cookie[b][q]
<1>0. Shape /\ Kept(b)
  BY DEF KeepInv
<1>1. /\ r \in Request /\ r.status # "open" /\ accounts' = accounts /\ q \in Portals
      /\ cookie'[b] = c
      /\ signedIn'[b][q] = IF in THEN r.clean ELSE signedIn[b][q] /\ ~out
  <2>1. /\ r \in Request /\ r.status # "open" /\ cookie' = [cookie EXCEPT ![b] = c]
        /\ UNCHANGED stores
        /\ signedIn' = [signedIn EXCEPT ![b][q] = IF in THEN r.clean ELSE @ /\ ~out]
    BY <1>0, AnswerIs
  <2>2. /\ cookie \in [Browsers -> [employee : Token \cup {NoOne}, admin : Token \cup {NoOne},
                                    lag : BOOLEAN]]
        /\ signedIn \in [Browsers -> [Portals -> BOOLEAN]]
    BY <1>0 DEF Shape, TypeOK
  <2>3. q \in Portals
    BY <2>1 DEF Request
  <2>4. cookie'[b] = c /\ accounts' = accounts
    BY <2>1, <2>2 DEF stores
  <2> DEFINE v == IF in THEN r.clean ELSE signedIn[b][q] /\ ~out
  <2>a. signedIn' = [signedIn EXCEPT ![b] = [@ EXCEPT ![q] = v]]
    BY <2>1
  <2> HIDE DEF v, in, out, q, r
  <2>b. signedIn'[b][q] = v
    BY <2>2, <2>3, <2>a, Zenon
  <2>5. signedIn'[b][q] = IF in THEN r.clean ELSE signedIn[b][q] /\ ~out
    BY <2>b DEF v
  <2> QED BY <2>1, <2>3, <2>4, <2>5
<1>2. c[q] = IF r.status = "ok" /\ r.kind = "logout" THEN NoOne ELSE IF in THEN r.token ELSE k
  BY <1>0, CookiesIs
<1>3. /\ p.at = "setup" => ~(r.kind = "setup" /\ r.status = "ok")
      /\ \/ /\ o.bounced /\ PortalOf(p.at) = PortalOf(o.at)
            /\ r.kind \in {"login", "verify"} /\ in => r.flag
            /\ r.kind # "logout" => p.at = o.at \/ r.kind \in {"login", "verify"}
         \/ /\ r.lag /\ r.status \notin {"error", "ok"} /\ PortalOf(p.at) = q
            /\ r.kind = "me" \/ (r.status = "401" /\ o.at # "setup")
            /\ r.kind \in {"me", "resend", "forgot", "reset", "change", "setup", "enable"}
      /\ q = PortalOf(o.at)
  BY <1>0, AnsweredPageIs
<1>4. r.kind = "setup" => o.at = "setup"
  BY <1>0 DEF Shape, Matches
<1>5. /\ o.bounced => Owing(b, PortalOf(o.at))
      /\ TurnedAway(r) => Owing(b, q)
      /\ r.kind \in {"resend", "forgot", "reset"} => r.status # "401"
      /\ Charged(emailOtp, accounts, r)
  BY DEF First
<1>6. /\ in => r.token \in Token /\ r.token.who = r.who
      /\ r.portal = "employee" /\ r.kind \in {"login", "verify"} => ~r.flag
      /\ r.kind = "logout" => ~in
  <2>1. Knows(emailOtp, r)
    BY <1>0 DEF Shape
  <2> QED BY <1>0, <2>1, HolderOf DEF Stands, Knows, Enters
<1>7. w = q
  BY <1>3
<1>8. /\ ~in => Owing(b, q)
      /\ in => r.kind \in {"login", "verify"} /\ r.flag
  <2>1. in => r.status = "ok" /\ r.kind \in {"login", "verify", "setup"}
    BY DEF Enters
  <2> HIDE DEF r, o, p, in, q
  <2> QED BY <1>1, <1>3, <1>4, <1>5, <2>1 DEF TurnedAway
<1> SUFFICES ASSUME signedIn'[b][q], q = "admin" => c[q].who \in Admins(accounts)
             PROVE  q = "admin" /\ accounts.adm[c[q].who].must
  <2>1. /\ signedIn'[b][w] = signedIn'[b][q] /\ cookie'[b][w] = c[q] /\ accounts' = accounts
    BY <1>1, <1>7, SMTT(60)
  <2> HIDE DEF c
  <2> QED BY <1>7, <2>1 DEF Owing
<1>9. CASE ~in
  <2>1. signedIn[b][q] /\ ~out
    <3> HIDE DEF in, out
    <3> QED BY <1>1, <1>9
  <2>2. ~(r.status = "ok" /\ r.kind = "logout")
    BY <2>1
  <2>3. c[q] = k
    BY <1>2, <1>9, <2>2
  <2> QED BY <1>8, <1>9, <2>1, <2>3 DEF Owing
<1>10. CASE in
  <2>1. r.clean /\ r.flag /\ r.kind \in {"login", "verify"} /\ q = "admin" /\ c[q] = r.token
    <3>1. q \in {"employee", "admin"}
      BY <1>1 DEF Portals
    <3> HIDE DEF in, c
    <3> QED BY <1>1, <1>2, <1>6, <1>8, <1>10, <3>1
  <2>2. r.who \in People
    BY <1>6, <1>10, <2>1 DEF Admins
  <2>3. Stands(emailOtp, r)
    BY <1>10 DEF Stands
  <2>4. accounts.adm[r.who].must
    BY <1>5, <2>1, <2>2, <2>3 DEF Charged
  <2> HIDE DEF in, c
  <2> QED BY <1>6, <1>10, <2>1, <2>4
<1> QED BY <1>9, <1>10

LEMMA FirstAnswer ==
  ASSUME KeepInv, NEW x \in Browsers, First(x), NEW b \in Browsers, Answer(b)
  PROVE  First(x)'
<1> DEFINE n == AnsweredRequest(AnsweredPage(b), Cookies(b))
           v == IF req[b].status = "ok" /\ Enters(emailOtp, req[b]) THEN req[b].clean
                ELSE signedIn[b][req[b].portal] /\ ~(req[b].status = "ok" /\ req[b].kind = "logout")
<1>0. Shape
  BY DEF KeepInv
<1>1. /\ page' = [page EXCEPT ![b] = AnsweredPage(b)] /\ cookie' = [cookie EXCEPT ![b] = Cookies(b)]
      /\ req' = [req EXCEPT ![b] = n] /\ UNCHANGED stores
      /\ signedIn' = [signedIn EXCEPT ![b][req[b].portal] = v]
      /\ n.kind \in {"none", "me"}
      /\ n.kind # "none" => Posed(emailOtp, Cookies(b), n.portal, "me", NoOne, n)
  BY <1>0, AnswerIs
<1>2. /\ ~TurnedAway(n) /\ Charged(emailOtp, accounts, n)
      /\ n.kind \in {"resend", "forgot", "reset"} => n.status # "401"
  BY <1>1, NothingYet
<1>3. accounts' = accounts /\ emailOtp' = emailOtp
  BY <1>1 DEF stores
<1> HIDE DEF n, v
<1>4. CASE x = b
  <2>1. page'[b] = AnsweredPage(b) /\ req'[b] = n
    BY <1>0, <1>1 DEF Shape, TypeOK
  <2>2. ASSUME AnsweredPage(b).bounced, NEW w, w = PortalOf(AnsweredPage(b).at)
        PROVE  Owing(b, w)'
    BY <1>4, <2>2, SentAway
  <2> QED BY <1>2, <1>3, <1>4, <2>1, <2>2 DEF First
<1>5. CASE x # b
  <2>1. /\ page'[x] = page[x] /\ req'[x] = req[x] /\ cookie'[x] = cookie[x]
        /\ signedIn'[x] = signedIn[x]
    BY <1>0, <1>1, <1>5 DEF Shape, TypeOK
  <2>2. \A q : Owing(x, q)' = Owing(x, q)
    BY <1>3, <2>1 DEF Owing
  <2> QED BY <1>3, <2>1, <2>2 DEF First
<1> QED BY <1>4, <1>5

(* Rows that an administrator works on: whoever is signed in and owes the  *)
(* set-up owes it still, or has no row any more.                           *)
LEMMA FirstManaged ==
  ASSUME KeepInv, NEW x \in Browsers, First(x),
         NEW p \in People, NEW Q \in SUBSET Portals, Managed(Q, p)
  PROVE  First(x)'
<1> DEFINE r == req[x]
           n == req'[x]
<1>1. /\ emailOtp' = emailOtp /\ cookie' = cookie /\ page' = page /\ Overtakes(Q, p)
      /\ \A t \in People \ {p} : accounts'.adm[t] = accounts.adm[t]
      /\ "admin" \notin Q /\ accounts.adm[p] # NoOne => accounts'.adm[p] = accounts.adm[p]
      /\ \/ accounts'.adm[p] \in {accounts.adm[p], NoOne}
         \/ accounts.adm[p] = NoOne /\ accounts'.adm[p].must
  BY DEF Managed
<1>2. /\ n = r \/ n = [r EXCEPT !.clean = FALSE]
      /\ r.portal \in Q /\ r.who = p => ~n.clean
      /\ \A q \in Portals : signedIn'[x][q] => signedIn[x][q]
  BY <1>1 DEF Overtakes
<1>3. r \in Request /\ r.portal \in Portals /\ PortalOf(page[x].at) \in Portals
  BY DEF KeepInv, Shape, TypeOK, Request, PortalOf, Portals
<1>4. /\ Sent(r, n) /\ n.status = r.status /\ n.who = r.who /\ n.flag = r.flag
      /\ Now(n) = Now(r) /\ (n.clean => r.clean)
  <2> HIDE DEF r, n
  <2>1. /\ Sent(r, n) /\ n.status = r.status /\ n.who = r.who /\ n.flag = r.flag
        /\ n.todo = r.todo /\ (n.clean => r.clean)
    BY <1>2, <1>3 DEF Sent, Request
  <2> QED BY <2>1 DEF Now
<1>5. ASSUME NEW q \in Portals, Owing(x, q)
      PROVE  Owing(x, q)'
  <2> DEFINE t == cookie[x][q].who
  <2> SUFFICES ASSUME signedIn'[x][q], q = "admin" => t \in People /\ accounts'.adm[t] # NoOne
               PROVE  q = "admin" /\ accounts'.adm[t].must
    BY <1>1 DEF Owing, Admins
  <2>1. signedIn[x][q]
    BY <1>2
  <2>2. CASE q = "admin" => t \in People /\ accounts.adm[t] # NoOne
    <3>1. q = "admin" /\ accounts.adm[t].must
      BY <1>5, <2>1, <2>2 DEF Owing, Admins
    <3> HIDE DEF t
    <3> QED BY <1>1, <2>2, <3>1
  <2>3. CASE q = "admin" /\ t \in People /\ accounts.adm[t] = NoOne
    <3> HIDE DEF t
    <3> QED BY <1>1, <2>3
  <2> QED BY <2>2, <2>3
<1>6. TurnedAway(n) => TurnedAway(r)
  BY <1>4 DEF TurnedAway, Sent
<1>7. Charged(emailOtp, accounts', n)
  <2> SUFFICES ASSUME r.kind \in {"login", "verify"}, r.portal = "admin", r.who \in People, n.clean,
                      r.flag, Enrolls(r) \/ Stands(emailOtp, r)
               PROVE  accounts'.adm[r.who].must
    BY <1>4 DEF Charged, Sent, Enrolls, Stands, Enters
  <2>1. r.clean /\ accounts.adm[r.who].must
    BY <1>4 DEF First, Charged
  <2>2. accounts.adm[r.who] # NoOne
    BY <2>1, DefaultAssumption DEF KeepInv, Fresh, Valid
  <2> HIDE DEF r, n
  <2> QED BY <1>1, <1>2, <2>1, <2>2
<1>8. /\ page[x].bounced => Owing(x, PortalOf(page[x].at))
      /\ TurnedAway(r) => Owing(x, r.portal)
      /\ r.kind \in {"resend", "forgot", "reset"} => r.status # "401"
  BY DEF First
<1>9. n.portal = r.portal /\ n.kind = r.kind
  BY <1>4 DEF Sent
<1> HIDE DEF r
<1> QED BY <1>1, <1>3, <1>4, <1>5, <1>6, <1>7, <1>8, <1>9 DEF First

LEMMA FirstStep == FirstInv /\ [Next]_vars => FirstInv'
<1> SUFFICES ASSUME FirstInv, [Next]_vars
             PROVE  FirstInv'
  OBVIOUS
<1>1. KeepInv /\ KeepInv' /\ Shape /\ Shape'
  BY KeepStep DEF FirstInv, KeepInv
<1>2. ASSUME NEW x \in Browsers
      PROVE  First(x)'
  <2>0. First(x)
    BY DEF FirstInv
  <2>1. CASE \E b \in Browsers : \E p, n : Idle(b) /\ Show(b, p, n) /\ Poses(b, p, n)
    <3>1. PICK b \in Browsers : \E p, n : Show(b, p, n) /\ Poses(b, p, n)
      BY <2>1
    <3>2. PICK p, n : Show(b, p, n) /\ Poses(b, p, n)
      BY <3>1
    <3> QED BY <1>1, <2>0, <3>2, FirstUser
  <2>2. CASE \E b \in Browsers, s \in Steps : Does(b, s)
    BY <1>1, <2>0, <2>2, FirstDoes
  <2>3. CASE \E b \in Browsers : Answer(b)
    BY <1>1, <2>0, <2>3, FirstAnswer
  <2>4. CASE FaultStep \/ Replicate
    BY <1>1, <2>0, <2>4, FirstFault, SMTT(60)
  <2>5. CASE UNCHANGED vars
    BY <2>0, <2>5 DEF vars, First, Owing
  <2>6. CASE \E p \in People, Q \in SUBSET Portals : Managed(Q, p)
    BY <2>0, <2>6, FirstManaged DEF FirstInv
  <2> QED BY <1>1, <2>1, <2>2, <2>3, <2>4, <2>5, <2>6, StepsAre
<1> QED BY <1>1, <1>2 DEF FirstInv

LEMMA FirstInit == Init => FirstInv
<1> SUFFICES ASSUME Init
             PROVE  FirstInv
  OBVIOUS
<1>1. KeepInv
  BY KeepInit
<1>2. ASSUME NEW x \in Browsers
      PROVE  First(x)
  <2>1. req[x] = Ask(cookie[x], "employee", "me", NoOne)
    BY OpenedPage DEF Init, Mount, PortalOf, AdminSide
  <2>2. Posed(emailOtp, cookie[x], "employee", "me", NoOne, req[x])
    <3>1. /\ emailOtp \in BOOLEAN
          /\ cookie[x] \in [employee : Token \cup {NoOne}, admin : Token \cup {NoOne}, lag : BOOLEAN]
      BY <1>1 DEF KeepInv, Shape, TypeOK
    <3> QED BY <2>1, <3>1, Asked DEF Portals, Kinds
  <2>3. req[x].kind = "me" /\ req[x].portal = "employee"
    BY <2>2 DEF Posed
  <2>4. /\ ~TurnedAway(req[x]) /\ Charged(emailOtp, accounts, req[x])
        /\ req[x].kind \in {"resend", "forgot", "reset"} => req[x].status # "401"
    BY <2>2, <2>3, NothingYet
  <2>5. ~page[x].bounced
    BY DEF Init, Opened
  <2> QED BY <2>4, <2>5 DEF First
<1> QED BY <1>1, <1>2 DEF FirstInv

(* The first read after a write goes to the primary: a page that it sends  *)
(* away is not that of somebody who may stay, however far the replica lags *)
(* (db_routing_middleware, the route guards of both portals).              *)
THEOREM FirstReadOwn == Spec => []FirstReadIsOwn
<1>1. FirstInv => FirstReadIsOwn
  BY DEF FirstInv, First, Owing, FirstReadIsOwn
<1> QED BY <1>1, FirstInit, FirstStep, PTL DEF Spec
=============================================================================
