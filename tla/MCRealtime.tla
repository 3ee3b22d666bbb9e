----------------------------- MODULE MCRealtime -----------------------------
(* Small instances of Realtime, cut off after MaxClicks clicks, notices or *)
(* faults.  Chat and notices share the containers only and are explored    *)
(* one at a time.                                                          *)
EXTENDS Realtime, TLC

CONSTANT MaxClicks
ASSUME MaxClicksAssumption == MaxClicks \in Nat

VARIABLES clicks, pages  \* the pages that are used

\* Some of the pages are connected.
MCInit ==
    /\ pages \in {Chatter, Viewer}
    /\ \E on \in [Page -> Container \union {None}], ws \in [Page -> Socket] :
        LET On == {p \in pages : on[p] # None}
            Of(s) == CHOOSE p \in On : ws[p] = s
            taken == {ws[p] : p \in On}
        IN
        /\ \A p, q \in On : ws[p] = ws[q] => p = q
        /\ history = <<>> /\ listening = Container
        /\ feed = [c \in Container |-> <<>>] /\ telling = [c \in Container |-> NoTale]
        /\ rows = <<>> /\ stream = <<>> /\ batch = [c \in Container |-> NoTale]
        /\ registry = [c \in Container |-> {ws[p] : p \in {q \in On : on[q] = c}}]
        /\ sock = [s \in Socket |-> IF s \notin taken THEN Unused ELSE
                      [Unused EXCEPT !.owner = Of(s), !.at = "idle", !.where = on[Of(s)]]]
        /\ up = [s \in Socket |-> <<>>] /\ wire = up
        /\ page = [p \in Page |-> IF p \notin On THEN NewPage ELSE
                      [NewPage EXCEPT !.ws = ws[p], !.at = "live"]]
        /\ unheard = {} /\ missed = [s \in Socket |-> {}]
        /\ clicks = 0

MCNext ==
    /\ \/ clicks < MaxClicks /\ clicks' = clicks + 1 /\ ((\E p \in pages : UserStep(p)) \/ FaultStep)
       \/ UNCHANGED clicks /\ SystemStep
    /\ UNCHANGED pages

MCSpec == MCInit /\ [][MCNext]_<<vars, clicks, pages>>

MCSymmetry == Permutations(Socket) \union Permutations(Container) \union Permutations(Chatter)
=============================================================================
