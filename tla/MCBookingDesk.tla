--------------------------- MODULE MCBookingDesk ---------------------------
(* BookingDesk with one known locomotive, and a bound on the clicks, the    *)
(* faults and the acts of others.                                           *)
EXTENDS BookingDesk, TLC

CONSTANTS MaxClicks, Known, Job1, Job2

ASSUME KnownAssumption == Known \in Loco /\ {Job1, Job2} \subseteq Job

VARIABLE clicks

mcvars == <<clicks, vars>>

Rows(d, s, t, J, T) == {Booked([loco |-> Known, day |-> d, shift |-> s], t, j, T) : j \in J}

\* What may be stored when the page is opened: nothing; a booking of the day;
\* jobs carried into both shifts, the second of which has one booked by hand as
\* well; jobs carried into both shifts, and a booking of tomorrow.
Starts ==
    {{},
     Rows(0, 1, 1, {Job1}, Text),
     Rows(0, 1, 0, {Job2}, {}) \union Rows(0, 2, 0, {Job1}, {}) \union Rows(0, 2, 2, {Job2}, {}),
     Rows(0, 1, 0, {Job2}, {}) \union Rows(0, 2, 0, {Job1}, {}) \union Rows(1, 1, 1, {Job1}, {})}

\* The page is opened at one of its tabs and has loaded its list.
MCInit ==
    /\ clicks = 0
    /\ rows \in Starts
    /\ locos = (Known :> FALSE)
    /\ now = 3
    /\ \E tab \in {"booking", "list"}, l \in {None, Known} :
        /\ (tab = "list") => l = None
        /\ desk = Filled([NewDesk EXCEPT !.tab = tab, !.editMode = (tab = "list"), !.loco = l,
                                         !.list = {r \in rows : r.day = 0}, !.locos = locos])
    /\ loads = <<>>
    /\ call = None
    /\ touched = FALSE
    /\ calm = TRUE

MCNext ==
    \/ clicks < MaxClicks /\ clicks' = clicks + 1 /\ (FormStep \/ ListStep \/ OtherStep \/ FaultStep)
    \/ SystemStep /\ UNCHANGED clicks

MCSpec == MCInit /\ [][MCNext]_mcvars
=============================================================================
