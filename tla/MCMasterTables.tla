--------------------------- MODULE MCMasterTables ---------------------------
(* MasterTables on small tables, with a bound on the clicks and the faults. *)
EXTENDS MasterTables

CONSTANTS MaxClicks, Codes

VARIABLE clicks

mcvars == <<clicks, vars>>

\* Two employees who are administrators, one row elsewhere, and two
\* locomotives.  Each page has loaded one of its tabs, and may have the form of
\* locomotive 1 open.
Small == [categories   |-> {[category_id |-> 1]},
          designations |-> {[designation_id |-> 1, category_id |-> 1]},
          employees    |-> {[ticket_number |-> i, designation_id |-> 1] : i \in Id},
          admins       |-> {[ticket_number |-> i] : i \in Id},
          types        |-> {[loco_type_id |-> 1]},
          locos        |-> {[loco_number |-> i, loco_type_id |-> 1, stage |-> 0,
                             despatched |-> FALSE] : i \in Id},
          jobs         |-> {[job_id |-> 1]}]

MCInit ==
    /\ clicks = 0
    /\ emailOtp \in Codes
    /\ table = Small
    /\ promo = {}
    /\ \E t \in [Page -> Tab], busy \in SUBSET (Wizard \union Yard) :
        /\ \A u \in Page : t[u] \in Tabs(u)
        /\ \A u \in busy : t[u] = "locos"
        /\ page = [u \in Page |->
                     [NewPage(t[u]) EXCEPT
                        !.items = Items(t[u]), !.loading = FALSE,
                        !.form = IF u \in busy THEN {r \in table["locos"] : r.loco_number = 1}
                                 ELSE None]]
    /\ loads = [u \in Page |-> {}]
    /\ act = [u \in Page |-> None]
    /\ tornLocos = {}
    /\ tornAdmins = FALSE
    /\ calm = [u \in Page |-> TRUE]

MCNext ==
    \/ clicks < MaxClicks /\ clicks' = clicks + 1 /\ (UserStep \/ FaultStep)
    \/ SystemStep /\ UNCHANGED clicks

MCSpec == MCInit /\ [][MCNext]_mcvars
=============================================================================
