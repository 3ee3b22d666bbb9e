--------------------------- MODULE MCAssessments ---------------------------
(* Small instances of Assessments, cut off after MaxClicks clicks or       *)
(* failures.                                                               *)
EXTENDS Assessments, TLC

CONSTANT MaxClicks
ASSUME MaxClicksAssumption == MaxClicks \in Nat

VARIABLE clicks

\* Everybody starts with one star for every job: stored for some, submitted
\* by the others, and all supervisors have loaded the list.
MCInit ==
    \E waiting \in SUBSET Staff :
        LET one == [j \in Job |-> 1]
            list == {[who |-> s, sheet |-> one] : s \in waiting}
        IN
        /\ pending = [s \in Staff |-> IF s \in waiting THEN one ELSE None]
        /\ ratings = [s \in Staff |-> IF s \in waiting THEN Blank ELSE one]
        /\ mine = [s \in Staff |-> IF s \in waiting
                      THEN [at |-> "idle", form |-> one, pend |-> one, appr |-> Blank]
                      ELSE Closed]
        /\ page = [u \in Supervisor |->
                      [NewPage EXCEPT !.reload = "idle", !.tab = "pending", !.list = list]]
        /\ loads = [u \in Supervisor |-> {}]
        /\ serve = [u \in Supervisor |-> None]
        /\ due = [s \in Staff |-> IF s \in waiting THEN "redis" ELSE None]
        /\ calm = [u \in Supervisor |-> TRUE]
        /\ clicks = 0

MCNext ==
    \/ clicks < MaxClicks /\ clicks' = clicks + 1 /\ (UserStep \/ FaultStep)
    \/ UNCHANGED clicks /\ SystemStep

MCSpec == MCInit /\ [][MCNext]_<<vars, clicks>>

MCSymmetry == Permutations(Staff) \union Permutations(Supervisor)
=============================================================================
