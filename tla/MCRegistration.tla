-------------------------- MODULE MCRegistration --------------------------
(* Small instances of Registration, cut off after MaxClicks clicks,        *)
(* expiries or failures.                                                   *)
EXTENDS Registration, TLC

CONSTANT MaxClicks
ASSUME MaxClicksAssumption == MaxClicks \in Nat

VARIABLE clicks

\* Every manager has loaded the list.  It is empty, or some codes have open
\* requests, late or not, two of which may share a ticket number, and a
\* manager may have opened the dialog of one, which counts as two clicks.
MCInit ==
    /\ \E open \in SUBSET Code, t \in [Code -> Ticket], m \in [Code -> Mail],
          late \in SUBSET Code, sel \in [Admin -> Code \union {None}] :
        /\ late \subseteq open
        /\ \A u \in Admin : sel[u] \in open \union {None}
        /\ requests = [c \in Code |-> IF c \notin open THEN None ELSE
              [ticket |-> t[c], mail |-> m[c], status |-> "PENDING", late |-> c \in late,
               proof |-> m[c]]]
        /\ manager = [u \in Admin |-> [NewManager EXCEPT !.sel = sel[u], !.loading = FALSE,
              !.list = {[code |-> c, status |-> "PENDING"] : c \in open}]]
        /\ clicks = IF open = {} THEN 0 ELSE 2
    /\ emailOtp \in BOOLEAN
    /\ accounts = [x \in Ticket |-> None]
    /\ temp = [x \in Ticket |-> None]
    /\ otp = temp
    /\ desk = [a \in Applicant |-> NewDesk]
    /\ serve = [a \in Applicant |-> None]
    /\ loads = [u \in Admin |-> {}]
    /\ act = [u \in Admin |-> None]
    /\ mixed = {}
    /\ dropped = {}
    /\ calm = [u \in Admin |-> TRUE]

MCNext ==
    \/ clicks < MaxClicks /\ clicks' = clicks + 1 /\ (UserStep \/ FaultStep)
    \/ UNCHANGED clicks /\ SystemStep

MCSpec == MCInit /\ [][MCNext]_<<vars, clicks>>

MCSymmetry == Permutations(Applicant) \union Permutations(Ticket) \union Permutations(Mail)
                \union Permutations(Code) \union Permutations(Admin)
=============================================================================
