--------------------------- MODULE MCLocoBookings ---------------------------
(* Small instances of LocoBookings, cut off after MaxCalls calls.          *)
EXTENDS LocoBookings, TLC

CONSTANT MaxCalls
ASSUME MaxCallsAssumption == MaxCalls \in Nat

VARIABLE calls

MCInit == Init /\ calls = 0

MCNext == calls < MaxCalls /\ calls' = calls + 1 /\ Next

MCSpec == MCInit /\ [][MCNext]_<<vars, calls>>

MCSymmetry == Permutations(Job)
=============================================================================
