--------------------------- MODULE MCStaffBooking ---------------------------
(* Small instances of StaffBooking.                                        *)
EXTENDS StaffBooking, TLC

MCSymmetry == Permutations(Loco) \union Permutations(Slot) \union Permutations(Sup)
=============================================================================
