---------------------------- MODULE MCReferences ----------------------------
(***************************************************************************)
(* A small instance of References: three milliseconds of a clock whose     *)
(* last digit repeats every two, and draws at their boundaries.            *)
(***************************************************************************)
EXTENDS References, TLC

CONSTANTS c1, c2, b1, b2

MCCall == {c1, c2}
MCBooking == {b1, b2}
MCClock == 2000..2002
MCFourDigits == {0, 10, 9999}
MCTwoDigits == {0, 1, 9, 10, 11, 99}
AnyCall == Permutations(Call) \cup Permutations(Booking)
=============================================================================
