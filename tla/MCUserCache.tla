---------------------------- MODULE MCUserCache -----------------------------
(***************************************************************************)
(* A small instance of UserCache: one listing after another, of up to      *)
(* three users.                                                            *)
(***************************************************************************)
EXTENDS UserCache, TLC

CONSTANTS u1, u2, u3, l1

MCUser == {u1, u2, u3}
MCListing == {l1}
=============================================================================
