-------------------------- MODULE MCPaymentQueries --------------------------
(***************************************************************************)
(* A small instance of PaymentQueries: pages of one or two of three         *)
(* payments, and a limit that is refused.                                  *)
(***************************************************************************)
EXTENDS PaymentQueries, TLC

CONSTANTS p1, p2, p3

MCPayment == {p1, p2, p3}
MCLimits == {0, 1, 2}

AnyPayment == Permutations(Payment)
=============================================================================
