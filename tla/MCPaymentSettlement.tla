------------------------ MODULE MCPaymentSettlement ------------------------
(***************************************************************************)
(* Small instances of PaymentSettlement.                                   *)
(***************************************************************************)
EXTENDS PaymentSettlement, TLC

CONSTANTS p1, u1, h1, h2, t1

MCPayment == {p1}
MCRef == {p1, u1}
MCHandler == {h1, h2}
MCTxn == {t1}

\* A paid and a declined payment, with a number, with one that is
\* 0 or empty, and without, an underpaid one and one reported with a
\* signature that does not verify.
Paid     == [valid |-> TRUE,  ok |-> TRUE,  exact |-> TRUE,  txn |-> t1]
PaidZero == [valid |-> TRUE,  ok |-> TRUE,  exact |-> TRUE,  txn |-> Blank]
Declined == [valid |-> TRUE,  ok |-> FALSE, exact |-> TRUE,  txn |-> NoTxn]
DeclinedZero == [valid |-> TRUE, ok |-> FALSE, exact |-> TRUE, txn |-> Blank]
Short    == [valid |-> TRUE,  ok |-> TRUE,  exact |-> FALSE, txn |-> t1]
Garbled  == [valid |-> FALSE, ok |-> TRUE,  exact |-> TRUE,  txn |-> t1]

AllOutcomes == {Paid, PaidZero, Declined, Short, Garbled}
Conflicting == {Paid, DeclinedZero, Short}
PaidOrDeclined == {Paid, Declined}

HandlerSymmetry == Permutations(MCHandler)
=============================================================================
