------------------------- MODULE OneShotSettlement -------------------------
(***************************************************************************)
(* What the settlement of a payment ought to promise the other services:   *)
(* a payment is settled at most once, its result is never revised, and     *)
(* everything that is announced of it is one announcement, which tells     *)
(* that result.  The announcement may come in several copies, or be lost:  *)
(* settling and announcing are two steps with nothing that spans them.     *)
(***************************************************************************)
EXTENDS Naturals, Sequences

CONSTANTS
    Payment,    \* the payments
    Result,     \* the results a payment may be settled with
    Wording,    \* Wording[r]: the announcements that tell result r
    Unsettled   \* the value of result[p] before p is settled, not a Result

VARIABLES
    result,     \* result[p]: what p was settled with, or Unsettled
    announced   \* announced[p]: the announcements made of p, copies included

vars == <<result, announced>>

Init ==
    /\ result = [p \in Payment |-> Unsettled]
    /\ announced = [p \in Payment |-> << >>]

Settle(p) ==
    /\ result[p] = Unsettled
    /\ \E r \in Result : result' = [result EXCEPT ![p] = r]
    /\ UNCHANGED announced

\* The first announcement, or a copy of it.
Announce(p) ==
    /\ result[p] # Unsettled
    /\ \E a \in Wording[result[p]] :
          /\ \A i \in 1 .. Len(announced[p]) : announced[p][i] = a
          /\ announced' = [announced EXCEPT ![p] = Append(@, a)]
    /\ UNCHANGED result

Next == \E p \in Payment : Settle(p) \/ Announce(p)

Spec == Init /\ [][Next]_vars
=============================================================================
