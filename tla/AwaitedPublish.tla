--------------------------- MODULE AwaitedPublish ---------------------------
(***************************************************************************)
(* What a caller may rely on when it awaits the publishing of an event.    *)
(* An emission that returns has put the event on the exchange, at least    *)
(* once, and no copy of it appears later: what the caller emits next comes *)
(* after it.  An emission that throws or dies with its process may have    *)
(* published the event or not.                                             *)
(***************************************************************************)
EXTENDS Naturals

CONSTANT Emission   \* the emissions

VARIABLES
    emit,       \* emit[e]: how far the emission is
    copies      \* copies[e]: how often its event was put on the exchange

vars == <<emit, copies>>

Init ==
    /\ emit = [e \in Emission |-> "idle"]
    /\ copies = [e \in Emission |-> 0]

Moves ==
    {<<"idle", "waiting">>, <<"idle", "thrown">>, <<"waiting", "returned">>,
     <<"waiting", "thrown">>, <<"waiting", "dead">>}

\* The event may appear while its emission is awaited, and only then.
Appear(e) ==
    copies'[e] # copies[e] => emit[e] = "waiting" /\ copies'[e] > copies[e]

Move(e) ==
    /\ emit'[e] # emit[e] => <<emit[e], emit'[e]>> \in Moves
    /\ emit'[e] = "returned" => copies[e] > 0

Next == \A e \in Emission : Appear(e) /\ Move(e)

Spec == Init /\ [][Next]_vars
=============================================================================
