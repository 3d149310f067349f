-------------------------- MODULE MCEventProducer ---------------------------
(***************************************************************************)
(* Small instances of EventProducer.                                       *)
(***************************************************************************)
EXTENDS EventProducer, TLC

CONSTANTS e1, e2, b1

MCPaymentEmission == {e1, e2}
MCBookingEmission == {b1}
=============================================================================
