---------------------------- MODULE MCSignatures ----------------------------
(***************************************************************************)
(* A small instance of Signatures: three keys, two texts.                  *)
(***************************************************************************)
EXTENDS Signatures

MCText == {"a", "b"}
=============================================================================
