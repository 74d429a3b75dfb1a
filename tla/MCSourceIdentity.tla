---------------------------- MODULE MCSourceIdentity ----------------------------
(***************************************************************************)
(* source_identity in a checkout of one file whose user does as he likes.  *)
(* MCInputs checks the same module's invariants.                           *)
(***************************************************************************)
EXTENDS SourceIdentity

MCVersion == {<<1, 1>>, <<2>>}
===============================================================================
