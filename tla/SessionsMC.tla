----------------------------- MODULE SessionsMC -----------------------------
(***************************************************************************)
(* Sessions with a few workers and ids for TLC; the .cfg files give every  *)
(* constant a model value or a number.                                     *)
(***************************************************************************)
EXTENDS Sessions, TLC

=============================================================================
