---------------------------- MODULE MCAlertEngine -----------------------------
(***************************************************************************)
(* AlertEngine on one or two pods with one or two rules.                     *)
(***************************************************************************)
EXTENDS AlertEngine, TLC

Symmetry == Permutations(Pod)
=============================================================================
