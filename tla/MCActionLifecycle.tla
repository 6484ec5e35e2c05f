--------------------------- MODULE MCActionLifecycle ---------------------------
(***************************************************************************)
(* Small instances of ActionLifecycle.  Actions, requests and pods are      *)
(* interchangeable; users too, since every user may play every part.        *)
(***************************************************************************)
EXTENDS ActionLifecycle, TLC

Symmetry == Permutations(Action) \cup Permutations(Request)
            \cup Permutations(Pod) \cup Permutations(User)
=============================================================================
