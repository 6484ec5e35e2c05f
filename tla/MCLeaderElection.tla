--------------------------- MODULE MCLeaderElection ---------------------------
(***************************************************************************)
(* LeaderElection on two pods, in ticks of five seconds: TTL 30 s, renewal   *)
(* every 10 s, retry and socket timeout 5 s.                                 *)
(***************************************************************************)
EXTENDS LeaderElection, TLC

Symmetry == Permutations(Pod)
=============================================================================
