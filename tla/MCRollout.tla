----------------------------- MODULE MCRollout -----------------------------
(* Two versions of one port, each tagged at one of two sources. *)
EXTENDS Rollout, TLC

CONSTANTS v1, v2, c1, c2

Symmetry == Permutations({v1, v2}) \cup Permutations({c1, c2})
=============================================================================
