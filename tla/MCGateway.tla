----------------------------- MODULE MCGateway ------------------------------
(***************************************************************************)
(* Two requests, so that one may see what another left behind, over the    *)
(* clusters, the token writes and the request kinds of the cfg.            *)
(***************************************************************************)
EXTENDS Gateway, TLC

CONSTANTS r1, r2, c1, c2

MCRequests == {r1, r2}
RequestSymmetry == Permutations(MCRequests) \cup Permutations({c1, c2})
=============================================================================
