--------------------------- MODULE MCDirectClient ---------------------------
(***************************************************************************)
(* Small instances of DirectClient.                                        *)
(***************************************************************************)
EXTENDS DirectClient, TLC

CONSTANTS r1, r2, b1, b2

MCRequests == {r1, r2}
MCBuilds == {b1, b2}

Symmetric == Permutations(MCRequests) \cup Permutations(MCBuilds)

=============================================================================
