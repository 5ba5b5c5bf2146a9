---------------------------- MODULE MCEhbpProxy ----------------------------
(***************************************************************************)
(* Small instances of EhbpProxy.                                           *)
(***************************************************************************)
EXTENDS EhbpProxy, TLC

CONSTANTS r1, r2, r3, k1, k2, bad

TwoRequests == {r1, r2}
ThreeRequests == {r1, r2, r3}

MCKeys == {k1, k2, bad}
MCUsableKeys == {k1, k2}

\* Safety only: symmetry would make TLC's liveness check unsound.
Symmetric == Permutations(Requests \ Bodyless) \cup Permutations(UsableKeys)

=============================================================================
