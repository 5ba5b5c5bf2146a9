--------------------------- MODULE MCCacheSecret ---------------------------
(***************************************************************************)
(* Small instances of CacheSecret: two processes with a client each; one   *)
(* client builds two requests at once.                                     *)
(***************************************************************************)
EXTENDS CacheSecret, TLC

CONSTANTS p1, p2, c1, c2, r1, r2, r3

MCProcesses == {p1, p2}
MCClients == {c1, c2}
MCRequests == {r1, r2, r3}
MCProcessOf == c1 :> p1 @@ c2 :> p2
MCClientOf == r1 :> c1 @@ r2 :> c1 @@ r3 :> c2

=============================================================================
