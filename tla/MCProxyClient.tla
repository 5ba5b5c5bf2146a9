---------------------------- MODULE MCProxyClient ----------------------------
(***************************************************************************)
(* Small instances of ProxyClient.                                         *)
(***************************************************************************)
EXTENDS ProxyClient, TLC

CONSTANTS r1, r2, k1, k2, bad

TwoRequests == {r1, r2}

MCKeys == {k1, k2, bad}
MCUsableKeys == {k1, k2}

=============================================================================
