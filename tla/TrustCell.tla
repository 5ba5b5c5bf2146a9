------------------------------ MODULE TrustCell ------------------------------
(***************************************************************************)
(* What a proxied client promises about the key its bodies are sealed to,  *)
(* whatever threads share the channel:                                     *)
(*                                                                         *)
(*   - a body is sealed to the key trusted at that moment, or not at all;  *)
(*   - one trusted key never replaces another directly: trust is first     *)
(*     withdrawn, and every handle fails closed in between;                *)
(*   - trust is granted only to a key attested after the withdrawal.       *)
(***************************************************************************)
CONSTANTS Requests, Keys, None

VARIABLES
  trusted,   \* the key bodies are sealed to, None when closed
  evidence,  \* keys attested since trust was withdrawn
  sealed     \* the key each request's body in flight is sealed to

vars == <<trusted, evidence, sealed>>

Init ==
  /\ trusted \in Keys
  /\ evidence = {}
  /\ sealed = [r \in Requests |-> None]

Withdraw ==
  /\ trusted' = None
  /\ evidence' = {}
  /\ UNCHANGED sealed

Attest(key) ==
  /\ trusted = None
  /\ evidence' = {key}
  /\ UNCHANGED <<trusted, sealed>>

\* The body of r, if one is in flight, was turned down or r has given up.
Abandon(r) ==
  /\ sealed' = [sealed EXCEPT ![r] = None]
  /\ UNCHANGED <<trusted, evidence>>

Grant ==
  /\ trusted = None
  /\ trusted' \in evidence
  /\ evidence' = {}
  /\ UNCHANGED sealed

Seal(r) ==
  /\ trusted # None
  /\ sealed[r] = None
  /\ sealed' = [sealed EXCEPT ![r] = trusted]
  /\ UNCHANGED <<trusted, evidence>>

Next ==
  \/ Withdraw \/ Grant
  \/ \E key \in Keys : Attest(key)
  \/ \E r \in Requests : Seal(r) \/ Abandon(r)

Spec == Init /\ [][Next]_vars

=============================================================================
