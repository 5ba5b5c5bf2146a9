----------------------------- MODULE ProxyClient -----------------------------
(***************************************************************************)
(* A SecureClient in EHBP proxy mode, from its first successful verify()   *)
(* on: requests on clones of the transport run as in EhbpProxy, while the  *)
(* owner calls SecureClient::verify again (src/src/client.rs).  The only   *)
(* caller of the channel's administration is verify, and it takes          *)
(* refresh_lock first; &mut self keeps its calls apart, not the requests.  *)
(***************************************************************************)
EXTENDS EhbpProxy

VARIABLES
  verify,    \* where the verify() future is
  verified,  \* the HPKE key of the attestation verify() obtained
  pinned     \* is self.pinned_client set?

clientVars == <<verify, verified, pinned>>
allVars == <<channel, refresher, refreshLock, call, enclaveKey, adminCalls,
             verify, verified, pinned>>

VerifyStages ==
  {"idle", "lockwait", "locked", "attesting", "attested", "installed"}

ClientInit ==
  /\ Init
  /\ refresher  \* the state of a client whose first verify() succeeded
  /\ verify = "idle"
  /\ verified = None
  /\ pinned = TRUE

\* is_verified of a proxied client
IsVerified == pinned /\ VerifiedGroundTruth # None

-----------------------------------------------------------------------------
(* SecureClient::verify; MaxAdminCalls bounds how often it is called       *)

VerifyStart ==
  /\ verify = "idle"
  /\ AdminCall
  /\ verify' = "lockwait"
  /\ UNCHANGED <<channel, refresher, refreshLock, call, enclaveKey,
                 verified, pinned>>

\* the lock is not taken
VerifyLock_unlocked ==
  /\ verify = "lockwait"
  /\ verify' = "locked"
  /\ UNCHANGED <<channel, refresher, refreshLock, call, enclaveKey, adminCalls,
                 verified, pinned>>

VerifyLock ==
  /\ verify = "lockwait"
  /\ LockRefresh
  /\ verify' = "locked"
  /\ UNCHANGED <<verified, pinned>>

\* Prior trust is cleared before the first await under the lock.
VerifyClear ==
  /\ verify = "locked"
  /\ pinned' = FALSE
  /\ channel' = Clear(channel)
  /\ verify' = "attesting"
  /\ UNCHANGED <<refresher, refreshLock, call, enclaveKey, adminCalls, verified>>

\* verify_attestation fetches the document; its other checks follow.
VerifyFetch ==
  /\ verify = "attesting"
  /\ verify' = "attested"
  /\ verified' = enclaveKey
  /\ UNCHANGED <<channel, refresher, refreshLock, call, enclaveKey, adminCalls,
                 pinned>>

\* Any `?` after the lock, or the caller dropping the future at an await.
VerifyGivesUp ==
  /\ verify \in {"attesting", "attested"}
  /\ verify' = "idle"
  /\ verified' = None
  /\ DropGuard
  /\ UNCHANGED pinned

\* Dropped while waiting for the lock: nothing was cleared yet.
VerifyDropped ==
  /\ verify = "lockwait"
  /\ verify' = "idle"
  /\ UNCHANGED <<channel, refresher, refreshLock, call, enclaveKey, adminCalls,
                 verified, pinned>>

\* rekey instead of install_verified_state
VerifyInstall_keyOnly ==
  /\ verify = "attested"
  /\ verified \in UsableKeys
  /\ channel' = SetActive(channel, verified, None)
  /\ verify' = "installed"
  /\ UNCHANGED <<refresher, refreshLock, call, enclaveKey, adminCalls, verified,
                 pinned>>

\* install_verified_state on the existing proxy.
VerifyInstall ==
  /\ verify = "attested"
  /\ verified \in UsableKeys
  /\ channel' = SetActive(channel, verified, verified)
  /\ verify' = "installed"
  /\ UNCHANGED <<refresher, refreshLock, call, enclaveKey, adminCalls, verified,
                 pinned>>

\* The rest commits the pinned client and drops the guard on return.
VerifyReturn ==
  /\ verify = "installed"
  /\ verify' = "idle"
  /\ pinned' = TRUE
  /\ refresher' = TRUE
  /\ verified' = None
  /\ refreshLock' = Nobody
  /\ UNCHANGED <<channel, call, enclaveKey, adminCalls>>

Verify ==
  \/ VerifyStart \/ VerifyLock \/ VerifyClear \/ VerifyFetch \/ VerifyGivesUp
  \/ VerifyDropped \/ VerifyInstall \/ VerifyReturn

ClientNext ==
  \/ (\E r \in Requests : Request(r)) /\ UNCHANGED clientVars
  \/ RotateKey /\ UNCHANGED clientVars
  \/ Verify

ClientSpec == ClientInit /\ [][ClientNext]_allVars

\* As in EhbpProxy; verify() runs on to its next await, its attestation is
\* answered or fails, and it too has its turn at the lock.
ClientFairness ==
  /\ \A r \in Requests :
       /\ WF_allVars(Local(r) /\ UNCHANGED clientVars)
       /\ WF_allVars(Reply(r) /\ UNCHANGED clientVars)
       /\ SF_allVars(Lock(r) /\ UNCHANGED clientVars)
  /\ SF_allVars(VerifyLock)
  /\ WF_allVars(VerifyClear \/ VerifyFetch \/ VerifyGivesUp \/ VerifyInstall
                  \/ VerifyReturn)

FairClientSpec == ClientSpec /\ ClientFairness

-----------------------------------------------------------------------------
(* Properties                                                              *)

ClientTypeOK ==
  /\ TypeOK
  /\ verify \in VerifyStages
  /\ verified \in Keys \cup {None}
  /\ pinned \in BOOLEAN

\* verify() says that it clears prior trust "so a failure leaves the client
\* unverified".  From the revocation on, and once it has failed or been dropped,
\* the channel is closed to every clone until a verification succeeds: no
\* refresh under way, queued on the lock or begun later opens it again.
ClosedUntilVerified ==
  /\ (verify \in {"attesting", "attested"} \/ (~pinned /\ verify = "idle"))
       => channel.client = None /\ VerifiedGroundTruth = None
  /\ verify \in {"attesting", "attested"} => refreshLock = Holder

\* The ground truth verify() returns is the one its client then shows, and the
\* client then counts as verified: no request slips in to reject the new key.
VerifyReturnsTheCurrentState ==
  [][ (verify = "installed" /\ verify' = "idle")
        => IsVerified' /\ VerifiedGroundTruth' = verified ]_allVars

\* verify() returns: it is not starved of the lock by requests that refresh.
VerifyTerminates == (verify = "lockwait") ~> (verify = "idle")

\* What the channel promises at large is TrustCell.
InFlight(r) ==
  IF call[r].stage = "sent" THEN call[r].first
  ELSE IF call[r].stage = "resent" THEN call[r].second ELSE None

Evidence ==
  {call[r].fresh : r \in {q \in Requests : call[q].stage = "attested"}}
    \cup (IF verify = "attested" THEN {verified} ELSE {})

Trust ==
  INSTANCE TrustCell WITH
    trusted <- channel.client,
    evidence <- Evidence,
    sealed <- [r \in Requests |-> InFlight(r)]

\* Every step of the client is a step TrustCell allows: a body is sealed only
\* to the trusted key, keys are never swapped without closing in between, and
\* only a key attested while closed is trusted next.
ImplementsTrustCell == Trust!Spec

=============================================================================
