------------------------------ MODULE EhbpProxy ------------------------------
(***************************************************************************)
(* The EHBP proxy transport of src/src/ehbp_transport.rs: one sealing      *)
(* channel, shared by every clone of an EhbpProxy, that request futures    *)
(* read, reject and replace while other threads revoke it or install       *)
(* freshly attested keys.                                                  *)
(*                                                                         *)
(* A step is what one thread does between two points where another may     *)
(* interfere: an .await, or the release of the channel's RwLock.  The      *)
(* tokio mutex refresh_lock spans awaits and is a variable of its own.     *)
(*                                                                         *)
(* A sealing client is represented by the HPKE key it seals to, a ground   *)
(* truth by the HPKE key it vouches for.  The caller-operated proxy is     *)
(* free to claim a key mismatch or fail at any time; it can return a       *)
(* response that decrypts only when the body was sealed to the key the     *)
(* enclave holds.                                                          *)
(***************************************************************************)
EXTENDS Naturals

CONSTANTS
  Requests,      \* calls of EhbpTransport::call or EhbpProxy::send_replayable
  Bodyless,      \* those without a body that carry an Authorization header
  Keys,          \* HPKE public keys
  UsableKeys,    \* those tinfoil_ehbp::Client accepts
  None,          \* an Option that is None
  Nobody,        \* refresh_lock is free
  Holder,        \* a caller of lock_refresh
  MaxAdminCalls  \* bound on revoke, rekey, install_verified_state, set_refresher

ASSUME ProxyAssumption ==
  /\ Bodyless \subseteq Requests
  /\ UsableKeys \subseteq Keys
  /\ None \notin Keys
  /\ Nobody \notin Requests
  /\ Holder \notin Requests
  /\ Holder # Nobody
  /\ MaxAdminCalls \in Nat

VARIABLES
  channel,      \* EhbpChannel behind its RwLock
  refresher,    \* is a refresh function set?
  refreshLock,  \* who holds refresh_lock
  call,         \* the locals of each request future
  enclaveKey,   \* the key the enclave holds now (environment)
  adminCalls    \* administrative calls so far (bounded by MaxAdminCalls)

proxyVars == <<channel, refresher, refreshLock, call>>
vars == <<channel, refresher, refreshLock, call, enclaveKey, adminCalls>>

-----------------------------------------------------------------------------
(* EhbpChannel                                                             *)

\* `client`, `public_key`, `rejected_public_key`, `ground_truth`: an Option each.
EhbpChannel ==
  [ client : Keys \cup {None}, publicKey : Keys \cup {None},
    rejectedKey : Keys \cup {None}, groundTruth : Keys \cup {None},
    generation : Nat ]

\* Bug variants, named X_bug, stand before the definition X they would replace;
\* the properties below must notice each of them.

\* a ground truth survives the key it was about
SetActive_keepsTruth(c, key, truth) ==
  [ client |-> key, publicKey |-> key, rejectedKey |-> None,
    groundTruth |-> IF truth = None THEN c.groundTruth ELSE truth,
    generation |-> c.generation + 1 ]

\* EhbpChannel::set_active
SetActive(c, key, truth) ==
  [ client |-> key, publicKey |-> key, rejectedKey |-> None,
    groundTruth |-> truth, generation |-> c.generation + 1 ]

\* the generation counts the wrong way
Clear_countsDown(c) == [SetActive(c, None, None) EXCEPT !.generation = c.generation - 1]

\* EhbpChannel::clear
Clear(c) ==
  [ client |-> None, publicKey |-> None, rejectedKey |-> None,
    groundTruth |-> None, generation |-> c.generation + 1 ]

\* the client still seals
Reject_keepsClient(c) ==
  [Clear(c) EXCEPT !.rejectedKey = c.publicKey, !.client = c.client]

\* EhbpChannel::reject: the key outlives the clear as the rejected one.
Reject(c) == [Clear(c) EXCEPT !.rejectedKey = c.publicKey]

\* What EhbpProxy::new allocates before its first rekey.
EmptyChannel ==
  [ client |-> None, publicKey |-> None, rejectedKey |-> None,
    groundTruth |-> None, generation |-> 0 ]

\* EhbpProxy::verified_ground_truth: no ground truth without a client.
VerifiedGroundTruth ==
  IF channel.client = None THEN None ELSE channel.groundTruth

-----------------------------------------------------------------------------
(* The locals of a request future                                          *)

Settled == {"done", "failed", "dropped"}

\* Where refresh_after_mismatch holds the guard of refresh_lock.
Critical == {"locked", "rejected", "refreshing", "attested"}

Stages ==
  {"start", "seen", "sent", "lockwait", "retry", "resent"}
    \cup Critical \cup Settled

Locals ==
  [ stage : Stages,
    seen : Nat,                     \* generation read before the first send
    first : Keys \cup {None},       \* key the first attempt was sealed to
    second : Keys \cup {None},      \* key the replay was sealed to
    refreshGeneration : Nat,        \* generation right after the rejection
    fresh : Keys \cup {None} ]      \* key the refresh attested

Blank(stage) ==
  [ stage |-> stage, seen |-> 0, first |-> None, second |-> None,
    refreshGeneration |-> 0, fresh |-> None ]

\* The future is gone, its locals with it.
Finish(r, how) == call' = [call EXCEPT ![r] = Blank(how)]

\* Dropping the future, or leaving refresh_after_mismatch, drops its guard.
ReleaseGuard(r) ==
  refreshLock' = IF refreshLock = r THEN Nobody ELSE refreshLock

-----------------------------------------------------------------------------
(* A request: EhbpTransport::call and send_replayable                      *)

\* The generation is read before the body is sealed; the channel may move on
\* between this read lock and the one Send takes.
ReadGeneration(r) ==
  /\ call[r].stage = "start"
  /\ call' = [call EXCEPT ![r].stage = "seen", ![r].seen = channel.generation]
  /\ UNCHANGED <<channel, refresher, refreshLock, enclaveKey, adminCalls>>

\* Building the request from the factory can fail, before either attempt.
BuildFails(r) ==
  /\ call[r].stage \in {"start", "retry"}
  /\ Finish(r, "failed")
  /\ UNCHANGED <<channel, refresher, refreshLock, enclaveKey, adminCalls>>

\* EhbpProxy::send up to the first poll of execute: clone the sealing client.
SendRefused(r) ==
  /\ call[r].stage \in {"seen", "retry"}
  /\ r \in Bodyless \/ channel.client = None
  /\ Finish(r, "failed")
  /\ UNCHANGED <<channel, refresher, refreshLock, enclaveKey, adminCalls>>

Send(r) ==
  /\ call[r].stage = "seen"
  /\ r \notin Bodyless
  /\ channel.client # None
  /\ call' = [call EXCEPT ![r].stage = "sent", ![r].first = channel.client]
  /\ UNCHANGED <<channel, refresher, refreshLock, enclaveKey, adminCalls>>

Resend(r) ==
  /\ call[r].stage = "retry"
  /\ r \notin Bodyless
  /\ channel.client # None
  /\ call' = [call EXCEPT ![r].stage = "resent", ![r].second = channel.client]
  /\ UNCHANGED <<channel, refresher, refreshLock, enclaveKey, adminCalls>>

\* A response the client can decrypt came from the holder of the sealed key.
Answered(r) ==
  /\ \/ call[r].stage = "sent" /\ call[r].first = enclaveKey
     \/ call[r].stage = "resent" /\ call[r].second = enclaveKey
  /\ Finish(r, "done")
  /\ UNCHANGED <<channel, refresher, refreshLock, enclaveKey, adminCalls>>

\* Any other error of execute; on the replay, also a second key mismatch.
AttemptFails(r) ==
  /\ call[r].stage \in {"sent", "resent"}
  /\ Finish(r, "failed")
  /\ UNCHANGED <<channel, refresher, refreshLock, enclaveKey, adminCalls>>

\* the generation is read when the mismatch comes back
Mismatch_readsGeneration(r) ==
  /\ call[r].stage = "sent"
  /\ call' = [call EXCEPT ![r].stage = "lockwait", ![r].seen = channel.generation]
  /\ UNCHANGED <<channel, refresher, refreshLock, enclaveKey, adminCalls>>

\* retry_after_mismatch: the first attempt came back as EhbpKeyMismatch.
Mismatch(r) ==
  /\ call[r].stage = "sent"
  /\ call' = [call EXCEPT ![r].stage = "lockwait"]
  /\ UNCHANGED <<channel, refresher, refreshLock, enclaveKey, adminCalls>>

-----------------------------------------------------------------------------
(* refresh_after_mismatch                                                  *)

Lock(r) ==
  /\ call[r].stage = "lockwait"
  /\ refreshLock = Nobody
  /\ refreshLock' = r
  /\ call' = [call EXCEPT ![r].stage = "locked"]
  /\ UNCHANGED <<channel, refresher, enclaveKey, adminCalls>>

\* reject_if_generation, both outcomes, under one write lock.
RejectSeen(r) ==
  /\ call[r].stage = "locked"
  /\ channel.generation = call[r].seen
  /\ channel' = Reject(channel)
  /\ call' = [call EXCEPT ![r].stage = "rejected",
                          ![r].refreshGeneration = channel'.generation]
  /\ UNCHANGED <<refresher, refreshLock, enclaveKey, adminCalls>>

AlreadyReplaced(r) ==
  /\ call[r].stage = "locked"
  /\ channel.generation # call[r].seen
  /\ call' = [call EXCEPT ![r].stage = "retry"]
  /\ ReleaseGuard(r)
  /\ UNCHANGED <<channel, refresher, enclaveKey, adminCalls>>

StartRefresh(r) ==
  /\ call[r].stage = "rejected"
  /\ IF refresher
     THEN /\ call' = [call EXCEPT ![r].stage = "refreshing"]
          /\ UNCHANGED refreshLock
     ELSE Finish(r, "failed") /\ ReleaseGuard(r)
  /\ UNCHANGED <<channel, refresher, enclaveKey, adminCalls>>

\* The refresh fetches the attestation of the enclave as it is now; the rest
\* of its verification follows, and the enclave may change meanwhile.
FetchAttestation(r) ==
  /\ call[r].stage = "refreshing"
  /\ call' = [call EXCEPT ![r].stage = "attested", ![r].fresh = enclaveKey]
  /\ UNCHANGED <<channel, refresher, refreshLock, enclaveKey, adminCalls>>

\* a failed refresh puts the old key back, so that requests go on
RefreshFails_restores(r) ==
  /\ call[r].stage \in {"refreshing", "attested"}
  /\ Finish(r, "failed")
  /\ ReleaseGuard(r)
  /\ channel' = SetActive(channel, call[r].first, None)
  /\ UNCHANGED <<refresher, enclaveKey, adminCalls>>

\* refresh().await?: the channel stays rejected.
RefreshFails(r) ==
  /\ call[r].stage \in {"refreshing", "attested"}
  /\ Finish(r, "failed")
  /\ ReleaseGuard(r)
  /\ UNCHANGED <<channel, refresher, enclaveKey, adminCalls>>

\* a closed channel counts as the one the refresh closed
Overtaken_closed(r) == channel.client # None

\* Somebody installed, revoked or rejected a state since the rejection.
Overtaken(r) == channel.generation # call[r].refreshGeneration

\* The attestation brought back the key that the enclave turned down.
TurnedDown(r) == channel.rejectedKey = call[r].fresh

\* From the refresh's answer to the end: build the sealing client, then under
\* the write lock give way to a newer state, refuse the key just rejected, or
\* install the fresh one.
InstallRefreshed(r) ==
  LET fresh == call[r].fresh IN
  /\ call[r].stage = "attested"
  /\ \/ /\ fresh \notin UsableKeys
        /\ Finish(r, "failed")
        /\ UNCHANGED channel
     \/ /\ fresh \in UsableKeys
        /\ Overtaken(r)
        /\ call' = [call EXCEPT ![r].stage = "retry"]
        /\ UNCHANGED channel
     \/ /\ fresh \in UsableKeys
        /\ ~Overtaken(r)
        /\ TurnedDown(r)
        /\ Finish(r, "failed")
        /\ channel' = Clear(channel)
     \/ /\ fresh \in UsableKeys
        /\ ~Overtaken(r)
        /\ ~TurnedDown(r)
        /\ call' = [call EXCEPT ![r].stage = "retry"]
        /\ channel' = SetActive(channel, fresh, fresh)
  /\ ReleaseGuard(r)
  /\ UNCHANGED <<refresher, enclaveKey, adminCalls>>

\* the guard outlives the future
Drop_leaksGuard(r) ==
  /\ call[r].stage \in {"start", "sent", "lockwait", "refreshing", "attested",
                        "retry", "resent"}
  /\ Finish(r, "dropped")
  /\ UNCHANGED <<channel, refresher, refreshLock, enclaveKey, adminCalls>>

\* The caller drops the request future at one of its await points.
Drop(r) ==
  /\ call[r].stage \in {"start", "sent", "lockwait", "refreshing", "attested",
                        "retry", "resent"}
  /\ Finish(r, "dropped")
  /\ ReleaseGuard(r)
  /\ UNCHANGED <<channel, refresher, enclaveKey, adminCalls>>

-----------------------------------------------------------------------------
(* Administration: nothing in EhbpProxy asks its caller to hold the lock   *)

AdminCall ==
  /\ adminCalls < MaxAdminCalls
  /\ adminCalls' = adminCalls + 1

Revoke ==
  /\ AdminCall
  /\ channel' = Clear(channel)
  /\ UNCHANGED <<refresher, refreshLock, call, enclaveKey>>

\* install_state on a key the client rejects returns before any change.
Rekey(key) ==
  /\ AdminCall
  /\ key \in UsableKeys
  /\ channel' = SetActive(channel, key, None)
  /\ UNCHANGED <<refresher, refreshLock, call, enclaveKey>>

InstallVerifiedState(key) ==
  /\ AdminCall
  /\ key \in UsableKeys
  /\ channel' = SetActive(channel, key, key)
  /\ UNCHANGED <<refresher, refreshLock, call, enclaveKey>>

SetRefresher ==
  /\ AdminCall
  /\ refresher' = TRUE
  /\ UNCHANGED <<channel, refreshLock, call, enclaveKey>>

LockRefresh ==
  /\ refreshLock = Nobody
  /\ refreshLock' = Holder
  /\ UNCHANGED <<channel, refresher, call, enclaveKey, adminCalls>>

DropGuard ==
  /\ refreshLock = Holder
  /\ refreshLock' = Nobody
  /\ UNCHANGED <<channel, refresher, call, enclaveKey, adminCalls>>

\* The enclave restarts or is redeployed with another key.
RotateKey ==
  /\ enclaveKey' \in Keys \ {enclaveKey}
  /\ UNCHANGED <<channel, refresher, refreshLock, call, adminCalls>>

-----------------------------------------------------------------------------
(* EhbpProxy::new rekeys an empty channel; SecureClient::verify then installs *)
(* the verified state and sets the refresher before it hands clones out.      *)
Init ==
  /\ \E key \in UsableKeys, verified \in BOOLEAN :
       LET new == SetActive(EmptyChannel, key, None) IN
       /\ channel = IF verified THEN SetActive(new, key, key) ELSE new
       /\ refresher = verified
  /\ refreshLock = Nobody
  /\ call = [r \in Requests |-> Blank("start")]
  /\ enclaveKey \in Keys
  /\ adminCalls = 0

\* What the future itself computes between two awaits.
Local(r) ==
  \/ ReadGeneration(r) \/ SendRefused(r) \/ Send(r) \/ Resend(r)
  \/ RejectSeen(r) \/ AlreadyReplaced(r) \/ StartRefresh(r)
  \/ InstallRefreshed(r)

\* What the proxy and the enclave answer.
Reply(r) ==
  Answered(r) \/ AttemptFails(r) \/ Mismatch(r)
    \/ FetchAttestation(r) \/ RefreshFails(r)

Request(r) == Local(r) \/ Reply(r) \/ Lock(r) \/ BuildFails(r) \/ Drop(r)

Admin ==
  \/ Revoke
  \/ \E key \in Keys : Rekey(key) \/ InstallVerifiedState(key)
  \/ SetRefresher \/ LockRefresh \/ DropGuard

Next == (\E r \in Requests : Request(r)) \/ Admin \/ RotateKey

\* A polled future runs on to its next await; tokio's mutex serves its waiters
\* first come, first served; the network answers or fails; a guard is dropped.
Fairness ==
  /\ \A r \in Requests :
       WF_vars(Local(r)) /\ WF_vars(Reply(r)) /\ SF_vars(Lock(r))
  /\ WF_vars(DropGuard)

Spec == Init /\ [][Next]_vars

FairSpec == Spec /\ Fairness

-----------------------------------------------------------------------------
(* Properties                                                              *)

TypeOK ==
  /\ channel \in EhbpChannel
  /\ refresher \in BOOLEAN
  /\ refreshLock \in Requests \cup {Nobody, Holder}
  /\ call \in [Requests -> Locals]
  /\ enclaveKey \in Keys
  /\ adminCalls \in 0..MaxAdminCalls

\* refresh_lock serialises refreshes: a future is between lock().await and the
\* end of refresh_after_mismatch exactly when it holds the lock, however the
\* refreshes end: replaced, failed, without a refresher, or dropped.
OneRefreshAtATime ==
  \A r \in Requests : call[r].stage \in Critical <=> refreshLock = r

\* A mismatch is held against the key the body was sealed to and no other: if
\* reject_if_generation will take the channel down for r, the channel's key is
\* the one r's own first attempt used, whatever was installed meanwhile.
MismatchNamesTheChannel ==
  \A r \in Requests :
    (call[r].stage = "locked" /\ channel.generation = call[r].seen)
      => channel.client = call[r].first /\ channel.publicKey = call[r].first

\* While a refresh that nobody overtook is under way, the channel is closed,
\* has no ground truth to show, and remembers the key the refresh must not
\* bring back.
RejectedStateIsClosed ==
  \A r \in Requests :
    /\ call[r].stage \in {"rejected", "refreshing", "attested"}
    /\ channel.generation = call[r].refreshGeneration
    => /\ channel.client = None /\ channel.publicKey = None
       /\ VerifiedGroundTruth = None
       /\ channel.rejectedKey = call[r].first

\* A key and the ground truth shown for it are replaced together: no reader of
\* the channel sees a ground truth that vouches for another key.
GroundTruthMatchesKey ==
  /\ VerifiedGroundTruth \in {None, channel.client}
  /\ channel.client = None => channel.groundTruth = None

\* What a refresh writes at its end, it writes over the very state it left when it
\* rejected the key: a state that somebody installed, revoked or closed again
\* while the attestation was under way is neither overwritten nor reopened.  The
\* key it opens the channel with is not the one whose rejection caused it.
RefreshOnlyReopens ==
  [][ \A r \in Requests :
        (call[r].stage = "attested" /\ call'[r].stage # "attested" /\ channel' # channel) =>
          /\ channel.generation = call[r].refreshGeneration
          /\ channel.client = None /\ channel.rejectedKey = call[r].first
          /\ call'[r].stage = "retry" => channel'.client \notin {call[r].first, None} ]_vars

\* A channel that was closed stays closed, however the refresh ends that was to
\* open it again and whatever becomes of its future: only a caller that brings a
\* key opens it, or the refresh that closed it, with the key it attested.
ClosedUntilFreshTrust ==
  [][ (channel.client = None /\ channel'.client # None) =>
        \/ adminCalls' > adminCalls
        \/ \E r \in Requests :
             /\ call[r].stage = "attested" /\ call'[r].stage = "retry"
             /\ channel.generation = call[r].refreshGeneration
             /\ channel'.client = call[r].fresh
             /\ channel'.groundTruth = call[r].fresh ]_vars

\* A generation names one channel state for good.
GenerationNamesTheState ==
  [][ channel' # channel => channel'.generation > channel.generation ]_vars

\* A request that has sent its body settles: it never waits for ever on the
\* refresh lock, on a refresh that was dropped, or on the replay.
SentRequestsSettle ==
  \A r \in Requests : call[r].stage = "sent" ~> call[r].stage \in Settled

\* The name of a test says that a key mismatch "does not replay without an
\* attested key change".
NoReplayUnderTheSameKey ==
  \A r \in Requests : call[r].stage = "resent" => call[r].second # call[r].first

=============================================================================
