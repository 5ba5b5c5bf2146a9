----------------------------- MODULE DirectClient -----------------------------
(***************************************************************************)
(* A Client in direct mode (src/src/client.rs): Client::verify runs the    *)
(* attestation pipeline again while releases are published and the         *)
(* enclaves behind the host are replaced, and requests go out over the two *)
(* pinned transports that come of it: the one SecureClient keeps for the   *)
(* relaxed path and http_client(), and the one inside `openai`.            *)
(*                                                                         *)
(* A step is one answer from the network.  verify takes &mut self: no      *)
(* request starts while it runs, those that have a transport go on.        *)
(* An artifact stands for its digest and its measurement.  An enclave has  *)
(* a number; its TLS and HPKE keys and its attestation document are its    *)
(* own, so the number stands for them.                                     *)
(***************************************************************************)
EXTENDS Naturals, Sequences

CONSTANTS
  Requests,
  Builds,       \* distinguishes artifacts built for one release tag
  None,
  MaxReleases,  \* bound on published release tags
  MaxEnclaves,  \* bound on enclaves ever started
  MaxVerifies   \* bound on calls of Client::verify

ASSUME DirectAssumption ==
  /\ {MaxReleases, MaxEnclaves, MaxVerifies} \subseteq Nat \ {0}
  /\ None \notin Nat
  /\ None \notin [tag : Nat, build : Builds]

VARIABLES
  latest,        \* how many releases have been published
  image,         \* the artifact each enclave ever started runs
  live,          \* enclaves behind the host now
  measurement,   \* SecureClient::pinned_measurement
  verify,        \* the locals of the verify() future
  pinned,        \* SecureClient::pinned_client: the TLS key it pins
  groundTruth,   \* SecureClient::ground_truth
  openai,        \* Client::openai: the TLS key its transport pins
  request,       \* the transport each request uses
  delivered,     \* the enclave that got the request's body
  verifies

secureVars == <<measurement, pinned, groundTruth>>
worldVars == <<latest, image, live>>
vars == <<latest, image, live, measurement, verify, pinned, groundTruth, openai,
          request, delivered, verifies>>

Tags == 1..MaxReleases
Artifacts == [tag : Tags, build : Builds]
Published == {a \in Artifacts : a.tag <= latest}

GroundTruths ==
  [ releaseTag : Tags \cup {None}, digest : Artifacts \cup {None},
    codeMeasurement : Artifacts, tlsPublicKey : 1..MaxEnclaves ]

Stages == {"idle", "tag", "digest", "bundle", "doc", "binding"}

Idle ==
  [ stage |-> "idle", tag |-> None, digest |-> None, code |-> None, doc |-> None ]

-----------------------------------------------------------------------------
(* SecureClient::verify                                                    *)

\* Up to the first await: forget the trust of before.
VerifyStart ==
  /\ verify.stage = "idle"
  /\ verifies < MaxVerifies
  /\ verifies' = verifies + 1
  /\ pinned' = None
  /\ groundTruth' = None
  /\ verify' = IF measurement # None
               THEN [Idle EXCEPT !.stage = "doc", !.code = measurement]
               ELSE [Idle EXCEPT !.stage = "tag"]
  /\ UNCHANGED <<worldVars, measurement, openai, request, delivered>>

\* fetch_latest_tag: whatever release the mirror names as the latest one.  Nothing
\* in the client remembers the release of before, so the answer may be stale.
FetchTag ==
  /\ verify.stage = "tag"
  /\ \E tag \in 1..latest :
       verify' = [verify EXCEPT !.stage = "digest", !.tag = tag]
  /\ UNCHANGED <<worldVars, secureVars, openai, request, delivered, verifies>>

\* fetch_digest: whatever hash file the mirror has for the tag.
FetchDigest ==
  /\ verify.stage = "digest"
  /\ \E artifact \in Published :
       verify' = [verify EXCEPT !.stage = "bundle", !.digest = artifact]
  /\ UNCHANGED <<worldVars, secureVars, openai, request, delivered, verifies>>

\* verify_certificate_identity: the workflow ran on the tag that was fetched.
IdentityMatches(bundle) == bundle.tag = verify.tag

\* (Bug variants, named X_bug, stand before the definition X they would replace.)
DigestMatches_any(bundle) == TRUE

\* extract_measurement_from_bundle: the statement is about the digest.
DigestMatches(bundle) == bundle = verify.digest

\* fetch_attestation_bundle and the rest of verify_repo: the mirror may answer
\* with any bundle that GitHub Actions signed for the repository.
FetchBundle ==
  /\ verify.stage = "bundle"
  /\ \E bundle \in Published :
       /\ IdentityMatches(bundle)
       /\ DigestMatches(bundle)
       /\ verify' = [verify EXCEPT !.stage = "doc", !.code = bundle]
  /\ UNCHANGED <<worldVars, secureVars, openai, request, delivered, verifies>>

\* the measurements are not compared
FetchDoc_unmeasured ==
  /\ verify.stage = "doc"
  /\ \E e \in live : verify' = [verify EXCEPT !.stage = "binding", !.doc = e]
  /\ UNCHANGED <<worldVars, secureVars, openai, request, delivered, verifies>>

\* attestation::fetch and verify_full: any enclave behind the host answers.
\* The code's measurement must be the one its hardware reports.
FetchDoc ==
  /\ verify.stage = "doc"
  /\ \E e \in live :
       /\ image[e] = verify.code
       /\ verify' = [verify EXCEPT !.stage = "binding", !.doc = e]
  /\ UNCHANGED <<worldVars, secureVars, openai, request, delivered, verifies>>

\* verify_tls_binding: another connection, and perhaps another enclave.  The
\* certificate's key and both of its SAN values must be the document's.
BindingHolds(e) == e = verify.doc

\* Then verify commits; Client::verify rebuilds the OpenAI client on it.
BindAndCommit ==
  /\ verify.stage = "binding"
  /\ \E e \in live : BindingHolds(e)
  /\ pinned' = verify.doc
  /\ groundTruth' =
       [ releaseTag |-> verify.tag, digest |-> verify.digest,
         codeMeasurement |-> verify.code, tlsPublicKey |-> verify.doc ]
  /\ openai' = pinned'
  /\ verify' = Idle
  /\ UNCHANGED <<worldVars, measurement, request, delivered, verifies>>

\* Any check or fetch fails, or the caller drops the future at an await; `?`
\* leaves Client::verify before it touches the OpenAI client.
VerifyFails ==
  /\ verify.stage # "idle"
  /\ verify' = Idle
  /\ UNCHANGED <<worldVars, secureVars, openai, request, delivered, verifies>>

-----------------------------------------------------------------------------
(* Requests                                                                *)

\* Client::chat and the other async-openai methods, through Deref.
SendTyped(r) ==
  /\ verify.stage = "idle"
  /\ request[r] = None
  /\ request' = [request EXCEPT ![r] = openai]
  /\ UNCHANGED <<worldVars, secureVars, verify, openai, delivered, verifies>>

\* chat_relaxed via post_json, and http_client(): both need the pinned client.
SendPinned(r) ==
  /\ verify.stage = "idle"
  /\ request[r] = None
  /\ pinned # None
  /\ request' = [request EXCEPT ![r] = pinned]
  /\ UNCHANGED <<worldVars, secureVars, verify, openai, delivered, verifies>>

\* any certificate that the CAs vouch for will do
Deliver_unpinned(r) ==
  /\ request[r] # None
  /\ delivered[r] = None
  /\ \E e \in live : delivered' = [delivered EXCEPT ![r] = e]
  /\ UNCHANGED <<worldVars, secureVars, verify, openai, request, verifies>>

\* PinnedCertVerifier: the handshake succeeds with the pinned key only.
Deliver(r) ==
  /\ request[r] \in live
  /\ delivered[r] = None
  /\ delivered' = [delivered EXCEPT ![r] = request[r]]
  /\ UNCHANGED <<worldVars, secureVars, verify, openai, request, verifies>>

-----------------------------------------------------------------------------
(* The world                                                               *)

Release ==
  /\ latest < MaxReleases
  /\ latest' = latest + 1
  /\ UNCHANGED <<image, live, secureVars, verify, openai, request, delivered,
                 verifies>>

\* An enclave starts, on a released artifact or another, or one stops.
StartEnclave ==
  /\ Len(image) < MaxEnclaves
  /\ \E artifact \in Artifacts : image' = Append(image, artifact)
  /\ live' = live \cup {Len(image')}
  /\ UNCHANGED <<latest, secureVars, verify, openai, request, delivered, verifies>>

StopEnclave ==
  /\ \E e \in live : live' = live \ {e}
  /\ UNCHANGED <<latest, image, secureVars, verify, openai, request, delivered,
                 verifies>>

-----------------------------------------------------------------------------
(* A Client exists once a first verify() has succeeded (from_secure_client), *)
(* by Sigstore or, through with_measurement, by a measurement of the caller.  *)
Init ==
  /\ latest = 1
  /\ live = {1}
  /\ verify = Idle
  /\ pinned = 1
  /\ openai = 1
  /\ request = [r \in Requests |-> None]
  /\ delivered = [r \in Requests |-> None]
  /\ verifies = 0
  /\ \E code \in Artifacts :
       /\ image = <<code>>
       /\ \/ /\ measurement = code
             /\ groundTruth =
                  [ releaseTag |-> None, digest |-> None,
                    codeMeasurement |-> code, tlsPublicKey |-> 1 ]
          \/ /\ measurement = None
             /\ code.tag = latest
             /\ groundTruth =
                  [ releaseTag |-> latest, digest |-> code,
                    codeMeasurement |-> code, tlsPublicKey |-> 1 ]

Verify ==
  \/ VerifyStart \/ FetchTag \/ FetchDigest \/ FetchBundle \/ FetchDoc
  \/ BindAndCommit \/ VerifyFails

Next ==
  \/ Verify
  \/ \E r \in Requests : SendTyped(r) \/ SendPinned(r) \/ Deliver(r)
  \/ Release \/ StartEnclave \/ StopEnclave

Spec == Init /\ [][Next]_vars

-----------------------------------------------------------------------------
(* Properties                                                              *)

TypeOK ==
  /\ latest \in Tags
  /\ image \in Seq(Artifacts) /\ Len(image) \in 1..MaxEnclaves
  /\ live \subseteq 1..Len(image)
  /\ measurement \in Artifacts \cup {None}
  /\ verify \in
       [ stage : Stages, tag : Tags \cup {None},
         digest : Artifacts \cup {None}, code : Artifacts \cup {None},
         doc : 1..Len(image) \cup {None} ]
  /\ pinned \in 1..Len(image) \cup {None}
  /\ groundTruth \in GroundTruths \cup {None}
  /\ openai \in 1..Len(image)
  /\ request \in [Requests -> 1..Len(image) \cup {None}]
  /\ delivered \in [Requests -> 1..Len(image) \cup {None}]
  /\ \A r \in Requests : delivered[r] \in {None, request[r]}
  /\ verifies \in 0..MaxVerifies

\* Whatever is released, started or stopped in the course of a verification,
\* and however often it fails, a body reaches only an enclave that runs a
\* published artifact, or the one the caller's measurement names.
DeliveredToVerifiedCode ==
  \A r \in Requests :
    delivered[r] # None =>
      IF measurement = None THEN image[delivered[r]] \in Published
      ELSE image[delivered[r]] = measurement

\* The parts of a ground truth come from four answers at four times, and are
\* about one enclave: the pinned key's holder runs the code of the digest of
\* the release tag.  Between two verifications the typed and the relaxed path
\* both use that pin.
GroundTruthIsCoherent ==
  groundTruth # None =>
    /\ pinned = groundTruth.tlsPublicKey
    /\ verify.stage = "idle" => openai = pinned
    /\ image[pinned] = groundTruth.codeMeasurement
    /\ measurement = None =>
         /\ groundTruth.digest = groundTruth.codeMeasurement
         /\ groundTruth.codeMeasurement.tag = groundTruth.releaseTag

\* SecureClient::verify clears prior trust "so a failure leaves the client
\* unverified": no request starts on a client that is not verified.
UnverifiedClientSendsNothing ==
  [][ \A r \in Requests : request'[r] # request[r] => pinned # None ]_vars

=============================================================================
