----------------------------- MODULE CrossCheck -----------------------------
(***************************************************************************)
(* The library and the conformance binary over the same evidence: whatever *)
(* bundle the client of Verifier has in hand is also given to the binary,  *)
(* in each of the forms it takes, by commands spelled in several ways.     *)
(***************************************************************************)
EXTENDS Verifier

CONSTANTS
  Files,      \* the files on disk: name to the digest of the contents
  Artifacts   \* artifacts as they can be given: text, hex, file_name

Tool == INSTANCE Conformance

-----------------------------------------------------------------------------
(* The bundle in hand, in the binary's forms. *)

Certified(whole) == whole.cert # NoCertificate

\* An envelope, with a certificate as newer bundles have it.
Enveloped(whole) ==
  LET envelope == [payload_type |-> whole.payload_type, payload |-> whole.payload,
                   signatures |-> whole.signatures]
  IN  IF Certified(whole)
      THEN [dsseEnvelope |-> envelope, certificate |-> whole.cert,
            timestamps |-> whole.timestamps, tlog_entries |-> whole.tlog_entries]
      ELSE [dsseEnvelope |-> envelope,
            timestamps |-> whole.timestamps, tlog_entries |-> whole.tlog_entries]

\* The same signed by somebody else too.
SignedTwice(whole) ==
  [Enveloped(whole) EXCEPT !.dsseEnvelope.signatures = @ \o <<Signed("another", SignedBy(Runs[1]))>>]

\* A message signature, with a certificate as older bundles have it.
Message(whole) ==
  LET message == [signature |-> whole.signatures[1], digest |-> whole.payload.subject[1].digest]
  IN  IF Certified(whole)
      THEN [messageSignature |-> message, x509CertificateChain |-> <<whole.cert>>,
            timestamps |-> whole.timestamps, tlog_entries |-> whole.tlog_entries]
      ELSE [messageSignature |-> message,
            timestamps |-> whole.timestamps, tlog_entries |-> whole.tlog_entries]

Forms(whole) == {Enveloped(whole), SignedTwice(whole), Message(whole)}

-----------------------------------------------------------------------------
(* Commands. *)

Given(artifact, identity, issuer, key) ==
  [artifact |-> artifact, identity |-> identity, issuer |-> issuer, key |-> key]

Actions == "https://token.actions.githubusercontent.com"

\* For the release's workflow, or with the key of some run.
Commands ==
  {Given(artifact, {[repository |-> Repo, ref |-> release.tag]}, {Actions}, {}) : artifact \in Artifacts}
  \cup {Given(artifact, {}, {}, {Runs[bundle.from["cert"]].key}) : artifact \in Artifacts}

Words(option, values) ==
  IF values = {} THEN << >> ELSE <<[option |-> option], [value |-> CHOOSE v \in values : TRUE]>>

\* The artifact is last, and the options come in any order.  An earlier value of
\* an option does not count.
Spelled(command) ==
  Words("--bundle", {"bundle.json"}) \o Words("--key", command.key)
    \o Words("--certificate-identity", command.identity)
    \o Words("--certificate-oidc-issuer", command.issuer) \o <<[value |-> command.artifact]>>

SpelledAgain(command) ==
  Words("--bundle", {"old.json"}) \o Words("--certificate-oidc-issuer", command.issuer)
    \o <<[option |-> "--staging"]>>
    \o (IF command.identity = {} THEN << >>
        ELSE Words("--certificate-identity", {[repository |-> "other", ref |-> "v1"]}))
    \o Words("--certificate-identity", command.identity) \o Words("--key", command.key)
    \o Words("--bundle", {"bundle.json"}) \o <<[value |-> command.artifact]>>

Spellings(command) == {Spelled(command), SpelledAgain(command)}

-----------------------------------------------------------------------------
\* What the artifact of a command is, for a run that signed it: a subject of the
\* statement it signed, or the artifact itself.
Signs(r, artifact) ==
  IF r.signs = "statement"
  THEN \E i \in DOMAIN r.statement.subject :
         LET subject == r.statement.subject[i] IN
         \/ {subject.digest} = Tool!resolve_artifact_sha256(artifact, Files)
         \/ artifact.hex = {} /\ subject.name \in {artifact.file_name, artifact.text}
  ELSE {r.statement.subject[1].digest} = Tool!resolve_artifact_sha256(artifact, Files)

\* The run was certified in time by an authority in service, and signed in time.
InTime(r) == /\ r.signed_at \in r.validity.from..r.validity.until
             /\ r.validity.from \in FulcioCas[r.ca].window.from..FulcioCas[r.ca].window.until

\* What the binary accepts is one signing event too, in every form and spelling:
\* some run signed this artifact, and its signature is the one that was logged,
\* with the expected identity's certificate in its time, or with the given key
\* (verify_bundle of bin/conformance.rs).
ToolAcceptsOneSigningEvent ==
  stage = "bundle" =>
    LET whole == Assemble(bundle) IN
    \A form \in Forms(whole), command \in Commands :
      Tool!verify_bundle(Spelled(command), form, Files) =>
        \E i \in DOMAIN Runs :
          LET r == Runs[i] IN
          /\ whole.signatures[1] = SignatureOf(r) /\ whole.tlog_entries[1].body = BodyOf(r)
          /\ Signs(r, command.artifact)
          /\ IF command.key # {} THEN ~r.certified /\ command.key = {r.key}
             ELSE /\ whole.cert = CertIn(r) /\ r.certified /\ InTime(r)
                  /\ command.identity = {r.extensions.build_signer}

\* The bundle is one run's, and somebody vouches for its time.
WholeRun(b) ==
  \E i \in DOMAIN Runs : /\ \A part \in Parts : b.from[part] = i
                         /\ b.stamped \/ (b.promised /\ Runs[i].version = "0.0.1")
                         /\ Runs[i].certified => InTime(Runs[i])

\* On what a release workflow's run leaves in the log - a dsse entry of the older
\* log, with a promise that is signed or none, or a hashedrekord entry of either -
\* with a statement of the kind the library expects, the two verifiers agree: for
\* the release's digest and workflow the binary accepts an envelope when
\* verify_repo does and not otherwise, but for the older log's time, which it also
\* wants within the certificate's validity when nobody vouches for it.  And a sound
\* signature of the artifact itself passes, with its certificate or its key
\* (bin/conformance.rs, sigstore/mod.rs).  Of other entries (dsse 0.0.2, intoto, a
\* promise without its signature) or statements the code's two rules differ, and
\* nothing is said here.
ToolAgreesWithTheLibrary ==
  stage = "bundle" =>
    LET whole == Assemble(bundle)
        entry == whole.tlog_entries[1]
        text == [text |-> "sha256:" \o release.digest, hex |-> {release.digest},
                 file_name |-> "sha256:" \o release.digest]
        certified == Given(text, {[repository |-> Repo, ref |-> release.tag]}, {Actions}, {})
        keyed == Given(text, {}, {}, {Runs[bundle.from["cert"]].key})
    IN
    /\ \A args \in Spellings(certified) :
         Tool!verify_bundle(args, Enveloped(whole), Files) <=>
           /\ verify_repo(whole, Repo, release)
           /\ entry.version = "0.0.1" => Within(entry.integrated_time, whole.cert.validity)
    /\ LET r == Runs[bundle.from["cert"]] IN
       (/\ WholeRun(bundle) /\ r.signs = "artifact"
        /\ r.statement.subject[1].digest = release.digest /\ r.tag = release.tag) =>
         \A args \in Spellings(IF r.certified THEN certified ELSE keyed) :
           Tool!verify_bundle(args, Message(whole), Files)
=============================================================================
