----------------------------- MODULE Conformance -----------------------------
(***************************************************************************)
(* The conformance binary (bin/conformance.rs): a command line verifier of *)
(* bundles that shares the library's parts, but not its order of checks    *)
(* nor all of its rules.  Besides envelopes it takes message signatures,   *)
(* and besides certificates a key.  Nothing is kept between commands.      *)
(*                                                                         *)
(* A bundle is a record with the fields its JSON has.  A part that may be  *)
(* missing is a set of at most one.  A word of the command line is an      *)
(* option's name or a value.  --trusted-root names the trust root of the   *)
(* constants, as its default does.                                         *)
(***************************************************************************)
EXTENDS Integers, Sequences, FiniteSets

CONSTANTS FulcioCas, CtLogs, RekorKeys, TimestampAuthorities, MaxTimestamps

Library == INSTANCE Provenance

Has(bundle, field) == field \in DOMAIN bundle

-----------------------------------------------------------------------------
(* Arguments. *)

Valued == {"--bundle", "--certificate-identity", "--certificate-oidc-issuer", "--key",
           "--trusted-root"}

IsOption(word) == "option" \in DOMAIN word
TakesValue(word) == IsOption(word) /\ word.option \in Valued

\* Where the n-th argument begins, if an option and its value are one.
Begins(args) ==
  LET begins[n \in Nat \ {0}] ==
        IF n = 1 THEN 1
        ELSE LET at == begins[n - 1]
             IN  IF at <= Len(args) /\ TakesValue(args[at]) THEN at + 2 ELSE at + 1
  IN  begins

\* Options up to the first word that is none, which is the artifact; whatever
\* comes after it is not looked at.  Of an option given twice the last one holds.
parse_verify_args(args) ==
  LET at == Begins(args)
      Known(n) ==
        /\ at[n] <= Len(args)
        /\ \/ args[at[n]] = [option |-> "--staging"]
           \/ TakesValue(args[at[n]]) /\ at[n] < Len(args)
      stop == CHOOSE n \in 1..(Len(args) + 1) : ~Known(n) /\ \A m \in 1..(n - 1) : Known(m)
      places(option) == {n \in 1..(stop - 1) : args[at[n]].option = option}
      value(option) == {args[at[n] + 1] : n \in {n \in places(option) : \A m \in places(option) : m <= n}}
  IN  IF at[stop] > Len(args) \/ IsOption(args[at[stop]]) \/ value("--bundle") = {} THEN {}
      ELSE {[certificate_identity |-> value("--certificate-identity"),
             certificate_oidc_issuer |-> value("--certificate-oidc-issuer"),
             key |-> value("--key"), artifact |-> args[at[stop]].value]}

\* The digest that was given, unless a file has that name, or else the file's.
resolve_artifact_sha256(artifact, files) ==
  IF artifact.text \in DOMAIN files THEN {files[artifact.text]} ELSE artifact.hex

-----------------------------------------------------------------------------
(* Signatures. *)

\* The newer form of a bundle has one certificate, the older one a chain.
extract_leaf_cert_der(bundle) ==
  IF Has(bundle, "certificate") THEN {bundle.certificate}
  ELSE IF Has(bundle, "x509CertificateChain") /\ bundle.x509CertificateChain # <<>>
       THEN {bundle.x509CertificateChain[1]} ELSE {}

\* The certificate's key if there is a certificate, or else the one that was given.
get_verifying_key_info(cert, key) ==
  IF cert # {} THEN {c.key : c \in cert} ELSE {word.value : word \in key}

verify_message_signature(bundle, cert, key) ==
  \E k \in get_verifying_key_info(cert, key) :
    bundle.messageSignature.signature = Library!Signed(k, [message |-> bundle.messageSignature.digest])

\* The first signature is verified; unlike in the library there may be others.
verify_dsse_signature(bundle, cert, key) ==
  LET envelope == bundle.dsseEnvelope IN
  /\ envelope.signatures # <<>>
  /\ \E k \in get_verifying_key_info(cert, key) :
       envelope.signatures[1] =
         Library!Signed(k, Library!compute_pae(envelope.payload_type, envelope.payload))

-----------------------------------------------------------------------------
(* The certificate. *)

verify_cert_san(cert, identity) ==
  \E name \in cert.san : name.type \in {"uri", "email"} /\ identity = [value |-> name.name]

\* The first issuer extension in the certificate, in which Fulcio writes the
\* older version first: the other way round than the library.
verify_cert_oidc_issuer(cert, issuer) ==
  \E value \in Library!extension(cert, "issuer_v1", "issuer_v2") : issuer = [value |-> value]

verify_scts(cert) == Library!issuers(cert) # {} /\ Library!verify_sct(cert)

\* The authority that issued the certificate is trusted as it is: unlike in the
\* library its own chain is not looked at.
verify_fulcio_chain(cert) ==
  \E i \in DOMAIN FulcioCas :
    /\ Library!Within(cert.validity.from, FulcioCas[i].window)
    /\ FulcioCas[i].chain # <<>>
    /\ Library!verify_issued_by(cert, FulcioCas[i].chain[1])

verify_certificate(cert, vargs) ==
  /\ \A identity \in vargs.certificate_identity : verify_cert_san(cert, identity)
  /\ \A issuer \in vargs.certificate_oidc_issuer : verify_cert_oidc_issuer(cert, issuer)
  /\ Library!validate_certificate_extensions(cert)
  /\ verify_scts(cert)
  /\ verify_fulcio_chain(cert)

-----------------------------------------------------------------------------
(* The log's entry. *)

BundleSignature(bundle) ==
  IF Has(bundle, "dsseEnvelope") THEN bundle.dsseEnvelope.signatures[1]
                                 ELSE bundle.messageSignature.signature

IsRekorV2(entry) == entry.version = "0.0.2" /\ entry.kind # "intoto"

\* Only the older log promises, and with that vouches for its time.
Promised(entry) == ~IsRekorV2(entry) /\ Library!HasSet(entry)

TsaTimes(bundle) ==
  Library!verify_timestamps([timestamps |-> bundle.timestamps,
                             signatures |-> <<BundleSignature(bundle)>>])

\* A mistake: only time stamps are compared with the certificate's validity.
verify_times_stampsOnly(bundle, entry, cert) ==
  /\ Len(bundle.timestamps) <= MaxTimestamps
  /\ Promised(entry) \/ TsaTimes(bundle) # {}
  /\ \A c \in cert, time \in TsaTimes(bundle) : Library!Within(time, c.validity)

\* An entry of the older log has its time within the certificate's validity, also
\* when nobody vouches for it; time stamps have to be, and stand in for a promise.
verify_times(bundle, entry, cert) ==
  /\ ~IsRekorV2(entry) => \A c \in cert : Library!Within(entry.integrated_time, c.validity)
  /\ Len(bundle.timestamps) <= MaxTimestamps
  /\ Promised(entry) \/ TsaTimes(bundle) # {}
  /\ \A c \in cert, time \in TsaTimes(bundle) : Library!Within(time, c.validity)

\* A mistake: an entry's own time selects the key, whoever vouches for it.
timestamp_for_key_integrated(bundle, entry) == entry.integrated_time

\* The time that selects the log's key.
timestamp_for_key(bundle, entry) ==
  IF Promised(entry) THEN entry.integrated_time
  ELSE CHOOSE t \in TsaTimes(bundle) : \A u \in TsaTimes(bundle) : t <= u

verify_kind_version(entry) ==
  entry.kind = entry.body.kind /\ entry.version = entry.body.version

\* What an entry of a kind the binary can read was signed with.
extract_rekor_cert_der(body) ==
  IF body.kind \in {"dsse", "intoto", "hashedrekord"} THEN {body.cert} ELSE {}
extract_rekor_signature(body) ==
  IF body.kind \in {"dsse", "intoto", "hashedrekord"} THEN {body.signature} ELSE {}

verify_cert_binding(cert, body) == extract_rekor_cert_der(body) = cert

\* Keys are read where the oldest kind of entry has them and nowhere else.
verify_key_binding(key, body) ==
  /\ body.kind = "hashedrekord" /\ body.version = "0.0.1"
  /\ {[public_key |-> word.value] : word \in key} = {body.cert}

verify_sig_binding(bundle, body) == extract_rekor_signature(body) = {BundleSignature(bundle)}

verify_payload_hash_binding(bundle, body) ==
  body.kind \in {"dsse", "intoto"} => body.digest = bundle.dsseEnvelope.payload

\* The log's head is signed, and leads to the entry.
verify_log(entry, rekor_key) ==
  LET proof == entry.inclusion_proof IN
  /\ Promised(entry) => Library!verify_signed_entry_timestamp(entry, rekor_key)
  /\ Library!verify_signature(proof.checkpoint, rekor_key, entry.log_id)
  /\ proof.checkpoint.note.hash = proof.root_hash
  /\ Library!verify_inclusion(proof.log_index, Library!hash_leaf(entry.body), proof.tree_size,
                              proof.hashes, proof.root_hash)

verify_rekor_entry(bundle, cert, key) ==
  /\ Len(bundle.tlog_entries) = 1
  /\ LET entry == bundle.tlog_entries[1]
         time == timestamp_for_key(bundle, entry)
     IN  /\ verify_times(bundle, entry, cert)
         /\ Library!KeysAt(entry.log_id, time) # {}
         /\ verify_log(entry, Library!RekorKeyAt(entry.log_id, time))
         /\ verify_kind_version(entry)
         /\ IF cert # {} THEN verify_cert_binding(cert, entry.body)
                         ELSE verify_key_binding(key, entry.body)
         /\ verify_sig_binding(bundle, entry.body)
         /\ Has(bundle, "dsseEnvelope") => verify_payload_hash_binding(bundle, entry.body)

-----------------------------------------------------------------------------
(* The artifact. *)

\* A message is the artifact itself.  Of a statement some subject has the
\* artifact's digest or, if it was not given as a digest, its file's name.
verify_artifact_digest(bundle, sha256, artifact) ==
  IF Has(bundle, "messageSignature") THEN {bundle.messageSignature.digest} = sha256
  ELSE \E i \in DOMAIN bundle.dsseEnvelope.payload.subject :
         LET subject == bundle.dsseEnvelope.payload.subject[i] IN
         \/ {subject.digest} = sha256
         \/ artifact.hex = {} /\ subject.name \in {artifact.file_name, artifact.text}

-----------------------------------------------------------------------------
\* The command `verify-bundle` for the bundle that --bundle names.  A bundle with
\* both kinds of signature counts as a message, but its entry as the envelope's.
verify_bundle(args, bundle, files) ==
  \E vargs \in parse_verify_args(args) :
    LET is_key_based == vargs.key # {}
        cert == IF is_key_based THEN {} ELSE extract_leaf_cert_der(bundle)
        artifact_sha256 == resolve_artifact_sha256(vargs.artifact, files)
    IN  /\ Has(bundle, "messageSignature") \/ Has(bundle, "dsseEnvelope")
        /\ is_key_based \/ cert # {}
        /\ artifact_sha256 # {}
        /\ IF Has(bundle, "messageSignature")
           THEN verify_message_signature(bundle, cert, vargs.key)
           ELSE verify_dsse_signature(bundle, cert, vargs.key)
        /\ \A c \in cert : verify_certificate(c, vargs)
        /\ verify_rekor_entry(bundle, cert, vargs.key)
        /\ verify_artifact_digest(bundle, artifact_sha256, vargs.artifact)
=============================================================================
