----------------------------- MODULE Provenance -----------------------------
(***************************************************************************)
(* What verify_repo accepts as the provenance of a release: the checks of  *)
(* verifier/sigstore, in the order the code makes them.  There is no state *)
(* here; Verifier puts the checks into time.                               *)
(*                                                                         *)
(* A bundle is a record of its parts.  Hashing and encoding lose nothing:  *)
(* a digest is what it is of.  A signature is the key that made it and     *)
(* what it is over, and a key stands for both of its halves.  Times are    *)
(* numbers; a window [from, until] is inclusive, with a time before or     *)
(* after every other for an open end.                                      *)
(***************************************************************************)
EXTENDS Merkle

CONSTANTS
  FulcioCas,             \* certificate authorities: a chain and a window each
  CtLogs,                \* certificate transparency logs: key, window
  RekorKeys,             \* log keys, in order: key_id, host, key, window
  TimestampAuthorities,  \* time stampers: chain, window
  MaxTimestamps          \* MAX_TIMESTAMPS

Within(time, window) == window.from <= time /\ time <= window.until

Signed(key, what) == [key |-> key, over |-> what]

-----------------------------------------------------------------------------
(* certificate.rs *)

validate_certificate_extensions(cert) == cert.digital_signature /\ cert.code_signing

\* The second version of the issuer's extension and the first one of the
\* repository's take priority, wherever they stand in the certificate.
extension(cert, first, second) ==
  IF first \in DOMAIN cert.extensions THEN {cert.extensions[first]}
  ELSE IF second \in DOMAIN cert.extensions THEN {cert.extensions[second]} ELSE {}

extract_certificate_info(cert) ==
  [issuer     |-> extension(cert, "issuer_v2", "issuer_v1"),
   repository |-> extension(cert, "repository_v1", "source_repository"),
   workflow   |-> extension(cert, "build_signer", "build_signer")]

\* mod.rs: the workflow is one of the repository's, run for the release's tag.
\* A part the certificate lacks is an empty set and never what is expected.
verify_certificate_identity(info, repo, tag) ==
  /\ info.issuer = {"https://token.actions.githubusercontent.com"}
  /\ info.repository = {repo}
  /\ info.workflow = {[repository |-> repo, ref |-> tag]}

-----------------------------------------------------------------------------
(* fulcio.rs *)

Contents(cert) == <<cert.tbs, cert.scts>>

verify_issued_by(child, issuer) ==
  /\ child.issuer = issuer.subject
  /\ child.signature = Signed(issuer.key, Contents(child))

\* From the leaf up to a root that signed itself.
verify_against_chain(leaf, chain) ==
  /\ verify_issued_by(leaf, chain[1])
  /\ \A i \in 1..(Len(chain) - 1) : verify_issued_by(chain[i], chain[i + 1])
  /\ verify_issued_by(Last(chain), Last(chain))

verify_fulcio_chain(cert) ==
  \E i \in DOMAIN FulcioCas : /\ Within(cert.validity.from, FulcioCas[i].window)
                              /\ FulcioCas[i].chain # <<>>
                              /\ verify_against_chain(cert, FulcioCas[i].chain)

\* The first authority of the issuer's name gives the key the timestamps name.
issuers(cert) == {i \in DOMAIN FulcioCas : /\ FulcioCas[i].chain # <<>>
                                           /\ FulcioCas[i].chain[1].subject = cert.issuer}
find_issuer_spki(cert) == FulcioCas[CHOOSE i \in issuers(cert) : \A j \in issuers(cert) : i <= j].chain[1].key

-----------------------------------------------------------------------------
(* transparency.rs, keyring.rs, dsse.rs *)

\* What a log signs: the certificate without its timestamps, its issuer, the time.
Precert(cert, issuer_key, time) == [tbs |-> cert.tbs, issuer |-> issuer_key, time |-> time]

verify_at(log_id, signature, data, time) ==
  \E log \in CtLogs : /\ log.key = log_id
                      /\ Within(time, log.window)
                      /\ signature = Signed(log.key, data)

\* Timestamps of one log twice are refused; one that verifies is enough.
verify_sct(cert) ==
  LET scts == cert.scts
      data(sct) == Precert(cert, find_issuer_spki(cert), sct.time)
  IN  /\ \A i, j \in DOMAIN scts : scts[i].log_id = scts[j].log_id => i = j
      /\ \E i \in DOMAIN scts : verify_at(scts[i].log_id, scts[i].signature, data(scts[i]), scts[i].time)

compute_pae(payload_type, payload) == [type |-> payload_type, payload |-> payload]

verify_dsse_signature(bundle) ==
  /\ validate_certificate_extensions(bundle.cert)
  /\ issuers(bundle.cert) # {}
  /\ verify_sct(bundle.cert)
  /\ Len(bundle.signatures) = 1
  /\ bundle.signatures[1] =
       Signed(bundle.cert.key, compute_pae(bundle.payload_type, bundle.payload))

-----------------------------------------------------------------------------
(* tsa.rs *)

verify_with_authority(authority, token) ==
  LET chain == authority.chain IN
  /\ Within(token.gen_time, authority.window)
  /\ chain # <<>> /\ token.signer = chain[1].subject
  /\ \A i \in DOMAIN chain : Within(token.gen_time, chain[i].validity)
  /\ ~chain[1].ca /\ chain[1].time_stamping
  /\ verify_against_chain(chain[1], IF Len(chain) = 1 THEN chain ELSE Tail(chain))
  /\ token.signature = Signed(chain[1].key, [imprint |-> token.imprint, gen_time |-> token.gen_time])

\* The token is about this signature and an authority of the trust root made it;
\* well_formed stands for its one signer and its attributes.
verify_timestamp(token, signature) ==
  /\ token.imprint = signature /\ token.well_formed
  /\ \E i \in DOMAIN TimestampAuthorities : verify_with_authority(TimestampAuthorities[i], token)

\* The times that verify; the others are passed over.
verify_timestamps(bundle) ==
  {bundle.timestamps[i].gen_time :
     i \in {j \in DOMAIN bundle.timestamps :
              verify_timestamp(bundle.timestamps[j], bundle.signatures[1])}}

-----------------------------------------------------------------------------
(* checkpoint.rs *)

\* A line under the log's name with the log's hint whose signature is the log's.
verify_signature(checkpoint, rekor_key, log_id) ==
  \E i \in DOMAIN checkpoint.signatures :
    LET line == checkpoint.signatures[i] IN
    /\ line.name = rekor_key.host /\ line.hint = log_id
    /\ line.signature = Signed(rekor_key.key, checkpoint.note)

-----------------------------------------------------------------------------
(* rekor.rs *)

verify_kind_version(entry) ==
  entry.kind = entry.body.kind /\ entry.version = entry.body.version

IsV1(entry) == entry.kind \in {"dsse", "hashedrekord"} /\ entry.version = "0.0.1"
IsV2(entry) == entry.kind = "hashedrekord" /\ entry.version = "0.0.2"
HasSet(entry) == "signed_entry_timestamp" \in DOMAIN entry.inclusion_promise

\* Who vouches for the time: the log's promise, or else the earliest time stamp.
StampNeeded(entry) == IsV2(entry) \/ (IsV1(entry) /\ ~HasSet(entry))
observer_time(entry, tsa_times) ==
  IF StampNeeded(entry) THEN CHOOSE t \in tsa_times : \A u \in tsa_times : t <= u
                        ELSE entry.integrated_time

\* The first key of the log that was valid at the time.
KeysAt(log_id, time) ==
  {i \in DOMAIN RekorKeys : RekorKeys[i].key_id = log_id /\ Within(time, RekorKeys[i].window)}
RekorKeyAt(log_id, time) ==
  RekorKeys[CHOOSE i \in KeysAt(log_id, time) : \A j \in KeysAt(log_id, time) : i <= j]

\* A mistake: the promise is not checked.
verify_signed_entry_timestamp_skipped(entry, rekor_key) == HasSet(entry)

\* The log's promise is over the body and the time, which no tree covers.
SetPayload(entry) == [body |-> entry.body, integrated_time |-> entry.integrated_time,
                      log_id |-> entry.log_id, log_index |-> entry.log_index]
verify_signed_entry_timestamp(entry, rekor_key) ==
  /\ HasSet(entry)
  /\ entry.inclusion_promise.signed_entry_timestamp = Signed(rekor_key.key, SetPayload(entry))

verify_certificate_binding(bundle, body) == body.cert = bundle.cert

verify_signature_binding(bundle, body) == body.signature = bundle.signatures[1]

\* What a body says it is over, by its kind.  A hashedrekord 0.0.1 is not compared.
verify_payload_hash_binding(bundle, body) ==
  /\ body.version = "0.0.2" => body.digest = compute_pae(bundle.payload_type, bundle.payload)
  /\ body.kind = "dsse" => body.digest = bundle.payload

verify_rekor_entry(bundle) ==
  /\ Len(bundle.tlog_entries) = 1
  /\ LET entry == bundle.tlog_entries[1]
         proof == entry.inclusion_proof
         tsa_times == verify_timestamps(bundle)
         time == observer_time(entry, tsa_times)
         rekor_key == RekorKeyAt(entry.log_id, time)
     IN  /\ verify_kind_version(entry)
         /\ Len(bundle.timestamps) <= MaxTimestamps
         /\ \A t \in tsa_times : Within(t, bundle.cert.validity)
         /\ IsV1(entry) \/ IsV2(entry)
         /\ StampNeeded(entry) => tsa_times # {}
         /\ Within(time, bundle.cert.validity)
         /\ KeysAt(entry.log_id, time) # {}
         /\ entry.version = "0.0.1" /\ entry.inclusion_promise.present
              => verify_signed_entry_timestamp(entry, rekor_key)
         /\ verify_signature(proof.checkpoint, rekor_key, entry.log_id)
         /\ proof.checkpoint.note.hash = proof.root_hash
         /\ verify_certificate_binding(bundle, entry.body)
         /\ verify_signature_binding(bundle, entry.body)
         /\ verify_payload_hash_binding(bundle, entry.body)
         /\ verify_inclusion(proof.log_index, hash_leaf(entry.body), proof.tree_size,
                             proof.hashes, proof.root_hash)

-----------------------------------------------------------------------------
(* mod.rs *)

\* The statement is a multi-platform one and its first subject is the release.
verify_statement(bundle, digest) ==
  LET statement == bundle.payload IN
  /\ bundle.payload_type = "application/vnd.in-toto+json"
  /\ statement.type \in {"https://in-toto.io/Statement/v0.1", "https://in-toto.io/Statement/v1"}
  /\ statement.subject # <<>> /\ statement.subject[1].digest = digest
  /\ statement.predicate_type = "https://tinfoil.sh/predicate/snp-tdx-multiplatform/v1"
  /\ {"snp_measurement", "rtmr1", "rtmr2"} \subseteq DOMAIN statement.predicate

extract_measurement(bundle) ==
  [type |-> "SnpTdxMultiPlatformV1",
   registers |-> LET predicate == bundle.payload.predicate
                 IN  <<predicate["snp_measurement"], predicate["rtmr1"], predicate["rtmr2"]>>]

verify_repo(bundle, repo, release) ==
  /\ verify_dsse_signature(bundle)
  /\ verify_certificate_identity(extract_certificate_info(bundle.cert), repo, release.tag)
  /\ verify_rekor_entry(bundle)
  /\ verify_fulcio_chain(bundle.cert)
  /\ verify_statement(bundle, release.digest)
=============================================================================
