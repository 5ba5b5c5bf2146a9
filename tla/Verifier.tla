------------------------------ MODULE Verifier ------------------------------
(***************************************************************************)
(* The verification pipeline (verify_attestation of client.rs): the code's *)
(* measurement from a bundle or pinned, a hardware report of the enclave,  *)
(* the comparison, and the certificate of a second connection.             *)
(* Around it is the world the evidence comes from: workflow runs that were *)
(* signed and logged, and a chip whose firmware is updated, committed and  *)
(* rolled back while the client verifies.                                  *)
(*                                                                         *)
(* Evidence need not be right: a bundle may be put together from parts of  *)
(* several runs, a document may be altered or of another format, and the   *)
(* certificates served, the chip's and the TLS server's, may be others.    *)
(***************************************************************************)
EXTENDS SevAttestation, Provenance, TlsBinding, TLC

CONSTANTS
  Repo,           \* the repository the client trusts
  Releases,       \* what the release page may name: tag and digest
  Runs,           \* workflow runs, of this repository and others, in a sequence
  Mixes,          \* pairs of runs whose parts somebody puts together in one bundle
  Others,         \* other entries of the log
  PinnedSet,      \* measurements a client may be given instead of a repository
  Firmware,       \* the firmware images of the chip, in order of release
  MaxMicrocode,   \* bound on the microcode's level
  Chip,           \* the chip's id
  Guests,         \* the guests the host may launch
  AltKeys,        \* the keys in a document that was altered
  Vceks(_, _),    \* the certificates the proxy may serve for a report of a chip
  TlsCerts(_, _)  \* the TLS certificates the host may serve besides those of its guest

VARIABLES
  chip,     \* current and committed firmware, the level it reports
  guest,    \* the guest that runs, and the level it was launched at
  stage,    \* how far the client is
  release,  \* the release it verifies
  bundle,   \* which run each part of the bundle in hand is from
  code,     \* the code's measurement
  origin,   \* history: the runs the accepted bundle is of
  doc,      \* the attestation document in hand
  served,   \* the certificate of the TLS connection
  truth     \* what was verified, and history: the report it is from

world == <<chip, guest>>
client == <<stage, release, bundle, code, origin, doc, served, truth>>
vars == <<world, client>>

None == [none |-> TRUE]

\* What the releases, the pinned measurements and the proxy's certificates are.
ASSUME InputAssumption ==
  /\ None \notin Releases \cup PinnedSet
  /\ \A r \in Releases : r.digest # PINNED_NO_DIGEST
  /\ Mixes \subseteq SUBSET DOMAIN Runs

\* Later firmware has no lower level and no older build (AMD only counts up), and
\* the options have numbers for minimums and allow no debugging.
ASSUME PlatformAssumption ==
  /\ Len(Firmware) \in Nat \ {0} /\ DOMAIN Firmware = 1..Len(Firmware)
  /\ MaxMicrocode \in Nat
  /\ \A i \in 1..Len(Firmware) :
       /\ Firmware[i].bl_spl \in Nat /\ Firmware[i].snp_spl \in Nat /\ Firmware[i].build \in Nat
       /\ \A j \in i..Len(Firmware) : /\ Firmware[i].bl_spl <= Firmware[j].bl_spl
                                     /\ Firmware[i].snp_spl <= Firmware[j].snp_spl
                                     /\ Firmware[i].build <= Firmware[j].build
  /\ \A part \in TcbNames : Options.minimum_tcb[part] \in Nat
  /\ "debug" \notin Options.guest_policy.capabilities

\* Nobody else has a run's key, or an authority's; an authority certifies of a run
\* only the repository and the tag it is of.
ASSUME SigningAssumption ==
  /\ \A i, j \in DOMAIN Runs : Runs[i].key = Runs[j].key => i = j
  /\ \A i, j \in DOMAIN FulcioCas : FulcioCas[i].chain[1].key = FulcioCas[j].chain[1].key => i = j
  /\ \A i \in DOMAIN Runs :
       LET r == Runs[i]
           info == extract_certificate_info([extensions |-> r.extensions])
       IN  /\ r.ca \in DOMAIN FulcioCas
           /\ r.signed_at \in Nat /\ r.validity.from \in Nat /\ r.validity.until \in Nat
           /\ info.repository \subseteq {r.repository}
           /\ info.workflow \subseteq {[repository |-> r.repository, ref |-> r.tag]}
  /\ \A i \in DOMAIN FulcioCas : /\ FulcioCas[i].window.from \in Nat
                                 /\ FulcioCas[i].window.until \in Nat

-----------------------------------------------------------------------------
(* Signing: what a run of the release workflow leaves behind. *)

CertOf(r) ==
  LET ca  == FulcioCas[r.ca].chain[1]
      tbs == <<r.key, ca.subject, r.validity, r.extensions>>
      time == r.validity.from
      scts == << [log_id |-> r.ct_log, time |-> time,
                  signature |-> Signed(r.ct_log, Precert([tbs |-> tbs], ca.key, time))] >>
  IN  [key |-> r.key, issuer |-> ca.subject, validity |-> r.validity, extensions |-> r.extensions,
       san |-> {[type |-> "uri", name |-> r.extensions.build_signer]},
       digital_signature |-> TRUE, code_signing |-> TRUE,
       tbs |-> tbs, scts |-> scts, signature |-> Signed(ca.key, <<tbs, scts>>)]

\* Who signs with a key of their own has no certificate, and logs the key.
NoCertificate == [key |-> "none", digital_signature |-> FALSE, code_signing |-> FALSE]
CertIn(r) == IF r.certified THEN CertOf(r) ELSE NoCertificate

\* A run signs its statement, in an envelope, or the artifact itself.
StatementType == "application/vnd.in-toto+json"
SignedBy(r) == IF r.signs = "statement" THEN compute_pae(StatementType, r.statement)
                                        ELSE [message |-> r.statement.subject[1].digest]
SignatureOf(r) == Signed(r.key, SignedBy(r))

\* What is logged, by the kind of entry the run asked for.
BodyOf(r) ==
  [kind |-> r.kind, version |-> r.version, signature |-> SignatureOf(r),
   cert |-> IF r.certified THEN CertOf(r) ELSE [public_key |-> r.key],
   digest |-> IF r.kind = "dsse" THEN r.statement ELSE SignedBy(r)]

StampOf(r) ==
  LET tsa == TimestampAuthorities[r.tsa].chain[1]
      says == [imprint |-> SignatureOf(r), gen_time |-> r.signed_at]
  IN  [imprint |-> says.imprint, gen_time |-> says.gen_time, well_formed |-> TRUE,
       signer |-> tsa.subject, signature |-> Signed(tsa.key, says)]

PromiseOf(r) ==
  LET entry == [body |-> BodyOf(r), integrated_time |-> r.signed_at,
                log_id |-> RekorKeys[r.log].key_id, log_index |-> 0]
  IN  [present |-> TRUE, signed_entry_timestamp |-> Signed(RekorKeys[r.log].key, SetPayload(entry))]

\* The log's tree of a size with the run's entry at an index, and its head.
Leaves(r, at) == [i \in 1..at.size |-> IF i = at.index + 1 THEN BodyOf(r) ELSE Others[i]]
ProofOf(r, at) ==
  LET root == Root(Leaves(r, at))
      note == [origin |-> RekorKeys[r.log].host, size |-> at.size, hash |-> root]
  IN  [log_index |-> at.index, tree_size |-> at.size, root_hash |-> root,
       hashes |-> Path(Leaves(r, at), at.index),
       checkpoint |-> [note |-> note,
                       signatures |-> << [name |-> RekorKeys[r.log].host,
                                          hint |-> RekorKeys[r.log].key_id,
                                          signature |-> Signed(RekorKeys[r.log].key, note)] >>]]

Parts == {"cert", "payload", "signature", "body", "promise", "time", "stamp", "proof"}

\* A bundle with each part from a run of its own.
Assemble(b) ==
  LET of(part) == Runs[b.from[part]] IN
  [cert |-> CertIn(of("cert")),
   payload_type |-> StatementType,
   payload |-> of("payload").statement,
   signatures |-> << SignatureOf(of("signature")) >>,
   timestamps |-> IF b.stamped THEN << StampOf(of("stamp")) >> ELSE <<>>,
   tlog_entries |->
     << [kind |-> of("body").kind, version |-> of("body").version, body |-> BodyOf(of("body")),
         inclusion_promise |-> IF b.promised THEN PromiseOf(of("promise")) ELSE [present |-> FALSE],
         integrated_time |-> of("time").signed_at,
         log_id |-> RekorKeys[of("proof").log].key_id, log_index |-> 0,
         inclusion_proof |-> ProofOf(of("proof"), b.at)] >>]

\* The runs a bundle can be of: theirs are the certificate, the statement, the
\* signature and the entry, and the time that counts is when they signed.
Origin(b) ==
  LET whole == Assemble(b)
      entry == whole.tlog_entries[1]
  IN  {i \in DOMAIN Runs :
         LET r == Runs[i] IN
         /\ whole.cert = CertIn(r) /\ whole.payload = r.statement
         /\ whole.signatures[1] = SignatureOf(r) /\ entry.body = BodyOf(r)
         /\ observer_time(entry, verify_timestamps(whole)) = r.signed_at}

\* Bundles of the parts of one run, at every place of the log, and of two.  A part
\* that the bundle does not have is counted as the certificate's run's.
Bundles ==
  LET everywhere == {at \in [index : 0..5, size : 1..6] : at.index < at.size}
      mixed == UNION {[Parts -> pair] : pair \in Mixes}
      all == [from : {[p \in Parts |-> i] : i \in DOMAIN Runs}, at : everywhere, promised : BOOLEAN, stamped : BOOLEAN]
               \cup [from : mixed, at : {[index |-> 2, size |-> 5]}, promised : BOOLEAN, stamped : BOOLEAN]
  IN  {b \in all : /\ b.promised \/ b.from["promise"] = b.from["cert"]
                   /\ b.stamped \/ b.from["stamp"] = b.from["cert"]}

-----------------------------------------------------------------------------
(* The chip: what its firmware says of itself. *)

TcbOf(fw) == [bl_spl |-> Firmware[fw.image].bl_spl, tee_spl |-> 0,
              snp_spl |-> Firmware[fw.image].snp_spl, ucode_spl |-> fw.microcode]
FirmwareOf(fw) == [tcb |-> TcbOf(fw), build |-> Firmware[fw.image].build,
                   version |-> Firmware[fw.image].version]

ReportOf(c, g) ==
  [complete |-> TRUE, version |-> Firmware[c.current.image].report_version,
   nonzero |-> Firmware[c.current.image].fills, signature_algo |-> "ecdsa_p384_sha384",
   signing_key |-> g.kind.signing_key, mask_chip_key |-> g.kind.mask_chip_key,
   chip_id |-> IF g.kind.mask_chip_key THEN ZeroChip ELSE Chip,
   policy |-> g.kind.policy, guest_svn |-> 0,
   current |-> FirmwareOf(c.current), committed |-> FirmwareOf(c.committed),
   reported |-> c.reported, launch |-> g.launch,
   platform |-> g.kind.platform, vmpl |-> g.kind.vmpl,
   measurement |-> g.kind.measurement, report_data |-> g.kind.keys]

ChipKey(id, tcb) == <<id, tcb>>

\* The document of the guest: its report and the chip's signature over it.
DocumentOf(c, g) ==
  [format |-> "SevGuestV2", report |-> ReportOf(c, g),
   signature |-> Signed(ChipKey(Chip, c.reported), ReportOf(c, g))]

\* A document as it is, with other contents under the signature, or of a format
\* the client does not know.
Documents(c, g) ==
  LET honest == DocumentOf(c, g) IN
  {honest, [honest EXCEPT !.format = "TdxGuestV2"],
   [honest EXCEPT !.report.report_data = AltKeys],
   [honest EXCEPT !.report.current = FirmwareOf([image |-> Len(Firmware), microcode |-> MaxMicrocode])]}

-----------------------------------------------------------------------------
(* attestation/types.rs *)

compare_multiplatform(multi, other) ==
  /\ Len(multi.registers) >= 3
  /\ \/ other.type = "SnpTdxMultiPlatformV1" /\ other.registers = multi.registers
     \/ /\ other.type = "SevGuestV2" /\ Len(other.registers) >= 1
        /\ other.registers[1] = multi.registers[1]
     \/ /\ other.type = "TdxGuestV2" /\ Len(other.registers) >= 5
        /\ other.registers[3] = multi.registers[2]
        /\ other.registers[4] = multi.registers[3]
        /\ other.registers[5] = "0"

equals(a, b) ==
  IF a.type = "SnpTdxMultiPlatformV1" THEN compare_multiplatform(a, b)
  ELSE IF b.type = "SnpTdxMultiPlatformV1" THEN compare_multiplatform(b, a)
  ELSE a = b

\* One register stands for itself, more are hashed together with their type.
fingerprint_for_target(m, target) ==
  LET first == IF m.registers = <<>> THEN <<"">> ELSE <<m.registers[1]>>
      registers == IF \/ m.type = "SevGuestV2"
                      \/ m.type = "SnpTdxMultiPlatformV1" /\ target = "SevGuestV2"
                   THEN first ELSE m.registers
  IN  IF Len(registers) = 1 THEN registers ELSE <<m.type>> \o registers

-----------------------------------------------------------------------------
(* The TLS server of the guest. *)

Names(prefix, value) ==
  [n \in 1..2 |-> [label |-> prefix, index |-> n - 1, chunk |-> <<Pieces(value)[n]>>]]

\* What an enclave has certified: its keys, and the document they are in.
CertificateOf(keys, document) ==
  [algorithm |-> "ecdsa", fingerprint |-> keys.tls,
   sans |-> Names("hpke", keys.hpke) \o Names("hatt", hash(document))]

\* Names that are none of dcode's: the host's, one that is too short, and one
\* that only looks like a piece.
Strays == {[label |-> "example", index |-> -1, chunk |-> <<>>],
           [label |-> "hatt", index |-> 7, chunk |-> <<>>],
           [label |-> "hpke", index |-> -1, chunk |-> <<Piece("other", 1)>>]}

Rearranged(sans) == {Reverse(sans), Tail(sans) \o <<Head(sans)>>}

\* Certificates of the guest's that say the same, in any order and among others.
HonestCerts(keys, document) ==
  LET plain == CertificateOf(keys, document) IN
  {[plain EXCEPT !.sans = sans] : sans \in
     {plain.sans} \cup Rearranged(plain.sans)
       \cup {<<stray>> \o Reverse(plain.sans) \o <<stray>> : stray \in Strays}}

\* A name has an index of two digits or none, and symbols in some order.
IsName(san) == san.index \in -1..99 /\ san.chunk \in Seq(ToSet(san.chunk))

\* What the host may serve: these, and whatever else is a certificate.
ServedCerts(keys, document) ==
  HonestCerts(keys, document)
    \cup {cert \in TlsCerts(keys, document) :
            \A i \in DOMAIN cert.sans : IsName(cert.sans[i])}

-----------------------------------------------------------------------------
(* client.rs *)

build_ground_truth(measurement, digest, release_tag, verification) ==
  [release_tag |-> release_tag, digest |-> digest,
   tls_public_key |-> verification.tls_public_key_fp,
   hpke_public_key |-> verification.hpke_public_key,
   code_fingerprint |-> fingerprint_for_target(measurement, verification.measurement.type),
   enclave_fingerprint |-> fingerprint_for_target(verification.measurement,
                                                  verification.measurement.type)]

-----------------------------------------------------------------------------
Init ==
  /\ LET fw == [image |-> 1, microcode |-> 0]
     IN  chip = [current |-> fw, committed |-> fw, reported |-> TcbOf(fw)]
  /\ guest = None
  /\ stage = "idle" /\ release = None /\ bundle = None /\ code = None /\ origin = {}
  /\ doc = None /\ served = None /\ truth = None

-----------------------------------------------------------------------------
(* The host and its chip.  What they do before the client has the code's      *)
(* measurement, or while it looks at a document, would do the same after.     *)

HostActs == stage \in {"code", "verified"} /\ UNCHANGED client

\* Firmware or microcode is loaded, also an older one, but none behind the
\* committed one.
Load ==
  /\ HostActs
  /\ \E i \in chip.committed.image..Len(Firmware), m \in chip.committed.microcode..MaxMicrocode :
       /\ [image |-> i, microcode |-> m] # chip.current
       /\ chip' = [chip EXCEPT !.current = [image |-> i, microcode |-> m]]
  /\ UNCHANGED guest

Commit ==
  /\ HostActs
  /\ chip.committed # chip.current
  /\ chip' = [chip EXCEPT !.committed = chip.current, !.reported = TcbOf(chip.current)]
  /\ UNCHANGED guest

\* The host has the chip report, and sign as, a level at or below the committed.
ReportLower ==
  /\ HostActs
  /\ \E i \in 1..chip.committed.image, m \in 0..chip.committed.microcode :
       chip' = [chip EXCEPT !.reported = TcbOf([image |-> i, microcode |-> m])]
  /\ chip' # chip
  /\ UNCHANGED guest

Launch ==
  /\ HostActs /\ guest = None
  /\ \E kind \in Guests : guest' = [kind |-> kind, launch |-> TcbOf(chip.current)]
  /\ UNCHANGED chip

-----------------------------------------------------------------------------
(* The client. *)

\* The release page names a release and its digest.
FetchRelease ==
  /\ stage = "idle"
  /\ release' \in Releases
  /\ stage' = "release"
  /\ UNCHANGED <<world, bundle, code, origin, doc, served, truth>>

\* GitHub has some bundle for the digest.
FetchBundle ==
  /\ stage = "release"
  /\ bundle' \in Bundles
  /\ stage' = "bundle"
  /\ UNCHANGED <<world, release, code, origin, doc, served, truth>>

\* A pinned measurement is taken as it is.
UsePinned ==
  /\ stage = "idle"
  /\ \E m \in PinnedSet : code' = m
  /\ stage' = "code"
  /\ UNCHANGED <<world, release, bundle, origin, doc, served, truth>>

\* GitHub or the enclave has no answer, or none that can be read.
FetchFails ==
  /\ stage \in {"idle", "release", "code"}
  /\ stage' = "refused"
  /\ UNCHANGED <<world, release, bundle, code, origin, doc, served, truth>>

\* A mistake: a bundle that does not verify is only forgotten.
VerifyRepo_goesOn ==
  /\ stage = "bundle"
  /\ LET ok == verify_repo(Assemble(bundle), Repo, release) IN
     /\ code' = IF ok THEN extract_measurement(Assemble(bundle)) ELSE None
     /\ origin' = IF ok THEN Origin(bundle) ELSE {}
     /\ stage' = "code" /\ bundle' = None
  /\ UNCHANGED <<world, release, doc, served, truth>>

VerifyRepo ==
  /\ stage = "bundle"
  /\ IF verify_repo(Assemble(bundle), Repo, release)
     THEN /\ stage' = "code" /\ bundle' = None
          /\ code' = extract_measurement(Assemble(bundle))
          /\ origin' = Origin(bundle)
     ELSE /\ stage' = "refused" /\ UNCHANGED <<bundle, code, origin>>
  /\ UNCHANGED <<world, release, doc, served, truth>>

FetchDoc ==
  /\ stage = "code" /\ guest # None
  /\ doc' \in Documents(chip, guest)
  /\ stage' = "doc"
  /\ UNCHANGED <<world, release, bundle, code, origin, served, truth>>

\* The chip's certificate is fetched, the report verified and the measurements
\* compared.
VerifyDoc ==
  /\ stage = "doc"
  /\ \E vcek \in Vceks(doc, VcekLookup(doc.report)) :
       IF /\ verify_full_with_options(doc, vcek)
          /\ equals(code, Verification(doc.report).measurement)
       THEN stage' = "connect" /\ UNCHANGED doc
       ELSE stage' = "refused" /\ doc' = None
  /\ UNCHANGED <<world, release, bundle, code, origin, served, truth>>

\* Another connection to the host, for its certificate only.
Connect ==
  /\ stage = "connect"
  /\ served' \in ServedCerts(guest.kind.keys, doc)
  /\ stage' = "binding"
  /\ UNCHANGED <<world, release, bundle, code, origin, doc, truth>>

\* verify_tls_binding, and then verify commits.
VerifyBinding ==
  /\ stage = "binding"
  /\ LET verification == Verification(doc.report)
         ground_truth ==
           build_ground_truth(code,
                              IF release = None THEN PINNED_NO_DIGEST ELSE release.digest,
                              IF release = None THEN {} ELSE {release.tag},
                              verification)
     IN  IF verify_tls_binding(served, verification, doc)
         THEN /\ stage' = "verified" /\ doc' = None /\ served' = None
              /\ truth' = [report |-> doc.report, certificate |-> served, document |-> doc,
                           measurement |-> verification.measurement,
                           shown |-> from_ground_truth(ground_truth),
                           sealing_key |-> require_hpke_public_key(verification)]
         ELSE stage' = "refused" /\ UNCHANGED <<doc, served, truth>>
  /\ UNCHANGED <<world, release, bundle, code, origin>>

Next ==
  \/ Load \/ Commit \/ ReportLower \/ Launch
  \/ FetchRelease \/ FetchBundle \/ UsePinned \/ FetchFails \/ VerifyRepo
  \/ FetchDoc \/ VerifyDoc  \/ Connect \/ VerifyBinding

Spec == Init /\ [][Next]_vars

-----------------------------------------------------------------------------
Stages == {"idle", "release", "bundle", "code", "doc", "connect", "binding", "verified", "refused"}

\* What the client holds fits how far it is: there is no report without code to
\* compare it with, and what was verified is there exactly at the end.
TypeOK ==
  /\ stage \in Stages
  /\ chip.current.image \in DOMAIN Firmware /\ chip.committed.image \in DOMAIN Firmware
  /\ guest = None \/ guest.kind \in Guests
  /\ release = None \/ release \in Releases
  /\ stage = "bundle" => bundle # None
  /\ stage \in {"code", "doc", "connect", "binding", "verified"} => code # None /\ bundle = None
  /\ stage \in {"doc", "connect", "binding"} => doc # None
  /\ served # None => stage \in {"binding", "refused"}
  /\ (stage = "verified") = (truth # None)

\* The machine behind an accepted report, not only the report: whatever its host
\* loads, it never again runs a lower level or an older build than the report
\* said; it meets every minimum in every component, now and when the guest was
\* launched, and the guest is at the expected level and cannot be debugged
\* (validate_committed_tcb, ValidationOptions).
AcceptedPlatformHolds ==
  stage = "verified" =>
    LET now == FirmwareOf(chip.current)
        accepted == truth.report.current
    IN  /\ \A part \in TcbNames :
             /\ now.tcb[part] >= accepted.tcb[part]
             /\ now.tcb[part] >= Options.minimum_tcb[part]
             /\ guest.launch[part] >= Options.minimum_launch_tcb[part]
        /\ now.build >= accepted.build
        /\ "debug" \notin guest.kind.policy.capabilities
        /\ guest.kind.vmpl = Options.vmpl

\* A run of the trusted repository for the release, certified by an authority in
\* service then, that signed while its certificate was valid.
Timely(r) ==
  /\ r.certified /\ r.signs = "statement"
  /\ r.repository = Repo /\ r.tag = release.tag /\ r.statement.subject[1].digest = release.digest
  /\ r.signed_at \in r.validity.from..r.validity.until
  /\ r.validity.from \in FulcioCas[r.ca].window.from..FulcioCas[r.ca].window.until

\* An accepted bundle is one signing event: some timely run for the release made
\* the certificate, the statement, the signature and the logged entry, and
\* signed at the time that counts, whatever other parts the bundle is put
\* together from (verify_repo).
OneSigningEvent ==
  code # None /\ release # None =>
    \E i \in origin : Timely(Runs[i])

\* The bundle is one timely run's, with someone to vouch for the time.
Honest(b) ==
  \E i \in DOMAIN Runs :
    /\ \A part \in Parts : b.from[part] = i
    /\ Timely(Runs[i])
    /\ b.stamped \/ (b.promised /\ Runs[i].version = "0.0.1")

\* A sound bundle of the release is never refused, wherever in the log its entry
\* stands and whichever kind of entry and time it has (verify_repo); nor is a
\* certificate of the enclave's, in whatever order its names come and whatever
\* other names are among them (verify_tls_binding).
HonestPartiesVerify ==
  stage = "refused" =>
    /\ bundle # None => ~Honest(bundle)
    /\ served # None => \/ served \notin HonestCerts(guest.kind.keys, doc)
                        \/ doc \notin Documents(chip, guest)

\* What the client verified is what runs: the guest's own measurement and keys,
\* that measurement is the one the release's workflow run stated or the pinned
\* one, and the two sides have the same fingerprint (verify_full, equals).  The
\* certificate is for the guest's key, and the document a user is shown claims no
\* step that was not done.
VerifiedCodeIsTheRelease ==
  stage = "verified" =>
    LET measured == guest.kind.measurement
        keys == guest.kind.keys
    IN
    /\ truth.measurement.registers = <<measured>>
    /\ code.registers[1] = measured
    /\ release # None =>
         \E i \in origin : /\ Runs[i].statement.subject[1].digest = release.digest
                           /\ Runs[i].statement.predicate["snp_measurement"] = measured
    /\ truth.certificate.fingerprint = keys.tls
    /\ truth.shown.tls_public_key = keys.tls /\ truth.shown.hpke_public_key = keys.hpke
    /\ truth.shown.code_fingerprint = truth.shown.enclave_fingerprint
    /\ truth.shown.steps.verify_code = "success" <=> release # None
    /\ truth.shown.release_tag # {} <=> truth.shown.steps.fetch_digest = "success"
    /\ truth.sealing_key \subseteq {keys.hpke} \ {AllZeros}

\* Read in the order of their indices, the pieces among the names are those of the
\* value, all of them, no others, and each index once.
Spells(names, prefix, value) ==
  LET pieces == {i \in DOMAIN names : /\ names[i].label = prefix
                                     /\ names[i].index # -1 /\ names[i].chunk # <<>>}
  IN  /\ UNION {ToSet(names[i].chunk) : i \in pieces} = ToSet(Pieces(value))
      /\ \A i, j \in pieces : i # j =>
           \A p \in ToSet(names[i].chunk), q \in ToSet(names[j].chunk) :
             \/ names[i].index < names[j].index /\ p.part < q.part
             \/ names[j].index < names[i].index /\ q.part < p.part

\* The accepted certificate is the enclave's for this document: its names spell
\* the guest's key, unless that is zeros, and the hash of the very document that
\* was verified (verify_tls_binding, decode_from_sans).
CertificateHoldsBothValues ==
  stage = "verified" =>
    LET names == truth.certificate.sans
        key == guest.kind.keys.hpke
    IN  /\ key # AllZeros => Spells(names, "hpke", key)
        /\ Spells(names, "hatt", hash(truth.document))
=============================================================================
