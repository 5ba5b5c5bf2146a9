--------------------------- MODULE SevAttestation ---------------------------
(***************************************************************************)
(* What verify_full accepts as a hardware report: the checks of            *)
(* verifier/attestation/sev, in the order verify_full_with_options makes   *)
(* them.  There is no state here; Verifier puts the checks into time.      *)
(*                                                                         *)
(* A report is a record of its fields.  A field of flags is the set of the *)
(* flags that are set, and `nonzero` is the set of areas, among those the  *)
(* format reserves in some version, that hold anything but zeros.  A       *)
(* signature is the key that made it and what it is over.                  *)
(***************************************************************************)
EXTENDS Naturals, Sequences

CONSTANTS
  Options,     \* ValidationOptions; every minimum of the default ones is set
  CertChain,   \* the chain embedded in the crate: ASK, then ARK
  PinnedArk,   \* AMD's root key, by its pinned fingerprint
  ZeroChip     \* a chip id of zeros

TcbNames == {"bl_spl", "tee_spl", "snp_spl", "ucode_spl"}
Capabilities == {"smt", "migrate_ma", "debug", "cxl_allowed", "mem_aes256_xts"}
Restrictions == {"single_socket", "rapl_dis", "ciphertext_hiding_dram", "page_swap_disabled"}
PlatformFlags == {"smt_enabled", "tsme_enabled", "ecc_enabled", "rapl_disabled",
                  "ciphertext_hiding_dram_enabled", "alias_check_complete", "tio_enabled"}

-----------------------------------------------------------------------------
(* report.rs *)

validate_report_structure(report) == report.complete /\ report.version \in {2, 3, 5}

\* The areas that are reserved in a version of the format: the later ones have
\* the processor's family and the mitigation vectors in some of them.
Reserved(version) ==
  {"signer_info_gap", "version_gap", "before_signature", "signature_padding", "tcb_gap"}
    \cup (IF version < 3 THEN {"family_model_stepping"} ELSE {})
    \cup (IF version < 5 THEN {"mitigation_vectors"} ELSE {})

validate_mbz_fields(report) == report.nonzero \cap Reserved(report.version) = {}

\* Only a chip's own key signs; whether its id is masked is the result.
validate_signer_info(report) ==
  "signer_info_bits" \notin report.nonzero /\ report.signing_key = "vcek"

-----------------------------------------------------------------------------
(* validation.rs *)

\* The firmware that runs is the committed one: the chip cannot go back behind it.
validate_committed_tcb(report) ==
  /\ report.committed.tcb = report.current.tcb
  /\ report.committed.build = report.current.build
  /\ report.committed.version = report.current.version

\* A mistake: the levels are compared as one number, microcode first.
meets_minimum_packed(tcb, min) ==
  LET packed(t) == 512 * t.ucode_spl + 64 * t.snp_spl + 8 * t.tee_spl + t.bl_spl
  IN  packed(tcb) >= packed(min)

meets_minimum(tcb, min) == \A part \in TcbNames : tcb[part] >= min[part]

\* Nothing the guest may do beyond what is allowed, every restriction there that
\* is required; the memory's cipher must be the required one either way.
validate_policy(policy, required) ==
  /\ required.abi <= policy.abi
  /\ policy.capabilities \subseteq required.capabilities
  /\ "mem_aes256_xts" \in required.capabilities => "mem_aes256_xts" \in policy.capabilities
  /\ required.restrictions \subseteq policy.restrictions

validate_platform_info(flags, required) ==
  /\ "smt_enabled" \in flags => "smt_enabled" \in required
  /\ required \ {"smt_enabled"} \subseteq flags

validate_vmpl(report) == report.vmpl \in 0..3 /\ report.vmpl = Options.vmpl

\* Checked in every report, whatever the options are.
Required(report) ==
  /\ validate_mbz_fields(report)
  /\ report.signature_algo = "ecdsa_p384_sha384"
  /\ validate_signer_info(report)
  /\ ~Options.permit_provisional_firmware
  /\ validate_committed_tcb(report)
  /\ "policy_bits" \notin report.nonzero /\ report.policy.bit17

\* The guest's launch level has a minimum of its own.
MeetsMinimums(report) ==
  /\ report.guest_svn >= Options.minimum_guest_svn
  /\ \A firmware \in {report.current, report.committed} :
       /\ firmware.build >= Options.minimum_build
       /\ firmware.version >= Options.minimum_version
  /\ \A tcb \in {report.reported, report.current.tcb, report.committed.tcb} :
       meets_minimum(tcb, Options.minimum_tcb)
  /\ meets_minimum(report.launch, Options.minimum_launch_tcb)

ExpectedFields(report) ==
  \A field \in DOMAIN Options.expected : report[field] = Options.expected[field]

validate_report_fields_with_options(report) ==
  /\ Required(report)
  /\ validate_policy(report.policy, Options.guest_policy)
  /\ MeetsMinimums(report)
  /\ report.platform \subseteq PlatformFlags
  /\ validate_platform_info(report.platform, Options.platform_info)
  /\ validate_vmpl(report)
  /\ ExpectedFields(report)

-----------------------------------------------------------------------------
(* cert_chain.rs *)

validate_certificate_validity(cert) == cert.in_date

\* A certificate without the extension is a leaf.
validate_basic_constraints(cert, expect_ca) == cert.ca = expect_ca

\* well_formed stands for version 3, AMD's location, the same algorithm inside
\* and outside and, of the chip's certificate, a P-384 key; signed_by is the key
\* under which the signature over the certificate's contents verifies.
\* The names of AMD's chain, each certificate the issuer of the one before it.
names_chain(vcek, ask, ark) ==
  /\ vcek.issuer = ask.subject /\ ask.issuer = ark.subject /\ ark.issuer = ark.subject
  /\ ark.subject = "ARK-Genoa" /\ ask.subject = "SEV-Genoa" /\ vcek.subject = "SEV-VCEK"

\* The root signed itself, and each certificate signed the next.
signatures_chain(vcek, ask, ark) ==
  ark.signed_by = ark.key /\ ask.signed_by = ark.key /\ vcek.signed_by = ask.key

verify_cert_chain_crypto(vcek) ==
  /\ Len(CertChain) >= 2
  /\ LET ask == CertChain[1]
         ark == CertChain[2]
     IN  /\ \A cert \in {vcek, ask, ark} :
              cert.well_formed /\ validate_certificate_validity(cert)
         /\ \A ca \in {ask, ark} : validate_basic_constraints(ca, TRUE)
         /\ validate_basic_constraints(vcek, FALSE)
         /\ ark.key = PinnedArk
         /\ names_chain(vcek, ask, ark)
         /\ signatures_chain(vcek, ask, ark)

\* The certificate's levels are the reported ones, and it is a chip's own.
validate_vcek_extensions(vcek, reported) ==
  /\ \A part \in TcbNames : vcek.tcb[part] = reported[part]
  /\ vcek.product = "Genoa"
  /\ ~vcek.csp_id

validate_vcek_hwid(vcek, chip_id, mask_chip_key) ==
  IF mask_chip_key THEN chip_id = ZeroChip ELSE vcek.hwid = chip_id

validate_report_with_chain(report, vcek) ==
  /\ validate_report_fields_with_options(report)
  /\ validate_vcek_extensions(vcek, report.reported)

-----------------------------------------------------------------------------
(* signature.rs and mod.rs *)

\* A mistake: a signature of the chip's is taken for one over this report.
verify_report_signature_keyOnly(report, signature, vcek) == signature.key = vcek.key

verify_report_signature(report, signature, vcek) == signature = [key |-> vcek.key, over |-> report]

\* The certificate fetch_vcek asks for: the chip and level the report names.
VcekLookup(report) == [chip |-> report.chip_id, tcb |-> report.reported]

\* attestation/mod.rs takes the format first; only SEV-SNP reports are verified.
verify_full_with_options(doc, vcek) ==
  /\ doc.format = "SevGuestV2"
  /\ validate_report_structure(doc.report)
  /\ verify_cert_chain_crypto(vcek)
  /\ validate_report_with_chain(doc.report, vcek)
  /\ validate_vcek_hwid(vcek, doc.report.chip_id, doc.report.mask_chip_key)
  /\ verify_report_signature(doc.report, doc.signature, vcek)

\* What an accepted report says of the enclave.
Verification(report) ==
  [measurement |-> [type |-> "SevGuestV2", registers |-> <<report.measurement>>],
   tls_public_key_fp |-> report.report_data.tls,
   hpke_public_key |-> report.report_data.hpke]
=============================================================================
