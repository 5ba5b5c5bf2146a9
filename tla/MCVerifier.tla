----------------------------- MODULE MCVerifier -----------------------------
(***************************************************************************)
(* A small world for Verifier: eight workflow runs, two log keys, two       *)
(* certificate authorities, three firmware images and seven guests.        *)
(***************************************************************************)
EXTENDS CrossCheck

Always == [from |-> 0, until |-> 99]

-----------------------------------------------------------------------------
(* The trust root. *)

Issued(subject, key, issuer, issuer_key) ==
  [subject |-> subject, issuer |-> issuer, key |-> key, tbs |-> <<subject, key>>, scts |-> <<>>,
   signature |-> Signed(issuer_key, <<<<subject, key>>, <<>>>>),
   ca |-> TRUE, time_stamping |-> FALSE, validity |-> Always]

\* The first authority was retired for the second, which has the same root.
MCFulcioCas ==
  << [chain |-> <<Issued("ca1", "ca1-key", "root", "root-key"), Issued("root", "root-key", "root", "root-key")>>,
      window |-> [from |-> 0, until |-> 4]],
     [chain |-> <<Issued("ca2", "ca2-key", "root", "root-key"), Issued("root", "root-key", "root", "root-key")>>,
      window |-> [from |-> 4, until |-> 99]] >>

MCCtLogs == {[key |-> "ct-key", window |-> Always]}

MCRekorKeys ==
  << [key_id |-> "log1", host |-> "rekor1", key |-> "log1-key", window |-> [from |-> 0, until |-> 6]],
     [key_id |-> "log2", host |-> "rekor2", key |-> "log2-key", window |-> [from |-> 5, until |-> 99]] >>

MCTimestampAuthorities ==
  << [chain |-> << [Issued("tsa", "tsa-key", "tsa-root", "tsa-root-key") EXCEPT !.ca = FALSE, !.time_stamping = TRUE],
                   Issued("tsa-root", "tsa-root-key", "tsa-root", "tsa-root-key") >>,
      window |-> Always] >>

-----------------------------------------------------------------------------
(* The runs of the workflow. *)

Statement(digest, measurement) ==
  [type |-> "https://in-toto.io/Statement/v1", subject |-> <<[name |-> "release.json", digest |-> digest]>>,
   predicate_type |-> "https://tinfoil.sh/predicate/snp-tdx-multiplatform/v1",
   predicate |-> [snp_measurement |-> measurement, rtmr1 |-> "r1", rtmr2 |-> "r2"]]

RunOf(repository, tag, statement, key) ==
  [repository |-> repository, tag |-> tag, statement |-> statement, key |-> key,
   certified |-> TRUE, signs |-> "statement",
   extensions |-> [issuer_v1 |-> "https://token.actions.githubusercontent.com",
                   issuer_v2 |-> "https://token.actions.githubusercontent.com",
                   repository_v1 |-> repository,
                   build_signer |-> [repository |-> repository, ref |-> tag]],
   kind |-> "dsse", version |-> "0.0.1", validity |-> [from |-> 1, until |-> 3], signed_at |-> 2,
   ca |-> 1, ct_log |-> "ct-key", log |-> 1, tsa |-> 1]

MCRuns ==
  << RunOf("repo", "v1", Statement("d1", "m1"), "k1"),
     \* The newer kind of entry, in the newer log, from the newer authority.
     [RunOf("repo", "v2", Statement("d2", "m2"), "k2") EXCEPT
        !.kind = "hashedrekord", !.version = "0.0.2", !.ca = 2, !.log = 2,
        !.validity = [from |-> 5, until |-> 7], !.signed_at = 6],
     \* Signed after its certificate had expired.
     [RunOf("repo", "v1", Statement("d1", "m9"), "k3") EXCEPT !.signed_at = 5],
     \* Another repository's.
     [RunOf("other", "v1", Statement("d1", "m8"), "k4") EXCEPT !.kind = "hashedrekord"],
     \* The older extensions, and signed at the last moment of its certificate.
     [RunOf("repo", "v2", Statement("d2", "m2"), "k5") EXCEPT
        !.kind = "hashedrekord", !.signed_at = 3,
        !.extensions = [issuer_v1 |-> "https://token.actions.githubusercontent.com",
                        source_repository |-> "repo",
                        build_signer |-> [repository |-> "repo", ref |-> "v2"]]],
     \* Certified by the authority that was no longer in service.
     [RunOf("repo", "v1", Statement("d1", "m7"), "k6") EXCEPT
        !.validity = [from |-> 5, until |-> 7], !.signed_at = 6],
     \* Signed the artifact itself, the second one with a key of its own.
     [RunOf("repo", "v1", Statement("d1", "m1"), "k7") EXCEPT
        !.kind = "hashedrekord", !.signs = "artifact"],
     [RunOf("repo", "v1", Statement("d1", "m1"), "k8") EXCEPT
        !.kind = "hashedrekord", !.signs = "artifact", !.certified = FALSE] >>

\* The runs that sign statements in every pair, the last three with the ones that
\* they could be taken for.
MCMixes == {{i, j} : i, j \in 1..5} \cup {{1, 6}, {1, 7}, {1, 8}, {7, 8}}

MCOthers == [i \in 1..6 |-> [other |-> i]]

MCReleases == {[tag |-> "v1", digest |-> "d1"], [tag |-> "v2", digest |-> "d2"], [tag |-> "v1", digest |-> "d2"]}

MCPinned == {[type |-> "SevGuestV2", registers |-> <<"m1">>],
   [type |-> "SnpTdxMultiPlatformV1", registers |-> <<"m1", "r1", "r2">>],
   [type |-> "TdxGuestV2", registers |-> <<"m1", "a", "r1", "r2", "0">>]}

-----------------------------------------------------------------------------
(* The chip and its guests. *)

\* The first image is below the minimum; the third is a newer build of the same
\* security level as the second, with a later format of the report.
MCFirmware ==
  << [bl_spl |-> 1, snp_spl |-> 0, build |-> 1, version |-> 1, report_version |-> 2, fills |-> {}],
     [bl_spl |-> 1, snp_spl |-> 1, build |-> 1, version |-> 2, report_version |-> 3, fills |-> {"family_model_stepping"}],
     [bl_spl |-> 1, snp_spl |-> 1, build |-> 2, version |-> 2, report_version |-> 5,
      fills |-> {"family_model_stepping", "mitigation_vectors"}] >>

MinimumTcb == [bl_spl |-> 1, tee_spl |-> 0, snp_spl |-> 1, ucode_spl |-> 1]

MCOptions ==
  [permit_provisional_firmware |-> FALSE,
   guest_policy |-> [abi |-> 0, capabilities |-> {"smt"}, restrictions |-> {}],
   minimum_guest_svn |-> 0, minimum_build |-> 1, minimum_version |-> 1,
   minimum_tcb |-> MinimumTcb, minimum_launch_tcb |-> MinimumTcb,
   platform_info |-> {"smt_enabled", "tsme_enabled"}, vmpl |-> 0, expected |-> << >>]

GoodGuest ==
  [signing_key |-> "vcek", mask_chip_key |-> FALSE,
   policy |-> [abi |-> 0, capabilities |-> {"smt"}, restrictions |-> {}, bit17 |-> TRUE],
   platform |-> {"smt_enabled", "tsme_enabled", "alias_check_complete"}, vmpl |-> 0,
   measurement |-> "m1", keys |-> [tls |-> "tls", hpke |-> "hpke"]]

MCGuests ==
  {GoodGuest,
   [GoodGuest EXCEPT !.measurement = "m2"],
   [GoodGuest EXCEPT !.policy.capabilities = {"smt", "debug"}],
   [GoodGuest EXCEPT !.vmpl = 2],
   [GoodGuest EXCEPT !.mask_chip_key = TRUE],
   [GoodGuest EXCEPT !.signing_key = "vlek"],
   [GoodGuest EXCEPT !.keys.hpke = AllZeros]}

MCAltKeys == [tls |-> "tls2", hpke |-> "hpke2"]

MCCertChain ==
  << [well_formed |-> TRUE, in_date |-> TRUE, ca |-> TRUE, subject |-> "SEV-Genoa", issuer |-> "ARK-Genoa",
      key |-> "ask-key", signed_by |-> "ark-key"],
     [well_formed |-> TRUE, in_date |-> TRUE, ca |-> TRUE, subject |-> "ARK-Genoa", issuer |-> "ARK-Genoa",
      key |-> "ark-key", signed_by |-> "ark-key"] >>

\* The right certificate, the one of another level or chip, one that has
\* expired, and one that AMD did not sign.
MCVceks(document, lookup) ==
  LET genuine == [well_formed |-> TRUE, in_date |-> TRUE, ca |-> FALSE, subject |-> "SEV-VCEK",
                  issuer |-> "SEV-Genoa", key |-> ChipKey("chip", lookup.tcb), signed_by |-> "ask-key",
                  product |-> "Genoa", csp_id |-> FALSE, hwid |-> "chip", tcb |-> lookup.tcb]
      low == [p \in TcbNames |-> 0]
  IN  {genuine, [genuine EXCEPT !.in_date = FALSE],
       [genuine EXCEPT !.signed_by = "ark-key"],
       [genuine EXCEPT !.hwid = "chip2", !.key = ChipKey("chip2", lookup.tcb)],
       [genuine EXCEPT !.tcb = low, !.key = ChipKey("chip", low)]}

-----------------------------------------------------------------------------
(* The TLS server. *)

\* A key that is not ECDSA, another key, the names of another document or another
\* key, none at all, the names of one value only, one piece less, one twice, the
\* pieces in the wrong places, both in one name, and one that is not base32.
MCTlsCerts(keys, document) ==
  LET plain == CertificateOf(keys, document)
      sans == plain.sans
      elsewhere == CertificateOf(keys, [document EXCEPT !.report.vmpl = 3])
      otherKeys == CertificateOf(MCAltKeys, document)
  IN  {[plain EXCEPT !.algorithm = "rsa"], otherKeys, elsewhere,
       [otherKeys EXCEPT !.fingerprint = keys.tls]}
        \cup {[plain EXCEPT !.sans = names] : names \in
                {<<>>, SubSeq(sans, 1, 2), SubSeq(sans, 3, 4), SubSeq(sans, 2, 4),
                 SubSeq(sans, 1, 3), sans \o <<sans[1]>>,
                 [sans EXCEPT ![3].index = 1, ![4].index = 0],
                 SubSeq(sans, 1, 2) \o <<[label |-> "hatt", index |-> 5,
                                          chunk |-> Pieces(hash(document))]>>,
                 sans \o <<[label |-> "hatt", index |-> 2,
                            chunk |-> <<Piece(hash(document), 0)>>]>>}}

-----------------------------------------------------------------------------
(* The disk of who runs the binary. *)

MCFiles == "out/release.json" :> "d1" @@ "release.json" :> "d9"

\* A digest, the release's file, another of the same name, and one that is not there.
MCArtifacts ==
  {[text |-> "sha256:d1", hex |-> {"d1"}, file_name |-> "sha256:d1"],
   [text |-> "out/release.json", hex |-> {}, file_name |-> "release.json"],
   [text |-> "release.json", hex |-> {}, file_name |-> "release.json"],
   [text |-> "out/missing", hex |-> {}, file_name |-> "missing"]}
=============================================================================
