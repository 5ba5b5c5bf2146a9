--------------------------- MODULE Verifier_proofs ---------------------------
(***************************************************************************)
(* What the client of Verifier accepts, for every world: that of all       *)
(* evidence put together from signing events it takes single ones only,    *)
(* and of all platforms those that stay as they were accepted.  Then what  *)
(* the conformance binary of CrossCheck accepts of the same bundles.       *)
(***************************************************************************)
EXTENDS CrossCheck, SequenceTheorems, WellFoundedInduction, TLAPS

-----------------------------------------------------------------------------
(* Bundles. *)

\* The parts of a bundle are of runs.
LEMMA PartsAreOfRuns ==
  ASSUME NEW b \in Bundles
  PROVE  /\ b.from \in [Parts -> DOMAIN Runs]
         /\ b # None
         /\ b.stamped \in BOOLEAN /\ b.promised \in BOOLEAN
  BY InputAssumption DEF Bundles, None

\* Two signatures are the same only if one run made them.
LEMMA SignaturesAreOfOneRun ==
  ASSUME NEW i \in DOMAIN Runs, NEW j \in DOMAIN Runs,
         SignatureOf(Runs[i]) = SignatureOf(Runs[j])
  PROVE  i = j
  BY SigningAssumption DEF SignatureOf, Signed

\* What a time stamp is over, and its time.
LEMMA Stamped ==
  ASSUME NEW r
  PROVE  StampOf(r).imprint = SignatureOf(r) /\ StampOf(r).gen_time = r.signed_at
  BY DEF StampOf

\* The parts of the assembled bundle.
LEMMA Assembled ==
  ASSUME NEW b
  PROVE  LET w == Assemble(b)
             of(part) == Runs[b.from[part]]
             e == w.tlog_entries[1]
         IN  /\ w.cert = CertIn(of("cert"))
             /\ w.payload_type = StatementType
             /\ w.payload = of("payload").statement
             /\ w.signatures[1] = SignatureOf(of("signature"))
             /\ w.timestamps = IF b.stamped THEN << StampOf(of("stamp")) >> ELSE <<>>
             /\ e.body = BodyOf(of("body"))
             /\ e.integrated_time = of("time").signed_at
             /\ e.inclusion_promise = IF b.promised THEN PromiseOf(of("promise"))
                                                    ELSE [present |-> FALSE]
  BY DEF Assemble

\* An envelope that verifies is one run's: the certificate is of the run that
\* signed the statement in it, and that signed in an envelope.
LEMMA EnvelopesAreOfOneRun ==
  ASSUME NEW b \in Bundles,
         verify_dsse_signature(Assemble(b))
  PROVE  LET r == Runs[b.from["cert"]] IN
         /\ r.certified /\ r.signs = "statement"
         /\ Assemble(b).cert = CertOf(r)
         /\ Assemble(b).payload = r.statement
         /\ Assemble(b).signatures[1] = SignatureOf(r)
<1> DEFINE i == b.from["cert"]
           j == b.from["signature"]
           w == Assemble(b)
<1> HIDE DEF i, j, w
<1>1. i \in DOMAIN Runs /\ j \in DOMAIN Runs
  BY PartsAreOfRuns DEF Parts, i, j
<1>2. /\ w.cert = CertIn(Runs[i])
      /\ w.signatures[1] = SignatureOf(Runs[j])
      /\ w.payload_type = StatementType
  BY Assembled DEF i, j, w
<1>3. /\ validate_certificate_extensions(w.cert)
      /\ w.signatures[1] = Signed(w.cert.key, compute_pae(w.payload_type, w.payload))
  BY DEF verify_dsse_signature, w
<1>4. Runs[i].certified /\ w.cert = CertOf(Runs[i]) /\ w.cert.key = Runs[i].key
  <2>1. ASSUME ~Runs[i].certified
        PROVE  FALSE
    <3>1. w.cert = NoCertificate
      BY <1>2, <2>1 DEF CertIn
    <3> QED BY <3>1, <1>3 DEF validate_certificate_extensions, NoCertificate
  <2>2. w.cert = CertOf(Runs[i])
    BY <2>1, <1>2 DEF CertIn
  <2> QED BY <2>1, <2>2 DEF CertOf
<1>5. /\ Runs[j].key = Runs[i].key
      /\ SignedBy(Runs[j]) = compute_pae(StatementType, w.payload)
  BY <1>2, <1>3, <1>4 DEF SignatureOf, Signed
<1>6. j = i
  BY <1>1, <1>5, SigningAssumption
<1>7. Runs[i].signs = "statement" /\ w.payload = Runs[i].statement
  BY <1>5, <1>6 DEF SignedBy, compute_pae
<1> QED BY <1>2, <1>4, <1>6, <1>7 DEF i, w

\* The time that counts for an entry that verifies is when the run signed, whoever
\* vouches for it.
LEMMA TimeIsTheRuns ==
  ASSUME NEW b \in Bundles,
         verify_dsse_signature(Assemble(b)),
         verify_rekor_entry(Assemble(b))
  PROVE  LET r == Runs[b.from["cert"]]
             e == Assemble(b).tlog_entries[1]
         IN  /\ e.body = BodyOf(r)
             /\ observer_time(e, verify_timestamps(Assemble(b))) = r.signed_at
<1> DEFINE i == b.from["cert"]
           w == Assemble(b)
           e == w.tlog_entries[1]
           times == verify_timestamps(w)
           time == observer_time(e, times)
           key == RekorKeyAt(e.log_id, time)
<1> HIDE DEF i, w, times, time, key
<1>1. /\ i \in DOMAIN Runs
      /\ \A part \in Parts : b.from[part] \in DOMAIN Runs
      /\ b.stamped \in BOOLEAN /\ b.promised \in BOOLEAN
  BY PartsAreOfRuns DEF Parts, i
<1>2. w.signatures[1] = SignatureOf(Runs[i])
  BY EnvelopesAreOfOneRun DEF w, i
<1>3. /\ StampNeeded(e) => times # {}
      /\ IsV1(e) \/ IsV2(e)
      /\ e.version = "0.0.1" /\ e.inclusion_promise.present => verify_signed_entry_timestamp(e, key)
      /\ verify_signature_binding(w, e.body)
  BY DEF verify_rekor_entry, w, times, time, key
<1>4. e.body = BodyOf(Runs[i])
  <2>1. e.body = BodyOf(Runs[b.from["body"]]) /\ b.from["body"] \in DOMAIN Runs
    BY Assembled, <1>1 DEF w, Parts
  <2>2. SignatureOf(Runs[b.from["body"]]) = SignatureOf(Runs[i])
    BY <1>2, <1>3, <2>1 DEF verify_signature_binding, BodyOf
  <2>3. b.from["body"] = i
    BY <2>1, <2>2, <1>1, SignaturesAreOfOneRun
  <2> QED BY <2>1, <2>3
<1>5. ASSUME StampNeeded(e)
      PROVE  time = Runs[i].signed_at
  <2>1. times \subseteq {Runs[i].signed_at}
    <3> SUFFICES ASSUME NEW t \in times PROVE t = Runs[i].signed_at
      OBVIOUS
    <3>1. PICK n \in DOMAIN w.timestamps : /\ verify_timestamp(w.timestamps[n], w.signatures[1])
                                           /\ t = w.timestamps[n].gen_time
      BY DEF times, verify_timestamps
    <3>2. w.timestamps[n] = StampOf(Runs[b.from["stamp"]])
      <4>1. w.timestamps = IF b.stamped THEN << StampOf(Runs[b.from["stamp"]]) >> ELSE <<>>
        BY Assembled DEF w
      <4>2. w.timestamps = << StampOf(Runs[b.from["stamp"]]) >> /\ n = 1
        BY <4>1, <3>1
      <4> QED BY <4>2
    <3>3. /\ w.timestamps[n].imprint = SignatureOf(Runs[b.from["stamp"]])
          /\ t = Runs[b.from["stamp"]].signed_at
      BY <3>1, <3>2, Stamped
    <3>4. b.from["stamp"] = i
      <4>1. SignatureOf(Runs[b.from["stamp"]]) = SignatureOf(Runs[i])
        BY <3>1, <3>3, <1>2 DEF verify_timestamp
      <4> QED BY <4>1, <1>1, SignaturesAreOfOneRun DEF Parts
    <3> QED BY <3>3, <3>4
  <2>2. times = {Runs[i].signed_at}
    BY <2>1, <1>3, <1>5
  <2>3. Runs[i].signed_at <= Runs[i].signed_at
    <3>1. Runs[i].signed_at \in Nat
      BY <1>1, SigningAssumption
    <3> QED BY <3>1
  <2> QED BY <2>2, <2>3, <1>5 DEF time, observer_time
<1>6. ASSUME ~StampNeeded(e)
      PROVE  time = Runs[i].signed_at
  <2>1. e.version = "0.0.1" /\ HasSet(e)
    BY <1>3, <1>6 DEF StampNeeded, IsV1
  <2>2. e.inclusion_promise = PromiseOf(Runs[b.from["promise"]])
    <3>1. e.inclusion_promise = IF b.promised THEN PromiseOf(Runs[b.from["promise"]])
                                             ELSE [present |-> FALSE]
      BY Assembled DEF w
    <3>2. ASSUME ~b.promised PROVE FALSE
      <4>1. e.inclusion_promise = [present |-> FALSE]
        BY <3>1, <3>2
      <4> QED BY <2>1, <4>1 DEF HasSet
    <3> QED BY <3>1, <3>2
  <2>3. verify_signed_entry_timestamp(e, key)
    BY <1>3, <2>1, <2>2 DEF PromiseOf
  <2>4. /\ e.body = BodyOf(Runs[b.from["promise"]])
        /\ e.integrated_time = Runs[b.from["promise"]].signed_at
    BY <2>2, <2>3 DEF verify_signed_entry_timestamp, PromiseOf, Signed, SetPayload
  <2>5. b.from["promise"] = i
    BY <2>4, <1>4, <1>1, SignaturesAreOfOneRun DEF BodyOf, Parts
  <2> QED BY <2>4, <2>5, <1>6 DEF time, observer_time
<1> QED BY <1>4, <1>5, <1>6 DEF i, w, times, time

\* The certificate of a run that passes was made by the run's authority, in its
\* service, for the repository and the tag.
LEMMA CertificatesSayWhatRunsAre ==
  ASSUME NEW i \in DOMAIN Runs, NEW tag,
         verify_certificate_identity(extract_certificate_info(CertOf(Runs[i])), Repo, tag),
         verify_fulcio_chain(CertOf(Runs[i]))
  PROVE  /\ Runs[i].repository = Repo /\ Runs[i].tag = tag
         /\ Runs[i].validity.from \in
              FulcioCas[Runs[i].ca].window.from..FulcioCas[Runs[i].ca].window.until
<1> DEFINE r == Runs[i]
           info == extract_certificate_info([extensions |-> r.extensions])
<1> HIDE DEF r, info
<1>1. extract_certificate_info(CertOf(r)) = info
  BY DEF extract_certificate_info, extension, CertOf, info
<1>2. /\ info.repository \subseteq {r.repository}
      /\ info.workflow \subseteq {[repository |-> r.repository, ref |-> r.tag]}
      /\ r.ca \in DOMAIN FulcioCas
      /\ r.validity.from \in Nat
  BY SigningAssumption DEF r, info
<1>3. info.repository = {Repo} /\ info.workflow = {[repository |-> Repo, ref |-> tag]}
  BY <1>1 DEF verify_certificate_identity, r
<1>4. r.repository = Repo /\ r.tag = tag
  BY <1>2, <1>3
<1>5. PICK n \in DOMAIN FulcioCas :
        /\ Within(CertOf(r).validity.from, FulcioCas[n].window)
        /\ verify_issued_by(CertOf(r), FulcioCas[n].chain[1])
  BY DEF verify_fulcio_chain, verify_against_chain, r
<1>6. CertOf(r).validity = r.validity /\ CertOf(r).signature.key = FulcioCas[r.ca].chain[1].key
  BY DEF CertOf, Signed
<1>7. FulcioCas[n].chain[1].key = FulcioCas[r.ca].chain[1].key
  BY <1>5, <1>6 DEF verify_issued_by, Signed
<1>8. n = r.ca
  BY <1>2, <1>7, SigningAssumption
<1>9. /\ FulcioCas[n].window.from <= r.validity.from
      /\ r.validity.from <= FulcioCas[n].window.until
      /\ FulcioCas[n].window.from \in Nat /\ FulcioCas[n].window.until \in Nat
  BY <1>5, <1>6, SigningAssumption DEF Within
<1>10. r.validity.from \in FulcioCas[n].window.from..FulcioCas[n].window.until
  BY <1>9, <1>2
<1> QED BY <1>4, <1>8, <1>10 DEF r

\* A bundle that verifies is of a timely run for the release, and every run it
\* could be of stated what the client takes for the code's measurement.
LEMMA AcceptedBundleIsOneRuns ==
  ASSUME NEW b \in Bundles, NEW rel,
         verify_repo(Assemble(b), Repo, rel)
  PROVE  /\ b.from["cert"] \in Origin(b)
         /\ LET r == Runs[b.from["cert"]] IN
            /\ r.certified /\ r.signs = "statement"
            /\ r.repository = Repo /\ r.tag = rel.tag /\ r.statement.subject[1].digest = rel.digest
            /\ r.signed_at \in r.validity.from..r.validity.until
            /\ r.validity.from \in FulcioCas[r.ca].window.from..FulcioCas[r.ca].window.until
         /\ \A n \in Origin(b) :
              extract_measurement(Assemble(b)).registers[1] = Runs[n].statement.predicate["snp_measurement"]
<1> DEFINE i == b.from["cert"]
           w == Assemble(b)
           e == w.tlog_entries[1]
           time == observer_time(e, verify_timestamps(w))
<1> HIDE DEF i, w, time
<1>1. i \in DOMAIN Runs
  BY PartsAreOfRuns DEF Parts, i
<1>2. /\ verify_dsse_signature(w)
      /\ verify_certificate_identity(extract_certificate_info(w.cert), Repo, rel.tag)
      /\ verify_rekor_entry(w)
      /\ verify_fulcio_chain(w.cert)
      /\ verify_statement(w, rel.digest)
  BY DEF verify_repo, w
<1>3. /\ Runs[i].certified /\ Runs[i].signs = "statement"
      /\ w.cert = CertOf(Runs[i])
      /\ w.payload = Runs[i].statement
      /\ w.signatures[1] = SignatureOf(Runs[i])
  BY <1>2, EnvelopesAreOfOneRun DEF i, w
<1>4. e.body = BodyOf(Runs[i]) /\ time = Runs[i].signed_at
  BY <1>2, TimeIsTheRuns DEF i, w, time
<1>5. i \in Origin(b)
  <2>1. w.cert = CertIn(Runs[i])
    BY <1>3 DEF CertIn
  <2> QED BY <1>1, <1>3, <1>4, <2>1 DEF Origin, i, w, time
<1>6. /\ Runs[i].repository = Repo /\ Runs[i].tag = rel.tag
      /\ Runs[i].validity.from \in
           FulcioCas[Runs[i].ca].window.from..FulcioCas[Runs[i].ca].window.until
  BY <1>1, <1>2, <1>3, CertificatesSayWhatRunsAre
<1>7. Runs[i].statement.subject[1].digest = rel.digest
  BY <1>2, <1>3 DEF verify_statement
<1>8. Runs[i].signed_at \in Runs[i].validity.from..Runs[i].validity.until
  <2>1. Within(time, w.cert.validity)
    BY <1>2 DEF verify_rekor_entry, time
  <2>2. w.cert.validity = Runs[i].validity
    BY <1>3 DEF CertOf
  <2>3. /\ Runs[i].validity.from <= Runs[i].signed_at
        /\ Runs[i].signed_at <= Runs[i].validity.until
    BY <1>4, <2>1, <2>2 DEF Within
  <2>4. /\ Runs[i].signed_at \in Nat
        /\ Runs[i].validity.from \in Nat /\ Runs[i].validity.until \in Nat
    BY <1>1, SigningAssumption
  <2> QED BY <2>3, <2>4
<1>9. ASSUME NEW n \in Origin(b)
      PROVE  extract_measurement(w).registers[1] = Runs[n].statement.predicate["snp_measurement"]
  <2>1. w.payload = Runs[n].statement
    BY DEF Origin, w
  <2> QED BY <2>1 DEF extract_measurement
<1> QED BY <1>3, <1>5, <1>6, <1>7, <1>8, <1>9 DEF i, w

-----------------------------------------------------------------------------
(* The inductive invariant. *)

Levels == [image : 1..Len(Firmware), microcode : 0..MaxMicrocode]

\* What is committed is never ahead of what runs.
ChipIsInOrder ==
  /\ chip \in [current : Levels, committed : Levels, reported : {TcbOf(level) : level \in Levels}]
  /\ chip.committed.image <= chip.current.image
  /\ chip.committed.microcode <= chip.current.microcode

\* The client has nothing before it fetches it.
StagesFollow ==
  /\ stage = "idle" => release = None
  /\ stage \in {"release", "bundle"} => release # None
  /\ stage \in {"idle", "release", "bundle"} => code = None
  /\ stage \in {"idle", "release"} => bundle = None
  /\ stage = "bundle" => bundle \in Bundles

\* The measurement of a release is what every run it could be of stated.
CodeIsOfItsOrigin ==
  code # None /\ release # None =>
    \A i \in origin : code.registers[1] = Runs[i].statement.predicate["snp_measurement"]

\* The document in hand is of the guest on its chip, honest or altered, and from
\* when it was verified on it is the honest one and all checks hold of its report.
DocumentIsOfTheGuest ==
  stage \in {"doc", "connect", "binding"} => guest # None /\ doc \in Documents(chip, guest)

DocumentWasVerified ==
  stage \in {"connect", "binding"} =>
    /\ doc = DocumentOf(chip, guest)
    /\ validate_report_fields_with_options(doc.report)
    /\ equals(code, Verification(doc.report).measurement)

\* The committed firmware keeps what the report said of the current one.
AcceptedLevelIsCommitted ==
  stage = "verified" =>
    LET floor == FirmwareOf(chip.committed)
        accepted == truth.report.current
    IN  /\ \A part \in TcbNames :
             /\ accepted.tcb[part] \in Nat
             /\ floor.tcb[part] >= accepted.tcb[part]
             /\ accepted.tcb[part] >= Options.minimum_tcb[part]
             /\ guest.launch[part] >= Options.minimum_launch_tcb[part]
        /\ accepted.build \in Nat
        /\ floor.build >= accepted.build
        /\ "debug" \notin guest.kind.policy.capabilities
        /\ guest.kind.vmpl = Options.vmpl

\* What the host serves is a certificate.
NamesAreNames ==
  stage = "binding" => \A i \in DOMAIN served.sans : IsName(served.sans[i])

IInv ==
  /\ TypeOK
  /\ ChipIsInOrder
  /\ StagesFollow
  /\ OneSigningEvent
  /\ CodeIsOfItsOrigin
  /\ DocumentIsOfTheGuest
  /\ DocumentWasVerified
  /\ AcceptedLevelIsCommitted
  /\ stage = "verified" => guest # None
  /\ VerifiedCodeIsTheRelease
  /\ NamesAreNames
  /\ CertificateHoldsBothValues

-----------------------------------------------------------------------------
(* The chip. *)

\* A level's components are numbers, and grow with its image and microcode.
LEMMA LevelsGrow ==
  ASSUME NEW low \in Levels, NEW high \in Levels,
         low.image <= high.image, low.microcode <= high.microcode
  PROVE  /\ \A part \in TcbNames : /\ TcbOf(low)[part] \in Nat /\ TcbOf(high)[part] \in Nat
                                   /\ TcbOf(low)[part] <= TcbOf(high)[part]
         /\ Firmware[low.image].build \in Nat /\ Firmware[high.image].build \in Nat
         /\ Firmware[low.image].build <= Firmware[high.image].build
<1>1. /\ low.image \in 1..Len(Firmware) /\ high.image \in low.image..Len(Firmware)
      /\ high.image \in 1..Len(Firmware)
      /\ low.microcode \in Nat /\ high.microcode \in Nat
  BY PlatformAssumption DEF Levels
<1>2. /\ Firmware[low.image].bl_spl \in Nat /\ Firmware[high.image].bl_spl \in Nat
      /\ Firmware[low.image].snp_spl \in Nat /\ Firmware[high.image].snp_spl \in Nat
      /\ Firmware[low.image].build \in Nat /\ Firmware[high.image].build \in Nat
      /\ Firmware[low.image].bl_spl <= Firmware[high.image].bl_spl
      /\ Firmware[low.image].snp_spl <= Firmware[high.image].snp_spl
      /\ Firmware[low.image].build <= Firmware[high.image].build
  BY <1>1, PlatformAssumption
<1>3. ASSUME NEW part \in TcbNames
      PROVE  /\ TcbOf(low)[part] \in Nat /\ TcbOf(high)[part] \in Nat
             /\ TcbOf(low)[part] <= TcbOf(high)[part]
  <2>1. CASE part = "bl_spl"
    BY <2>1, <1>2 DEF TcbOf
  <2>2. CASE part = "tee_spl"
    BY <2>2 DEF TcbOf
  <2>3. CASE part = "snp_spl"
    BY <2>3, <1>2 DEF TcbOf
  <2>4. CASE part = "ucode_spl"
    BY <2>4, <1>1 DEF TcbOf
  <2> QED BY <2>1, <2>2, <2>3, <2>4 DEF TcbNames
<1> QED BY <1>2, <1>3

\* The chip keeps its order, and the committed level never falls.
LEMMA CommittedNeverFalls ==
  ASSUME ChipIsInOrder, [Next]_vars
  PROVE  /\ ChipIsInOrder'
         /\ chip.committed.image <= chip'.committed.image
         /\ chip.committed.microcode <= chip'.committed.microcode
<1> DEFINE Tcbs == {TcbOf(level) : level \in Levels}
           Chips == [current : Levels, committed : Levels, reported : Tcbs]
<1>1. /\ chip \in Chips
      /\ chip.current.image \in 1..Len(Firmware) /\ chip.current.microcode \in 0..MaxMicrocode
      /\ chip.committed.image \in 1..Len(Firmware) /\ chip.committed.microcode \in 0..MaxMicrocode
      /\ chip.committed.image <= chip.current.image
      /\ chip.committed.microcode <= chip.current.microcode
  BY DEF ChipIsInOrder, Levels
<1>2. Len(Firmware) \in Nat /\ MaxMicrocode \in Nat
  BY PlatformAssumption
<1>3. CASE Load
  <2>1. PICK i \in chip.committed.image..Len(Firmware), m \in chip.committed.microcode..MaxMicrocode :
          chip' = [chip EXCEPT !.current = [image |-> i, microcode |-> m]]
    BY <1>3 DEF Load
  <2>2. /\ i \in 1..Len(Firmware) /\ m \in 0..MaxMicrocode
        /\ chip.committed.image <= i /\ chip.committed.microcode <= m
    BY <1>1, <1>2
  <2>3. [image |-> i, microcode |-> m] \in Levels
    BY <2>2 DEF Levels
  <2>4. /\ chip' \in Chips
        /\ chip'.current = [image |-> i, microcode |-> m]
        /\ chip'.committed = chip.committed
    BY <1>1, <2>1, <2>3
  <2> QED BY <1>1, <1>2, <2>2, <2>4 DEF ChipIsInOrder
<1>4. CASE Commit
  <2>1. chip' = [chip EXCEPT !.committed = chip.current, !.reported = TcbOf(chip.current)]
    BY <1>4 DEF Commit
  <2>2. chip.current \in Levels /\ TcbOf(chip.current) \in Tcbs
    BY <1>1
  <2>3. /\ chip' \in Chips
        /\ chip'.current = chip.current
        /\ chip'.committed = chip.current
    BY <1>1, <2>1, <2>2
  <2> QED BY <1>1, <1>2, <2>3 DEF ChipIsInOrder
<1>5. CASE ReportLower
  <2>1. PICK i \in 1..chip.committed.image, m \in 0..chip.committed.microcode :
          chip' = [chip EXCEPT !.reported = TcbOf([image |-> i, microcode |-> m])]
    BY <1>5 DEF ReportLower
  <2>2. i \in 1..Len(Firmware) /\ m \in 0..MaxMicrocode
    BY <1>1, <1>2
  <2>3. TcbOf([image |-> i, microcode |-> m]) \in Tcbs
    BY <2>2 DEF Levels
  <2>4. /\ chip' \in Chips
        /\ chip'.current = chip.current
        /\ chip'.committed = chip.committed
    BY <1>1, <2>1, <2>3
  <2> QED BY <1>1, <1>2, <2>4 DEF ChipIsInOrder
<1>6. CASE UNCHANGED chip
  BY <1>1, <1>2, <1>6 DEF ChipIsInOrder
<1>7. [Next]_vars => Load \/ Commit \/ ReportLower \/ UNCHANGED chip
  BY DEF Next, vars, world, client, Launch, FetchRelease, FetchBundle, UsePinned, FetchFails,
         VerifyRepo, FetchDoc, VerifyDoc, Connect, VerifyBinding
<1> QED BY <1>3, <1>4, <1>5, <1>6, <1>7

-----------------------------------------------------------------------------
(* The code's measurement. *)

\* Where the code's measurement, the release and the origin change.
LEMMA CodeKeepsItsOrigin ==
  ASSUME TypeOK, StagesFollow, OneSigningEvent, CodeIsOfItsOrigin, [Next]_vars
  PROVE  StagesFollow' /\ OneSigningEvent' /\ CodeIsOfItsOrigin'
<1>1. CASE Load \/ Commit \/ ReportLower \/ Launch \/ UNCHANGED vars
  <2>1. UNCHANGED <<stage, release, bundle, code, origin>>
    BY <1>1 DEF Load, Commit, ReportLower, Launch, HostActs, client, vars
  <2> QED BY <2>1 DEF StagesFollow, OneSigningEvent, Timely, CodeIsOfItsOrigin
<1>2. CASE FetchRelease
  BY <1>2, InputAssumption
     DEF FetchRelease, StagesFollow, OneSigningEvent, CodeIsOfItsOrigin
<1>3. CASE FetchBundle
  BY <1>3 DEF FetchBundle, StagesFollow, OneSigningEvent, CodeIsOfItsOrigin
<1>4. CASE UsePinned
  BY <1>4 DEF UsePinned, StagesFollow, OneSigningEvent, CodeIsOfItsOrigin
<1>5. CASE FetchFails
  BY <1>5 DEF FetchFails, StagesFollow, OneSigningEvent, Timely, CodeIsOfItsOrigin
<1>6. CASE VerifyRepo
  <2>1. /\ stage = "bundle" /\ bundle \in Bundles /\ code = None /\ release' = release
    BY <1>6 DEF VerifyRepo, StagesFollow
  <2>2. CASE verify_repo(Assemble(bundle), Repo, release)
    <3>1. /\ code' = extract_measurement(Assemble(bundle))
          /\ origin' = Origin(bundle)
          /\ stage' = "code"
      BY <1>6, <2>2 DEF VerifyRepo
    <3>2. StagesFollow'
      BY <3>1 DEF StagesFollow
    <3>3. \E n \in origin' : Timely(Runs[n])'
      <4>1. /\ bundle.from["cert"] \in origin'
            /\ Timely(Runs[bundle.from["cert"]])
        BY <2>1, <2>2, <3>1, AcceptedBundleIsOneRuns DEF Timely
      <4> QED BY <4>1, <2>1 DEF Timely
    <3>4. \A n \in origin' : code'.registers[1] = Runs[n].statement.predicate["snp_measurement"]
      BY <2>1, <2>2, <3>1, AcceptedBundleIsOneRuns
    <3> QED BY <3>2, <3>3, <3>4 DEF OneSigningEvent, CodeIsOfItsOrigin
  <2>3. CASE ~verify_repo(Assemble(bundle), Repo, release)
    <3>1. stage' = "refused" /\ code' = None
      BY <1>6, <2>1, <2>3 DEF VerifyRepo
    <3> QED BY <3>1 DEF StagesFollow, OneSigningEvent, CodeIsOfItsOrigin
  <2> QED BY <2>2, <2>3
<1>7. CASE FetchDoc \/ VerifyDoc \/ Connect \/ VerifyBinding
  <2>1. /\ UNCHANGED <<release, code, origin>>
        /\ stage' \in {"doc", "connect", "refused", "binding", "verified"}
    BY <1>7 DEF FetchDoc, VerifyDoc, Connect, VerifyBinding
  <2> QED BY <2>1 DEF StagesFollow, OneSigningEvent, Timely, CodeIsOfItsOrigin
<1> QED BY <1>1, <1>2, <1>3, <1>4, <1>5, <1>6, <1>7 DEF Next

-----------------------------------------------------------------------------
(* The document. *)

\* A document of the guest that verifies is the honest one: contents that were
\* altered are not what the signature is over.
LEMMA VerifiedDocumentIsHonest ==
  ASSUME NEW d \in Documents(chip, guest), NEW vcek,
         verify_full_with_options(d, vcek)
  PROVE  d = DocumentOf(chip, guest) /\ validate_report_fields_with_options(d.report)
<1> DEFINE honest == DocumentOf(chip, guest)
<1>1. /\ d.format = "SevGuestV2"
      /\ d.signature = [key |-> vcek.key, over |-> d.report]
      /\ validate_report_fields_with_options(d.report)
  BY DEF verify_full_with_options, verify_report_signature, validate_report_with_chain
<1>2. d.signature = honest.signature /\ honest.signature.over = honest.report
  BY DEF Documents, DocumentOf, Signed
<1>3. d.report = honest.report
  BY <1>1, <1>2
<1>4. d = [format |-> d.format, report |-> d.report, signature |-> d.signature]
  BY DEF Documents, DocumentOf
<1>5. honest = [format |-> "SevGuestV2", report |-> honest.report, signature |-> honest.signature]
  BY DEF DocumentOf
<1>6. d = honest
  BY <1>1, <1>2, <1>3, <1>4, <1>5
<1> QED BY <1>1, <1>6

\* Documents in hand, altered or not, are of the guest that runs.
LEMMA DocumentsAreOfTheGuest ==
  ASSUME StagesFollow, DocumentIsOfTheGuest, DocumentWasVerified,
         stage = "verified" => guest # None, [Next]_vars
  PROVE  DocumentIsOfTheGuest' /\ DocumentWasVerified' /\ (stage = "verified" => guest # None)'
<1>1. CASE Load \/ Commit \/ ReportLower
  BY <1>1 DEF Load, Commit, ReportLower, HostActs, client, DocumentIsOfTheGuest, DocumentWasVerified
<1>2. CASE Launch
  BY <1>2 DEF Launch, HostActs, client, DocumentIsOfTheGuest, DocumentWasVerified
<1>3. CASE UNCHANGED vars
  BY <1>3 DEF vars, world, client, DocumentIsOfTheGuest, DocumentWasVerified
<1>4. CASE FetchRelease \/ FetchBundle \/ UsePinned \/ FetchFails \/ VerifyRepo
  <2>1. stage' \in {"release", "bundle", "code", "refused"}
    BY <1>4 DEF FetchRelease, FetchBundle, UsePinned, FetchFails, VerifyRepo
  <2> QED BY <2>1 DEF DocumentIsOfTheGuest, DocumentWasVerified
<1>5. CASE FetchDoc
  BY <1>5 DEF FetchDoc, world, DocumentIsOfTheGuest, DocumentWasVerified
<1>6. CASE VerifyDoc
  <2>1. /\ stage = "doc" /\ guest # None /\ doc \in Documents(chip, guest)
        /\ UNCHANGED <<chip, guest, code>>
    BY <1>6 DEF VerifyDoc, world, DocumentIsOfTheGuest
  <2>2. PICK vcek \in Vceks(doc, VcekLookup(doc.report)) :
          IF /\ verify_full_with_options(doc, vcek)
             /\ equals(code, Verification(doc.report).measurement)
          THEN stage' = "connect" /\ UNCHANGED doc
          ELSE stage' = "refused" /\ doc' = None
    BY <1>6 DEF VerifyDoc
  <2>3. CASE stage' = "refused"
    BY <2>3 DEF DocumentIsOfTheGuest, DocumentWasVerified
  <2>4. CASE stage' # "refused"
    <3>1. /\ verify_full_with_options(doc, vcek)
          /\ equals(code, Verification(doc.report).measurement)
          /\ stage' = "connect" /\ UNCHANGED doc
      BY <2>2, <2>4
    <3>2. doc = DocumentOf(chip, guest) /\ validate_report_fields_with_options(doc.report)
      BY <2>1, <3>1, VerifiedDocumentIsHonest
    <3>3. DocumentIsOfTheGuest'
      BY <2>1, <3>1 DEF DocumentIsOfTheGuest
    <3>4. DocumentWasVerified'
      BY <2>1, <3>1, <3>2 DEF DocumentWasVerified
    <3> QED BY <3>1, <3>3, <3>4
  <2> QED BY <2>3, <2>4
<1>7. CASE Connect
  BY <1>7 DEF Connect, world, DocumentIsOfTheGuest, DocumentWasVerified
<1>8. CASE VerifyBinding
  <2>1. stage = "binding" /\ stage' \in {"verified", "refused"} /\ UNCHANGED guest
    BY <1>8 DEF VerifyBinding, world
  <2> QED BY <2>1 DEF DocumentIsOfTheGuest, DocumentWasVerified
<1> QED BY <1>1, <1>2, <1>3, <1>4, <1>5, <1>6, <1>7, <1>8 DEF Next

-----------------------------------------------------------------------------
(* The platform. *)

\* The committed firmware has what an accepted report says of the current one.
LEMMA AcceptedReportIsOfTheCommitted ==
  ASSUME NEW report, report = ReportOf(chip, guest), ChipIsInOrder,
         validate_report_fields_with_options(report)
  PROVE  LET floor == FirmwareOf(chip.committed) IN
         /\ \A part \in TcbNames :
              /\ report.current.tcb[part] \in Nat
              /\ floor.tcb[part] >= report.current.tcb[part]
              /\ report.current.tcb[part] >= Options.minimum_tcb[part]
              /\ guest.launch[part] >= Options.minimum_launch_tcb[part]
         /\ report.current.build \in Nat
         /\ floor.build >= report.current.build
         /\ "debug" \notin guest.kind.policy.capabilities
         /\ guest.kind.vmpl = Options.vmpl
<1>1. /\ report.current = FirmwareOf(chip.current)
      /\ report.committed = FirmwareOf(chip.committed)
      /\ report.launch = guest.launch
      /\ report.policy = guest.kind.policy
      /\ report.vmpl = guest.kind.vmpl
  BY DEF ReportOf
<1>2. /\ report.committed.tcb = report.current.tcb
      /\ report.committed.build = report.current.build
  BY DEF validate_report_fields_with_options, Required, validate_committed_tcb
<1>3. /\ meets_minimum(report.current.tcb, Options.minimum_tcb)
      /\ meets_minimum(report.launch, Options.minimum_launch_tcb)
  BY DEF validate_report_fields_with_options, MeetsMinimums
<1>4. /\ report.policy.capabilities \subseteq Options.guest_policy.capabilities
      /\ report.vmpl = Options.vmpl
  BY DEF validate_report_fields_with_options, validate_policy, validate_vmpl
<1>5. /\ chip.current \in Levels
      /\ chip.current.image <= chip.current.image /\ chip.current.microcode <= chip.current.microcode
  BY DEF ChipIsInOrder, Levels
<1>6. /\ \A part \in TcbNames : report.current.tcb[part] \in Nat
      /\ report.current.build \in Nat
  BY <1>1, <1>5, LevelsGrow DEF FirmwareOf
<1> QED BY <1>1, <1>2, <1>3, <1>4, <1>6, PlatformAssumption DEF meets_minimum

\* What was accepted stays below what is committed.
LEMMA AcceptedLevelStays ==
  ASSUME ChipIsInOrder, DocumentWasVerified, AcceptedLevelIsCommitted,
         stage = "verified" => guest # None, [Next]_vars
  PROVE  AcceptedLevelIsCommitted'
<1> SUFFICES ASSUME stage' = "verified"
             PROVE  AcceptedLevelIsCommitted'
  BY DEF AcceptedLevelIsCommitted
<1>1. CASE stage = "verified"
  <2>1. UNCHANGED <<guest, truth>>
    BY <1>1 DEF Next, vars, world, client, HostActs, Load, Commit, ReportLower, Launch, FetchRelease,
       FetchBundle, UsePinned, FetchFails, VerifyRepo, FetchDoc, VerifyDoc, Connect, VerifyBinding
  <2>2. /\ chip.committed \in Levels /\ chip'.committed \in Levels
        /\ chip.committed.image <= chip'.committed.image
        /\ chip.committed.microcode <= chip'.committed.microcode
    BY CommittedNeverFalls DEF ChipIsInOrder
  <2> DEFINE floor == FirmwareOf(chip.committed)
             later == FirmwareOf(chip'.committed)
             accepted == truth.report.current
  <2>3. /\ \A part \in TcbNames : /\ floor.tcb[part] \in Nat /\ later.tcb[part] \in Nat
                                  /\ floor.tcb[part] <= later.tcb[part]
        /\ floor.build \in Nat /\ later.build \in Nat /\ floor.build <= later.build
    BY <2>2, LevelsGrow DEF FirmwareOf
  <2>4. /\ \A part \in TcbNames : /\ accepted.tcb[part] \in Nat
                                  /\ floor.tcb[part] >= accepted.tcb[part]
        /\ accepted.build \in Nat /\ floor.build >= accepted.build
    BY <1>1 DEF AcceptedLevelIsCommitted
  <2> HIDE DEF floor, later, accepted
  <2>5. /\ \A part \in TcbNames : later.tcb[part] >= accepted.tcb[part]
        /\ later.build >= accepted.build
    BY <2>3, <2>4
  <2> QED BY <1>1, <2>1, <2>5 DEF AcceptedLevelIsCommitted, later, accepted
<1>2. CASE stage # "verified"
  <2>1. VerifyBinding
    BY <1>2 DEF Next, vars, world, client, HostActs, Load, Commit, ReportLower, Launch, FetchRelease,
       FetchBundle, UsePinned, FetchFails, VerifyRepo, FetchDoc, VerifyDoc, Connect
  <2>2. /\ stage = "binding" /\ UNCHANGED <<chip, guest>>
        /\ truth'.report = doc.report
    BY <2>1 DEF VerifyBinding, world
  <2>3. doc.report = ReportOf(chip, guest) /\ validate_report_fields_with_options(doc.report)
    BY <2>2 DEF DocumentWasVerified, DocumentOf
  <2> QED BY <2>2, <2>3, AcceptedReportIsOfTheCommitted DEF AcceptedLevelIsCommitted
<1> QED BY <1>1, <1>2

-----------------------------------------------------------------------------
(* What was verified. *)

\* Two measurements that are equal have one fingerprint and one first register.
LEMMA EqualMeasurements ==
  ASSUME NEW a, NEW measured,
         equals(a, [type |-> "SevGuestV2", registers |-> <<measured>>])
  PROVE  LET m == [type |-> "SevGuestV2", registers |-> <<measured>>] IN
         /\ a.registers[1] = measured
         /\ fingerprint_for_target(a, m.type) = fingerprint_for_target(m, m.type)
<1> DEFINE m == [type |-> "SevGuestV2", registers |-> <<measured>>]
<1>1. fingerprint_for_target(m, "SevGuestV2") = <<measured>>
  BY DEF fingerprint_for_target
<1>2. CASE a.type = "SnpTdxMultiPlatformV1"
  <2>1. /\ Len(a.registers) >= 3
        /\ a.registers[1] = measured
    BY <1>2 DEF equals, compare_multiplatform
  <2>2. a.registers # <<>>
    BY <2>1
  <2>3. fingerprint_for_target(a, "SevGuestV2") = <<measured>>
    BY <1>2, <2>1, <2>2 DEF fingerprint_for_target
  <2> QED BY <1>1, <2>1, <2>3
<1>3. CASE a.type # "SnpTdxMultiPlatformV1"
  <2>1. a = m
    BY <1>3 DEF equals
  <2> QED BY <2>1
<1> QED BY <1>2, <1>3

\* A verdict is about the guest that runs, its keys and its release's measurement.
LEMMA VerifiedCodeStays ==
  ASSUME TypeOK, StagesFollow, OneSigningEvent, CodeIsOfItsOrigin, DocumentWasVerified,
         VerifiedCodeIsTheRelease, stage = "verified" => guest # None, [Next]_vars
  PROVE  VerifiedCodeIsTheRelease'
<1> SUFFICES ASSUME stage' = "verified"
             PROVE  VerifiedCodeIsTheRelease'
  BY DEF VerifiedCodeIsTheRelease
<1>1. CASE stage = "verified"
  <2>1. UNCHANGED <<guest, truth, release, code, origin>>
    BY <1>1 DEF Next, vars, world, client, HostActs, Load, Commit, ReportLower, Launch, FetchRelease,
       FetchBundle, UsePinned, FetchFails, VerifyRepo, FetchDoc, VerifyDoc, Connect, VerifyBinding
  <2> QED BY <1>1, <2>1 DEF VerifiedCodeIsTheRelease
<1>2. CASE stage # "verified"
  <2> DEFINE verification == Verification(doc.report)
             digest == IF release = None THEN PINNED_NO_DIGEST ELSE release.digest
             tag == IF release = None THEN {} ELSE {release.tag}
             ground_truth == build_ground_truth(code, digest, tag, verification)
             measured == guest.kind.measurement
             keys == guest.kind.keys
  <2>1. VerifyBinding
    BY <1>2 DEF Next, vars, world, client, HostActs, Load, Commit, ReportLower, Launch, FetchRelease,
       FetchBundle, UsePinned, FetchFails, VerifyRepo, FetchDoc, VerifyDoc, Connect
  <2>2. /\ stage = "binding" /\ UNCHANGED <<guest, release, code, origin>>
        /\ verify_tls_binding(served, verification, doc)
        /\ truth' = [report |-> doc.report, certificate |-> served, document |-> doc,
                     measurement |-> verification.measurement,
                     shown |-> from_ground_truth(ground_truth),
                     sealing_key |-> require_hpke_public_key(verification)]
    BY <2>1 DEF VerifyBinding, world
  <2>3. /\ doc.report = ReportOf(chip, guest)
        /\ equals(code, verification.measurement)
    BY <2>2 DEF DocumentWasVerified, DocumentOf
  <2>4. /\ verification.measurement = [type |-> "SevGuestV2", registers |-> <<measured>>]
        /\ verification.tls_public_key_fp = keys.tls
        /\ verification.hpke_public_key = keys.hpke
    BY <2>3 DEF Verification, ReportOf
  <2> HIDE DEF verification
  <2>5. /\ code.registers[1] = measured
        /\ fingerprint_for_target(code, verification.measurement.type)
             = fingerprint_for_target(verification.measurement, verification.measurement.type)
    BY <2>3, <2>4, EqualMeasurements
  <2>6. release # None =>
          \E i \in origin : /\ Runs[i].statement.subject[1].digest = release.digest
                            /\ Runs[i].statement.predicate["snp_measurement"] = measured
    BY <2>2, <2>5 DEF TypeOK, OneSigningEvent, Timely, CodeIsOfItsOrigin
  <2>7. served.fingerprint = keys.tls
    BY <2>2, <2>4 DEF verify_tls_binding
  <2>8. digest = PINNED_NO_DIGEST <=> release = None
    BY InputAssumption DEF TypeOK
  <2>9. /\ ground_truth.digest = digest /\ ground_truth.release_tag = tag
        /\ ground_truth.tls_public_key = keys.tls
        /\ ground_truth.hpke_public_key = keys.hpke
        /\ ground_truth.code_fingerprint = ground_truth.enclave_fingerprint
    BY <2>4, <2>5 DEF build_ground_truth
  <2>10. tag # {} <=> release # None
    OBVIOUS
  <2> DEFINE shown == from_ground_truth(ground_truth)
  <2> HIDE DEF ground_truth, digest, tag
  <2>11. /\ shown.tls_public_key = keys.tls /\ shown.hpke_public_key = keys.hpke
         /\ shown.code_fingerprint = shown.enclave_fingerprint
         /\ shown.release_tag = tag
         /\ shown.steps.verify_code = "success" <=> release # None
         /\ shown.steps.fetch_digest = "success" <=> release # None
    BY <2>8, <2>9 DEF from_ground_truth
  <2>12. require_hpke_public_key(verification) \subseteq {keys.hpke} \ {AllZeros}
    BY <2>4 DEF require_hpke_public_key
  <2> HIDE DEF shown
  <2>13. /\ truth'.measurement.registers = <<measured>>
         /\ truth'.certificate = served
         /\ truth'.shown = shown
         /\ truth'.sealing_key = require_hpke_public_key(verification)
    BY <2>2, <2>4 DEF shown, ground_truth, digest, tag
  <2> QED BY <2>2, <2>5, <2>6, <2>7, <2>10, <2>11, <2>12, <2>13 DEF VerifiedCodeIsTheRelease
<1> QED BY <1>1, <1>2

-----------------------------------------------------------------------------
(* Natural numbers: the least element, induction and recursive functions. *)

\* A set of natural numbers has a least one.
LEMMA LeastExists ==
  ASSUME NEW T \in SUBSET Nat, T # {}
  PROVE  \E x \in T : \A y \in T : x <= y
<1>1. IsWellFoundedOn(OpToRel(<, Nat), Nat)
  BY NatLessThanWellFounded
<1>2. OpToRel(<, Nat) = {ss \in Nat \X Nat : ss[1] < ss[2]}
  BY DEF OpToRel
<1>3. PICK x \in T : \A y \in T : ~ (<<y, x>> \in OpToRel(<, Nat))
  BY <1>1, WFMin
<1>4. ASSUME NEW y \in T PROVE x <= y
  <2>1. ~ (<<y, x>> \in {ss \in Nat \X Nat : ss[1] < ss[2]})
    BY <1>2, <1>3
  <2> QED BY <2>1
<1> QED BY <1>4

\* A set that holds 0 and each successor holds every natural number.
LEMMA Induction ==
  ASSUME NEW T, 0 \in T, \A n \in Nat : n \in T => n + 1 \in T
  PROVE  \A n \in Nat : n \in T
<1> SUFFICES ASSUME NEW m \in Nat, m \notin T PROVE FALSE
  OBVIOUS
<1> DEFINE missing == {n \in Nat : n \notin T}
<1>1. PICK x \in missing : \A y \in missing : x <= y
  BY LeastExists
<1>2. x # 0 /\ x - 1 \in Nat /\ x - 1 \notin missing
  BY <1>1
<1> QED BY <1>1, <1>2

\* Induction up to a bound.
LEMMA InductionTo ==
  ASSUME NEW N \in Nat, NEW T, 0 \in T, \A n \in 1..N : n - 1 \in T => n \in T
  PROVE  \A n \in 0..N : n \in T
<1> DEFINE U == {n \in Nat : n <= N => n \in T}
<1>1. 0 \in U
  OBVIOUS
<1>2. ASSUME NEW n \in Nat, n \in U PROVE n + 1 \in U
  <2> SUFFICES ASSUME n + 1 <= N PROVE n + 1 \in T
    OBVIOUS
  <2>1. n \in T /\ n + 1 \in 1..N /\ (n + 1) - 1 = n
    BY <1>2
  <2> QED BY <2>1
<1> HIDE DEF U
<1>3. \A n \in Nat : n \in U
  BY <1>1, <1>2, Induction
<1> QED BY <1>3 DEF U

\* A function defined step by step up to N.
Built(f, S, a, step, k) ==
  f \in [0..k -> S] /\ f[0] = a /\ \A n \in 1..k : f[n] = step[n][f[n - 1]]

LEMMA RecursionExists ==
  ASSUME NEW S, NEW a \in S, NEW N \in Nat, NEW step \in [1..N -> [S -> S]]
  PROVE  \E f : Built(f, S, a, step, N)
<1> DEFINE T == {k \in 0..N : \E f : Built(f, S, a, step, k)}
<1>1. 0 \in T
  <2> DEFINE f == [n \in 0..0 |-> a]
  <2>1. f \in [0..0 -> S] /\ f[0] = a /\ \A n \in 1..0 : f[n] = step[n][f[n - 1]]
    OBVIOUS
  <2> HIDE DEF f
  <2>2. Built(f, S, a, step, 0)
    BY <2>1 DEF Built
  <2> QED BY <2>2
<1>2. ASSUME NEW k \in 1..N, k - 1 \in T PROVE k \in T
  <2> DEFINE j == k - 1
  <2>1. PICK f : Built(f, S, a, step, j)
    BY <1>2
  <2>2. j \in 0..N /\ k = j + 1
    OBVIOUS
  <2> HIDE DEF j
  <2>3. f \in [0..j -> S] /\ f[0] = a /\ \A n \in 1..j : f[n] = step[n][f[n - 1]]
    BY <2>1 DEF Built
  <2> DEFINE g == [n \in 0..k |-> IF n <= j THEN f[n] ELSE step[k][f[j]]]
  <2>4. f[j] \in S /\ step[k] \in [S -> S]
    BY <2>2, <2>3
  <2>5. step[k][f[j]] \in S
    BY <2>4
  <2>6. g \in [0..k -> S]
    BY <2>2, <2>3, <2>5
  <2>7. g[0] = a
    BY <2>2, <2>3
  <2>8. ASSUME NEW n \in 1..k PROVE g[n] = step[n][g[n - 1]]
    <3>1. CASE n = k
      <4>1. g[n] = step[k][f[j]] /\ g[n - 1] = f[j]
        BY <2>2, <3>1
      <4> QED BY <3>1, <4>1
    <3>2. CASE n # k
      <4>1. n \in 1..j /\ n - 1 \in 0..j
        BY <2>2, <3>2
      <4>2. g[n] = f[n] /\ g[n - 1] = f[n - 1]
        BY <2>2, <4>1
      <4>3. f[n] = step[n][f[n - 1]]
        BY <2>3, <4>1
      <4> QED BY <4>2, <4>3
    <3> QED BY <3>1, <3>2
  <2> HIDE DEF g
  <2>9. Built(g, S, a, step, k)
    BY <2>6, <2>7, <2>8 DEF Built
  <2> QED BY <2>9
<1> HIDE DEF T
<1>3. \A n \in 0..N : n \in T
  BY <1>1, <1>2, InductionTo
<1>4. N \in T
  BY <1>3
<1> QED BY <1>4 DEF T

-----------------------------------------------------------------------------
(* A sequence that is put together from pieces. *)

\* f[n] is the first n pieces, one after the other.
Joined(f, S, pieces, N) ==
  /\ f \in [0..N -> Seq(S)] /\ f[0] = <<>>
  /\ \A n \in 1..N : f[n] = f[n - 1] \o pieces[n - 1]

\* Two sequences, one after the other.
LEMMA OneAfterTheOther ==
  ASSUME NEW S, NEW s \in Seq(S), NEW t \in Seq(S), NEW both, both = s \o t
  PROVE  /\ both \in Seq(S) /\ Len(s) \in Nat /\ Len(t) \in Nat
         /\ Len(both) = Len(s) + Len(t)
         /\ \A p \in 1..Len(s) : both[p] = s[p]
         /\ \A k \in 1..Len(t) : both[Len(s) + k] = t[k]
OBVIOUS

\* What is put together from pieces begins with what is from fewer of them, and
\* each place in it is of one piece.
Begins(f, m, n) ==
  /\ Len(f[m]) <= Len(f[n])
  /\ \A p \in 1..Len(f[m]) : f[n][p] = f[m][p]

Covered(f, n) ==
  \A p \in 1..Len(f[n]) : \E m \in 0..(n - 1) : Len(f[m]) < p /\ p <= Len(f[m + 1])

LEMMA PiecesAreInOrder ==
  ASSUME NEW S, NEW N \in Nat, NEW pieces \in [0..(N - 1) -> Seq(S)],
         NEW f, Joined(f, S, pieces, N)
  PROVE  /\ \A n \in 0..N : \A m \in 0..n : Begins(f, m, n)
         /\ Covered(f, N)
<1>1. /\ f \in [0..N -> Seq(S)] /\ f[0] = <<>>
      /\ \A n \in 1..N : f[n] = f[n - 1] \o pieces[n - 1]
  BY DEF Joined
<1> DEFINE T == {n \in 0..N : Covered(f, n) /\ \A m \in 0..n : Begins(f, m, n)}
<1>2. 0 \in T
  <2>1. Len(f[0]) = 0
    BY <1>1
  <2>2. Covered(f, 0)
    BY <2>1 DEF Covered
  <2>3. \A m \in 0..0 : Begins(f, m, 0)
    BY <2>1 DEF Begins
  <2> QED BY <2>2, <2>3
<1>3. ASSUME NEW n \in 1..N, n - 1 \in T PROVE n \in T
  <2> DEFINE j == n - 1
  <2>1. j \in 0..N /\ j \in 0..(N - 1) /\ n = j + 1 /\ n \in 0..N /\ j \in T
    BY <1>3
  <2> HIDE DEF j
  <2>2. /\ f[j] \in Seq(S) /\ pieces[j] \in Seq(S) /\ f[n] = f[j] \o pieces[j]
    <3>1. f[j] \in Seq(S) /\ pieces[j] \in Seq(S)
      BY <1>1, <2>1
    <3>2. n - 1 = j
      BY <2>1
    <3> QED BY <1>1, <3>1, <3>2
  <2>3. /\ Len(f[j]) \in Nat /\ Len(pieces[j]) \in Nat
        /\ Len(f[n]) = Len(f[j]) + Len(pieces[j])
        /\ \A p \in 1..Len(f[j]) : f[n][p] = f[j][p]
    <3> DEFINE s == f[j]
               t == pieces[j]
               both == f[n]
    <3>1. s \in Seq(S) /\ t \in Seq(S) /\ both = s \o t
      BY <2>2
    <3> HIDE DEF s, t, both
    <3>2. /\ Len(s) \in Nat /\ Len(t) \in Nat /\ Len(both) = Len(s) + Len(t)
          /\ \A p \in 1..Len(s) : both[p] = s[p]
      BY <3>1, OneAfterTheOther
    <3> QED BY <3>2 DEF s, t, both
  <2>4. ASSUME NEW m \in 0..n PROVE Begins(f, m, n)
    <3>1. CASE m = n
      <4>1. Len(f[n]) \in Nat
        BY <1>1, <2>1
      <4> QED BY <3>1, <4>1 DEF Begins
    <3>2. CASE m # n
      <4>1. m \in 0..j /\ m \in 0..N
        BY <2>1, <3>2
      <4>2. Begins(f, m, j) /\ Len(f[m]) \in Nat
        <5>1. f[m] \in Seq(S)
          BY <1>1, <4>1
        <5>2. Begins(f, m, j)
          BY <2>1, <4>1
        <5>3. Len(f[m]) \in Nat
          BY <5>1
        <5> QED BY <5>2, <5>3
      <4>3. \A p \in 1..Len(f[m]) : f[n][p] = f[m][p]
        BY <2>3, <4>2 DEF Begins
      <4>4. Len(f[m]) <= Len(f[n])
        <5>1. Len(f[m]) <= Len(f[j])
          BY <4>2 DEF Begins
        <5> DEFINE x == Len(f[m])
                   y == Len(f[j])
                   z == Len(pieces[j])
                   w == Len(f[n])
        <5>2. x \in Nat /\ y \in Nat /\ z \in Nat /\ w = y + z /\ x <= y
          BY <2>3, <4>2, <5>1
        <5> HIDE DEF x, y, z, w
        <5>3. x <= w
          BY <5>2
        <5> QED BY <5>3 DEF x, w
      <4> QED BY <4>3, <4>4 DEF Begins
    <3> QED BY <3>1, <3>2
  <2>5. Covered(f, n)
    <3> SUFFICES ASSUME NEW p \in 1..Len(f[n])
                 PROVE  \E m \in 0..(n - 1) : Len(f[m]) < p /\ p <= Len(f[m + 1])
      BY DEF Covered
    <3>1. CASE p <= Len(f[j])
      <4>1. p \in 1..Len(f[j])
        BY <2>3, <3>1
      <4>2. PICK m \in 0..(j - 1) : Len(f[m]) < p /\ p <= Len(f[m + 1])
        BY <2>1, <4>1 DEF Covered
      <4>3. m \in 0..(n - 1)
        BY <2>1
      <4> QED BY <4>2, <4>3
    <3>2. CASE p > Len(f[j])
      <4>1. j \in 0..(n - 1)
        BY <2>1
      <4>2. Len(f[j]) < p /\ p <= Len(f[j + 1])
        BY <2>1, <2>3, <3>2
      <4> QED BY <4>1, <4>2
    <3> QED BY <2>3, <3>1, <3>2
  <2> QED BY <2>1, <2>4, <2>5
<1> HIDE DEF T
<1>4. \A n \in 0..N : n \in T
  BY <1>2, <1>3, InductionTo
<1> QED BY <1>4 DEF T

\* Where a piece stands in the whole.
Stands(f, N, a, s) ==
  /\ Len(f[a]) \in Nat /\ Len(f[a + 1]) \in Nat /\ Len(s) \in Nat
  /\ Len(f[a + 1]) = Len(f[a]) + Len(s)
  /\ Len(f[a + 1]) <= Len(f[N])
  /\ \A k \in 1..Len(s) : f[N][Len(f[a]) + k] = s[k]
  /\ \A b \in (a + 1)..(N - 1) : Len(f[a + 1]) <= Len(f[b])

LEMMA PiecesStand ==
  ASSUME NEW S, NEW N \in Nat, NEW pieces \in [0..(N - 1) -> Seq(S)],
         NEW f, Joined(f, S, pieces, N), NEW a \in 0..(N - 1)
  PROVE  Stands(f, N, a, pieces[a])
<1>1. /\ a + 1 \in 1..N /\ a + 1 \in 0..N /\ a \in 0..N /\ (a + 1) - 1 = a /\ N \in 0..N
  OBVIOUS
<1>2. /\ f[a] \in Seq(S) /\ f[a + 1] \in Seq(S) /\ f[N] \in Seq(S) /\ pieces[a] \in Seq(S)
  BY <1>1 DEF Joined
<1>3. f[a + 1] = f[a] \o pieces[a]
  BY <1>1 DEF Joined
<1> DEFINE g == f[a + 1]
           s == f[a]
           t == pieces[a]
           w == f[N]
<1>4. s \in Seq(S) /\ t \in Seq(S) /\ g = s \o t
  BY <1>2, <1>3
<1>5. Begins(f, a + 1, N) /\ \A b \in (a + 1)..(N - 1) : Begins(f, a + 1, b)
  <2>1. \A n \in 0..N : \A m \in 0..n : Begins(f, m, n)
    BY PiecesAreInOrder
  <2>2. a + 1 \in 0..N /\ \A b \in (a + 1)..(N - 1) : b \in 0..N /\ a + 1 \in 0..b
    BY <1>1
  <2> QED BY <1>1, <2>1, <2>2
<1>6. Len(g) <= Len(w) /\ \A p \in 1..Len(g) : w[p] = g[p]
  BY <1>5 DEF Begins
<1>7. \A b \in (a + 1)..(N - 1) : Len(f[a + 1]) <= Len(f[b])
  BY <1>5 DEF Begins
<1>8. Len(w) \in Nat
  BY <1>2
<1> HIDE DEF g, s, t, w
<1>9. /\ Len(s) \in Nat /\ Len(t) \in Nat /\ Len(g) = Len(s) + Len(t)
      /\ \A k \in 1..Len(t) : g[Len(s) + k] = t[k]
  BY <1>4, OneAfterTheOther
<1>10. \A k \in 1..Len(t) : w[Len(s) + k] = t[k]
  <2> SUFFICES ASSUME NEW k \in 1..Len(t) PROVE w[Len(s) + k] = t[k]
    OBVIOUS
  <2>1. Len(s) + k \in 1..Len(g)
    BY <1>9
  <2> QED BY <1>6, <1>9, <2>1
<1>11. Len(g) \in Nat
  BY <1>9
<1> QED BY <1>6, <1>7, <1>8, <1>9, <1>10, <1>11 DEF Stands, g, s, t, w

-----------------------------------------------------------------------------
(* The names of a certificate. *)

\* What TlsBinding puts together from the chunks at each index.
LEMMA ChunksAreJoined ==
  ASSUME NEW sans, NEW held, NEW S, \A n \in 0..99 : ChunkAt(sans, held, n) \in Seq(S)
  PROVE  \E f : /\ Joined(f, S, [n \in 0..99 |-> ChunkAt(sans, held, n)], 100)
                /\ Combined(sans, held) = f[100]
<1> DEFINE Q == Seq(S)
           C == [n \in 0..99 |-> ChunkAt(sans, held, n)]
           Rec(f) == f = [n \in 0..100 |-> IF n = 0 THEN <<>>
                                           ELSE f[n - 1] \o ChunkAt(sans, held, n - 1)]
           upto == CHOOSE f : Rec(f)
           step == [n \in 1..100 |-> [s \in Q |-> s \o C[n - 1]]]
<1>0. <<>> \in Q /\ \A s, t \in Q : s \o t \in Q
  OBVIOUS
<1>1. \A n \in 1..100 : n - 1 \in 0..99 /\ C[n - 1] = ChunkAt(sans, held, n - 1) /\ C[n - 1] \in Q
  <2>1. \A m \in 0..99 : C[m] = ChunkAt(sans, held, m)
    OBVIOUS
  <2>2. \A m \in 0..99 : C[m] \in Q
    BY <2>1
  <2>3. \A n \in 1..100 : n - 1 \in 0..99
    OBVIOUS
  <2> HIDE DEF C, Q
  <2> QED BY <2>1, <2>2, <2>3
<1> HIDE DEF Q, C
<1>2. step \in [1..100 -> [Q -> Q]]
  BY <1>0, <1>1
<1> HIDE DEF step
<1>3. PICK f : Built(f, Q, <<>>, step, 100)
  BY <1>0, <1>2, RecursionExists
<1>4. f \in [0..100 -> Q] /\ f[0] = <<>> /\ \A n \in 1..100 : f[n] = step[n][f[n - 1]]
  BY <1>3 DEF Built
<1>5. ASSUME NEW n \in 1..100 PROVE f[n] = f[n - 1] \o C[n - 1]
  <2>1. n - 1 \in 0..100
    OBVIOUS
  <2>2. f[n - 1] \in Q
    BY <1>4, <2>1
  <2> QED BY <1>4, <2>2 DEF step
<1>6. Rec(f)
  <2> DEFINE g == [n \in 0..100 |-> IF n = 0 THEN <<>>
                                    ELSE f[n - 1] \o ChunkAt(sans, held, n - 1)]
  <2>1. f = [n \in 0..100 |-> f[n]]
    BY <1>4
  <2>2. ASSUME NEW n \in 0..100 PROVE f[n] = g[n]
    <3>1. CASE n = 0
      BY <1>4, <3>1
    <3>2. CASE n # 0
      <4>1. n \in 1..100
        BY <3>2
      <4>2. f[n] = f[n - 1] \o C[n - 1] /\ C[n - 1] = ChunkAt(sans, held, n - 1)
        BY <1>1, <1>5, <4>1
      <4> QED BY <3>2, <4>2
    <3> QED BY <3>1, <3>2
  <2>3. f = g
    BY <2>1, <2>2
  <2> QED BY <2>3
<1>7. Rec(upto)
  BY <1>6
<1>8. Combined(sans, held) = upto[100]
  BY DEF Combined
<1> HIDE DEF upto
<1>9. /\ upto = [n \in 0..100 |-> upto[n]] /\ upto[0] = <<>>
      /\ \A n \in 1..100 : upto[n] = upto[n - 1] \o C[n - 1]
  <2>1. /\ upto = [n \in 0..100 |-> upto[n]]
        /\ \A n \in 0..100 : upto[n] = IF n = 0 THEN <<>>
                                       ELSE upto[n - 1] \o ChunkAt(sans, held, n - 1)
    BY <1>7
  <2>2. ASSUME NEW n \in 1..100 PROVE upto[n] = upto[n - 1] \o C[n - 1]
    <3>1. n \in 0..100 /\ n # 0
      OBVIOUS
    <3>2. upto[n] = upto[n - 1] \o ChunkAt(sans, held, n - 1)
      BY <2>1, <3>1
    <3> QED BY <1>1, <3>2
  <2>3. upto[0] = <<>>
    <3>1. 0 \in 0..100
      OBVIOUS
    <3> DEFINE At(m) == upto[m] = IF m = 0 THEN <<>>
                                  ELSE upto[m - 1] \o ChunkAt(sans, held, m - 1)
    <3>2. \A m \in 0..100 : At(m)
      BY <2>1
    <3> HIDE DEF At
    <3>3. At(0)
      BY <3>1, <3>2
    <3> QED BY <3>3 DEF At
  <2> QED BY <2>1, <2>2, <2>3
<1> HIDE DEF Rec
<1>10. \A n \in 0..100 : upto[n] \in Q
  <2> DEFINE T == {n \in 0..100 : upto[n] \in Q}
  <2>1. 0 \in T
    <3>1. upto[0] \in Q
      BY <1>0, <1>9
    <3> QED BY <3>1
  <2>2. ASSUME NEW n \in 1..100, n - 1 \in T PROVE n \in T
    <3>1. upto[n - 1] \in Q /\ C[n - 1] \in Q
      BY <1>1, <2>2
    <3>2. upto[n] \in Q
      BY <1>0, <1>9, <3>1
    <3> QED BY <3>2
  <2> HIDE DEF T
  <2>3. \A n \in 0..100 : n \in T
    BY <2>1, <2>2, InductionTo
  <2> QED BY <2>3 DEF T
<1>11. upto \in [0..100 -> Q]
  BY <1>9, <1>10
<1>12. Joined(upto, S, C, 100)
  BY <1>9, <1>11 DEF Joined, Q
<1> QED BY <1>8, <1>12 DEF C

\* The two pieces of a value.
LEMMA TwoPieces ==
  ASSUME NEW value, NEW s, s = Pieces(value)
  PROVE  /\ Len(s) = 2 /\ \A p \in 1..2 : s[p].part = p
         /\ ToSet(s) = {s[p] : p \in 1..2}
  BY DEF Pieces, Piece, ToSet

\* Names that decode to a value spell it.
LEMMA NamesAreRead ==
  ASSUME NEW sans, NEW prefix, NEW value,
         \A i \in DOMAIN sans : IsName(sans[i]),
         decode_from_sans(sans, prefix) = {Bytes(value)}
  PROVE  Spells(sans, prefix, value)
<1> DEFINE held == Held(sans, prefix)
           S == UNION {ToSet(sans[i].chunk) : i \in DOMAIN sans}
           C == [n \in 0..99 |-> ChunkAt(sans, held, n)]
<1>1. /\ held \subseteq DOMAIN sans
      /\ \A i \in DOMAIN sans : i \in held <=> /\ sans[i].label = prefix /\ sans[i].index \in 0..99
                                               /\ sans[i].chunk # <<>>
  BY DEF Held, matches
<1>2. held = {i \in DOMAIN sans : /\ sans[i].label = prefix
                                  /\ sans[i].index # -1 /\ sans[i].chunk # <<>>}
  <2>1. \A i \in DOMAIN sans : sans[i].index \in 0..99 <=> sans[i].index # -1
    <3>1. \A i \in DOMAIN sans : sans[i].index \in -1..99
      BY DEF IsName
    <3>2. \A x \in -1..99 : x \in 0..99 <=> x # -1
      OBVIOUS
    <3> QED BY <3>1, <3>2
  <2> HIDE DEF held
  <2> QED BY <1>1, <2>1
<1>3. /\ \A i, j \in held : sans[i].index = sans[j].index => i = j
      /\ Base32Decode(Combined(sans, held)) = {Bytes(value)}
  BY DEF decode_from_sans
<1>4. Combined(sans, held) = Pieces(value)
  <2>1. {[bytes |-> Combined(sans, held)]} = {[bytes |-> Pieces(value)]}
    BY <1>3 DEF Base32Decode, Bytes
  <2>2. [bytes |-> Combined(sans, held)] = [bytes |-> Pieces(value)]
    BY <2>1
  <2> HIDE DEF held
  <2>3. [bytes |-> Combined(sans, held)].bytes = [bytes |-> Pieces(value)].bytes
    BY <2>2
  <2> QED BY <2>3
<1> HIDE DEF held
<1>5. \A i \in held : sans[i].index \in 0..99 /\ sans[i].chunk \in Seq(S)
  <2> SUFFICES ASSUME NEW i \in held PROVE sans[i].index \in 0..99 /\ sans[i].chunk \in Seq(S)
    OBVIOUS
  <2>1. sans[i].chunk \in Seq(ToSet(sans[i].chunk)) /\ ToSet(sans[i].chunk) \subseteq S
    BY <1>1 DEF IsName
  <2> HIDE DEF S
  <2> DEFINE s == sans[i].chunk
             R == ToSet(sans[i].chunk)
  <2>2. s \in Seq(R) /\ R \subseteq S
    BY <2>1
  <2> HIDE DEF s, R
  <2>3. s \in Seq(S)
    BY <2>2
  <2> QED BY <1>1, <2>3 DEF s
<1> HIDE DEF S
<1>6. \A i \in held : ChunkAt(sans, held, sans[i].index) = sans[i].chunk
  <2> SUFFICES ASSUME NEW i \in held PROVE ChunkAt(sans, held, sans[i].index) = sans[i].chunk
    OBVIOUS
  <2> DEFINE other == CHOOSE j \in held : sans[j].index = sans[i].index
  <2>1. other \in held /\ sans[other].index = sans[i].index
    OBVIOUS
  <2>2. ChunkAt(sans, held, sans[i].index) = sans[other].chunk
    BY DEF ChunkAt
  <2> HIDE DEF other
  <2>3. other = i
    BY <1>3, <2>1
  <2> QED BY <2>2, <2>3
<1>7. \A n \in 0..99 : \/ ChunkAt(sans, held, n) = <<>>
                       \/ \E i \in held : sans[i].index = n
  BY DEF ChunkAt
<1>8. \A n \in 0..99 : ChunkAt(sans, held, n) \in Seq(S)
  <2> SUFFICES ASSUME NEW n \in 0..99 PROVE ChunkAt(sans, held, n) \in Seq(S)
    OBVIOUS
  <2>1. CASE ChunkAt(sans, held, n) = <<>>
    BY <2>1
  <2>2. ASSUME NEW i \in held, sans[i].index = n PROVE ChunkAt(sans, held, n) \in Seq(S)
    BY <1>5, <1>6, <2>2
  <2> QED BY <1>7, <2>1, <2>2
<1>9. PICK f : Joined(f, S, C, 100) /\ f[100] = Pieces(value)
  <2>1. PICK f : Joined(f, S, C, 100) /\ Combined(sans, held) = f[100]
    BY <1>8, ChunksAreJoined
  <2> QED BY <2>1, <1>4
<1>10. /\ C \in [0..(100 - 1) -> Seq(S)]
       /\ \A i \in held : C[sans[i].index] = sans[i].chunk
       /\ \A n \in 0..99 : C[n] = <<>> \/ \E i \in held : sans[i].index = n
  <2>1. 100 - 1 = 99
    OBVIOUS
  <2>2. C \in [0..99 -> Seq(S)] /\ \A n \in 0..99 : C[n] = ChunkAt(sans, held, n)
    BY <1>8
  <2> HIDE DEF C
  <2> QED BY <2>1, <2>2, <1>5, <1>6, <1>7
<1> HIDE DEF C
<1> DEFINE w == f[100]
<1>11. /\ Len(w) = 2 /\ \A p \in 1..2 : w[p].part = p
       /\ ToSet(Pieces(value)) = {w[p] : p \in 1..2}
  BY <1>9, TwoPieces
<1>12. ASSUME NEW i \in held
       PROVE  /\ Stands(f, 100, sans[i].index, sans[i].chunk)
              /\ \A p \in ToSet(sans[i].chunk) :
                   \E k \in 1..Len(sans[i].chunk) : p = sans[i].chunk[k]
              /\ \A k \in 1..Len(sans[i].chunk) : sans[i].chunk[k] \in ToSet(sans[i].chunk)
  <2> DEFINE a == sans[i].index
             s == sans[i].chunk
  <2>1. a \in 0..(100 - 1) /\ C[a] = s /\ s \in Seq(S)
    BY <1>5, <1>10
  <2> HIDE DEF a, s
  <2>2. Stands(f, 100, a, C[a])
    BY <1>9, <1>10, <2>1, PiecesStand
  <2>3. ToSet(s) = {s[k] : k \in 1..Len(s)}
    BY <2>1 DEF ToSet
  <2> QED BY <2>1, <2>2, <2>3 DEF a, s
<1>13. Covered(f, 100)
  BY <1>9, <1>10, PiecesAreInOrder
<1> HIDE DEF w
<1>14. ASSUME NEW i \in held, NEW p \in ToSet(sans[i].chunk)
       PROVE  \E x \in 1..2 : p = w[x] /\ Len(f[sans[i].index]) < x
                            /\ x <= Len(f[sans[i].index + 1])
  <2> DEFINE a == sans[i].index
             s == sans[i].chunk
             l == Len(f[a])
             u == Len(f[a + 1])
             c == Len(s)
  <2>1. l \in Nat /\ u \in Nat /\ c \in Nat /\ u = l + c /\ u <= 2
        /\ \A k \in 1..c : w[l + k] = s[k]
    BY <1>11, <1>12 DEF Stands, w
  <2>2. PICK k \in 1..c : p = s[k]
    BY <1>12
  <2> HIDE DEF a, s, l, u, c
  <2>3. l + k \in 1..2 /\ l < l + k /\ l + k <= u
    BY <2>1
  <2>4. p = w[l + k]
    BY <2>1, <2>2
  <2>5. \E x \in 1..2 : p = w[x] /\ l < x /\ x <= u
    BY <2>3, <2>4
  <2> QED BY <2>5 DEF l, u, a
<1>15. ASSUME NEW p \in 1..2 PROVE \E i \in held : w[p] \in ToSet(sans[i].chunk)
  <2>1. PICK n \in 0..99 : Len(f[n]) < p /\ p <= Len(f[n + 1])
    <3>1. p \in 1..Len(f[100]) /\ 100 - 1 = 99
      BY <1>11 DEF w
    <3> QED BY <1>13, <3>1 DEF Covered
  <2>2. Stands(f, 100, n, C[n])
    <3>1. n \in 0..(100 - 1)
      OBVIOUS
    <3> QED BY <1>9, <1>10, <3>1, PiecesStand
  <2> DEFINE l == Len(f[n])
             u == Len(f[n + 1])
             c == Len(C[n])
             k == p - l
  <2>3. l \in Nat /\ u \in Nat /\ c \in Nat /\ u = l + c /\ l < p /\ p <= u
        /\ \A m \in 1..c : w[l + m] = C[n][m]
    BY <2>1, <2>2 DEF Stands, w
  <2>4. c # 0 => C[n] # <<>>
    OBVIOUS
  <2> HIDE DEF l, u, c
  <2>5. k \in 1..c /\ l + k = p /\ c # 0
    BY <2>3
  <2> HIDE DEF k
  <2>6. PICK i \in held : sans[i].index = n
    BY <1>10, <2>4, <2>5
  <2>7. C[n] = sans[i].chunk
    BY <1>10, <2>6
  <2>8. w[p] = sans[i].chunk[k] /\ k \in 1..Len(sans[i].chunk)
    BY <2>3, <2>5, <2>7 DEF c
  <2>9. w[p] \in ToSet(sans[i].chunk)
    BY <1>12, <2>8
  <2> QED BY <2>9
<1>16. UNION {ToSet(sans[i].chunk) : i \in held} = ToSet(Pieces(value))
  <2>1. ASSUME NEW i \in held, NEW p \in ToSet(sans[i].chunk) PROVE p \in ToSet(Pieces(value))
    BY <1>11, <1>14
  <2>2. ASSUME NEW p \in ToSet(Pieces(value)) PROVE \E i \in held : p \in ToSet(sans[i].chunk)
    BY <1>11, <1>15
  <2> QED BY <2>1, <2>2
<1>17. ASSUME NEW i \in held, NEW j \in held, sans[i].index < sans[j].index,
              NEW p \in ToSet(sans[i].chunk), NEW q \in ToSet(sans[j].chunk)
       PROVE  p.part < q.part
  <2> DEFINE a == sans[i].index
             b == sans[j].index
             u == Len(f[a + 1])
             l == Len(f[b])
  <2>1. PICK x \in 1..2 : p = w[x] /\ x <= u
    BY <1>14
  <2>2. PICK y \in 1..2 : q = w[y] /\ l < y
    BY <1>14
  <2>3. a \in 0..99 /\ b \in 0..99 /\ a < b
    BY <1>5, <1>17
  <2>4. u \in Nat /\ l \in Nat /\ \A c \in (a + 1)..(100 - 1) : u <= Len(f[c])
    BY <1>12 DEF Stands
  <2> HIDE DEF a, b
  <2>5. b \in (a + 1)..(100 - 1)
    BY <2>3
  <2>6. u <= l
    BY <2>4, <2>5
  <2> HIDE DEF u, l
  <2>7. x < y
    BY <2>1, <2>2, <2>4, <2>6
  <2> QED BY <1>11, <2>1, <2>2, <2>7
<1>18. ASSUME NEW i \in held, NEW j \in held, i # j,
              NEW p \in ToSet(sans[i].chunk), NEW q \in ToSet(sans[j].chunk)
       PROVE  \/ sans[i].index < sans[j].index /\ p.part < q.part
              \/ sans[j].index < sans[i].index /\ q.part < p.part
  <2>1. CASE sans[i].index < sans[j].index
    BY <1>17, <2>1
  <2>2. CASE sans[j].index < sans[i].index
    BY <1>17, <2>2
  <2>3. sans[i].index \in 0..99 /\ sans[j].index \in 0..99 /\ sans[i].index # sans[j].index
    BY <1>3, <1>5, <1>18
  <2>4. sans[i].index < sans[j].index \/ sans[j].index < sans[i].index
    <3>1. \A x, y \in 0..99 : x # y => x < y \/ y < x
      OBVIOUS
    <3> QED BY <2>3, <3>1
  <2> QED BY <2>1, <2>2, <2>4
<1> QED BY <1>2, <1>16, <1>18 DEF Spells

\* Rearranged or among others, names stay names.
LEMMA RearrangedNamesAreNames ==
  ASSUME NEW S, NEW s \in Seq(S), s # <<>>
  PROVE  /\ Reverse(s) \in Seq(S)
         /\ Tail(s) \o <<Head(s)>> \in Seq(S)
         /\ \A stray \in S : <<stray>> \o Reverse(s) \o <<stray>> \in Seq(S)
<1>1. Reverse(s) \in Seq(S)
  <2> DEFINE n == Len(s)
  <2>1. n \in Nat /\ \A i \in 1..n : s[i] \in S
    OBVIOUS
  <2>2. \A i \in 1..n : (n - i) + 1 \in 1..n
    BY <2>1
  <2>3. Reverse(s) = [i \in 1..n |-> s[(n - i) + 1]]
    BY DEF Reverse
  <2> HIDE DEF n
  <2>4. [i \in 1..n |-> s[(n - i) + 1]] \in [1..n -> S]
    BY <2>1, <2>2
  <2>5. [i \in 1..n |-> s[(n - i) + 1]] \in Seq(S)
    BY <2>1, <2>4
  <2> QED BY <2>3, <2>5
<1>2. Tail(s) \o <<Head(s)>> \in Seq(S)
  OBVIOUS
<1>3. ASSUME NEW stray \in S PROVE <<stray>> \o Reverse(s) \o <<stray>> \in Seq(S)
  BY <1>1
<1> QED BY <1>1, <1>2, <1>3

\* Every certificate that may be served has names among its names.
LEMMA ServedNamesAreNames ==
  ASSUME NEW keys, NEW document, NEW cert \in ServedCerts(keys, document)
  PROVE  \A i \in DOMAIN cert.sans : IsName(cert.sans[i])
<1> DEFINE S == {san \in {[label |-> prefix, index |-> n - 1, chunk |-> <<Pieces(value)[n]>>] :
                           prefix \in {"hpke", "hatt"}, n \in 1..2,
                           value \in {keys.hpke, hash(document)}} \cup Strays : TRUE}
           plain == CertificateOf(keys, document)
<1>1. \A san \in S : IsName(san)
  <2>1. ASSUME NEW prefix, NEW n \in 1..2, NEW value
        PROVE  IsName([label |-> prefix, index |-> n - 1, chunk |-> <<Pieces(value)[n]>>])
    BY DEF IsName, ToSet
  <2>2. ASSUME NEW san \in Strays PROVE IsName(san)
    <3>1. \/ san = [label |-> "example", index |-> -1, chunk |-> <<>>]
          \/ san = [label |-> "hatt", index |-> 7, chunk |-> <<>>]
          \/ san = [label |-> "hpke", index |-> -1, chunk |-> <<Piece("other", 1)>>]
      BY DEF Strays
    <3>2. san.index \in -1..99 /\ (san.chunk = <<>> \/ san.chunk = <<Piece("other", 1)>>)
      BY <3>1
    <3>3. san.chunk \in Seq(ToSet(san.chunk))
      <4> DEFINE piece == Piece("other", 1)
                 T == ToSet(san.chunk)
      <4> HIDE DEF piece, T
      <4>1. CASE san.chunk = <<>>
        <5>1. <<>> \in Seq(T)
          OBVIOUS
        <5> QED BY <4>1, <5>1 DEF T
      <4>2. CASE san.chunk = <<piece>>
        <5>1. piece \in T
          BY <4>2 DEF T, ToSet
        <5>2. <<piece>> \in Seq(T)
          BY <5>1
        <5> QED BY <4>2, <5>2 DEF T
      <4> QED BY <3>2, <4>1, <4>2 DEF piece
    <3> QED BY <3>2, <3>3 DEF IsName
  <2> QED BY <2>1, <2>2
<1>2. plain.sans \in Seq(S) /\ plain.sans # <<>>
  <2> DEFINE a == Names("hpke", keys.hpke)
             b == Names("hatt", hash(document))
  <2>1. plain.sans = a \o b
    BY DEF CertificateOf
  <2>2. a \in [1..2 -> S] /\ b \in [1..2 -> S]
    BY DEF Names
  <2> HIDE DEF a, b, S, plain
  <2>3. \A f \in [1..2 -> S] : f \in Seq(S) /\ Len(f) = 2
    <3> SUFFICES ASSUME NEW f \in [1..2 -> S] PROVE f \in Seq(S) /\ Len(f) = 2
      OBVIOUS
    <3>1. f \in Seq(S)
      <4>1. [1..2 -> S] \in {[1..n -> S] : n \in Nat}
        OBVIOUS
      <4> QED BY <4>1, SeqDef, Zenon
    <3>2. DOMAIN f = 1..Len(f) /\ Len(f) \in Nat
      BY <3>1, LenProperties
    <3>3. DOMAIN f = 1..2
      OBVIOUS
    <3> QED BY <3>1, <3>2, <3>3
  <2> DEFINE both == a \o b
  <2>0. both = a \o b
    OBVIOUS
  <2> HIDE DEF both
  <2>4. a \in Seq(S) /\ b \in Seq(S) /\ Len(a) = 2 /\ Len(b) = 2
    BY <2>2, <2>3
  <2>5. both \in Seq(S) /\ Len(both) = Len(a) + Len(b)
    <3>1. a \in Seq(S) /\ b \in Seq(S)
      BY <2>4
    <3> QED BY <2>0, <3>1, OneAfterTheOther
  <2>6. both # <<>>
    BY <2>4, <2>5
  <2> QED BY <2>0, <2>1, <2>5, <2>6
<1>3. \A stray \in Strays : stray \in S
  OBVIOUS
<1>4. ASSUME NEW sans \in Seq(S) PROVE \A i \in DOMAIN sans : IsName(sans[i])
  <2>1. \A i \in DOMAIN sans : sans[i] \in S
    OBVIOUS
  <2> HIDE DEF S
  <2> QED BY <1>1, <2>1
<1> HIDE DEF S
<1>5. CASE cert \in HonestCerts(keys, document)
  <2> DEFINE reordered == {plain.sans} \cup Rearranged(plain.sans)
                            \cup {<<stray>> \o Reverse(plain.sans) \o <<stray>> : stray \in Strays}
  <2>1. \A sans \in reordered : sans \in Seq(S)
    BY <1>2, <1>3, RearrangedNamesAreNames DEF Rearranged
  <2>2. PICK sans \in reordered : cert = [plain EXCEPT !.sans = sans]
    BY <1>5 DEF HonestCerts
  <2>3. cert.sans = sans
    BY <2>2 DEF CertificateOf
  <2> QED BY <1>4, <2>1, <2>3
<1>6. CASE cert \notin HonestCerts(keys, document)
  BY <1>6 DEF ServedCerts
<1> QED BY <1>5, <1>6

\* The certificate in hand has names among its names, and the one that was
\* accepted spells the guest's key and the hash of its document.
LEMMA CertificateStays ==
  ASSUME NamesAreNames, DocumentWasVerified, CertificateHoldsBothValues,
         stage = "verified" => guest # None, [Next]_vars
  PROVE  NamesAreNames' /\ CertificateHoldsBothValues'
<1>1. NamesAreNames'
  <2> SUFFICES ASSUME stage' = "binding" PROVE NamesAreNames'
    BY DEF NamesAreNames
  <2>1. CASE Connect
    <3>1. served' \in ServedCerts(guest.kind.keys, doc)
      BY <2>1 DEF Connect
    <3> QED BY <3>1, ServedNamesAreNames DEF NamesAreNames
  <2>2. CASE ~Connect
    <3>1. stage = "binding" /\ served' = served
      BY <2>2 DEF Next, vars, world, client, HostActs, Load, Commit, ReportLower, Launch,
         FetchRelease, FetchBundle, UsePinned, FetchFails, VerifyRepo, FetchDoc, VerifyDoc, VerifyBinding
    <3> QED BY <3>1 DEF NamesAreNames
  <2> QED BY <2>1, <2>2
<1>2. CertificateHoldsBothValues'
  <2> SUFFICES ASSUME stage' = "verified" PROVE CertificateHoldsBothValues'
    BY DEF CertificateHoldsBothValues
  <2>1. CASE stage = "verified"
    <3>1. UNCHANGED <<guest, truth>>
      BY <2>1 DEF Next, vars, world, client, HostActs, Load, Commit, ReportLower, Launch, FetchRelease,
         FetchBundle, UsePinned, FetchFails, VerifyRepo, FetchDoc, VerifyDoc, Connect, VerifyBinding
    <3> QED BY <2>1, <3>1 DEF CertificateHoldsBothValues
  <2>2. CASE stage # "verified"
    <3> DEFINE verification == Verification(doc.report)
    <3>1. VerifyBinding
      BY <2>2 DEF Next, vars, world, client, HostActs, Load, Commit, ReportLower, Launch, FetchRelease,
         FetchBundle, UsePinned, FetchFails, VerifyRepo, FetchDoc, VerifyDoc, Connect
    <3>2. /\ stage = "binding" /\ UNCHANGED guest
          /\ verify_tls_binding(served, verification, doc)
          /\ truth'.certificate = served /\ truth'.document = doc
      BY <3>1 DEF VerifyBinding, world
    <3>3. verification.hpke_public_key = guest.kind.keys.hpke
      BY <3>2 DEF DocumentWasVerified, DocumentOf, Verification, ReportOf
    <3> HIDE DEF verification
    <3>4. \A i \in DOMAIN served.sans : IsName(served.sans[i])
      BY <3>2 DEF NamesAreNames
    <3>5. ASSUME guest.kind.keys.hpke # AllZeros
          PROVE  Spells(served.sans, "hpke", guest.kind.keys.hpke)
      <4>1. decode_from_sans(served.sans, "hpke") = {Bytes(guest.kind.keys.hpke)}
        BY <3>2, <3>3, <3>5 DEF verify_tls_binding
      <4> QED BY <3>4, <4>1, NamesAreRead
    <3>6. Spells(served.sans, "hatt", hash(doc))
      <4>1. decode_from_sans(served.sans, "hatt") = {Bytes(hash(doc))}
        BY <3>2 DEF verify_tls_binding
      <4> QED BY <3>4, <4>1, NamesAreRead
    <3> QED BY <3>2, <3>5, <3>6 DEF CertificateHoldsBothValues
  <2> QED BY <2>1, <2>2
<1> QED BY <1>1, <1>2

-----------------------------------------------------------------------------
(* Types. *)

\* At first everything is of its type.
LEMMA TypeInit ==
  ASSUME Init
  PROVE  TypeOK
  BY PlatformAssumption DEF Init, TypeOK, Stages, None

\* Every step keeps the types.
LEMMA TypeNext ==
  ASSUME TypeOK, StagesFollow, ChipIsInOrder', StagesFollow', DocumentIsOfTheGuest', [Next]_vars
  PROVE  TypeOK'
<1>1. /\ chip'.current.image \in DOMAIN Firmware
      /\ chip'.committed.image \in DOMAIN Firmware
  BY PlatformAssumption DEF ChipIsInOrder, Levels
<1>2. (stage = "bundle" => bundle # None)'
  BY PartsAreOfRuns DEF StagesFollow
<1>3. ASSUME stage' \in {"doc", "connect", "binding"}
      PROVE  doc' # None
  BY <1>3 DEF DocumentIsOfTheGuest, Documents, DocumentOf, None
<1>4. CASE Load \/ Commit \/ ReportLower \/ UNCHANGED vars
  BY <1>1, <1>4 DEF Load, Commit, ReportLower, HostActs, vars, world, client, TypeOK
<1>5. CASE Launch
  BY <1>1, <1>5 DEF Launch, HostActs, client, TypeOK
<1>6. CASE FetchRelease \/ FetchFails
  BY <1>1, <1>6 DEF FetchRelease, FetchFails, world, TypeOK, Stages
<1>7. CASE FetchBundle
  BY <1>1, <1>2, <1>7 DEF FetchBundle, world, TypeOK, Stages
<1>8. CASE UsePinned
  BY <1>1, <1>8, InputAssumption DEF UsePinned, StagesFollow, world, TypeOK, Stages
<1>9. CASE VerifyRepo
  BY <1>1, <1>9 DEF VerifyRepo, extract_measurement, None, world, TypeOK, Stages
<1>10. CASE FetchDoc \/ Connect
  BY <1>1, <1>3, <1>10 DEF FetchDoc, Connect, world, TypeOK, Stages
<1>11. CASE VerifyDoc
  BY <1>1, <1>3, <1>11 DEF VerifyDoc, world, TypeOK, Stages
<1>12. CASE VerifyBinding
  BY <1>1, <1>12 DEF VerifyBinding, None, world, TypeOK, Stages
<1> QED BY <1>4, <1>5, <1>6, <1>7, <1>8, <1>9, <1>10, <1>11, <1>12 DEF Next

-----------------------------------------------------------------------------
(* The invariant holds from the start and is kept by every step. *)
THEOREM Inductive == Spec => []IInv
<1>1. Init => IInv
  <2> SUFFICES ASSUME Init PROVE IInv
    OBVIOUS
  <2>1. TypeOK
    BY TypeInit
  <2>2. ChipIsInOrder
    <3> DEFINE first == [image |-> 1, microcode |-> 0]
    <3>1. first \in Levels
      BY PlatformAssumption DEF Levels
    <3>2. chip = [current |-> first, committed |-> first, reported |-> TcbOf(first)]
      BY DEF Init
    <3> QED BY <3>1, <3>2 DEF ChipIsInOrder, Levels
  <2>3. stage = "idle" /\ release = None /\ code = None /\ bundle = None
    BY DEF Init
  <2> QED BY <2>1, <2>2, <2>3 DEF IInv, StagesFollow, OneSigningEvent, CodeIsOfItsOrigin,
       DocumentIsOfTheGuest, DocumentWasVerified, AcceptedLevelIsCommitted, VerifiedCodeIsTheRelease,
       NamesAreNames, CertificateHoldsBothValues
<1>2. IInv /\ [Next]_vars => IInv'
  <2> SUFFICES ASSUME IInv, [Next]_vars PROVE IInv'
    OBVIOUS
  <2>1. ChipIsInOrder'
    BY CommittedNeverFalls DEF IInv
  <2>2. StagesFollow' /\ OneSigningEvent' /\ CodeIsOfItsOrigin'
    BY CodeKeepsItsOrigin DEF IInv
  <2>3. DocumentIsOfTheGuest' /\ DocumentWasVerified' /\ (stage = "verified" => guest # None)'
    BY DocumentsAreOfTheGuest DEF IInv
  <2>4. AcceptedLevelIsCommitted'
    BY AcceptedLevelStays DEF IInv
  <2>5. VerifiedCodeIsTheRelease'
    BY VerifiedCodeStays DEF IInv
  <2>6. TypeOK'
    BY <2>1, <2>2, <2>3, TypeNext DEF IInv
  <2>7. NamesAreNames' /\ CertificateHoldsBothValues'
    BY CertificateStays DEF IInv
  <2> QED BY <2>1, <2>2, <2>3, <2>4, <2>5, <2>6, <2>7 DEF IInv
<1> QED BY <1>1, <1>2, PTL DEF Spec

\* What the client holds fits how far it is.
THEOREM TypeCorrect == Spec => []TypeOK
<1>1. IInv => TypeOK
  BY DEF IInv
<1> QED BY <1>1, Inductive, PTL

\* An accepted bundle is one signing event of the release, whatever runs there
\* are, as long as nobody has another's key (verify_repo).
THEOREM SingleEventsAreAccepted == Spec => []OneSigningEvent
<1>1. IInv => OneSigningEvent
  BY DEF IInv
<1> QED BY <1>1, Inductive, PTL

\* The verified enclave runs the release and has the keys that are shown and used
\* (verify_full, equals, build_ground_truth).
THEOREM VerifiedIsWhatRuns == Spec => []VerifiedCodeIsTheRelease
<1>1. IInv => VerifiedCodeIsTheRelease
  BY DEF IInv
<1> QED BY <1>1, Inductive, PTL

\* The certificate that was accepted spells the guest's key and the hash of the
\* document that was verified, piece by piece and in order.
THEOREM CertificateIsTheDocuments == Spec => []CertificateHoldsBothValues
<1>1. IInv => CertificateHoldsBothValues
  BY DEF IInv
<1> QED BY <1>1, Inductive, PTL

\* The machine never falls behind the report that was accepted, whatever firmware
\* its host has (validate_committed_tcb).
THEOREM PlatformsStay == Spec => []AcceptedPlatformHolds
<1>1. IInv => AcceptedPlatformHolds
  <2> SUFFICES ASSUME IInv, stage = "verified" PROVE AcceptedPlatformHolds
    BY DEF AcceptedPlatformHolds
  <2> DEFINE floor == FirmwareOf(chip.committed)
             now == FirmwareOf(chip.current)
             accepted == truth.report.current
  <2>1. /\ chip.committed \in Levels /\ chip.current \in Levels
        /\ chip.committed.image <= chip.current.image
        /\ chip.committed.microcode <= chip.current.microcode
    BY DEF IInv, ChipIsInOrder
  <2>2. /\ \A part \in TcbNames : /\ floor.tcb[part] \in Nat /\ now.tcb[part] \in Nat
                                  /\ floor.tcb[part] <= now.tcb[part]
        /\ floor.build \in Nat /\ now.build \in Nat /\ floor.build <= now.build
    BY <2>1, LevelsGrow DEF FirmwareOf
  <2>3. /\ \A part \in TcbNames : /\ accepted.tcb[part] \in Nat
                                  /\ floor.tcb[part] >= accepted.tcb[part]
                                  /\ accepted.tcb[part] >= Options.minimum_tcb[part]
                                  /\ guest.launch[part] >= Options.minimum_launch_tcb[part]
        /\ accepted.build \in Nat /\ floor.build >= accepted.build
        /\ "debug" \notin guest.kind.policy.capabilities
        /\ guest.kind.vmpl = Options.vmpl
    BY DEF IInv, AcceptedLevelIsCommitted
  <2> HIDE DEF floor, now, accepted
  <2>4. /\ \A part \in TcbNames : /\ now.tcb[part] >= accepted.tcb[part]
                                  /\ now.tcb[part] >= Options.minimum_tcb[part]
        /\ now.build >= accepted.build
    BY <2>2, <2>3, PlatformAssumption
  <2> QED BY <2>3, <2>4 DEF AcceptedPlatformHolds, now, accepted
<1> QED BY <1>1, Inductive, PTL

-----------------------------------------------------------------------------
(* The command line. *)

\* One more option and its value.
LEMMA OneMoreOption ==
  ASSUME NEW S, NEW words \in Seq(S), NEW option \in S, NEW value \in S,
         NEW more, more = words \o <<option, value>>
  PROVE  /\ more \in Seq(S) /\ Len(more) = Len(words) + 2
         /\ more[Len(words) + 1] = option /\ more[Len(words) + 2] = value
         /\ \A i \in 1..Len(words) : more[i] = words[i]
OBVIOUS

\* The artifact at the end.
LEMMA OneMoreWord ==
  ASSUME NEW S, NEW words \in Seq(S), NEW value \in S,
         NEW more, more = words \o <<value>>
  PROVE  /\ more \in Seq(S) /\ Len(more) = Len(words) + 1
         /\ more[Len(words) + 1] = value
         /\ \A i \in 1..Len(words) : more[i] = words[i]
OBVIOUS

\* The words of an option that has one value, or none.
LEMMA OneWord ==
  ASSUME NEW option, NEW v
  PROVE  /\ Words(option, {v}) = <<[option |-> option], [value |-> v]>>
         /\ Words(option, {}) = << >>
BY DEF Words

\* Where arguments begin, when the first n - 1 of them are options with values.
LEMMA OptionsArePairs ==
  ASSUME NEW args, Len(args) \in Nat, NEW n \in 1..4, 2 * n - 1 = Len(args),
         NEW valued, \A k \in Nat \ {0} : k \in valued <=> k <= Len(args) /\ Tool!TakesValue(args[k]),
         \A i \in 1..n : 2 * i - 1 \in valued <=> i # n
  PROVE  \A i \in 1..n : Tool!Begins(args)[i] = 2 * i - 1
<1> DEFINE Begun(f) ==
             f = [i \in Nat \ {0} |->
                    IF i = 1 THEN 1
                    ELSE LET at == f[i - 1]
                         IN  IF at <= Len(args) /\ Tool!TakesValue(args[at])
                             THEN at + 2 ELSE at + 1]
           pairs == [i \in Nat \ {0} |-> IF i <= n THEN 2 * i - 1 ELSE n + i - 1]
<1> HIDE DEF pairs
<1>1. Begun(pairs)
  <2>1. /\ pairs = [i \in Nat \ {0} |-> pairs[i]]
        /\ \A i \in Nat \ {0} : pairs[i] \in Nat \ {0}
    BY DEF pairs
  <2>2. ASSUME NEW i \in Nat \ {0}, i # 1
        PROVE  pairs[i] = IF pairs[i - 1] \in valued THEN pairs[i - 1] + 2 ELSE pairs[i - 1] + 1
    <3> DEFINE j == i - 1
    <3> HIDE DEF j
    <3>0. j \in Nat \ {0} /\ i = j + 1
      BY <2>2 DEF j
    <3>1. CASE j < n
      <4>1. pairs[j] = 2 * j - 1 /\ pairs[i] = 2 * j + 1
        BY <3>0, <3>1 DEF pairs
      <4>2. 2 * j - 1 \in valued
        BY <3>0, <3>1
      <4> QED BY <3>0, <4>1, <4>2
    <3>2. CASE j >= n
      <4>1. pairs[j] = n + j - 1 /\ pairs[i] = n + j
        BY <3>0, <3>2 DEF pairs
      <4>2. n + j - 1 \notin valued
        <5>1. CASE j = n
          BY <5>1
        <5>2. CASE j > n
          BY <3>0, <5>2
        <5> QED BY <3>0, <3>2, <5>1, <5>2
      <4> QED BY <3>0, <4>1, <4>2
    <3> QED BY <3>0, <3>1, <3>2
  <2>3. pairs[1] = 1
    BY DEF pairs
  <2>4. ASSUME NEW i \in Nat \ {0}
        PROVE  pairs[i] = IF i = 1 THEN 1
                          ELSE LET at == pairs[i - 1]
                               IN  IF at <= Len(args) /\ Tool!TakesValue(args[at])
                                   THEN at + 2 ELSE at + 1
    <3>1. CASE i = 1
      BY <2>3, <3>1
    <3>2. CASE i # 1
      <4>1. i - 1 \in Nat \ {0}
        BY <3>2
      <4>2. pairs[i - 1] \in valued
              <=> pairs[i - 1] <= Len(args) /\ Tool!TakesValue(args[pairs[i - 1]])
        BY <2>1, <4>1
      <4> QED BY <2>2, <3>2, <4>2
    <3> QED BY <3>1, <3>2
  <2> DEFINE next == [i \in Nat \ {0} |->
                       IF i = 1 THEN 1
                       ELSE LET at == pairs[i - 1]
                            IN  IF at <= Len(args) /\ Tool!TakesValue(args[at])
                                THEN at + 2 ELSE at + 1]
  <2>5. \A i \in Nat \ {0} : next[i] = pairs[i]
    BY <2>4
  <2>6. next = [i \in Nat \ {0} |-> next[i]]
    OBVIOUS
  <2> HIDE DEF next
  <2>7. next = pairs
    BY <2>1, <2>5, <2>6
  <2> QED BY <2>7 DEF next, Begun
<1>2. Tool!Begins(args) = CHOOSE f : Begun(f)
  BY DEF Tool!Begins
<1>3. Begun(Tool!Begins(args))
  BY <1>1, <1>2
<1> DEFINE begins == Tool!Begins(args)
<1> HIDE DEF begins
<1>4. \A i \in Nat \ {0} : begins[i] = IF i = 1 THEN 1
                          ELSE LET at == begins[i - 1]
                               IN  IF at <= Len(args) /\ Tool!TakesValue(args[at])
                                   THEN at + 2 ELSE at + 1
  BY <1>3 DEF Begun, begins
<1> HIDE DEF Begun
<1>5. \A i \in 1..3 : i < n => 2 * i - 1 <= Len(args) /\ Tool!TakesValue(args[2 * i - 1])
  OBVIOUS
<1>6. begins[1] = 1
  BY <1>4
<1>7. n > 1 => begins[2] = 3
  BY <1>4, <1>5, <1>6
<1>8. n > 2 => begins[3] = 5
  BY <1>4, <1>5, <1>7
<1>9. n > 3 => begins[4] = 7
  BY <1>4, <1>5, <1>8
<1> QED BY <1>6, <1>7, <1>8, <1>9 DEF begins

\* Different options with a value each, and then the artifact.
AreOptions(args, names, n) ==
  /\ n \in 1..4 /\ Len(args) = 2 * n - 1
  /\ names \in [1..(n - 1) -> Tool!Valued]
  /\ \A i, j \in 1..(n - 1) : names[i] = names[j] => i = j
  /\ \A i \in 1..(n - 1) : args[2 * i - 1] = [option |-> names[i]]
  /\ ~Tool!IsOption(args[2 * n - 1])

ValueOf(args, names, n, option) ==
  {args[2 * i] : i \in {i \in 1..(n - 1) : names[i] = option}}

\* What is read from such arguments.
LEMMA OptionsAreRead ==
  ASSUME NEW args, NEW names, NEW n, AreOptions(args, names, n),
         NEW vargs \in Tool!parse_verify_args(args)
  PROVE  /\ vargs.artifact = args[2 * n - 1].value
         /\ vargs.key = ValueOf(args, names, n, "--key")
         /\ vargs.certificate_identity = ValueOf(args, names, n, "--certificate-identity")
<1> USE DEF AreOptions
<1> DEFINE at == Tool!Begins(args)
           Known(m) ==
             /\ at[m] <= Len(args)
             /\ \/ args[at[m]] = [option |-> "--staging"]
                \/ Tool!TakesValue(args[at[m]]) /\ at[m] < Len(args)
           Stops(m) == ~Known(m) /\ \A l \in 1..(m - 1) : Known(l)
           stop == CHOOSE m \in 1..(Len(args) + 1) : Stops(m)
           places(option) == {m \in 1..(stop - 1) : args[at[m]].option = option}
           value(option) == {args[at[m] + 1] :
                               m \in {m \in places(option) : \A l \in places(option) : l <= m}}
<1>1. vargs \in IF \/ at[stop] > Len(args) \/ Tool!IsOption(args[at[stop]])
                   \/ value("--bundle") = {} THEN {}
                ELSE {[certificate_identity |-> value("--certificate-identity"),
                       certificate_oidc_issuer |-> value("--certificate-oidc-issuer"),
                       key |-> value("--key"), artifact |-> args[at[stop]].value]}
  BY DEF Tool!parse_verify_args
<1>2. /\ \A i \in 1..(n - 1) : Tool!TakesValue(args[2 * i - 1])
      /\ ~Tool!IsOption(args[2 * n - 1])
  <2>1. ASSUME NEW i \in 1..(n - 1) PROVE Tool!TakesValue(args[2 * i - 1])
    <3>1. args[2 * i - 1] = [option |-> names[i]] /\ names[i] \in Tool!Valued
      OBVIOUS
    <3> QED BY <3>1 DEF Tool!TakesValue, Tool!IsOption
  <2> QED BY <2>1
<1> HIDE DEF at
<1>3. \A i \in 1..n : at[i] = 2 * i - 1
  <2> DEFINE valued == {k \in Nat \ {0} : k <= Len(args) /\ Tool!TakesValue(args[k])}
  <2>1. \A i \in 1..n : 2 * i - 1 \in valued <=> i # n
    <3> SUFFICES ASSUME NEW i \in 1..n
                 PROVE  2 * i - 1 \in valued <=> i # n
      OBVIOUS
    <3>1. CASE i = n
      BY <1>2, <3>1 DEF Tool!TakesValue
    <3>2. CASE i # n
      <4>1. i \in 1..(n - 1) /\ 2 * i - 1 \in Nat \ {0} /\ 2 * i - 1 <= Len(args)
        BY <3>2
      <4>2. Tool!TakesValue(args[2 * i - 1])
        BY <1>2, <4>1
      <4> QED BY <3>2, <4>1, <4>2
    <3> QED BY <3>1, <3>2
  <2>2. \A k \in Nat \ {0} : k \in valued <=> k <= Len(args) /\ Tool!TakesValue(args[k])
    OBVIOUS
  <2> HIDE DEF valued
  <2>3. Len(args) \in Nat
    OBVIOUS
  <2> QED BY <2>1, <2>2, <2>3, OptionsArePairs DEF at
<1>4. \A i \in 1..(n - 1) : Known(i)
  <2> SUFFICES ASSUME NEW i \in 1..(n - 1) PROVE Known(i)
    OBVIOUS
  <2>1. at[i] = 2 * i - 1 /\ 2 * i - 1 < Len(args)
    BY <1>3
  <2>2. Tool!TakesValue(args[at[i]])
    BY <1>2, <2>1
  <2> QED BY <2>1, <2>2
<1>5. ~Known(n)
  <2>1. at[n] = 2 * n - 1
    BY <1>3
  <2>2. args[at[n]] # [option |-> "--staging"] /\ ~Tool!TakesValue(args[at[n]])
    <3>1. ~Tool!IsOption(args[at[n]])
      BY <1>2, <2>1
    <3>2. Tool!IsOption([option |-> "--staging"])
      BY DEF Tool!IsOption
    <3> QED BY <3>1, <3>2 DEF Tool!TakesValue
  <2> QED BY <2>2
<1> HIDE DEF Known
<1>6. stop = n
  <2>1. n \in 1..(Len(args) + 1) /\ Stops(n)
    BY <1>4, <1>5
  <2>2. stop \in 1..(Len(args) + 1) /\ Stops(stop)
    BY <2>1
  <2> HIDE DEF stop
  <2>3. CASE stop < n
    BY <1>4, <2>2, <2>3
  <2>4. CASE stop > n
    BY <1>5, <2>2, <2>4
  <2> QED BY <2>2, <2>3, <2>4
<1> HIDE DEF stop
<1>7. ASSUME NEW option
      PROVE  value(option) = ValueOf(args, names, n, option)
  <2>1. ASSUME NEW i \in 1..(n - 1)
        PROVE  args[at[i]].option = names[i] /\ at[i] + 1 = 2 * i
    <3>1. at[i] = 2 * i - 1
      BY <1>3
    <3>2. args[at[i]] = [option |-> names[i]]
      BY <3>1
    <3> QED BY <3>1, <3>2
  <2>2. places(option) = {i \in 1..(n - 1) : names[i] = option}
    BY <1>6, <2>1
  <2> HIDE DEF places
  <2>3. {m \in places(option) : \A l \in places(option) : l <= m} = places(option)
    BY <2>2
  <2> QED BY <2>1, <2>2, <2>3 DEF ValueOf
<1> HIDE DEF value
<1>8. vargs = [certificate_identity |-> value("--certificate-identity"),
               certificate_oidc_issuer |-> value("--certificate-oidc-issuer"),
               key |-> value("--key"), artifact |-> args[at[stop]].value]
  BY <1>1
<1>9. args[at[stop]].value = args[2 * n - 1].value
  BY <1>3, <1>6
<1> QED BY <1>7, <1>8, <1>9
\* No more words.
LEMMA NoMoreWords ==
  ASSUME NEW S, NEW words \in Seq(S)
  PROVE  words \o << >> = words
OBVIOUS

\* The two kinds of commands, and the value of an option that was given once.
Keyed(artifact, key) == Given(artifact, {}, {}, {key})
Identified(artifact, identity, issuer) == Given(artifact, {identity}, {issuer}, {})
TheWord(value) == {[value |-> value]}

\* The binary reads of a command what was spelled: of a key.
LEMMA KeysAreRead ==
  ASSUME NEW artifact, NEW key,
         NEW vargs \in Tool!parse_verify_args(Spelled(Keyed(artifact, key)))
  PROVE  /\ vargs.artifact = artifact
         /\ vargs.key = TheWord(key)
         /\ vargs.certificate_identity = {}
<1> DEFINE args == Spelled(Keyed(artifact, key))
           option1 == [option |-> "--bundle"]
           value1 == [value |-> "bundle.json"]
           option2 == [option |-> "--key"]
           value2 == [value |-> key]
           last == [value |-> artifact]
           S == {option1, value1, option2, value2, last}
           words == <<option1, value1>> \o <<option2, value2>>
<1>1. args = words \o << >> \o << >> \o <<last>>
  BY OneWord DEF Spelled, Given, Keyed
<1> HIDE DEF args
<1>2. /\ <<option1, value1>> \in Seq(S) /\ Len(<<option1, value1>>) = 2
      /\ <<option1, value1>>[1] = option1 /\ <<option1, value1>>[2] = value1
  OBVIOUS
<1>3. option2 \in S /\ value2 \in S /\ last \in S
  OBVIOUS
<1> HIDE DEF option1, value1, option2, value2, last, S
<1>4. /\ words \in Seq(S) /\ Len(words) = 4
      /\ words[1] = option1 /\ words[2] = value1
      /\ words[3] = option2 /\ words[4] = value2
  <2>1. option2 \in S /\ value2 \in S
    BY <1>3
  <2> QED BY <1>2, <2>1, OneMoreOption
<1> HIDE DEF words
<1>5. args = words \o <<last>>
  BY <1>1, <1>4, NoMoreWords
<1>6. /\ Len(args) = 5
      /\ args[1] = option1 /\ args[2] = value1
      /\ args[3] = option2 /\ args[4] = value2 /\ args[5] = last
  <2>1. /\ Len(args) = Len(words) + 1 /\ args[Len(words) + 1] = last
        /\ \A i \in 1..Len(words) : args[i] = words[i]
    <3>1. last \in S /\ words \in Seq(S)
      BY <1>3, <1>4
    <3> QED BY <1>5, <3>1, OneMoreWord
  <2> QED BY <1>4, <2>1
<1> DEFINE n == 3
           names == [i \in 1..(n - 1) |-> IF i = 1 THEN "--bundle" ELSE "--key"]
<1>7. /\ names \in [1..(n - 1) -> Tool!Valued]
      /\ names[1] = "--bundle" /\ names[2] = "--key"
  BY DEF Tool!Valued
<1> HIDE DEF names
<1>8. /\ \A i, j \in 1..(n - 1) : names[i] = names[j] => i = j
      /\ \A i \in 1..(n - 1) : args[2 * i - 1] = [option |-> names[i]]
      /\ args[2 * n - 1].value = artifact /\ ~Tool!IsOption(args[2 * n - 1])
  BY <1>6, <1>7 DEF option1, option2, last, Tool!IsOption
<1>9. vargs \in Tool!parse_verify_args(args)
  BY DEF args
<1>10. /\ vargs.artifact = args[2 * n - 1].value
       /\ vargs.key = ValueOf(args, names, n, "--key")
       /\ vargs.certificate_identity = ValueOf(args, names, n, "--certificate-identity")
  <2>1. AreOptions(args, names, n)
    BY <1>6, <1>7, <1>8 DEF AreOptions
  <2> HIDE DEF n
  <2> QED BY <1>9, <2>1, OptionsAreRead
<1>11. /\ ValueOf(args, names, n, "--key") = {value2}
       /\ ValueOf(args, names, n, "--certificate-identity") = {}
  <2>1. /\ {i \in 1..(n - 1) : names[i] = "--key"} = {2}
        /\ {i \in 1..(n - 1) : names[i] = "--certificate-identity"} = {}
    BY <1>7
  <2> QED BY <2>1, <1>6 DEF ValueOf
<1> QED BY <1>8, <1>10, <1>11 DEF value2, TheWord

\* The same of an identity.
LEMMA IdentitiesAreRead ==
  ASSUME NEW artifact, NEW identity, NEW issuer,
         NEW vargs \in Tool!parse_verify_args(Spelled(Identified(artifact, identity, issuer)))
  PROVE  /\ vargs.artifact = artifact
         /\ vargs.key = {}
         /\ vargs.certificate_identity = TheWord(identity)
<1> DEFINE args == Spelled(Identified(artifact, identity, issuer))
           option1 == [option |-> "--bundle"]
           value1 == [value |-> "bundle.json"]
           option2 == [option |-> "--certificate-identity"]
           value2 == [value |-> identity]
           option3 == [option |-> "--certificate-oidc-issuer"]
           value3 == [value |-> issuer]
           last == [value |-> artifact]
           S == {option1, value1, option2, value2, option3, value3, last}
           first == <<option1, value1>>
           words == first \o <<option2, value2>>
           options == words \o <<option3, value3>>
<1>1. args = first \o << >> \o <<option2, value2>> \o <<option3, value3>> \o <<last>>
  BY OneWord DEF Spelled, Given, Identified
<1> HIDE DEF args
<1>2. first \in Seq(S) /\ Len(first) = 2 /\ first[1] = option1 /\ first[2] = value1
  OBVIOUS
<1>3. option2 \in S /\ value2 \in S /\ option3 \in S /\ value3 \in S /\ last \in S
  OBVIOUS
<1> HIDE DEF option1, value1, option2, value2, option3, value3, last, S, first
<1>4. /\ words \in Seq(S) /\ Len(words) = 4
      /\ words[1] = option1 /\ words[2] = value1
      /\ words[3] = option2 /\ words[4] = value2
  <2>0. words = first \o <<option2, value2>>
    OBVIOUS
  <2> HIDE DEF words
  <2>1. /\ words \in Seq(S) /\ Len(words) = Len(first) + 2
        /\ words[Len(first) + 1] = option2 /\ words[Len(first) + 2] = value2
        /\ \A i \in 1..Len(first) : words[i] = first[i]
    <3>1. option2 \in S /\ value2 \in S /\ first \in Seq(S)
      BY <1>2, <1>3
    <3> QED BY <2>0, <3>1, OneMoreOption
  <2> QED BY <1>2, <2>1
<1>5. first \o << >> = first
  BY <1>2, NoMoreWords
<1>6. args = options \o <<last>>
  BY <1>1, <1>5
<1> HIDE DEF words
<1>7. /\ options \in Seq(S) /\ Len(options) = 6
      /\ options[1] = option1 /\ options[2] = value1
      /\ options[3] = option2 /\ options[4] = value2
      /\ options[5] = option3 /\ options[6] = value3
  <2>0. options = words \o <<option3, value3>>
    OBVIOUS
  <2> HIDE DEF options
  <2>1. /\ options \in Seq(S) /\ Len(options) = Len(words) + 2
        /\ options[Len(words) + 1] = option3 /\ options[Len(words) + 2] = value3
        /\ \A i \in 1..Len(words) : options[i] = words[i]
    <3>1. option3 \in S /\ value3 \in S /\ words \in Seq(S)
      BY <1>3, <1>4
    <3> QED BY <2>0, <3>1, OneMoreOption
  <2> QED BY <1>4, <2>1
<1> HIDE DEF options
<1>8. /\ Len(args) = 7
      /\ args[1] = option1 /\ args[2] = value1
      /\ args[3] = option2 /\ args[4] = value2
      /\ args[5] = option3 /\ args[6] = value3 /\ args[7] = last
  <2>1. /\ Len(args) = Len(options) + 1 /\ args[Len(options) + 1] = last
        /\ \A i \in 1..Len(options) : args[i] = options[i]
    <3>1. last \in S /\ options \in Seq(S)
      BY <1>3, <1>7
    <3> QED BY <1>6, <3>1, OneMoreWord
  <2> QED BY <1>7, <2>1
<1> DEFINE n == 4
           names == [i \in 1..(n - 1) |-> IF i = 1 THEN "--bundle"
                                          ELSE IF i = 2 THEN "--certificate-identity"
                                                        ELSE "--certificate-oidc-issuer"]
<1>9. /\ names \in [1..(n - 1) -> Tool!Valued]
      /\ names[1] = "--bundle" /\ names[2] = "--certificate-identity"
      /\ names[3] = "--certificate-oidc-issuer"
  BY DEF Tool!Valued
<1> HIDE DEF names
<1>10. /\ \A i, j \in 1..(n - 1) : names[i] = names[j] => i = j
       /\ \A i \in 1..(n - 1) : args[2 * i - 1] = [option |-> names[i]]
       /\ args[2 * n - 1].value = artifact /\ ~Tool!IsOption(args[2 * n - 1])
  BY <1>8, <1>9 DEF option1, option2, option3, last, Tool!IsOption
<1>11. vargs \in Tool!parse_verify_args(args)
  BY DEF args
<1>12. /\ vargs.artifact = args[2 * n - 1].value
       /\ vargs.key = ValueOf(args, names, n, "--key")
       /\ vargs.certificate_identity = ValueOf(args, names, n, "--certificate-identity")
  <2>1. AreOptions(args, names, n)
    BY <1>8, <1>9, <1>10 DEF AreOptions
  <2> HIDE DEF n
  <2> QED BY <1>11, <2>1, OptionsAreRead
<1>13. /\ ValueOf(args, names, n, "--key") = {}
       /\ ValueOf(args, names, n, "--certificate-identity") = {value2}
  <2>1. /\ {i \in 1..(n - 1) : names[i] = "--key"} = {}
        /\ {i \in 1..(n - 1) : names[i] = "--certificate-identity"} = {2}
    BY <1>9
  <2> QED BY <2>1, <1>8 DEF ValueOf
<1> QED BY <1>10, <1>12, <1>13 DEF value2, TheWord
-----------------------------------------------------------------------------
(* Bundles in the binary's forms. *)

\* What a form has of the bundle it is of.
LEMMA FormsSayTheSame ==
  ASSUME NEW b, NEW form \in Forms(Assemble(b))
  PROVE  LET whole == Assemble(b) IN
         /\ form.timestamps = whole.timestamps /\ form.tlog_entries = whole.tlog_entries
         /\ Tool!extract_leaf_cert_der(form) = IF Certified(whole) THEN {whole.cert} ELSE {}
         /\ Tool!BundleSignature(form) = whole.signatures[1]
         /\ Tool!Has(form, "messageSignature") =>
              /\ form.messageSignature.signature = whole.signatures[1]
              /\ form.messageSignature.digest = whole.payload.subject[1].digest
         /\ ~Tool!Has(form, "messageSignature") =>
              /\ form.dsseEnvelope.signatures[1] = whole.signatures[1]
              /\ form.dsseEnvelope.payload_type = whole.payload_type
              /\ form.dsseEnvelope.payload = whole.payload
<1> DEFINE whole == Assemble(b)
           sig == SignatureOf(Runs[b.from["signature"]])
           envelope(signatures) ==
             [payload_type |-> whole.payload_type, payload |-> whole.payload,
              signatures |-> signatures]
           enveloped(signatures) ==
             IF Certified(whole)
             THEN [dsseEnvelope |-> envelope(signatures), certificate |-> whole.cert,
                   timestamps |-> whole.timestamps, tlog_entries |-> whole.tlog_entries]
             ELSE [dsseEnvelope |-> envelope(signatures),
                   timestamps |-> whole.timestamps, tlog_entries |-> whole.tlog_entries]
<1>1. whole.signatures = <<sig>>
  BY DEF Assemble
<1> HIDE DEF whole, sig
<1>2. CASE form = Message(whole)
  BY <1>2 DEF Message, Tool!extract_leaf_cert_der, Tool!Has, Tool!BundleSignature, whole
<1>3. ASSUME NEW signatures, signatures[1] = whole.signatures[1], form = enveloped(signatures)
      PROVE  /\ form.timestamps = whole.timestamps /\ form.tlog_entries = whole.tlog_entries
             /\ Tool!extract_leaf_cert_der(form) = IF Certified(whole) THEN {whole.cert} ELSE {}
             /\ Tool!BundleSignature(form) = whole.signatures[1]
             /\ ~Tool!Has(form, "messageSignature")
             /\ form.dsseEnvelope.signatures[1] = whole.signatures[1]
             /\ form.dsseEnvelope.payload_type = whole.payload_type
             /\ form.dsseEnvelope.payload = whole.payload
  BY <1>3 DEF Tool!extract_leaf_cert_der, Tool!Has, Tool!BundleSignature
<1>4. CASE form = Enveloped(whole)
  <2>1. form = enveloped(whole.signatures)
    BY <1>4 DEF Enveloped
  <2> HIDE DEF enveloped
  <2> QED BY <1>3, <2>1 DEF whole
<1>5. CASE form = SignedTwice(whole)
  <2> DEFINE another == Signed("another", SignedBy(Runs[1]))
             signatures == whole.signatures \o <<another>>
  <2> HIDE DEF another
  <2>1. signatures[1] = whole.signatures[1]
    BY <1>1
  <2>2. Enveloped(whole) = enveloped(whole.signatures)
    BY DEF Enveloped
  <2>3. form = [enveloped(whole.signatures) EXCEPT !.dsseEnvelope.signatures = signatures]
    <3>1. enveloped(whole.signatures).dsseEnvelope.signatures = whole.signatures
      OBVIOUS
    <3> HIDE DEF enveloped
    <3>2. form = [Enveloped(whole) EXCEPT !.dsseEnvelope.signatures =
                                            Enveloped(whole).dsseEnvelope.signatures \o <<another>>]
      BY <1>5 DEF SignedTwice, another
    <3> QED BY <2>2, <3>1, <3>2
  <2> HIDE DEF signatures
  <2>4. form = enveloped(signatures)
    <3>1. CASE Certified(whole)
      BY <2>3, <3>1
    <3>2. CASE ~Certified(whole)
      BY <2>3, <3>2
    <3> QED BY <3>1, <3>2
  <2> HIDE DEF enveloped
  <2> QED BY <1>3, <2>1, <2>4 DEF whole
<1> QED BY <1>2, <1>4, <1>5 DEF Forms, whole
-----------------------------------------------------------------------------
(* What the binary accepts. *)

\* A signature that verifies with a run's key is that run's, over what it signed,
\* which is the artifact.
LEMMA SignaturesAreOfTheKeysRun ==
  ASSUME NEW b \in Bundles, NEW form \in Forms(Assemble(b)), NEW i \in DOMAIN Runs,
         NEW cert, NEW key, Tool!get_verifying_key_info(cert, key) = {Runs[i].key},
         IF Tool!Has(form, "messageSignature")
         THEN Tool!verify_message_signature(form, cert, key)
         ELSE Tool!verify_dsse_signature(form, cert, key),
         NEW artifact,
         Tool!verify_artifact_digest(form, Tool!resolve_artifact_sha256(artifact, Files), artifact)
  PROVE  /\ Assemble(b).signatures[1] = SignatureOf(Runs[i])
         /\ Signs(Runs[i], artifact)
<1> DEFINE whole == Assemble(b)
           j == b.from["signature"]
           sha256 == Tool!resolve_artifact_sha256(artifact, Files)
<1> HIDE DEF whole, j, sha256
<1>1. j \in DOMAIN Runs
  BY PartsAreOfRuns DEF Parts, j
<1>2. whole.signatures[1] = SignatureOf(Runs[j])
  BY Assembled DEF whole, j
<1>3. CASE Tool!Has(form, "messageSignature")
  <2> DEFINE digest == form.messageSignature.digest
  <2> HIDE DEF digest
  <2>1. whole.signatures[1] = Tool!Library!Signed(Runs[i].key, [message |-> digest])
    BY <1>3, FormsSayTheSame DEF Tool!verify_message_signature, whole, digest
  <2>2. Runs[j].key = Runs[i].key /\ SignedBy(Runs[j]) = [message |-> digest]
    BY <1>2, <2>1 DEF Tool!Library!Signed, SignatureOf, Signed
  <2>3. j = i
    BY <1>1, <2>2, SigningAssumption
  <2>4. Runs[i].signs # "statement"
    BY <2>2, <2>3 DEF SignedBy, compute_pae
  <2>5. digest = Runs[i].statement.subject[1].digest
    BY <2>2, <2>3, <2>4 DEF SignedBy
  <2>6. {digest} = sha256
    BY <1>3 DEF Tool!verify_artifact_digest, digest, sha256
  <2> QED BY <1>2, <2>3, <2>4, <2>5, <2>6 DEF Signs, whole, sha256
<1>4. CASE ~Tool!Has(form, "messageSignature")
  <2>1. whole.signatures[1] =
          Tool!Library!Signed(Runs[i].key,
                              Tool!Library!compute_pae(whole.payload_type, whole.payload))
    BY <1>4, FormsSayTheSame DEF Tool!verify_dsse_signature, whole
  <2>2. /\ Runs[j].key = Runs[i].key
        /\ SignedBy(Runs[j]) = [type |-> whole.payload_type, payload |-> whole.payload]
    BY <1>2, <2>1 DEF Tool!Library!Signed, Tool!Library!compute_pae, SignatureOf, Signed
  <2>3. j = i
    BY <1>1, <2>2, SigningAssumption
  <2>4. Runs[i].signs = "statement" /\ whole.payload = Runs[i].statement
    BY <2>2, <2>3 DEF SignedBy, compute_pae
  <2>5. form.dsseEnvelope.payload = Runs[i].statement
    BY <1>4, <2>4, FormsSayTheSame DEF whole
  <2>6. \E n \in DOMAIN Runs[i].statement.subject :
          LET subject == Runs[i].statement.subject[n] IN
          \/ {subject.digest} = sha256
          \/ artifact.hex = {} /\ subject.name \in {artifact.file_name, artifact.text}
    BY <1>4, <2>5 DEF Tool!verify_artifact_digest, sha256
  <2> QED BY <1>2, <2>3, <2>4, <2>6 DEF Signs, whole, sha256
<1> QED BY <1>3, <1>4

\* The entry of a signature is of the run whose signature it is.
LEMMA EntriesAreOfTheSignaturesRun ==
  ASSUME NEW b \in Bundles, NEW form \in Forms(Assemble(b)), NEW i \in DOMAIN Runs,
         Assemble(b).signatures[1] = SignatureOf(Runs[i]),
         Tool!verify_sig_binding(form, Assemble(b).tlog_entries[1].body)
  PROVE  Assemble(b).tlog_entries[1].body = BodyOf(Runs[i])
<1> DEFINE whole == Assemble(b)
           n == b.from["body"]
           body == whole.tlog_entries[1].body
<1> HIDE DEF whole, n
<1>1. n \in DOMAIN Runs
  BY PartsAreOfRuns DEF Parts, n
<1>2. body = BodyOf(Runs[n])
  BY Assembled DEF whole, n
<1>3. body.signature = SignatureOf(Runs[n])
  BY <1>2 DEF BodyOf
<1>4. Tool!extract_rekor_signature(body) = {SignatureOf(Runs[i])}
  BY FormsSayTheSame DEF Tool!verify_sig_binding, whole
<1>5. SignatureOf(Runs[n]) = SignatureOf(Runs[i])
  BY <1>3, <1>4 DEF Tool!extract_rekor_signature
<1>6. n = i
  BY <1>1, <1>5, SignaturesAreOfOneRun
<1> QED BY <1>2, <1>6 DEF whole

\* With a key: the key's run has no certificate.
LEMMA KeysAreOfTheirRuns ==
  ASSUME NEW i \in DOMAIN Runs, NEW body, body = BodyOf(Runs[i]),
         Tool!verify_key_binding({[value |-> Runs[i].key]}, body)
  PROVE  ~Runs[i].certified
<1> SUFFICES ASSUME Runs[i].certified PROVE FALSE
  OBVIOUS
<1>1. body.cert = CertOf(Runs[i])
  BY DEF BodyOf
<1>2. body.cert = [public_key |-> Runs[i].key]
  BY DEF Tool!verify_key_binding
<1>3. "public_key" \notin DOMAIN CertOf(Runs[i])
  BY DEF CertOf
<1>4. "public_key" \in DOMAIN [public_key |-> Runs[i].key]
  OBVIOUS
<1> QED BY <1>1, <1>2, <1>3, <1>4
\* With a certificate: the run was in time, whoever vouches for that.
LEMMA TheBinaryWantsRunsInTime ==
  ASSUME NEW b \in Bundles, NEW form \in Forms(Assemble(b)), NEW i \in DOMAIN Runs, NEW key,
         Assemble(b).signatures[1] = SignatureOf(Runs[i]),
         Tool!verify_fulcio_chain(CertOf(Runs[i])),
         Tool!verify_rekor_entry(form, {CertOf(Runs[i])}, key)
  PROVE  InTime(Runs[i])
<1> DEFINE whole == Assemble(b)
           r == Runs[i]
           cert == CertOf(r)
           e == whole.tlog_entries[1]
           times == Tool!TsaTimes(form)
           rekor_key == Tool!Library!RekorKeyAt(e.log_id, Tool!timestamp_for_key(form, e))
<1> HIDE DEF whole, r, cert, times, rekor_key
<1>1. /\ Tool!verify_times(form, e, {cert})
      /\ Tool!verify_log(e, rekor_key)
      /\ Tool!verify_sig_binding(form, e.body)
  BY FormsSayTheSame DEF Tool!verify_rekor_entry, whole, rekor_key, cert, r
<1>2. e.body = BodyOf(r)
  BY <1>1, EntriesAreOfTheSignaturesRun DEF whole, r
<1>3. /\ cert.validity = r.validity
      /\ cert.signature.key = FulcioCas[r.ca].chain[1].key
  BY DEF cert, CertOf, Signed
<1>4. /\ r.ca \in DOMAIN FulcioCas
      /\ r.signed_at \in Nat /\ r.validity.from \in Nat /\ r.validity.until \in Nat
  BY SigningAssumption DEF r
<1>5. r.validity.from \in FulcioCas[r.ca].window.from..FulcioCas[r.ca].window.until
  <2>1. PICK n \in DOMAIN FulcioCas :
          /\ Tool!Library!Within(cert.validity.from, FulcioCas[n].window)
          /\ Tool!Library!verify_issued_by(cert, FulcioCas[n].chain[1])
    BY DEF Tool!verify_fulcio_chain, cert, r
  <2>2. FulcioCas[n].chain[1].key = FulcioCas[r.ca].chain[1].key
    BY <1>3, <2>1 DEF Tool!Library!verify_issued_by, Tool!Library!Signed
  <2>3. n = r.ca
    BY <1>4, <2>2, SigningAssumption
  <2>4. /\ FulcioCas[n].window.from <= r.validity.from
        /\ r.validity.from <= FulcioCas[n].window.until
        /\ FulcioCas[n].window.from \in Nat /\ FulcioCas[n].window.until \in Nat
    BY <1>3, <2>1, SigningAssumption DEF Tool!Library!Within
  <2>5. r.validity.from \in FulcioCas[n].window.from..FulcioCas[n].window.until
    BY <1>4, <2>4
  <2> QED BY <2>3, <2>5
<1>6. r.validity.from <= r.signed_at /\ r.signed_at <= r.validity.until
  <2>1. CASE Tool!Promised(e)
    <3> DEFINE p == b.from["promise"]
    <3> HIDE DEF p
    <3>1. p \in DOMAIN Runs /\ b.promised \in BOOLEAN
      BY PartsAreOfRuns DEF Parts, p
    <3>2. "signed_entry_timestamp" \in DOMAIN e.inclusion_promise
      BY <2>1 DEF Tool!Promised, Tool!Library!HasSet
    <3>3. e.inclusion_promise = PromiseOf(Runs[p])
      <4>1. e.inclusion_promise = IF b.promised THEN PromiseOf(Runs[p]) ELSE [present |-> FALSE]
        BY Assembled DEF whole, p
      <4>2. ASSUME ~b.promised PROVE FALSE
        <5>1. e.inclusion_promise = [present |-> FALSE]
          BY <4>1, <4>2
        <5> QED BY <3>2, <5>1
      <4> QED BY <4>1, <4>2
    <3>4. Tool!Library!verify_signed_entry_timestamp(e, rekor_key)
      BY <1>1, <2>1 DEF Tool!verify_log
    <3>5. e.body = BodyOf(Runs[p]) /\ e.integrated_time = Runs[p].signed_at
      BY <3>3, <3>4 DEF Tool!Library!verify_signed_entry_timestamp, Tool!Library!Signed,
         Tool!Library!SetPayload, PromiseOf, Signed, SetPayload
    <3>6. p = i
      BY <1>2, <3>1, <3>5, SignaturesAreOfOneRun DEF BodyOf, r
    <3>7. Tool!Library!Within(e.integrated_time, cert.validity)
      BY <1>1, <2>1 DEF Tool!verify_times, Tool!Promised
    <3> QED BY <1>3, <3>5, <3>6, <3>7 DEF Tool!Library!Within, r
  <2>2. CASE ~Tool!Promised(e)
    <3> DEFINE s == b.from["stamp"]
    <3> HIDE DEF s
    <3>1. s \in DOMAIN Runs
      BY PartsAreOfRuns DEF Parts, s
    <3>2. PICK t \in times : Tool!Library!Within(t, cert.validity)
      BY <1>1, <2>2 DEF Tool!verify_times, times
    <3>3. PICK n \in DOMAIN whole.timestamps :
            /\ whole.timestamps[n].imprint = SignatureOf(r)
            /\ t = whole.timestamps[n].gen_time
      <4>1. /\ form.timestamps = whole.timestamps
            /\ Tool!BundleSignature(form) = SignatureOf(r)
        BY FormsSayTheSame DEF whole, r
      <4>2. t \in Tool!Library!verify_timestamps([timestamps |-> whole.timestamps,
                                                 signatures |-> <<SignatureOf(r)>>])
        BY <4>1 DEF times, Tool!TsaTimes
      <4> QED BY <4>2 DEF Tool!Library!verify_timestamps, Tool!Library!verify_timestamp
    <3>4. whole.timestamps[n] = StampOf(Runs[s])
      <4>1. whole.timestamps = IF b.stamped THEN << StampOf(Runs[s]) >> ELSE <<>>
        BY Assembled DEF whole, s
      <4>2. whole.timestamps = << StampOf(Runs[s]) >> /\ n = 1
        BY <4>1, <3>3
      <4> QED BY <4>2
    <3>5. SignatureOf(Runs[s]) = SignatureOf(r) /\ t = Runs[s].signed_at
      BY <3>3, <3>4, Stamped
    <3>6. s = i
      BY <3>1, <3>5, SignaturesAreOfOneRun DEF r
    <3> QED BY <1>3, <3>2, <3>5, <3>6 DEF Tool!Library!Within, r
  <2> QED BY <2>1, <2>2
<1> QED BY <1>4, <1>5, <1>6 DEF InTime, r

\* Some run signed the artifact of a command, and did so as the command expects.
IsOneSigningEvent(b, command) ==
  \E i \in DOMAIN Runs :
    LET whole == Assemble(b)
        r == Runs[i]
    IN  /\ whole.signatures[1] = SignatureOf(r) /\ whole.tlog_entries[1].body = BodyOf(r)
        /\ Signs(r, command.artifact)
        /\ IF command.key # {} THEN ~r.certified /\ command.key = {r.key}
           ELSE /\ whole.cert = CertIn(r) /\ r.certified /\ InTime(r)
                /\ command.identity = {r.extensions.build_signer}

\* Nothing passes that is not one signing event, in any form.
LEMMA TheBinaryWantsOneSigningEvent ==
  ASSUME NEW b \in Bundles, NEW form \in Forms(Assemble(b)), NEW artifact,
         NEW command \in {Identified(artifact, [repository |-> Repo, ref |-> release.tag], Actions),
                          Keyed(artifact, Runs[b.from["cert"]].key)},
         Tool!verify_bundle(Spelled(command), form, Files)
  PROVE  IsOneSigningEvent(b, command)
<1> DEFINE whole == Assemble(b)
           i == b.from["cert"]
           identity == [repository |-> Repo, ref |-> release.tag]
<1> HIDE DEF whole, i, identity
<1>1. i \in DOMAIN Runs
  BY PartsAreOfRuns DEF Parts, i
<1>2. PICK vargs \in Tool!parse_verify_args(Spelled(command)) :
        LET cert == IF vargs.key # {} THEN {} ELSE Tool!extract_leaf_cert_der(form)
            sha256 == Tool!resolve_artifact_sha256(vargs.artifact, Files)
        IN  /\ vargs.key # {} \/ cert # {}
            /\ IF Tool!Has(form, "messageSignature")
               THEN Tool!verify_message_signature(form, cert, vargs.key)
               ELSE Tool!verify_dsse_signature(form, cert, vargs.key)
            /\ \A c \in cert : Tool!verify_certificate(c, vargs)
            /\ Tool!verify_rekor_entry(form, cert, vargs.key)
            /\ Tool!verify_artifact_digest(form, sha256, vargs.artifact)
  BY DEF Tool!verify_bundle
<1>3. ASSUME NEW cert, NEW key,
             Tool!verify_rekor_entry(form, cert, key)
      PROVE  /\ Tool!verify_sig_binding(form, whole.tlog_entries[1].body)
             /\ cert = {} => Tool!verify_key_binding(key, whole.tlog_entries[1].body)
  BY <1>3, FormsSayTheSame DEF Tool!verify_rekor_entry, whole
<1>4. CASE command = Keyed(artifact, Runs[i].key)
  <2> DEFINE key == {[value |-> Runs[i].key]}
  <2> HIDE DEF key
  <2>1. vargs.artifact = artifact /\ vargs.key = key
    <3>1. vargs \in Tool!parse_verify_args(Spelled(Keyed(artifact, Runs[i].key)))
      BY <1>2, <1>4
    <3> QED BY <3>1, KeysAreRead DEF key, TheWord
  <2>2. /\ IF Tool!Has(form, "messageSignature")
           THEN Tool!verify_message_signature(form, {}, key)
           ELSE Tool!verify_dsse_signature(form, {}, key)
        /\ Tool!verify_rekor_entry(form, {}, key)
        /\ Tool!verify_artifact_digest(form, Tool!resolve_artifact_sha256(artifact, Files), artifact)
    BY <1>2, <2>1 DEF key
  <2>3. Tool!get_verifying_key_info({}, key) = {Runs[i].key}
    BY DEF Tool!get_verifying_key_info, key
  <2>4. whole.signatures[1] = SignatureOf(Runs[i]) /\ Signs(Runs[i], artifact)
    BY <1>1, <2>2, <2>3, SignaturesAreOfTheKeysRun DEF whole
  <2>5. whole.tlog_entries[1].body = BodyOf(Runs[i])
    BY <1>1, <1>3, <2>2, <2>4, EntriesAreOfTheSignaturesRun DEF whole
  <2>6. ~Runs[i].certified
    BY <1>1, <1>3, <2>2, <2>5, KeysAreOfTheirRuns DEF key
  <2>7. command.artifact = artifact /\ command.key = {Runs[i].key}
    BY <1>4 DEF Keyed, Given
  <2> QED BY <1>1, <2>4, <2>5, <2>6, <2>7 DEF IsOneSigningEvent, whole
<1>5. CASE command = Identified(artifact, identity, Actions)
  <2> DEFINE cert == CertOf(Runs[i])
  <2> HIDE DEF cert
  <2>1. /\ vargs.artifact = artifact /\ vargs.key = {}
        /\ vargs.certificate_identity = {[value |-> identity]}
    <3>1. vargs \in Tool!parse_verify_args(Spelled(Identified(artifact, identity, Actions)))
      BY <1>2, <1>5
    <3> QED BY <3>1, IdentitiesAreRead DEF TheWord
  <2>2. Tool!extract_leaf_cert_der(form) = {whole.cert} /\ whole.cert # NoCertificate
    BY <1>2, <2>1, FormsSayTheSame DEF Certified, whole
  <2>3. Runs[i].certified /\ whole.cert = cert /\ whole.cert = CertIn(Runs[i])
    <3>1. whole.cert = CertIn(Runs[i])
      BY Assembled DEF whole, i
    <3> QED BY <2>2, <3>1 DEF CertIn, cert
  <2>4. /\ IF Tool!Has(form, "messageSignature")
           THEN Tool!verify_message_signature(form, {cert}, {})
           ELSE Tool!verify_dsse_signature(form, {cert}, {})
        /\ Tool!verify_certificate(cert, vargs)
        /\ Tool!verify_rekor_entry(form, {cert}, {})
        /\ Tool!verify_artifact_digest(form, Tool!resolve_artifact_sha256(artifact, Files), artifact)
    BY <1>2, <2>1, <2>2, <2>3
  <2>5. Tool!get_verifying_key_info({cert}, {}) = {Runs[i].key}
    <3>1. cert.key = Runs[i].key
      BY DEF cert, CertOf
    <3> QED BY <3>1 DEF Tool!get_verifying_key_info
  <2>6. whole.signatures[1] = SignatureOf(Runs[i]) /\ Signs(Runs[i], artifact)
    BY <1>1, <2>4, <2>5, SignaturesAreOfTheKeysRun DEF whole
  <2>7. whole.tlog_entries[1].body = BodyOf(Runs[i])
    BY <1>1, <1>3, <2>4, <2>6, EntriesAreOfTheSignaturesRun DEF whole
  <2>8. Tool!verify_fulcio_chain(cert) /\ Tool!verify_cert_san(cert, [value |-> identity])
    BY <2>1, <2>4 DEF Tool!verify_certificate
  <2>9. InTime(Runs[i])
    BY <1>1, <2>4, <2>6, <2>8, TheBinaryWantsRunsInTime DEF whole, cert
  <2>10. identity = Runs[i].extensions.build_signer
    <3>1. cert.san = {[type |-> "uri", name |-> Runs[i].extensions.build_signer]}
      BY DEF cert, CertOf
    <3>2. [value |-> identity] = [value |-> Runs[i].extensions.build_signer]
      BY <2>8, <3>1 DEF Tool!verify_cert_san
    <3>3. [value |-> identity].value = [value |-> Runs[i].extensions.build_signer].value
      BY <3>2
    <3> QED BY <3>3
  <2>11. command.artifact = artifact /\ command.key = {} /\ command.identity = {identity}
    BY <1>5 DEF Identified, Given
  <2> QED BY <1>1, <2>3, <2>6, <2>7, <2>9, <2>10, <2>11 DEF IsOneSigningEvent, whole
<1> QED BY <1>4, <1>5 DEF i, identity

\* What the binary accepts is one signing event, whatever runs and artifacts there
\* are, as long as nobody has another's key (verify_bundle of bin/conformance.rs).
THEOREM ToolAcceptsSingleEvents == Spec => []ToolAcceptsOneSigningEvent
<1>1. IInv => ToolAcceptsOneSigningEvent
  <2> SUFFICES ASSUME IInv, stage = "bundle",
                      NEW form \in Forms(Assemble(bundle)), NEW command \in Commands,
                      Tool!verify_bundle(Spelled(command), form, Files)
               PROVE  IsOneSigningEvent(bundle, command)
    BY DEF ToolAcceptsOneSigningEvent, IsOneSigningEvent
  <2>1. bundle \in Bundles
    BY DEF IInv, StagesFollow
  <2>2. PICK artifact \in Artifacts :
          command \in {Identified(artifact, [repository |-> Repo, ref |-> release.tag], Actions),
                       Keyed(artifact, Runs[bundle.from["cert"]].key)}
    BY DEF Commands, Identified, Keyed
  <2> QED BY <2>1, <2>2, TheBinaryWantsOneSigningEvent
<1> QED BY <1>1, Inductive, PTL

=============================================================================
