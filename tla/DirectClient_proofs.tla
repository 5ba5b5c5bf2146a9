-------------------------- MODULE DirectClient_proofs --------------------------
(***************************************************************************)
(* Proofs about DirectClient, for every set of requests and of builds, and *)
(* every number of releases, enclaves and verifications.                   *)
(***************************************************************************)
EXTENDS DirectClient, SequenceTheorems, TLAPS

\* An enclave runs code that a verification may accept: a published artifact, or
\* the one the caller's measurement names.
Vouched(e) ==
  IF measurement = None THEN image[e] \in Published ELSE image[e] = measurement

\* How far verify() is says what its locals hold.  A caller's measurement takes
\* the place of the release, and then there is neither tag nor digest.
LocalsAgree ==
  /\ measurement # None =>
       /\ verify.stage \in {"idle", "doc", "binding"}
       /\ verify.tag = None /\ verify.digest = None
       /\ verify.stage # "idle" => verify.code = measurement
  /\ measurement = None =>
       /\ verify.stage \in {"digest", "bundle", "doc", "binding"}
            => verify.tag \in 1..latest
       /\ verify.stage \in {"bundle", "doc", "binding"} => verify.digest \in Published
       /\ verify.stage \in {"doc", "binding"}
            => verify.code = verify.digest /\ verify.code.tag = verify.tag
  /\ verify.stage = "binding" =>
       verify.doc \in 1..Len(image) /\ image[verify.doc] = verify.code

\* There is no trust to be used while verify() runs, and none without a pin.
TrustIsWithdrawn ==
  /\ verify.stage # "idle" => pinned = None
  /\ pinned = None => groundTruth = None

\* Every transport there is pins an enclave that runs vouched-for code.
PinsAreVouched ==
  /\ Vouched(openai)
  /\ pinned # None => Vouched(pinned)
  /\ \A r \in Requests : request[r] # None => Vouched(request[r])

IInv ==
  TypeOK /\ LocalsAgree /\ TrustIsWithdrawn /\ PinsAreVouched /\ GroundTruthIsCoherent

-----------------------------------------------------------------------------
(* What releases and enclaves that start do to what is vouched for          *)

\* The artifacts that enclaves run stay as they are when another one starts.
LEMMA ImagesStay ==
  ASSUME TypeOK, StartEnclave
  PROVE  /\ image' \in Seq(Artifacts)
         /\ Len(image') = Len(image) + 1 /\ Len(image') \in 1..MaxEnclaves
         /\ \A e \in 1..Len(image) : image'[e] = image[e]
<1>1. PICK artifact \in Artifacts : image' = Append(image, artifact)
  BY DEF StartEnclave
<1>2. image \in Seq(Artifacts) /\ Len(image) < MaxEnclaves /\ Len(image) \in Nat
  BY DEF TypeOK, StartEnclave
<1>3. MaxEnclaves \in Nat
  BY DirectAssumption
<1> QED
  BY <1>1, <1>2, <1>3, AppendProperties

\* No step takes back that the code of an enclave is vouched for.
LEMMA VouchedStays ==
  ASSUME TypeOK, Next, NEW e \in 1..Len(image), Vouched(e)
  PROVE  Vouched(e)'
<1> USE DEF Vouched
<1>1. measurement' = measurement
  BY DEF Next, Verify, VerifyStart, FetchTag, FetchDigest, FetchBundle, FetchDoc,
         BindAndCommit, VerifyFails, SendTyped, SendPinned, Deliver, Release,
         StartEnclave, StopEnclave, secureVars
<1>2. CASE Release
  <2>1. latest \in Nat /\ latest' = latest + 1 /\ image' = image
    BY <1>2 DEF Release, TypeOK, Tags
  <2>2. Published \subseteq Published'
    BY <2>1 DEF Published, Artifacts, Tags
  <2> QED
    BY <1>1, <2>1, <2>2
<1>3. CASE StartEnclave
  <2>1. image'[e] = image[e]
    BY <1>3, ImagesStay
  <2>2. latest' = latest
    BY <1>3 DEF StartEnclave
  <2> QED
    BY <1>1, <2>1, <2>2 DEF Published
<1>4. CASE StopEnclave
  BY <1>4, <1>1 DEF StopEnclave, Published
<1>5. CASE Verify \/ \E r \in Requests : SendTyped(r) \/ SendPinned(r) \/ Deliver(r)
  <2>1. image' = image /\ latest' = latest
    BY <1>5 DEF Verify, VerifyStart, FetchTag, FetchDigest, FetchBundle, FetchDoc,
         BindAndCommit, VerifyFails, SendTyped, SendPinned, Deliver, worldVars
  <2> QED
    BY <1>1, <2>1 DEF Published
<1> QED
  BY <1>2, <1>3, <1>4, <1>5 DEF Next

-----------------------------------------------------------------------------
(* Type correctness                                                        *)

\* At first everything is of its type.
LEMMA InitTypeOK == Init => TypeOK
<1> SUFFICES ASSUME Init PROVE TypeOK
  OBVIOUS
<1>1. PICK code \in Artifacts :
        /\ image = <<code>>
        /\ \/ /\ measurement = code
              /\ groundTruth = [ releaseTag |-> None, digest |-> None,
                                 codeMeasurement |-> code, tlsPublicKey |-> 1 ]
           \/ /\ measurement = None
              /\ code.tag = latest
              /\ groundTruth = [ releaseTag |-> latest, digest |-> code,
                                 codeMeasurement |-> code, tlsPublicKey |-> 1 ]
  BY DEF Init
<1>2. image \in Seq(Artifacts) /\ Len(image) = 1
  BY <1>1
<1>3. 1 \in 1..MaxEnclaves /\ 1 \in Tags
  BY DirectAssumption DEF Tags
<1>4. groundTruth \in GroundTruths /\ measurement \in Artifacts \cup {None}
  BY <1>1, <1>3 DEF GroundTruths, Init
<1>5. verify \in [ stage : Stages, tag : Tags \cup {None},
                   digest : Artifacts \cup {None}, code : Artifacts \cup {None},
                   doc : 1..Len(image) \cup {None} ]
  BY DEF Init, Idle, Stages
<1> QED
  BY <1>2, <1>3, <1>4, <1>5, DirectAssumption DEF Init, TypeOK

\* So it is after every step of verify().
LEMMA VerifyTypeOK ==
  ASSUME TypeOK, LocalsAgree, Verify
  PROVE  TypeOK'
<1> USE DEF TypeOK
<1>1. CASE VerifyStart
  <2>1. verify' \in {[Idle EXCEPT !.stage = "doc", !.code = measurement],
                     [Idle EXCEPT !.stage = "tag"]}
    BY <1>1 DEF VerifyStart
  <2>2. verify' \in [ stage : Stages, tag : Tags \cup {None},
                      digest : Artifacts \cup {None}, code : Artifacts \cup {None},
                      doc : 1..Len(image) \cup {None} ]
    BY <2>1 DEF Idle, Stages
  <2>3. verifies' \in 0..MaxVerifies
    BY <1>1, DirectAssumption DEF VerifyStart
  <2> QED
    BY <1>1, <2>2, <2>3 DEF VerifyStart, worldVars
<1>2. CASE FetchTag
  <2>1. PICK tag \in 1..latest : verify' = [verify EXCEPT !.stage = "digest", !.tag = tag]
    BY <1>2 DEF FetchTag
  <2>2. tag \in Tags
    BY <2>1, DirectAssumption DEF Tags
  <2> QED
    BY <1>2, <2>1, <2>2 DEF FetchTag, Stages, worldVars, secureVars
<1>3. CASE FetchDigest
  BY <1>3 DEF FetchDigest, Published, Stages, worldVars, secureVars
<1>4. CASE FetchBundle
  BY <1>4 DEF FetchBundle, Published, Stages, worldVars, secureVars
<1>5. CASE FetchDoc
  BY <1>5 DEF FetchDoc, Stages, worldVars, secureVars
<1>6. CASE BindAndCommit
  <2>1. verify.doc \in 1..Len(image)
    BY <1>6 DEF BindAndCommit, BindingHolds
  <2>2. verify.code \in Artifacts
    BY <1>6 DEF BindAndCommit, LocalsAgree, Published
  <2>3. verify' = Idle /\ Idle \in
          [ stage : Stages, tag : Tags \cup {None},
            digest : Artifacts \cup {None}, code : Artifacts \cup {None},
            doc : 1..Len(image) \cup {None} ]
    BY <1>6 DEF BindAndCommit, Idle, Stages
  <2>4. groundTruth' \in GroundTruths
    <3>1. verify.doc \in 1..MaxEnclaves
      BY <2>1, DirectAssumption
    <3>2. verify.tag \in Tags \cup {None} /\ verify.digest \in Artifacts \cup {None}
      OBVIOUS
    <3> QED
      BY <1>6, <2>2, <3>1, <3>2 DEF BindAndCommit, GroundTruths
  <2> QED
    BY <1>6, <2>1, <2>3, <2>4 DEF BindAndCommit, worldVars
<1>7. CASE VerifyFails
  BY <1>7 DEF VerifyFails, Idle, Stages, worldVars, secureVars
<1> QED
  BY <1>1, <1>2, <1>3, <1>4, <1>5, <1>6, <1>7 DEF Verify

\* Every step keeps the types.
LEMMA NextTypeOK == TypeOK /\ LocalsAgree /\ [Next]_vars => TypeOK'
<1> SUFFICES ASSUME TypeOK, LocalsAgree, [Next]_vars PROVE TypeOK'
  OBVIOUS
<1> USE DEF TypeOK
<1>1. CASE Verify
  BY <1>1, VerifyTypeOK
<1>2. ASSUME NEW r \in Requests, SendTyped(r) \/ SendPinned(r) \/ Deliver(r)
      PROVE  TypeOK'
  <2>1. request' \in [Requests -> 1..Len(image) \cup {None}]
    BY <1>2 DEF SendTyped, SendPinned, Deliver
  <2>2. /\ delivered' \in [Requests -> 1..Len(image) \cup {None}]
        /\ \A q \in Requests : delivered'[q] \in {None, request'[q]}
    BY <1>2 DEF SendTyped, SendPinned, Deliver
  <2> QED
    BY <1>2, <2>1, <2>2 DEF SendTyped, SendPinned, Deliver, worldVars, secureVars
<1>3. CASE Release
  BY <1>3, DirectAssumption DEF Release, Tags, secureVars
<1>4. CASE StartEnclave
  <2>1. /\ image' \in Seq(Artifacts) /\ Len(image') \in 1..MaxEnclaves
        /\ Len(image') = Len(image) + 1
    BY <1>4, ImagesStay
  <2>2. 1..Len(image) \subseteq 1..Len(image') /\ live' \subseteq 1..Len(image')
    <3>1. Len(image) \in Nat
      OBVIOUS
    <3>2. 1..Len(image) \subseteq 1..Len(image') /\ Len(image') \in 1..Len(image')
      BY <2>1, <3>1
    <3>3. live \subseteq 1..Len(image) /\ live' = live \cup {Len(image')}
      BY <1>4 DEF StartEnclave
    <3> QED
      BY <3>2, <3>3
  <2> QED
    BY <1>4, <2>1, <2>2 DEF StartEnclave, secureVars
<1>5. CASE StopEnclave
  BY <1>5 DEF StopEnclave, secureVars
<1>6. CASE UNCHANGED vars
  BY <1>6 DEF vars
<1> QED
  BY <1>1, <1>2, <1>3, <1>4, <1>5, <1>6 DEF Next

-----------------------------------------------------------------------------
(* The invariant                                                           *)

\* The invariant holds before anything is verified.
LEMMA InitIInv == Init => IInv
<1> SUFFICES ASSUME Init PROVE IInv
  OBVIOUS
<1>1. TypeOK
  BY InitTypeOK
<1>2. PICK code \in Artifacts :
        /\ image = <<code>>
        /\ \/ /\ measurement = code
              /\ groundTruth = [ releaseTag |-> None, digest |-> None,
                                 codeMeasurement |-> code, tlsPublicKey |-> 1 ]
           \/ /\ measurement = None
              /\ code.tag = latest
              /\ groundTruth = [ releaseTag |-> latest, digest |-> code,
                                 codeMeasurement |-> code, tlsPublicKey |-> 1 ]
  BY DEF Init
<1>3. image[1] = code /\ code # None
  BY <1>2, DirectAssumption DEF Artifacts, Tags
<1>4. latest = 1 /\ verify = Idle /\ pinned = 1 /\ openai = 1 /\ None # 1
  BY DirectAssumption DEF Init
<1>5. LocalsAgree
  BY <1>4 DEF LocalsAgree, Idle
<1>6. Vouched(1)
  BY <1>2, <1>3, <1>4 DEF Vouched, Published, Artifacts, Tags
<1>7. PinsAreVouched /\ TrustIsWithdrawn
  BY <1>4, <1>6 DEF PinsAreVouched, TrustIsWithdrawn, Init, Idle
<1>8. GroundTruthIsCoherent
  BY <1>2, <1>3, <1>4 DEF GroundTruthIsCoherent
<1> QED
  BY <1>1, <1>5, <1>7, <1>8 DEF IInv

\* Enclaves that start and releases keep what verify() has found out so far.
LEMMA LocalsStay ==
  ASSUME TypeOK, LocalsAgree, verify' = verify, measurement' = measurement,
         latest' \in Nat, latest <= latest',
         Len(image') \in Nat, Len(image) <= Len(image'),
         \A e \in 1..Len(image) : image'[e] = image[e]
  PROVE  LocalsAgree'
<1>1. Published \subseteq Published'
  BY DEF Published, Artifacts, Tags, TypeOK
<1>2. latest \in Nat /\ Len(image) \in Nat
  BY DEF TypeOK, Tags
<1>3. verify.tag \in 1..latest => verify.tag \in 1..latest'
  BY <1>2
<1>4. verify.stage = "binding" =>
        verify.doc \in 1..Len(image') /\ image'[verify.doc] = verify.code
  BY <1>2 DEF LocalsAgree
<1> QED
  BY <1>1, <1>3, <1>4 DEF LocalsAgree

\* What verify() has in hand stays of one release and one enclave.
LEMMA VerifyLocalsAgree ==
  ASSUME TypeOK, LocalsAgree, Verify
  PROVE  LocalsAgree'
<1> USE DEF LocalsAgree
<1>0. /\ measurement' = measurement /\ latest' = latest /\ image' = image
      /\ latest \in Nat
  <2>1. measurement' = measurement /\ latest' = latest /\ image' = image
    BY DEF Verify, VerifyStart, FetchTag, FetchDigest, FetchBundle, FetchDoc,
           BindAndCommit, VerifyFails, worldVars, secureVars
  <2> QED
    BY <2>1 DEF TypeOK, Tags
<1>1. CASE VerifyStart
  <2>1. CASE measurement # None
    <3>1. verify' = [Idle EXCEPT !.stage = "doc", !.code = measurement]
      BY <1>1, <2>1 DEF VerifyStart
    <3> QED
      BY <1>0, <2>1, <3>1 DEF Idle
  <2>2. CASE measurement = None
    <3>1. verify' = [Idle EXCEPT !.stage = "tag"]
      BY <1>1, <2>2 DEF VerifyStart
    <3> QED
      BY <1>0, <2>2, <3>1 DEF Idle
  <2> QED
    BY <2>1, <2>2
<1>2. CASE FetchTag
  BY <1>0, <1>2 DEF FetchTag, TypeOK
<1>3. CASE FetchDigest
  BY <1>0, <1>3 DEF FetchDigest, TypeOK, Published
<1>4. CASE FetchBundle
  BY <1>0, <1>4 DEF FetchBundle, IdentityMatches, DigestMatches, TypeOK, Published
<1>5. CASE FetchDoc
  BY <1>0, <1>5 DEF FetchDoc, TypeOK, Published
<1>6. CASE BindAndCommit \/ VerifyFails
  BY <1>0, <1>6 DEF BindAndCommit, VerifyFails, Idle
<1> QED
  BY <1>1, <1>2, <1>3, <1>4, <1>5, <1>6 DEF Verify

\* So it does while the world changes.
LEMMA NextLocalsAgree == TypeOK /\ LocalsAgree /\ [Next]_vars => LocalsAgree'
<1> SUFFICES ASSUME TypeOK, LocalsAgree, [Next]_vars PROVE LocalsAgree'
  OBVIOUS
<1>0. latest \in Nat /\ Len(image) \in Nat
  BY DEF TypeOK, Tags
<1>1. CASE Verify
  BY <1>1, VerifyLocalsAgree
<1>2. ASSUME NEW r \in Requests, SendTyped(r) \/ SendPinned(r) \/ Deliver(r)
      PROVE  LocalsAgree'
  BY <1>0, <1>2, LocalsStay DEF SendTyped, SendPinned, Deliver, worldVars, secureVars
<1>3. CASE Release
  BY <1>0, <1>3, LocalsStay DEF Release, secureVars
<1>4. CASE StartEnclave
  <2>1. verify' = verify /\ measurement' = measurement /\ latest' = latest
    BY <1>4 DEF StartEnclave, secureVars
  <2> QED
    BY <1>0, <1>4, <2>1, ImagesStay, LocalsStay
<1>5. CASE StopEnclave
  BY <1>0, <1>5, LocalsStay DEF StopEnclave, secureVars
<1>6. CASE UNCHANGED vars
  BY <1>0, <1>6, LocalsStay DEF vars
<1> QED
  BY <1>1, <1>2, <1>3, <1>4, <1>5, <1>6 DEF Next

\* What a commit installs is vouched for.
LEMMA CommitIsVouched ==
  ASSUME TypeOK, LocalsAgree, BindAndCommit
  PROVE  /\ pinned' = verify.doc /\ openai' = verify.doc
         /\ verify.doc \in 1..Len(image) /\ Vouched(verify.doc)
BY DEF BindAndCommit, LocalsAgree, Vouched

\* Where a pin comes from: from a commit, or it was there.
LEMMA PinsComeFrom ==
  ASSUME TypeOK, Next
  PROVE  /\ openai' = openai \/ BindAndCommit
         /\ pinned' \in {pinned, None} \/ BindAndCommit
         /\ \A r \in Requests : request'[r] \in {request[r], openai, pinned}
         /\ BindAndCommit => request' = request /\ image' = image /\ latest' = latest
                               /\ measurement' = measurement
<1>1. BindAndCommit => /\ request' = request /\ image' = image /\ latest' = latest
                       /\ measurement' = measurement
  BY DEF BindAndCommit, worldVars
<1> DEFINE From == /\ openai' = openai \/ BindAndCommit
                   /\ pinned' \in {pinned, None} \/ BindAndCommit
                   /\ \A r \in Requests : request'[r] \in {request[r], openai, pinned}
<1>2. CASE Verify
  BY <1>1, <1>2 DEF Verify, VerifyStart, FetchTag, FetchDigest, FetchBundle, FetchDoc,
              BindAndCommit, VerifyFails, worldVars, secureVars
<1>3. ASSUME NEW r \in Requests, SendTyped(r) \/ SendPinned(r) \/ Deliver(r)
      PROVE  From
  BY <1>3 DEF SendTyped, SendPinned, Deliver, worldVars, secureVars, TypeOK
<1>4. CASE Release
  BY <1>1, <1>4 DEF Release, secureVars
<1>5. CASE StartEnclave
  BY <1>1, <1>5 DEF StartEnclave, secureVars
<1>6. CASE StopEnclave
  BY <1>1, <1>6 DEF StopEnclave, secureVars
<1> QED
  BY <1>1, <1>2, <1>3, <1>4, <1>5, <1>6 DEF Next

\* A pin is only replaced by one that is vouched for.
LEMMA NextPinsAreVouched ==
  TypeOK /\ LocalsAgree /\ PinsAreVouched /\ [Next]_vars => PinsAreVouched'
<1> SUFFICES ASSUME TypeOK, LocalsAgree, PinsAreVouched, [Next]_vars
             PROVE  PinsAreVouched'
  OBVIOUS
<1>0. /\ openai \in 1..Len(image)
      /\ pinned # None => pinned \in 1..Len(image)
      /\ \A r \in Requests : request[r] # None => request[r] \in 1..Len(image)
  BY DEF TypeOK
<1>1. CASE UNCHANGED vars
  BY <1>1 DEF vars, PinsAreVouched, Vouched, Published
<1>2. CASE Next
  <2>1. \A e \in 1..Len(image) : Vouched(e) => Vouched(e)'
    BY <1>2, VouchedStays
  <2>2. CASE BindAndCommit
    BY <1>0, <1>2, <2>1, <2>2, CommitIsVouched, PinsComeFrom DEF PinsAreVouched, Vouched
  <2>3. CASE ~BindAndCommit
    BY <1>0, <1>2, <2>1, <2>3, PinsComeFrom DEF PinsAreVouched, Vouched
  <2> QED
    BY <2>2, <2>3
<1> QED
  BY <1>1, <1>2

\* A verification under way has no trust in place.
LEMMA NextTrustIsWithdrawn ==
  TypeOK /\ TrustIsWithdrawn /\ [Next]_vars => TrustIsWithdrawn'
<1> SUFFICES ASSUME TypeOK, TrustIsWithdrawn, [Next]_vars PROVE TrustIsWithdrawn'
  OBVIOUS
<1> USE DEF TrustIsWithdrawn
<1>1. CASE VerifyStart
  BY <1>1 DEF VerifyStart
<1>2. CASE FetchTag \/ FetchDigest \/ FetchBundle \/ FetchDoc
  BY <1>2 DEF FetchTag, FetchDigest, FetchBundle, FetchDoc, secureVars
<1>3. CASE BindAndCommit
  <2>1. pinned' # None
    BY <1>3, DirectAssumption DEF BindAndCommit, BindingHolds, TypeOK
  <2> QED
    BY <1>3, <2>1 DEF BindAndCommit, Idle
<1>4. CASE VerifyFails
  BY <1>4 DEF VerifyFails, Idle, secureVars
<1>5. ASSUME NEW r \in Requests, SendTyped(r) \/ SendPinned(r) \/ Deliver(r)
      PROVE  TrustIsWithdrawn'
  BY <1>5 DEF SendTyped, SendPinned, Deliver, secureVars
<1>6. CASE Release \/ StartEnclave \/ StopEnclave
  BY <1>6 DEF Release, StartEnclave, StopEnclave, secureVars
<1>7. CASE UNCHANGED vars
  BY <1>7 DEF vars
<1> QED
  BY <1>1, <1>2, <1>3, <1>4, <1>5, <1>6, <1>7 DEF Next, Verify

\* A ground truth is replaced as a whole, with the pins that go with it.
LEMMA NextGroundTruthIsCoherent == IInv /\ [Next]_vars => GroundTruthIsCoherent'
<1> SUFFICES ASSUME IInv, [Next]_vars PROVE GroundTruthIsCoherent'
  OBVIOUS
<1> USE DEF IInv, GroundTruthIsCoherent
<1>1. CASE VerifyStart
  BY <1>1 DEF VerifyStart
<1>2. CASE FetchTag \/ FetchDigest \/ FetchBundle \/ FetchDoc \/ VerifyFails
  BY <1>2 DEF FetchTag, FetchDigest, FetchBundle, FetchDoc, VerifyFails, TrustIsWithdrawn, secureVars
<1>3. CASE BindAndCommit
  BY <1>3 DEF BindAndCommit, BindingHolds, LocalsAgree, worldVars
<1>4. ASSUME NEW r \in Requests, SendTyped(r) \/ SendPinned(r) \/ Deliver(r)
      PROVE  GroundTruthIsCoherent'
  BY <1>4 DEF SendTyped, SendPinned, Deliver, worldVars, secureVars
<1>5. CASE Release \/ StopEnclave
  BY <1>5 DEF Release, StopEnclave, secureVars
<1>6. CASE StartEnclave
  <2>1. groundTruth # None => pinned \in 1..Len(image)
    BY DEF TypeOK, TrustIsWithdrawn
  <2>2. groundTruth # None => image'[pinned] = image[pinned]
    BY <1>6, <2>1, ImagesStay
  <2> QED
    BY <1>6, <2>2 DEF StartEnclave, secureVars
<1>7. CASE UNCHANGED vars
  BY <1>7 DEF vars
<1> QED
  BY <1>1, <1>2, <1>3, <1>4, <1>5, <1>6, <1>7 DEF Next, Verify

\* The strengthening holds at first and every step keeps it.
THEOREM Inductive == Spec => []IInv
<1>1. IInv /\ [Next]_vars => IInv'
  BY NextTypeOK, NextLocalsAgree, NextPinsAreVouched, NextTrustIsWithdrawn,
     NextGroundTruthIsCoherent DEF IInv
<1> QED
  BY <1>1, InitIInv, PTL DEF Spec

-----------------------------------------------------------------------------
(* The properties                                                          *)

\* What a client holds is of its types in every reachable state.
THEOREM TypeCorrect == Spec => []TypeOK
<1>1. IInv => TypeOK
  BY DEF IInv
<1> QED
  BY <1>1, Inductive, PTL

\* Bodies reach released code, or the code of the caller's measurement, and no
\* other: whatever is released, started, stopped or verified in between.
THEOREM BodiesReachVerifiedCode == Spec => []DeliveredToVerifiedCode
<1>1. IInv => DeliveredToVerifiedCode
  BY DEF IInv, TypeOK, PinsAreVouched, Vouched, DeliveredToVerifiedCode
<1> QED
  BY <1>1, Inductive, PTL

\* The four answers a ground truth is made of are about one enclave, and both
\* paths of the client pin that one.
THEOREM GroundTruthsAreCoherent == Spec => []GroundTruthIsCoherent
<1>1. IInv => GroundTruthIsCoherent
  BY DEF IInv
<1> QED
  BY <1>1, Inductive, PTL

=============================================================================
