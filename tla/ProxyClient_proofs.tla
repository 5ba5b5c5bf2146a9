-------------------------- MODULE ProxyClient_proofs --------------------------
(***************************************************************************)
(* Proofs about ProxyClient: what holds when verify() is the only caller   *)
(* of the channel's administration, and that the client implements         *)
(* TrustCell.                                                              *)
(***************************************************************************)
EXTENDS ProxyClient, EhbpProxy_proofs

Refreshing == {"rejected", "refreshing", "attested"}

\* verify() and the guard of refresh_lock.
VerifyHoldsLock ==
  refreshLock = Holder <=> verify \in {"locked", "attesting", "attested", "installed"}

\* From the revocation to the installation.
VerifyWindow ==
  verify \in {"attesting", "attested"} => ~pinned /\ channel.client = None

\* What verify() has just installed.
VerifyInstalled ==
  verify = "installed"
    => /\ verified \in Keys
       /\ channel.client = verified
       /\ channel.groundTruth = verified

\* A client left unverified is closed, and nobody is about to open it.
UnverifiedIsClosed ==
  (~pinned /\ verify # "installed")
    => /\ channel.client = None
       /\ \A r \in Requests : call[r].stage \notin Refreshing

\* Nothing overtakes a refresh: the lock keeps verify() away.
NeverOvertaken ==
  \A r \in Requests :
    call[r].stage \in Refreshing
      => call[r].refreshGeneration = channel.generation

ClientIInv ==
  /\ IInv /\ ClientTypeOK
  /\ VerifyHoldsLock /\ VerifyWindow /\ VerifyInstalled /\ UnverifiedIsClosed
  /\ NeverOvertaken

-----------------------------------------------------------------------------
(* verify() and the invariant of the transport                             *)

\* A step of verify() leaves the requests alone; it keeps the channel's type.
LEMMA VerifyFrame ==
  ASSUME ClientIInv, Verify
  PROVE  /\ TypeOK'
         /\ call' = call
         /\ \A q \in Requests : refreshLock' = q <=> refreshLock = q
         /\ ChannelKeptOrMoved
         /\ ChannelAgrees'
<1> USE ProxyAssumption DEF ClientIInv, IInv, ClientTypeOK
<1>1. CASE VerifyClear
  <2>1. Clear(channel) \in EhbpChannel
    BY DEF Clear, EhbpChannel, TypeOK
  <2>2. channel' = Clear(channel) /\ call' = call
    BY <1>1 DEF VerifyClear
  <2>3. TypeOK'
    BY <1>1, <2>1, <2>2 DEF VerifyClear, TypeOK
  <2>4. ChannelKeptOrMoved /\ ChannelAgrees'
    BY <2>2 DEF Clear, ChannelKeptOrMoved, ChannelAgrees
  <2> QED
    BY <1>1, <2>2, <2>3, <2>4 DEF VerifyClear
<1>2. CASE VerifyInstall
  <2>1. SetActive(channel, verified, verified) \in EhbpChannel
    BY <1>2, ChannelOperations DEF VerifyInstall, TypeOK
  <2> QED
    BY <1>2, <2>1
       DEF VerifyInstall, TypeOK, SetActive, ChannelKeptOrMoved, ChannelAgrees
<1>3. CASE \/ VerifyStart \/ VerifyLock \/ VerifyFetch \/ VerifyGivesUp
           \/ VerifyDropped \/ VerifyReturn
  <2>1. channel' = channel /\ call' = call
    BY <1>3 DEF VerifyStart, VerifyLock, VerifyFetch, VerifyGivesUp, VerifyDropped,
                VerifyReturn, LockRefresh, DropGuard
  <2>2. \A q \in Requests : refreshLock' = q <=> refreshLock = q
    BY <1>3 DEF VerifyStart, VerifyLock, VerifyFetch, VerifyGivesUp, VerifyDropped,
                VerifyReturn, LockRefresh, DropGuard, VerifyHoldsLock
  <2>3. adminCalls' \in 0..MaxAdminCalls
    BY <1>3 DEF VerifyStart, VerifyLock, VerifyFetch, VerifyGivesUp, VerifyDropped,
                VerifyReturn, LockRefresh, DropGuard, AdminCall, TypeOK
  <2>4. TypeOK'
    BY <1>3, <2>1, <2>3
       DEF VerifyStart, VerifyLock, VerifyFetch, VerifyGivesUp, VerifyDropped,
           VerifyReturn, LockRefresh, DropGuard, TypeOK
  <2> QED
    BY <2>1, <2>2, <2>4 DEF ChannelKeptOrMoved, ChannelAgrees
<1> QED
  BY <1>1, <1>2, <1>3 DEF Verify

\* The composition keeps the proxy's invariant.
LEMMA ClientKeepsIInv == ClientIInv /\ [ClientNext]_allVars => IInv'
<1> SUFFICES ASSUME ClientIInv, [ClientNext]_allVars PROVE IInv'
  OBVIOUS
<1>1. CASE (\E r \in Requests : Request(r)) \/ RotateKey \/ UNCHANGED allVars
  BY <1>1, NextIInv DEF ClientIInv, Next, vars, allVars
<1>2. CASE Verify
  <2>1. ASSUME NEW r \in Requests PROVE RequestIInv(r)'
    BY <1>2, VerifyFrame, IInvByRequest, BystanderKeepsIInv DEF ClientIInv, IInv
  <2> QED
    BY <1>2, <2>1, VerifyFrame
       DEF IInv, RequestIInv, OneRefreshAtATime, SeenIsPast, RejectionIsPast
<1> QED
  BY <1>1, <1>2 DEF ClientNext

-----------------------------------------------------------------------------
(* The invariant of the client                                             *)

\* The invariant holds before anything is verified.
LEMMA InitClientIInv == ClientInit => ClientIInv
<1> SUFFICES ASSUME ClientInit PROVE ClientIInv
  OBVIOUS
<1>1. \A r \in Requests : call[r].stage = "start"
  BY DEF ClientInit, Init, Blank
<1>2. IInv
  BY InitIInv DEF ClientInit
<1> QED
  BY <1>1, <1>2, ProxyAssumption
     DEF ClientIInv, ClientInit, ClientTypeOK, VerifyStages, VerifyHoldsLock,
         VerifyWindow, VerifyInstalled, UnverifiedIsClosed, NeverOvertaken,
         Refreshing, Init, IInv

\* How a request may change the channel: from its lock, and only so.
LEMMA RequestChangesChannel ==
  ASSUME IInv, NEW r \in Requests, Request(r)
  PROVE  /\ channel' # channel
              => /\ refreshLock = r
                 /\ \/ /\ RejectSeen(r)
                       /\ channel.client # None
                    \/ InstallRefreshed(r)
         /\ (call'[r].stage \in Refreshing /\ call[r].stage \notin Refreshing)
              => RejectSeen(r) /\ channel.client # None
<1> USE DEF IInv
<1>1. channel' # channel => RejectSeen(r) \/ InstallRefreshed(r)
  BY DEF Request, Local, Reply, ReadGeneration, SendRefused, Send, Resend,
         AlreadyReplaced, StartRefresh, Answered, AttemptFails, Mismatch,
         FetchAttestation, RefreshFails, Lock, BuildFails, Drop
<1>2. RejectSeen(r) \/ InstallRefreshed(r) => refreshLock = r
  BY DEF RejectSeen, InstallRefreshed, OneRefreshAtATime, Critical
<1>3. RejectSeen(r) => channel.client # None
  BY DEF RejectSeen, SeenIsPast
<1>4. ASSUME call'[r].stage \in Refreshing, call[r].stage \notin Refreshing
      PROVE  RejectSeen(r)
  BY <1>4, FinishType
     DEF Refreshing, TypeOK, Locals, Settled, Blank, Request, Local, Reply,
         ReadGeneration, SendRefused, Send, Resend, AlreadyReplaced,
         StartRefresh, InstallRefreshed, Answered, AttemptFails, Mismatch,
         FetchAttestation, RefreshFails, Lock, BuildFails, Drop
<1> QED
  BY <1>1, <1>2, <1>3, <1>4

\* Requests keep the client's invariant.
LEMMA RequestKeepsClientIInv ==
  ASSUME ClientIInv, IInv', NEW r \in Requests, Request(r), UNCHANGED clientVars
  PROVE  ClientIInv'
<1> USE DEF ClientIInv, clientVars
<1>1. ClientTypeOK'
  BY DEF ClientTypeOK, IInv
<1>2. VerifyHoldsLock'
  <2>1. refreshLock' = refreshLock \/ {refreshLock, refreshLock'} \subseteq {r, Nobody}
    BY DEF Request, Local, Reply, ReadGeneration, SendRefused, Send, Resend,
           RejectSeen, AlreadyReplaced, StartRefresh, InstallRefreshed,
           Answered, AttemptFails, Mismatch, FetchAttestation, RefreshFails,
           Lock, BuildFails, Drop, ReleaseGuard
  <2> QED
    BY <2>1, ProxyAssumption DEF VerifyHoldsLock
<1>3. refreshLock = Holder => channel' = channel
  BY RequestChangesChannel, ProxyAssumption DEF IInv
<1>4. VerifyWindow' /\ VerifyInstalled'
  BY <1>3 DEF VerifyHoldsLock, VerifyWindow, VerifyInstalled
<1>5. UnverifiedIsClosed'
  <2> SUFFICES ASSUME ~pinned, verify # "installed"
               PROVE  /\ channel'.client = None
                      /\ \A q \in Requests : call'[q].stage \notin Refreshing
    BY DEF UnverifiedIsClosed
  <2>1. channel.client = None /\ \A q \in Requests : call[q].stage \notin Refreshing
    BY DEF UnverifiedIsClosed
  <2>2. call'[r].stage \notin Refreshing
    BY <2>1, RequestChangesChannel
  <2>3. channel' = channel
    BY <2>1, RequestChangesChannel DEF InstallRefreshed, Refreshing
  <2> QED
    BY <2>1, <2>2, <2>3, RequestFrame DEF IInv
<1>6. NeverOvertaken'
  <2> SUFFICES ASSUME NEW q \in Requests, call'[q].stage \in Refreshing
               PROVE  call'[q].refreshGeneration = channel'.generation
    BY DEF NeverOvertaken
  <2>1. CASE q # r
    <3>1. refreshLock = q
      BY <2>1, RequestFrame DEF IInv, OneRefreshAtATime, Refreshing, Critical
    <3>2. channel' = channel
      BY <2>1, <3>1, RequestChangesChannel DEF IInv
    <3> QED
      BY <2>1, <3>2, RequestFrame DEF IInv, NeverOvertaken
  <2>2. CASE q = r /\ RejectSeen(r)
    BY <2>2 DEF RejectSeen, IInv, TypeOK, Locals
  <2>3. CASE q = r /\ ~RejectSeen(r)
    <3>1. call[r].stage \in Refreshing
      BY <2>3, RequestChangesChannel DEF IInv
    <3>2. ~InstallRefreshed(r)
      BY <2>3, FinishType DEF InstallRefreshed, Refreshing, IInv, TypeOK, Locals, Blank, Settled
    <3>3. channel' = channel
      BY <2>3, <3>2, RequestChangesChannel DEF IInv
    <3>4. call'[r].refreshGeneration = call[r].refreshGeneration
      BY <2>3, <3>1, <3>2, FinishType
         DEF Request, Local, Reply, ReadGeneration, SendRefused, Send, Resend,
             AlreadyReplaced, StartRefresh, Answered, AttemptFails, Mismatch,
             FetchAttestation, RefreshFails, Lock, BuildFails, Drop, Refreshing,
             IInv, TypeOK, Locals, Blank, Settled
    <3> QED
      BY <2>3, <3>1, <3>3, <3>4 DEF NeverOvertaken
  <2> QED
    BY <2>1, <2>2, <2>3
<1> QED
  BY <1>1, <1>2, <1>4, <1>5, <1>6

\* So does verify().
LEMMA VerifyKeepsClientIInv ==
  ASSUME ClientIInv, IInv', Verify
  PROVE  ClientIInv'
<1> USE ProxyAssumption DEF ClientIInv
<1>1. ClientTypeOK'
  BY DEF ClientTypeOK, IInv, TypeOK, Verify, VerifyStart, VerifyLock, VerifyClear,
         VerifyFetch, VerifyGivesUp, VerifyDropped, VerifyInstall, VerifyReturn,
         VerifyStages
<1>2. VerifyHoldsLock'
  BY DEF VerifyHoldsLock, Verify, VerifyStart, VerifyLock, VerifyClear,
         VerifyFetch, VerifyGivesUp, VerifyDropped, VerifyInstall, VerifyReturn,
         LockRefresh, DropGuard
<1>3. refreshLock = Holder => \A r \in Requests : call[r].stage \notin Refreshing
  BY DEF IInv, OneRefreshAtATime, Critical, Refreshing
<1>4. call' = call
  BY VerifyFrame
<1>5. VerifyWindow' /\ VerifyInstalled' /\ UnverifiedIsClosed'
  <2>1. CASE VerifyClear
    BY <1>3, <1>4, <2>1
       DEF VerifyClear, Clear, VerifyWindow, VerifyInstalled, UnverifiedIsClosed,
           VerifyHoldsLock
  <2>2. CASE VerifyInstall
    BY <1>4, <2>2
       DEF VerifyInstall, SetActive, VerifyWindow, VerifyInstalled,
           UnverifiedIsClosed
  <2>3. CASE VerifyStart \/ VerifyLock \/ VerifyDropped
    BY <1>4, <2>3
       DEF VerifyStart, VerifyLock, VerifyDropped, LockRefresh, VerifyWindow,
           VerifyInstalled, UnverifiedIsClosed
  <2>4. CASE VerifyFetch \/ VerifyGivesUp \/ VerifyReturn
    BY <1>4, <2>4
       DEF VerifyFetch, VerifyGivesUp, VerifyReturn, DropGuard, VerifyWindow,
           VerifyInstalled, UnverifiedIsClosed
  <2> QED
    BY <2>1, <2>2, <2>3, <2>4 DEF Verify
<1>6. NeverOvertaken'
  <2>1. CASE VerifyClear \/ VerifyInstall
    BY <1>3, <1>4, <2>1
       DEF VerifyClear, VerifyInstall, VerifyHoldsLock, NeverOvertaken
  <2>2. CASE \/ VerifyStart \/ VerifyLock \/ VerifyFetch \/ VerifyGivesUp
             \/ VerifyDropped \/ VerifyReturn
    BY <1>4, <2>2
       DEF VerifyStart, VerifyLock, VerifyFetch, VerifyGivesUp, VerifyDropped,
           VerifyReturn, LockRefresh, DropGuard, NeverOvertaken
  <2> QED
    BY <2>1, <2>2 DEF Verify
<1> QED
  BY <1>1, <1>2, <1>5, <1>6

\* So does every step.
LEMMA NextClientIInv == ClientIInv /\ [ClientNext]_allVars => ClientIInv'
<1> SUFFICES ASSUME ClientIInv, [ClientNext]_allVars PROVE ClientIInv'
  OBVIOUS
<1>1. IInv'
  BY ClientKeepsIInv
<1>2. CASE (RotateKey /\ UNCHANGED clientVars) \/ UNCHANGED allVars
  <2>1. UNCHANGED <<channel, refresher, refreshLock, call, adminCalls, clientVars>>
    BY <1>2 DEF RotateKey, allVars, clientVars
  <2> QED
    BY <1>1, <2>1
       DEF ClientIInv, ClientTypeOK, IInv, clientVars, VerifyHoldsLock,
           VerifyWindow, VerifyInstalled, UnverifiedIsClosed, NeverOvertaken
<1> QED
  BY <1>1, <1>2, RequestKeepsClientIInv, VerifyKeepsClientIInv
     DEF ClientNext

\* The strengthening holds in every reachable state.
LEMMA ClientInductive == ClientSpec => []ClientIInv
BY InitClientIInv, NextClientIInv, PTL DEF ClientSpec

\* Every field and every local of the client keeps its type.
THEOREM ClientTypeCorrect == ClientSpec => []ClientTypeOK
<1>1. ClientIInv => ClientTypeOK
  BY DEF ClientIInv
<1> QED
  BY <1>1, ClientInductive, PTL

-----------------------------------------------------------------------------
(* Safety                                                                  *)

\* A verify() in progress, one that failed and one that was dropped leave every
\* clone of the transport closed, whatever refresh was under way or queued.
THEOREM ClosedUntilVerification == ClientSpec => []ClosedUntilVerified
<1>1. ClientIInv => ClosedUntilVerified
  BY DEF ClientIInv, UnverifiedIsClosed, VerifyWindow, VerifyHoldsLock, ClosedUntilVerified,
         VerifiedGroundTruth
<1> QED
  BY <1>1, ClientInductive, PTL

\* What verify() returns is what its client shows on return.
THEOREM VerifyIsCurrent == ClientSpec => VerifyReturnsTheCurrentState
<1>1. ClientIInv /\ [ClientNext]_allVars
        => [ (verify = "installed" /\ verify' = "idle")
               => IsVerified' /\ VerifiedGroundTruth' = verified ]_allVars
  <2> SUFFICES ASSUME ClientIInv, [ClientNext]_allVars,
                      verify = "installed", verify' = "idle"
               PROVE  IsVerified' /\ VerifiedGroundTruth' = verified
    OBVIOUS
  <2>1. VerifyReturn
    BY DEF ClientNext, allVars, clientVars, Verify, VerifyStart, VerifyLock,
           VerifyClear, VerifyFetch, VerifyGivesUp, VerifyDropped, VerifyInstall
  <2>2. /\ verified \in Keys
        /\ channel'.client = verified
        /\ channel'.groundTruth = verified
    BY <2>1 DEF VerifyReturn, ClientIInv, VerifyInstalled
  <2> QED
    BY <2>1, <2>2, ProxyAssumption DEF VerifyReturn, IsVerified, VerifiedGroundTruth
<1> QED
  BY <1>1, ClientInductive, PTL DEF ClientSpec, VerifyReturnsTheCurrentState

-----------------------------------------------------------------------------
(* Refinement                                                              *)

Sealed == [r \in Requests |-> InFlight(r)]

\* A step that moves at most r, and r from no body in flight to none, or to
\* nothing, or to the trusted key.
LEMMA SealedByOne ==
  ASSUME NEW r \in Requests, \A q \in Requests \ {r} : call'[q] = call[q]
  PROVE  Sealed' = [Sealed EXCEPT ![r] = InFlight(r)']
BY DEF Sealed, InFlight

\* Evidence is what the one holder of the lock has attested, while closed.
EvidenceOfTheHolder ==
  /\ Evidence # {} => channel.client = None
  /\ verify = "attested" => Evidence = {verified}
  /\ \A r \in Requests :
       refreshLock = r
         => Evidence = IF call[r].stage = "attested" THEN {call[r].fresh} ELSE {}
  /\ (refreshLock \notin Requests /\ verify # "attested") => Evidence = {}

\* Only who holds the refresh lock has an attestation in hand.
LEMMA EvidenceIsTheHolders == ClientIInv => EvidenceOfTheHolder
<1> SUFFICES ASSUME ClientIInv PROVE EvidenceOfTheHolder
  OBVIOUS
<1>1. \A r \in Requests : call[r].stage = "attested" => refreshLock = r
  BY DEF ClientIInv, IInv, OneRefreshAtATime, Critical
<1>2. verify = "attested" => refreshLock = Holder
  BY DEF ClientIInv, VerifyHoldsLock
<1>3. verify = "attested" => channel.client = None
  BY DEF ClientIInv, VerifyWindow
<1>4. \A r \in Requests : call[r].stage = "attested" => channel.client = None
  BY DEF ClientIInv, IInv, RejectionIsPast, NeverOvertaken, Refreshing
<1> QED
  BY <1>1, <1>2, <1>3, <1>4, ProxyAssumption DEF Evidence, EvidenceOfTheHolder

TrustStep == Trust!Next \/ UNCHANGED Trust!vars

\* A future that keeps the channel, has nothing in flight and no attestation.
LEMMA QuietStep ==
  ASSUME channel' = channel, Evidence' = Evidence, Sealed' = Sealed
  PROVE  TrustStep
BY DEF TrustStep, Trust!vars, Sealed

\* Every step of a request is one of TrustCell.
LEMMA RequestImplements ==
  ASSUME ClientIInv, EvidenceOfTheHolder, EvidenceOfTheHolder',
         NEW r \in Requests, Request(r), UNCHANGED clientVars
  PROVE  TrustStep
<1> USE DEF ClientIInv, IInv, clientVars
<1>0. /\ call[r].stage \in Critical <=> refreshLock = r
      /\ verify = "attested" => refreshLock = Holder
      /\ Sealed' = [Sealed EXCEPT ![r] = InFlight(r)']
  BY RequestFrame, SealedByOne DEF OneRefreshAtATime, VerifyHoldsLock
<1>1. InFlight(r)' = InFlight(r) => Sealed' = Sealed
  BY <1>0 DEF Sealed
<1>2. ASSUME channel' = channel, Evidence' = Evidence,
             InFlight(r)' = None \/ InFlight(r)' = InFlight(r)
      PROVE  TrustStep
  <2>1. CASE InFlight(r)' = InFlight(r)
    BY <1>1, <1>2, <2>1, QuietStep
  <2>2. CASE InFlight(r)' = None
    <3>1. Trust!Abandon(r)
      BY <1>0, <1>2, <2>2 DEF Trust!Abandon, Sealed
    <3> QED
      BY <3>1 DEF TrustStep, Trust!Next
  <2> QED
    BY <1>2, <2>1, <2>2
<1>3. ASSUME channel'.client = None, Evidence' = {}, InFlight(r)' = InFlight(r)
      PROVE  TrustStep
  <2>1. Trust!Withdraw
    BY <1>1, <1>3 DEF Trust!Withdraw, Sealed
  <2> QED
    BY <2>1 DEF TrustStep, Trust!Next
<1>4. ASSUME call[r].stage \notin Critical, call'[r].stage # "attested",
             refreshLock' \in {refreshLock, r}
      PROVE  Evidence' = Evidence
  <2>1. CASE verify = "attested"
    BY <2>1 DEF EvidenceOfTheHolder
  <2>2. CASE verify # "attested" /\ refreshLock \in Requests
    <3>1. refreshLock # r /\ call'[refreshLock] = call[refreshLock]
      BY <1>0, <1>4, <2>2, RequestFrame
    <3>2. refreshLock' = refreshLock
      BY <3>1, <2>2, RequestFrame
    <3> QED
      BY <2>2, <3>1, <3>2 DEF EvidenceOfTheHolder
  <2>3. CASE verify # "attested" /\ refreshLock \notin Requests
    <3>1. Evidence = {}
      BY <2>3 DEF EvidenceOfTheHolder
    <3>2. Evidence' = {}
      BY <1>4, <2>3 DEF EvidenceOfTheHolder
    <3> QED
      BY <3>1, <3>2
  <2> QED
    BY <2>1, <2>2, <2>3
<1>5. ASSUME refreshLock = r, refreshLock' \in {r, Nobody},
             call'[r].stage # "attested"
      PROVE  Evidence' = {}
  BY <1>0, <1>5, ProxyAssumption DEF EvidenceOfTheHolder
<1>6. CASE \/ ReadGeneration(r) \/ BuildFails(r) \/ SendRefused(r) \/ Lock(r)
           \/ Answered(r) \/ AttemptFails(r) \/ Mismatch(r)
  <2>1. /\ call[r].stage \notin Critical /\ call'[r].stage # "attested"
        /\ channel' = channel /\ refreshLock' \in {refreshLock, r}
        /\ InFlight(r)' = None
    BY <1>6, FinishType
       DEF ReadGeneration, BuildFails, SendRefused, Lock, Answered, AttemptFails,
           Mismatch, Critical, Settled, Blank, InFlight, TypeOK, Locals
  <2> QED
    BY <1>2, <1>4, <2>1
<1>7. CASE Send(r) \/ Resend(r)
  <2>1. /\ call[r].stage \notin Critical /\ call'[r].stage # "attested"
        /\ channel' = channel /\ refreshLock' = refreshLock
        /\ channel.client # None
        /\ InFlight(r) = None /\ InFlight(r)' = channel.client
    BY <1>7 DEF Send, Resend, Critical, InFlight, TypeOK, Locals
  <2>2. Trust!Seal(r)
    BY <1>0, <1>4, <2>1 DEF Trust!Seal, Sealed
  <2> QED
    BY <2>2 DEF TrustStep, Trust!Next
<1>8. CASE RejectSeen(r)
  <2>1. /\ refreshLock = r /\ refreshLock' = r /\ call'[r].stage = "rejected"
        /\ InFlight(r)' = InFlight(r) /\ channel'.client = None
    BY <1>0, <1>8 DEF RejectSeen, Critical, InFlight, TypeOK, Locals, Reject, Clear
  <2> QED
    BY <1>3, <1>5, <2>1
<1>9. CASE AlreadyReplaced(r) \/ StartRefresh(r)
  <2>1. /\ refreshLock = r /\ refreshLock' \in {r, Nobody}
        /\ call[r].stage # "attested" /\ call'[r].stage # "attested"
        /\ InFlight(r)' = None /\ channel' = channel
    BY <1>0, <1>9, FinishType
       DEF AlreadyReplaced, StartRefresh, ReleaseGuard, Critical, InFlight,
           TypeOK, Locals, Blank, Settled
  <2>2. Evidence = {}
    BY <2>1 DEF EvidenceOfTheHolder
  <2> QED
    BY <1>2, <1>5, <2>1, <2>2
<1>10. CASE FetchAttestation(r)
  <2>1. /\ refreshLock = r /\ refreshLock' = r /\ channel' = channel
        /\ call'[r].stage = "attested" /\ call'[r].fresh = enclaveKey
        /\ InFlight(r)' = InFlight(r)
    BY <1>0, <1>10 DEF FetchAttestation, Critical, InFlight, TypeOK, Locals
  <2>2. channel.client = None
    BY <1>10 DEF FetchAttestation, RejectionIsPast, NeverOvertaken, Refreshing
  <2>3. Evidence' = {enclaveKey}
    BY <2>1 DEF EvidenceOfTheHolder
  <2>4. Trust!Attest(enclaveKey)
    BY <1>1, <2>1, <2>2, <2>3 DEF Trust!Attest, Sealed
  <2> QED
    BY <2>4 DEF TrustStep, Trust!Next, TypeOK
<1>11. CASE RefreshFails(r)
  <2>1. /\ refreshLock = r /\ refreshLock' = Nobody /\ channel' = channel
        /\ call'[r].stage # "attested" /\ InFlight(r)' = InFlight(r)
    BY <1>0, <1>11, FinishType
       DEF RefreshFails, ReleaseGuard, Critical, InFlight, TypeOK, Blank, Settled
  <2>2. channel.client = None
    BY <1>11 DEF RefreshFails, RejectionIsPast, NeverOvertaken, Refreshing
  <2> QED
    BY <1>3, <1>5, <2>1, <2>2
<1>12. CASE InstallRefreshed(r)
  <2>1. /\ refreshLock = r /\ refreshLock' = Nobody
        /\ channel.client = None
        /\ call[r].refreshGeneration = channel.generation
        /\ call[r].stage = "attested"
    BY <1>0, <1>12
       DEF InstallRefreshed, ReleaseGuard, Critical, RejectionIsPast,
           NeverOvertaken, Refreshing
  <2>2. call'[r].stage # "attested" /\ InFlight(r)' = InFlight(r)
    BY <1>12, FinishType
       DEF InstallRefreshed, InFlight, TypeOK, Locals, Blank, Settled
  <2>3. Evidence' = {} /\ Evidence = {call[r].fresh}
    BY <1>5, <2>1, <2>2 DEF EvidenceOfTheHolder
  <2>4. CASE channel'.client = None
    BY <1>3, <2>2, <2>3, <2>4
  <2>5. CASE channel'.client # None
    <3>1. channel'.client = call[r].fresh
      BY <1>12, <2>1, <2>5 DEF InstallRefreshed, Clear, SetActive
    <3>2. Trust!Grant
      BY <1>1, <2>1, <2>2, <2>3, <3>1 DEF Trust!Grant, Sealed
    <3> QED
      BY <3>2 DEF TrustStep, Trust!Next
  <2> QED
    BY <2>4, <2>5
<1>13. CASE Drop(r)
  <2>1. /\ channel' = channel /\ call'[r].stage # "attested"
        /\ InFlight(r)' = None
    BY <1>13, FinishType DEF Drop, InFlight, TypeOK, Blank, Settled
  <2>2. CASE call[r].stage \in Critical
    <3>1. refreshLock = r /\ refreshLock' = Nobody
      BY <1>0, <1>13, <2>2 DEF Drop, ReleaseGuard
    <3>2. channel.client = None /\ InFlight(r) = None
      BY <1>13, <2>2
         DEF Drop, Critical, InFlight, RejectionIsPast, NeverOvertaken, Refreshing
    <3> QED
      BY <1>3, <1>5, <2>1, <3>1, <3>2
  <2>3. CASE call[r].stage \notin Critical
    <3>1. refreshLock' = refreshLock
      BY <1>0, <1>13, <2>3 DEF Drop, ReleaseGuard
    <3> QED
      BY <1>2, <1>4, <2>1, <2>3, <3>1
  <2> QED
    BY <2>2, <2>3
<1> QED
  BY <1>6, <1>7, <1>8, <1>9, <1>10, <1>11, <1>12, <1>13
     DEF Request, Local, Reply

\* Every step of verify() is one of TrustCell.
LEMMA VerifyImplements ==
  ASSUME ClientIInv, EvidenceOfTheHolder, EvidenceOfTheHolder', Verify
  PROVE  TrustStep
<1> USE DEF ClientIInv, IInv
<1>1. call' = call /\ Sealed' = Sealed
  BY VerifyFrame DEF Sealed, InFlight
<1>2. verify = "attested" => refreshLock = Holder
  BY DEF VerifyHoldsLock
<1>3. CASE VerifyStart \/ VerifyDropped
  <2>1. Evidence' = Evidence
    BY <1>1, <1>3 DEF VerifyStart, VerifyDropped, Evidence
  <2>2. channel' = channel
    BY <1>3 DEF VerifyStart, VerifyDropped
  <2> QED
    BY <1>1, <2>1, <2>2, QuietStep
<1>4. CASE VerifyLock \/ VerifyReturn
  <2>1. /\ channel' = channel
        /\ {refreshLock, refreshLock'} \subseteq {Nobody, Holder}
        /\ verify # "attested" /\ verify' # "attested"
    BY <1>4 DEF VerifyLock, VerifyReturn, LockRefresh, VerifyHoldsLock
  <2>2. Evidence = {} /\ Evidence' = {}
    BY <2>1, ProxyAssumption DEF EvidenceOfTheHolder
  <2> QED
    BY <1>1, <2>1, <2>2, QuietStep
<1>5. CASE VerifyClear \/ VerifyGivesUp
  <2>1. channel'.client = None
    BY <1>5 DEF VerifyClear, VerifyGivesUp, DropGuard, Clear, VerifyWindow
  <2>2. refreshLock' \notin Requests /\ verify' # "attested"
    BY <1>5, ProxyAssumption
       DEF VerifyClear, VerifyGivesUp, DropGuard, VerifyHoldsLock
  <2>3. Evidence' = {}
    BY <2>2 DEF EvidenceOfTheHolder
  <2>4. Trust!Withdraw
    BY <1>1, <2>1, <2>3 DEF Trust!Withdraw, Sealed
  <2> QED
    BY <2>4 DEF TrustStep, Trust!Next
<1>6. CASE VerifyFetch
  <2>1. channel.client = None /\ channel' = channel
    BY <1>6 DEF VerifyFetch, VerifyWindow
  <2>2. Evidence' = {enclaveKey}
    BY <1>6 DEF VerifyFetch, EvidenceOfTheHolder
  <2>3. Trust!Attest(enclaveKey)
    BY <1>1, <2>1, <2>2 DEF Trust!Attest, Sealed
  <2> QED
    BY <2>3 DEF TrustStep, Trust!Next, TypeOK
<1>7. CASE VerifyInstall
  <2>1. /\ channel.client = None /\ channel'.client = verified
        /\ Evidence = {verified}
    BY <1>7 DEF VerifyInstall, VerifyWindow, SetActive, EvidenceOfTheHolder
  <2>2. Evidence' = {}
    BY <1>2, <1>7, ProxyAssumption DEF VerifyInstall, EvidenceOfTheHolder
  <2>3. Trust!Grant
    BY <1>1, <2>1, <2>2 DEF Trust!Grant, Sealed
  <2> QED
    BY <2>3 DEF TrustStep, Trust!Next
<1> QED
  BY <1>3, <1>4, <1>5, <1>6, <1>7 DEF Verify

\* The client implements TrustCell: bodies go to the trusted key or nowhere,
\* a key is never swapped for another without closing the channel in between,
\* and trust follows only from an attestation made while it was closed.
THEOREM ClientImplementsTrustCell == ClientSpec => ImplementsTrustCell
<1>1. ClientInit => Trust!Init
  <2> SUFFICES ASSUME ClientInit PROVE Trust!Init
    OBVIOUS
  <2>1. \A r \in Requests : call[r].stage = "start"
    BY DEF ClientInit, Init, Blank
  <2>2. Evidence = {}
    BY <2>1 DEF ClientInit, Evidence
  <2>3. channel.client \in Keys
    BY ProxyAssumption DEF ClientInit, Init, SetActive
  <2> QED
    BY <2>1, <2>2, <2>3 DEF Trust!Init, InFlight
<1>2. ClientIInv /\ ClientIInv' /\ [ClientNext]_allVars => [Trust!Next]_(Trust!vars)
  <2> SUFFICES ASSUME ClientIInv, ClientIInv', [ClientNext]_allVars
               PROVE  TrustStep
    BY DEF TrustStep
  <2>1. EvidenceOfTheHolder
    BY EvidenceIsTheHolders
  <2>2. (ClientIInv => EvidenceOfTheHolder)'
    BY EvidenceIsTheHolders, PTL
  <2>3. EvidenceOfTheHolder'
    BY <2>2
  <2>4. CASE (RotateKey /\ UNCHANGED clientVars) \/ UNCHANGED allVars
    <3>1. UNCHANGED <<channel, call, verify, verified>>
      BY <2>4 DEF RotateKey, allVars, clientVars
    <3>2. Evidence' = Evidence /\ Sealed' = Sealed
      BY <3>1 DEF Evidence, Sealed, InFlight
    <3> QED
      BY <3>1, <3>2, QuietStep
  <2> QED
    BY <2>1, <2>3, <2>4, RequestImplements, VerifyImplements DEF ClientNext
<1> QED
  BY <1>1, <1>2, ClientInductive, PTL DEF ClientSpec, ImplementsTrustCell, Trust!Spec

=============================================================================
