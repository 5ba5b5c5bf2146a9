--------------------------- MODULE EhbpProxy_proofs ---------------------------
(***************************************************************************)
(* Proofs about EhbpProxy, for every set of requests and of keys and every *)
(* number of administrative calls.                                         *)
(***************************************************************************)
EXTENDS EhbpProxy, TLAPS

\* The fields of the channel agree with one another.
ChannelAgrees ==
  /\ channel.publicKey = channel.client
  /\ channel.groundTruth \in {None, channel.client}
  /\ channel.client # None => channel.rejectedKey = None

\* The generation a request read is not ahead of the channel; if it is the
\* channel's own, the channel has not changed since, so the key the body was
\* sealed to after that read is still the channel's.
SeenIsPast ==
  \A r \in Requests :
    /\ call[r].stage \in {"seen", "sent", "lockwait", "locked"}
         => call[r].seen <= channel.generation
    /\ call[r].stage \in {"sent", "lockwait", "locked"}
         => /\ call[r].first # None
            /\ call[r].seen = channel.generation
                 => channel.client = call[r].first

\* Likewise from the rejection to the end of the refresh.
RejectionIsPast ==
  \A r \in Requests :
    call[r].stage \in {"rejected", "refreshing", "attested"}
      => /\ call[r].refreshGeneration <= channel.generation
         /\ call[r].refreshGeneration = channel.generation
              => /\ channel.client = None
                 /\ channel.rejectedKey = call[r].first

IInv ==
  TypeOK /\ OneRefreshAtATime /\ ChannelAgrees /\ SeenIsPast /\ RejectionIsPast

-----------------------------------------------------------------------------
(* The operators of the channel and of the locals                          *)

\* Every operation of EhbpChannel yields a channel, one generation on.
LEMMA ChannelOperations ==
  ASSUME NEW c \in EhbpChannel, NEW key \in Keys, NEW truth \in Keys \cup {None}
  PROVE  /\ SetActive(c, key, truth) \in EhbpChannel
         /\ Clear(c) \in EhbpChannel
         /\ Reject(c) \in EhbpChannel
         /\ Reject(c).client = None
         /\ Reject(c).publicKey = None
         /\ Reject(c).groundTruth = None
         /\ Reject(c).rejectedKey = c.publicKey
         /\ Reject(c).generation = c.generation + 1
BY DEF SetActive, Clear, Reject, EhbpChannel

\* The locals of a future that is gone, or not yet running, are locals.
LEMMA BlankLocals ==
  ASSUME NEW stage \in Stages
  PROVE  Blank(stage) \in Locals /\ Blank(stage).stage = stage
BY DEF Blank, Locals

\* No stage of one kind is a stage of another.
LEMMA StageKinds ==
  /\ Critical \subseteq Stages
  /\ Settled \subseteq Stages
  /\ Critical \cap Settled = {}
BY DEF Stages, Critical, Settled

-----------------------------------------------------------------------------
(* Type correctness                                                        *)

\* At first everything is of its type.
LEMMA InitTypeOK == Init => TypeOK
<1> SUFFICES ASSUME Init PROVE TypeOK
  OBVIOUS
<1> USE ProxyAssumption
<1>1. EmptyChannel \in EhbpChannel
  BY DEF EmptyChannel, EhbpChannel
<1>2. channel \in EhbpChannel
  <2>1. PICK key \in UsableKeys, verified \in BOOLEAN :
          LET new == SetActive(EmptyChannel, key, None) IN
          /\ channel = IF verified THEN SetActive(new, key, key) ELSE new
          /\ refresher = verified
    BY DEF Init
  <2>2. SetActive(EmptyChannel, key, None) \in EhbpChannel
    BY <1>1, ChannelOperations
  <2>3. SetActive(SetActive(EmptyChannel, key, None), key, key) \in EhbpChannel
    BY <2>2, ChannelOperations
  <2> QED
    BY <2>1, <2>2, <2>3
<1>3. call \in [Requests -> Locals]
  BY BlankLocals DEF Init, Stages
<1> QED
  BY <1>2, <1>3 DEF Init, TypeOK

\* Finish leaves the type of the locals alone.
LEMMA FinishType ==
  ASSUME TypeOK, NEW r \in Requests, NEW how \in Settled, Finish(r, how)
  PROVE  /\ call' \in [Requests -> Locals]
         /\ call'[r] = Blank(how)
         /\ \A q \in Requests \ {r} : call'[q] = call[q]
BY BlankLocals, StageKinds DEF Finish, TypeOK

\* ReleaseGuard leaves the lock with somebody, and not with r.
LEMMA ReleaseType ==
  ASSUME TypeOK, NEW r \in Requests, ReleaseGuard(r)
  PROVE  /\ refreshLock' \in Requests \cup {Nobody, Holder}
         /\ refreshLock' # r
         /\ \A q \in Requests \ {r} : refreshLock' = q <=> refreshLock = q
BY ProxyAssumption DEF ReleaseGuard, TypeOK

\* So it is after every step of a request.
LEMMA RequestTypeOK ==
  ASSUME TypeOK, NEW r \in Requests, Request(r)
  PROVE  TypeOK'
<1> USE DEF TypeOK
<1>0. channel.generation \in Nat /\ channel.client \in Keys \cup {None}
  BY DEF EhbpChannel
<1>1. CASE ReadGeneration(r)
  BY <1>0, <1>1 DEF ReadGeneration, Locals, Stages
<1>2. CASE SendRefused(r)
  BY <1>2, FinishType DEF SendRefused, Settled
<1>3. CASE Send(r)
  BY <1>0, <1>3 DEF Send, Locals, Stages
<1>4. CASE Resend(r)
  BY <1>0, <1>4 DEF Resend, Locals, Stages
<1>5. CASE RejectSeen(r)
  <2>1. channel' \in EhbpChannel
    BY <1>5, ChannelOperations, ProxyAssumption DEF RejectSeen, Reject, Clear, EhbpChannel
  <2>2. channel'.generation \in Nat
    BY <2>1 DEF EhbpChannel
  <2> QED
    BY <1>5, <2>1, <2>2 DEF RejectSeen, Locals, Stages, Critical
<1>6. CASE AlreadyReplaced(r)
  BY <1>6, ReleaseType DEF AlreadyReplaced, Locals, Stages
<1>7. CASE StartRefresh(r)
  <2>1. CASE refresher
    BY <1>7, <2>1 DEF StartRefresh, Locals, Stages, Critical
  <2>2. CASE ~refresher
    BY <1>7, <2>2, FinishType, ReleaseType DEF StartRefresh, Settled
  <2> QED
    BY <2>1, <2>2
<1>8. CASE InstallRefreshed(r)
  <2>1. call[r].fresh \in UsableKeys => call[r].fresh \in Keys
    BY ProxyAssumption
  <2>2. channel' \in EhbpChannel
    BY <1>8, <2>1, ChannelOperations DEF InstallRefreshed
  <2>3. call' \in [Requests -> Locals]
    BY <1>8, FinishType DEF InstallRefreshed, Settled, Locals, Stages
  <2> QED
    BY <1>8, <2>2, <2>3, ReleaseType DEF InstallRefreshed
<1>9. CASE Reply(r)
  <2>1. CASE Answered(r)
    BY <2>1, FinishType DEF Answered, Settled
  <2>2. CASE AttemptFails(r)
    BY <2>2, FinishType DEF AttemptFails, Settled
  <2>3. CASE Mismatch(r)
    BY <2>3 DEF Mismatch, Locals, Stages
  <2>4. CASE FetchAttestation(r)
    BY <2>4 DEF FetchAttestation, Locals, Stages, Critical
  <2>5. CASE RefreshFails(r)
    BY <2>5, FinishType, ReleaseType DEF RefreshFails, Settled
  <2> QED
    BY <1>9, <2>1, <2>2, <2>3, <2>4, <2>5 DEF Reply
<1>10. CASE Lock(r)
  BY <1>10 DEF Lock, Locals, Stages, Critical
<1>11. CASE BuildFails(r)
  BY <1>11, FinishType DEF BuildFails, Settled
<1>12. CASE Drop(r)
  BY <1>12, FinishType, ReleaseType DEF Drop, Settled
<1> QED
  BY <1>1, <1>2, <1>3, <1>4, <1>5, <1>6, <1>7, <1>8, <1>9, <1>10, <1>11, <1>12
     DEF Request, Local

\* So it is after every other call.
LEMMA AdminTypeOK ==
  ASSUME TypeOK, Admin \/ RotateKey
  PROVE  TypeOK'
<1> USE ProxyAssumption DEF TypeOK
<1>1. CASE Revoke
  <2>1. Clear(channel) \in EhbpChannel
    BY DEF Clear, EhbpChannel
  <2> QED
    BY <1>1, <2>1 DEF Revoke, AdminCall
<1>2. ASSUME NEW key \in Keys, Rekey(key) \/ InstallVerifiedState(key)
      PROVE  TypeOK'
  BY <1>2, ChannelOperations DEF Rekey, InstallVerifiedState, AdminCall
<1>3. CASE SetRefresher
  BY <1>3 DEF SetRefresher, AdminCall
<1>4. CASE LockRefresh \/ DropGuard
  BY <1>4 DEF LockRefresh, DropGuard
<1>5. CASE RotateKey
  BY <1>5 DEF RotateKey
<1> QED
  BY <1>1, <1>2, <1>3, <1>4, <1>5 DEF Admin

\* Type correctness: whatever is interleaved, dropped or rotated, every
\* variable of the transport stays in its type.
THEOREM TypeCorrect == Spec => []TypeOK
<1>1. TypeOK /\ [Next]_vars => TypeOK'
  BY RequestTypeOK, AdminTypeOK DEF Next, vars, TypeOK
<1> QED
  BY <1>1, InitTypeOK, PTL DEF Spec

-----------------------------------------------------------------------------
(* What a step may change                                                  *)

ChannelKeptOrMoved ==
  \/ channel' = channel
  \/ channel'.generation = channel.generation + 1

\* A request changes its own locals only, takes or leaves the lock for itself
\* only, and a change of the channel is a new generation.
LEMMA RequestFrame ==
  ASSUME TypeOK, NEW r \in Requests, Request(r)
  PROVE  /\ \A q \in Requests \ {r} : call'[q] = call[q]
         /\ \A q \in Requests \ {r} : refreshLock' = q <=> refreshLock = q
         /\ ChannelKeptOrMoved
<1> USE DEF TypeOK, ChannelKeptOrMoved
<1>1. CASE Local(r)
  <2>1. \A q \in Requests \ {r} : call'[q] = call[q]
    BY <1>1 DEF Local, ReadGeneration, SendRefused, Send, Resend, RejectSeen,
                AlreadyReplaced, StartRefresh, InstallRefreshed, Finish
  <2>2. \A q \in Requests \ {r} : refreshLock' = q <=> refreshLock = q
    BY <1>1, ReleaseType
       DEF Local, ReadGeneration, SendRefused, Send, Resend, RejectSeen,
           AlreadyReplaced, StartRefresh, InstallRefreshed
  <2>3. ChannelKeptOrMoved
    BY <1>1 DEF Local, ReadGeneration, SendRefused, Send, Resend, RejectSeen,
                AlreadyReplaced, StartRefresh, InstallRefreshed,
                Reject, Clear, SetActive
  <2> QED
    BY <2>1, <2>2, <2>3
<1>2. CASE Reply(r) \/ Lock(r) \/ BuildFails(r) \/ Drop(r)
  <2>1. \A q \in Requests \ {r} : call'[q] = call[q]
    BY <1>2 DEF Reply, Answered, AttemptFails, Mismatch, FetchAttestation,
                RefreshFails, Lock, BuildFails, Drop, Finish
  <2>2. \A q \in Requests \ {r} : refreshLock' = q <=> refreshLock = q
    BY <1>2, ReleaseType, ProxyAssumption
       DEF Reply, Answered, AttemptFails, Mismatch, FetchAttestation,
           RefreshFails, Lock, BuildFails, Drop
  <2>3. channel' = channel
    BY <1>2 DEF Reply, Answered, AttemptFails, Mismatch, FetchAttestation,
                RefreshFails, Lock, BuildFails, Drop
  <2> QED
    BY <2>1, <2>2, <2>3
<1> QED
  BY <1>1, <1>2 DEF Request

\* Administration never touches a request's locals, nor a lock a request holds.
LEMMA AdminFrame ==
  ASSUME TypeOK, Admin \/ RotateKey
  PROVE  /\ call' = call
         /\ \A q \in Requests : refreshLock' = q <=> refreshLock = q
         /\ ChannelKeptOrMoved
BY ProxyAssumption
   DEF Admin, RotateKey, Revoke, Rekey, InstallVerifiedState, SetRefresher,
       LockRefresh, DropGuard, AdminCall, Clear, SetActive, TypeOK,
       ChannelKeptOrMoved

-----------------------------------------------------------------------------
(* The inductive invariant                                                 *)

\* The invariant holds before anything is sent.
LEMMA InitIInv == Init => IInv
<1> SUFFICES ASSUME Init PROVE IInv
  OBVIOUS
<1>1. \A r \in Requests : call[r].stage = "start"
  BY DEF Init, Blank
<1>2. ChannelAgrees
  BY DEF Init, SetActive, EmptyChannel, ChannelAgrees
<1>3. OneRefreshAtATime
  BY <1>1, ProxyAssumption DEF Init, OneRefreshAtATime, Critical
<1> QED
  BY <1>1, <1>2, <1>3, InitTypeOK DEF IInv, SeenIsPast, RejectionIsPast

\* The invariant of one request, as the conjuncts of IInv state it for r.
RequestIInv(r) ==
  /\ call[r].stage \in Critical <=> refreshLock = r
  /\ call[r].stage \in {"seen", "sent", "lockwait", "locked"}
       => call[r].seen <= channel.generation
  /\ call[r].stage \in {"sent", "lockwait", "locked"}
       => /\ call[r].first # None
          /\ call[r].seen = channel.generation
               => channel.client = call[r].first
  /\ call[r].stage \in {"rejected", "refreshing", "attested"}
       => /\ call[r].refreshGeneration <= channel.generation
          /\ call[r].refreshGeneration = channel.generation
               => /\ channel.client = None
                  /\ channel.rejectedKey = call[r].first

\* The invariant, request by request.
LEMMA IInvByRequest ==
  IInv <=> TypeOK /\ ChannelAgrees /\ \A r \in Requests : RequestIInv(r)
BY DEF IInv, RequestIInv, OneRefreshAtATime, SeenIsPast, RejectionIsPast

\* A request that takes no step keeps its part whatever the others do: the
\* channel stays, or it moves past every generation the request remembers.
LEMMA BystanderKeepsIInv ==
  ASSUME TypeOK, TypeOK', NEW r \in Requests, RequestIInv(r),
         call'[r] = call[r], refreshLock' = r <=> refreshLock = r,
         ChannelKeptOrMoved
  PROVE  RequestIInv(r)'
<1>1. /\ call[r].seen \in Nat /\ call[r].refreshGeneration \in Nat
      /\ channel.generation \in Nat /\ channel'.generation \in Nat
  BY DEF TypeOK, Locals, EhbpChannel
<1> QED
  BY <1>1 DEF RequestIInv, ChannelKeptOrMoved

\* The request that takes the step.
LEMMA RequestKeepsItsIInv ==
  ASSUME TypeOK, TypeOK', ChannelAgrees, NEW r \in Requests, RequestIInv(r),
         Request(r)
  PROVE  RequestIInv(r)'
<1> USE DEF TypeOK
<1>1. /\ call[r].seen \in Nat /\ call[r].refreshGeneration \in Nat
      /\ channel.generation \in Nat /\ channel'.generation \in Nat
  BY DEF Locals, EhbpChannel
<1>2. ASSUME NEW how \in Settled, Finish(r, how), refreshLock' # r
      PROVE  RequestIInv(r)'
  <2>1. call'[r].stage \in Settled
    BY <1>2, FinishType DEF Blank
  <2> QED
    BY <1>2, <2>1 DEF RequestIInv, Settled, Critical
<1>3. (call[r].stage \notin Critical /\ refreshLock' = refreshLock) => refreshLock' # r
  BY DEF RequestIInv
<1>4. CASE ReadGeneration(r)
  BY <1>1, <1>4 DEF ReadGeneration, RequestIInv, Critical
<1>5. CASE SendRefused(r)
  BY <1>2, <1>3, <1>5 DEF SendRefused, Settled, Critical
<1>6. CASE Send(r)
  BY <1>1, <1>6 DEF Send, RequestIInv, Critical
<1>7. CASE Resend(r)
  BY <1>7 DEF Resend, RequestIInv, Critical
<1>8. CASE RejectSeen(r)
  <2>1. /\ channel'.client = None
        /\ channel'.rejectedKey = channel.publicKey
        /\ channel'.generation = channel.generation + 1
    BY <1>8, ChannelOperations, ProxyAssumption DEF RejectSeen, Reject, Clear
  <2>2. /\ call'[r].stage = "rejected"
        /\ call'[r].refreshGeneration = channel'.generation
        /\ call'[r].first = call[r].first
    BY <1>8 DEF RejectSeen, Locals
  <2>3. channel.publicKey = call[r].first
    BY <1>8 DEF RejectSeen, RequestIInv, ChannelAgrees
  <2> QED
    BY <1>1, <1>8, <2>1, <2>2, <2>3 DEF RejectSeen, RequestIInv, Critical
<1>9. CASE AlreadyReplaced(r)
  BY <1>9, ReleaseType DEF AlreadyReplaced, RequestIInv, Critical
<1>10. CASE StartRefresh(r)
  <2>1. CASE refresher
    BY <1>10, <2>1 DEF StartRefresh, RequestIInv, Critical, Locals
  <2>2. CASE ~refresher
    BY <1>2, <1>10, <2>2, ReleaseType DEF StartRefresh, Settled
  <2> QED
    BY <2>1, <2>2
<1>11. CASE InstallRefreshed(r)
  <2>1. refreshLock' # r
    BY <1>11, ReleaseType DEF InstallRefreshed
  <2>2. CASE Finish(r, "failed")
    BY <1>2, <2>1, <2>2 DEF Settled
  <2>3. CASE call' = [call EXCEPT ![r].stage = "retry"]
    BY <2>1, <2>3 DEF RequestIInv, Critical
  <2> QED
    BY <1>11, <2>2, <2>3 DEF InstallRefreshed
<1>12. CASE Answered(r) \/ AttemptFails(r) \/ BuildFails(r)
  BY <1>2, <1>3, <1>12 DEF Answered, AttemptFails, BuildFails, Settled, Critical
<1>13. CASE RefreshFails(r) \/ Drop(r)
  BY <1>2, <1>13, ReleaseType DEF RefreshFails, Drop, Settled
<1>14. CASE Mismatch(r)
  BY <1>14 DEF Mismatch, RequestIInv, Critical, Locals
<1>15. CASE FetchAttestation(r)
  BY <1>15 DEF FetchAttestation, RequestIInv, Critical, Locals
<1>16. CASE Lock(r)
  BY <1>16 DEF Lock, RequestIInv, Critical, Locals
<1> QED
  BY <1>4, <1>5, <1>6, <1>7, <1>8, <1>9, <1>10, <1>11, <1>12, <1>13, <1>14,
     <1>15, <1>16 DEF Request, Local, Reply

\* Every operation of the channel leaves its fields in agreement.
LEMMA StepKeepsAgreement ==
  ASSUME TypeOK, ChannelAgrees, [Next]_vars
  PROVE  ChannelAgrees'
<1>1. CASE channel' = channel
  BY <1>1 DEF ChannelAgrees
<1>2. \/ channel' = channel
      \/ channel' = Clear(channel)
      \/ channel' = Reject(channel)
      \/ \E key \in UsableKeys, truth \in {None} \cup UsableKeys :
           truth \in {None, key} /\ channel' = SetActive(channel, key, truth)
  BY DEF Next, vars, Request, Local, ReadGeneration, SendRefused, Send, Resend,
         RejectSeen, AlreadyReplaced, StartRefresh, InstallRefreshed, Reply,
         Answered, AttemptFails, Mismatch, FetchAttestation, RefreshFails, Lock,
         BuildFails, Drop, Admin, Revoke, Rekey, InstallVerifiedState,
         SetRefresher, LockRefresh, DropGuard, RotateKey
<1>3. CASE channel' = Clear(channel)
  BY <1>3 DEF Clear, ChannelAgrees
<1>4. CASE channel' = Reject(channel)
  BY <1>4 DEF Reject, Clear, ChannelAgrees
<1>5. ASSUME NEW key \in UsableKeys, NEW truth \in {None, key},
             channel' = SetActive(channel, key, truth)
      PROVE  ChannelAgrees'
  BY <1>5 DEF SetActive, ChannelAgrees
<1> QED
  BY <1>1, <1>2, <1>3, <1>4, <1>5

\* Every step keeps the invariant.
LEMMA NextIInv == IInv /\ [Next]_vars => IInv'
<1> SUFFICES ASSUME IInv, [Next]_vars PROVE IInv'
  OBVIOUS
<1>1. TypeOK /\ ChannelAgrees /\ \A r \in Requests : RequestIInv(r)
  BY IInvByRequest
<1>2. TypeOK'
  BY <1>1, RequestTypeOK, AdminTypeOK DEF Next, vars, TypeOK
<1>3. ChannelAgrees'
  BY <1>1, StepKeepsAgreement
<1>4. ASSUME NEW r \in Requests
      PROVE  RequestIInv(r)'
  <2>1. ASSUME NEW q \in Requests, Request(q)
        PROVE  RequestIInv(r)'
    <3>1. CASE q = r
      BY <1>1, <1>2, <2>1, <3>1, RequestKeepsItsIInv
    <3>2. CASE q # r
      BY <1>1, <1>2, <2>1, <3>2, RequestFrame, BystanderKeepsIInv
    <3> QED
      BY <3>1, <3>2
  <2>2. CASE Admin \/ RotateKey
    BY <1>1, <1>2, <2>2, AdminFrame, BystanderKeepsIInv
  <2>3. CASE UNCHANGED vars
    BY <1>1, <1>2, <2>3, BystanderKeepsIInv DEF vars, ChannelKeptOrMoved
  <2> QED
    BY <2>1, <2>2, <2>3 DEF Next
<1> QED
  BY <1>2, <1>3, <1>4, IInvByRequest DEF IInv, RequestIInv, OneRefreshAtATime,
     SeenIsPast, RejectionIsPast

\* The strengthening holds in every reachable state.
LEMMA Inductive == Spec => []IInv
BY InitIInv, NextIInv, PTL DEF Spec

-----------------------------------------------------------------------------
(* Safety                                                                  *)

\* refresh_lock serialises refreshes, however each of them ends.
THEOREM RefreshesAreSerialised == Spec => []OneRefreshAtATime
<1>1. IInv => OneRefreshAtATime
  BY DEF IInv
<1> QED
  BY <1>1, Inductive, PTL

\* reject_if_generation only ever takes down the key that turned out wrong for
\* the very request that calls it.
THEOREM MismatchesAreAttributed == Spec => []MismatchNamesTheChannel
<1>1. IInv => MismatchNamesTheChannel
  BY DEF IInv, SeenIsPast, ChannelAgrees, MismatchNamesTheChannel
<1> QED
  BY <1>1, Inductive, PTL

\* A channel under refresh is closed and remembers what was rejected.
THEOREM RejectedChannelsAreClosed == Spec => []RejectedStateIsClosed
<1>1. IInv => RejectedStateIsClosed
  <2> SUFFICES ASSUME IInv, NEW r \in Requests,
                      call[r].stage \in {"rejected", "refreshing", "attested"},
                      channel.generation = call[r].refreshGeneration
               PROVE  /\ channel.client = None /\ channel.publicKey = None
                      /\ VerifiedGroundTruth = None
                      /\ channel.rejectedKey = call[r].first
    BY DEF RejectedStateIsClosed
  <2>1. channel.client = None /\ channel.rejectedKey = call[r].first
    BY DEF IInv, RejectionIsPast
  <2> QED
    BY <2>1 DEF IInv, ChannelAgrees, VerifiedGroundTruth
<1> QED
  BY <1>1, Inductive, PTL

\* The ground truth a reader is shown vouches for the key bodies are sealed to.
THEOREM GroundTruthIsCurrent == Spec => []GroundTruthMatchesKey
<1>1. IInv => GroundTruthMatchesKey
  BY DEF IInv, ChannelAgrees, GroundTruthMatchesKey, VerifiedGroundTruth
<1> QED
  BY <1>1, Inductive, PTL

\* No two states of the channel carry the same generation.
THEOREM GenerationsIncrease == Spec => GenerationNamesTheState
<1>1. IInv /\ [Next]_vars
        => [channel' # channel => channel'.generation > channel.generation]_vars
  <2> SUFFICES ASSUME IInv, [Next]_vars, channel' # channel
               PROVE  channel'.generation > channel.generation
    OBVIOUS
  <2>1. channel.generation \in Nat
    BY DEF IInv, TypeOK, EhbpChannel
  <2>2. ChannelKeptOrMoved
    BY RequestFrame, AdminFrame DEF IInv, Next, vars, ChannelKeptOrMoved
  <2> QED
    BY <2>1, <2>2 DEF ChannelKeptOrMoved
<1> QED
  BY <1>1, Inductive, PTL DEF Spec, GenerationNamesTheState

\* How a request that holds a fresh attestation goes on: by the end of its
\* refresh, and then the channel changes only if it was still the rejected one.
LEMMA RefreshOutcome ==
  ASSUME IInv, [Next]_vars, NEW r \in Requests,
         call[r].stage = "attested", call'[r].stage # "attested",
         channel' # channel
  PROVE  /\ InstallRefreshed(r)
         /\ channel.generation = call[r].refreshGeneration
         /\ channel.client = None
         /\ channel.rejectedKey = call[r].first
<1>1. call'[r] # call[r]
  OBVIOUS
<1>2. Request(r)
  BY <1>1, RequestFrame, AdminFrame DEF IInv, Next, vars
<1>3. InstallRefreshed(r)
  BY <1>2 DEF Request, Local, ReadGeneration, SendRefused, Send, Resend,
              RejectSeen, AlreadyReplaced, StartRefresh, Reply, Answered,
              AttemptFails, Mismatch, FetchAttestation, RefreshFails, Lock,
              BuildFails, Drop
<1>4. channel.generation = call[r].refreshGeneration
  BY <1>3 DEF InstallRefreshed, Overtaken
<1> QED
  BY <1>3, <1>4 DEF IInv, RejectionIsPast

\* A refresh never overwrites, clears or reopens a state that came after its own
\* rejection of the key, and never brings the rejected key back.
THEOREM RefreshesOnlyReopen == Spec => RefreshOnlyReopens
<1>1. IInv /\ [Next]_vars
        => [ \A r \in Requests :
               (call[r].stage = "attested" /\ call'[r].stage # "attested"
                  /\ channel' # channel) =>
                 /\ channel.generation = call[r].refreshGeneration
                 /\ channel.client = None /\ channel.rejectedKey = call[r].first
                 /\ call'[r].stage = "retry" => channel'.client \notin {call[r].first, None} ]_vars
  <2> SUFFICES ASSUME IInv, [Next]_vars, NEW r \in Requests,
                      call[r].stage = "attested", call'[r].stage # "attested",
                      channel' # channel
               PROVE  /\ channel.generation = call[r].refreshGeneration
                      /\ channel.client = None /\ channel.rejectedKey = call[r].first
                      /\ call'[r].stage = "retry"
                           => channel'.client \notin {call[r].first, None}
    OBVIOUS
  <2>1. /\ InstallRefreshed(r) /\ channel.generation = call[r].refreshGeneration
        /\ channel.client = None /\ channel.rejectedKey = call[r].first
    BY RefreshOutcome
  <2>2. call'[r].stage = "retry" => ~Finish(r, "failed")
    BY FinishType DEF IInv, Blank, Settled
  <2>3. call'[r].stage = "retry" => channel'.client \notin {call[r].first, None}
    BY <2>1, <2>2, ProxyAssumption DEF InstallRefreshed, TurnedDown, SetActive
  <2> QED
    BY <2>1, <2>3
<1> QED
  BY <1>1, Inductive, PTL DEF Spec, RefreshOnlyReopens

\* Who may open a closed channel in a step: a caller with a key, or the refresh
\* that closed it.
OpenedRightly ==
  \/ adminCalls' > adminCalls
  \/ \E r \in Requests :
       /\ call[r].stage = "attested" /\ call'[r].stage = "retry"
       /\ channel.generation = call[r].refreshGeneration
       /\ channel'.client = call[r].fresh
       /\ channel'.groundTruth = call[r].fresh

\* A refresh that fails, is dropped or comes too late leaves the channel closed;
\* only fresh trust opens it again.
THEOREM ClosedChannelsStayClosed == Spec => ClosedUntilFreshTrust
<1>1. IInv /\ [Next]_vars
        => [ (channel.client = None /\ channel'.client # None) => OpenedRightly ]_vars
  <2> SUFFICES ASSUME IInv, [Next]_vars, channel.client = None, channel'.client # None
               PROVE  OpenedRightly
    OBVIOUS
  <2>0. TypeOK
    BY DEF IInv
  <2>1. ASSUME NEW r \in Requests, InstallRefreshed(r) PROVE OpenedRightly
    <3>1. /\ ~Overtaken(r)
          /\ call' = [call EXCEPT ![r].stage = "retry"]
          /\ channel' = SetActive(channel, call[r].fresh, call[r].fresh)
      BY <2>1 DEF InstallRefreshed, Clear
    <3>2. call'[r].stage = "retry"
      BY <2>0, <3>1 DEF TypeOK, Locals
    <3>3. /\ channel'.client = call[r].fresh /\ channel'.groundTruth = call[r].fresh
          /\ channel.generation = call[r].refreshGeneration
      BY <3>1 DEF SetActive, Overtaken
    <3> QED
      BY <2>1, <3>2, <3>3 DEF InstallRefreshed, OpenedRightly
  <2>2. CASE Admin
    BY <2>0, <2>2 DEF Admin, Revoke, Rekey, InstallVerifiedState, SetRefresher,
       LockRefresh, DropGuard, AdminCall, Clear, TypeOK, OpenedRightly
  <2>3. ASSUME NEW r \in Requests, RejectSeen(r) PROVE FALSE
    BY <2>3 DEF RejectSeen, Reject, Clear
  <2>4. channel' # channel
    OBVIOUS
  <2> QED
    BY <2>1, <2>2, <2>3, <2>4
       DEF Next, vars, Request, Local, ReadGeneration, SendRefused, Send, Resend,
           AlreadyReplaced, StartRefresh, Reply, Answered, AttemptFails, Mismatch,
           FetchAttestation, RefreshFails, Lock, BuildFails, Drop, RotateKey
<1> QED
  BY <1>1, Inductive, PTL DEF Spec, ClosedUntilFreshTrust, OpenedRightly

=============================================================================
