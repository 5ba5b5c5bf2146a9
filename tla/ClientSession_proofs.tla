------------------------ MODULE ClientSession_proofs ------------------------
(***************************************************************************)
(* Proofs about ClientSession and the RouterDiscovery it starts with, for  *)
(* every set of hosts, servers, lists, secrets and requests, and for every *)
(* number of attempts and of redirects.                                    *)
(***************************************************************************)
EXTENDS ClientSession, SequenceTheorems, FiniteSetTheorems, TLAPS

\* The locals are the fields of Idle and of NoRequest, and no others.
StartFields ==
  {"stage", "attempt", "last_response", "last_err", "delay", "waited", "result",
   "answers", "candidates", "failed"}

RequestFields ==
  {"path", "stage", "asked", "message", "url", "server", "attempt", "hops", "since"}

Shapes ==
  /\ start = [f \in StartFields |-> start[f]]
  /\ request = [f \in RequestFields |-> request[f]]

\* Every attempt but the last got an answer that is worth a retry.
Retried ==
  /\ start.stage = "fetch" => Len(start.answers) = start.attempt
  /\ start.stage = "sleep" =>
       Len(start.answers) = start.attempt + 1 /\ start.attempt < MAX_RETRIES
  /\ start.stage \in {"fetch", "sleep"} =>
       \A i \in 1..Len(start.answers) : start.answers[i].kind \in {"busy", "error"}
  /\ start.stage = "answered" =>
       /\ start.answers # <<>> /\ start.result = {Last(start.answers)}
       /\ Last(start.answers).kind \in {"busy", "error"} =>
            Len(start.answers) = MAX_RETRIES + 1
  /\ \A i \in 1..Len(start.answers) - 1 : start.answers[i].kind \in {"busy", "error"}

\* Each pause is at most the maximum, and there is one between two attempts.
PausesAreBounded ==
  /\ start.delay <= MAX_RETRY_AFTER_MS
  /\ start.stage # "sleep" => start.delay = 0
  /\ start.waited <= start.attempt * MAX_RETRY_AFTER_MS

Told == routers(Last(start.answers)) \o <<DEFAULT_ROUTER>>

\* The routers that failed, then the candidates, are all that were told of.
CandidatesRemain ==
  /\ start.stage \in {"fetch", "sleep", "answered"} => start.failed = <<>>
  /\ start.stage = "verify" =>
       /\ start.answers # <<>> /\ start.candidates # <<>>
       /\ start.failed \o start.candidates = Told

\* There is a client when the start-up is over, and it is a verified one.
ClientIsVerified ==
  /\ (client # None) <=> (start.stage = "idle")
  /\ client # None => client.key \in Genuine /\ client.host \in CertifiedFor[client.key]

\* Every hop of a request is at the verified origin, whoever asked for it.
HopsAreAtTheOrigin ==
  /\ request.stage # "idle" => client # None
  /\ request.stage \in {"send", "sent"} => request.url = base_url(client.host)
  /\ request.stage = "sent" => request.server = client.key

IInv ==
  /\ TypeOK /\ Shapes /\ Retried /\ PausesAreBounded
  /\ CandidatesRemain /\ ClientIsVerified /\ HopsAreAtTheOrigin

MessageFields == {"method", "endpoint", "carries", "body", "content", "content_length"}

\* What an attempt of the typed path sends when the source answers s.
Provisioned(asked, s) ==
  IF s = {} THEN asked ELSE provision_request(asked, CHOOSE x \in s : TRUE)

\* The bytes of each path, from the moment they are made until they are sent: the
\* typed path's are made of a source of this attempt, never of an earlier one.
BodiesAreTheCallers ==
  /\ request.path = "typed" => request.asked \in TypedRequests
  /\ request.stage = "attempt" => request.path = "typed" /\ source \in request.since
  /\ request.stage \in {"send", "sent"} =>
       /\ request.message = [f \in MessageFields |-> request.message[f]]
       /\ request.message.carries = "bytes" =>
            /\ request.path = "typed" =>
                 \E s \in request.since : request.message = Provisioned(request.asked, s)
            /\ request.path = "relaxed" => request.message.content \in RelaxedContents
            /\ request.path = "raw" => request.message = request.asked
            /\ \A n \in request.message.content_length : n = Len(request.message.content)

-----------------------------------------------------------------------------
(* Lemmas about the helpers                                                *)

\* fetch_with_retry never sleeps longer than the maximum.
LEMMA DelayIsBounded ==
  ASSUME NEW answer \in Answers, NEW attempt \in 0..MAX_RETRIES - 1
  PROVE  delay(attempt, answer) \in 0..MAX_RETRY_AFTER_MS
<1>1. CASE answer.kind = "busy" /\ answer.retry_after # None
  <2>1. answer.retry_after \in RetryAfters
    BY <1>1 DEF Answers
  <2>2. answer.retry_after \in 0..MaxU64 /\ MaxU64 \in Nat
    BY <1>1, <2>1, DiscoveryAssumption
  <2> QED
    BY <1>1, <2>2 DEF delay, parse_retry_after, MAX_RETRY_AFTER_MS
<1>2. CASE ~(answer.kind = "busy" /\ answer.retry_after # None)
  <2>1. attempt = 0 \/ attempt = 1
    BY DEF MAX_RETRIES
  <2>2. 2 ^ 0 = 1 /\ 2 ^ 1 = 2
    OBVIOUS
  <2>3. 2 ^ attempt \in {1, 2}
    BY <2>1, <2>2
  <2> QED
    BY <1>2, <2>3 DEF delay, INITIAL_BACKOFF_MS, MAX_RETRY_AFTER_MS
<1> QED
  BY <1>1, <1>2

\* One more pause keeps to one maximum for each attempt.
LEMMA PausesAdd ==
  ASSUME NEW waited \in Nat, NEW pause \in 0..MAX_RETRY_AFTER_MS, NEW attempt \in {0, 1},
         waited <= attempt * MAX_RETRY_AFTER_MS
  PROVE  /\ waited + pause \in Nat
         /\ waited + pause <= (attempt + 1) * MAX_RETRY_AFTER_MS
BY DEF MAX_RETRY_AFTER_MS

\* fetch_routers gives a list of hosts, if only the empty one.
LEMMA RoutersType ==
  ASSUME NEW answer \in Answers
  PROVE  routers(answer) \in Seq(Hosts)
<1>1. CASE answer.kind = "list"
  <2>1. answer.routers \in Lists
    BY <1>1 DEF Answers
  <2> QED
    BY <1>1, <2>1, DiscoveryAssumption DEF routers
<1>2. CASE answer.kind # "list"
  BY <1>2 DEF routers
<1> QED
  BY <1>1, <1>2

\* A candidate that failed moves from one list to the other.
LEMMA MoveHead ==
  ASSUME NEW S, NEW f \in Seq(S), NEW c \in Seq(S), c # <<>>
  PROVE  /\ Append(f, Head(c)) \o Tail(c) = f \o c
         /\ Len(c) = 1 => Append(f, Head(c)) = f \o c
         /\ Len(c) # 1 => Tail(c) # <<>>
         /\ IsPrefix(f, f \o c) /\ (f \o c)[Len(f) + 1] = Head(c)
<1>1. Append(f, Head(c)) \o Tail(c) = f \o c
  OBVIOUS
<1>2. Len(c) = 1 => Append(f, Head(c)) = f \o c
  OBVIOUS
<1>3. Len(c) # 1 => Tail(c) # <<>>
  <2> SUFFICES ASSUME Tail(c) = <<>> PROVE Len(c) = 1
    OBVIOUS
  <2>1. Len(Tail(c)) = Len(c) - 1 /\ Len(c) \in Nat
    OBVIOUS
  <2>2. Len(Tail(c)) = 0
    BY Zenon, EmptySeq
  <2> QED
    BY <2>1, <2>2
<1>4. IsPrefix(f, f \o c)
  BY DEF IsPrefix
<1>5. (f \o c)[Len(f) + 1] = Head(c)
  OBVIOUS
<1> QED
  BY <1>1, <1>2, <1>3, <1>4, <1>5
-----------------------------------------------------------------------------
(* The start-up                                                            *)

\* All that the invariant says of the start-up.
StartInv ==
  /\ StartUpTypeOK /\ start = [f \in StartFields |-> start[f]]
  /\ Retried /\ PausesAreBounded /\ CandidatesRemain /\ ClientIsVerified

\* The start-up begins with nothing fetched and nothing tried.
LEMMA InitStartInv == StartUpInit => StartInv
<1> SUFFICES ASSUME StartUpInit PROVE StartInv
  OBVIOUS
<1>1. start = [ stage |-> "fetch", attempt |-> 0, last_response |-> {}, last_err |-> {},
                delay |-> 0, waited |-> 0, result |-> {}, answers |-> <<>>,
                candidates |-> <<>>, failed |-> <<>> ]
  BY DEF StartUpInit, Idle
<1>2. StartUpTypeOK
  <2>1. client = None /\ start.stage = "fetch" /\ start.attempt \in 0..MAX_RETRIES
    BY <1>1 DEF StartUpInit, MAX_RETRIES
  <2>2. /\ start.last_response = {} /\ start.last_err = {} /\ start.result = {}
        /\ start.delay = 0 /\ start.waited = 0 /\ start.answers = <<>>
        /\ start.candidates = <<>> /\ start.failed = <<>>
    BY <1>1
  <2> QED
    BY <2>1, <2>2 DEF StartUpTypeOK
<1>3. start = [f \in StartFields |-> start[f]]
  BY <1>1 DEF StartFields
<1>4. Retried
  BY <1>1 DEF Retried
<1>5. PausesAreBounded
  BY <1>1 DEF PausesAreBounded, MAX_RETRY_AFTER_MS
<1>6. CandidatesRemain /\ ClientIsVerified
  BY <1>1 DEF StartUpInit, CandidatesRemain, ClientIsVerified
<1> QED
  BY <1>2, <1>3, <1>4, <1>5, <1>6 DEF StartInv

\* An attempt ends the fetch only as its kind of answer does.
LEMMA AttemptStartInv == StartInv /\ Attempt => StartInv'
<1> SUFFICES ASSUME StartInv, Attempt PROVE StartInv'
  OBVIOUS
<1>1. PICK answer \in Answers :
        start' = LET kept == Kept(answer)
                     told == [start EXCEPT !.answers = Append(@, answer)]
                 IN
             IF answer.kind \notin {"busy", "error"}
             THEN [told EXCEPT !.stage = "answered", !.result = {answer}]
             ELSE IF start.attempt < MAX_RETRIES
             THEN [told EXCEPT !.stage = "sleep", !.delay = delay(start.attempt, answer),
                               !.last_response = kept.last_response,
                               !.last_err = kept.last_err]
             ELSE [told EXCEPT !.stage = "answered",
                               !.result = IF kept.last_response # {}
                                          THEN kept.last_response ELSE kept.last_err]
  BY DEF Attempt
<1>2. /\ start = [f \in StartFields |-> start[f]] /\ start.stage = "fetch"
      /\ start.attempt \in 0..MAX_RETRIES /\ start.answers \in Seq(Answers)
      /\ Len(start.answers) = start.attempt /\ start.failed = <<>> /\ client = None
      /\ start.delay = 0 /\ start.waited <= start.attempt * MAX_RETRY_AFTER_MS
      /\ start.waited \in Nat /\ UNCHANGED client
  BY DEF Attempt, StartInv, Retried, CandidatesRemain, ClientIsVerified, PausesAreBounded,
         StartUpTypeOK
<1> DEFINE answers == Append(start.answers, answer)
<1>3. /\ answers \in Seq(Answers) /\ Len(answers) = start.attempt + 1
      /\ answers[start.attempt + 1] = answer /\ Last(answers) = answer /\ answers # <<>>
      /\ \A i \in 1..start.attempt : answers[i].kind \in {"busy", "error"}
  <2>1. /\ Len(answers) = Len(start.answers) + 1 /\ answers # <<>>
        /\ answers[Len(start.answers) + 1] = answer
        /\ \A i \in 1..Len(start.answers) : answers[i] = start.answers[i]
        /\ answers \in Seq(Answers)
    BY <1>2, AppendProperties
  <2>2. \A i \in 1..Len(start.answers) : start.answers[i].kind \in {"busy", "error"}
    BY <1>2 DEF StartInv, Retried
  <2> QED
    BY <1>2, <2>1, <2>2 DEF Last
<1> HIDE DEF answers
<1>4. CASE answer.kind \notin {"busy", "error"}
  <2>1. start' = [[start EXCEPT !.answers = answers] EXCEPT !.stage = "answered",
                                                            !.result = {answer}]
    BY <1>1, <1>4 DEF answers
  <2>2. StartUpTypeOK'
    BY <1>2, <1>3, <1>4, <2>1 DEF StartInv, StartUpTypeOK, StartFields
  <2>3. (start = [f \in StartFields |-> start[f]])'
    BY <1>2, <1>4, <2>1 DEF StartFields
  <2>4. Retried'
    BY <1>2, <1>3, <1>4, <2>1 DEF Retried, StartFields, MAX_RETRIES
  <2>5. PausesAreBounded'
    BY <1>2, <1>4, <2>1 DEF PausesAreBounded, StartFields, MAX_RETRIES, MAX_RETRY_AFTER_MS
  <2>6. CandidatesRemain' /\ ClientIsVerified'
    BY <1>2, <1>4, <2>1 DEF StartInv, CandidatesRemain, ClientIsVerified, StartFields
  <2> QED
    BY <2>2, <2>3, <2>4, <2>5, <2>6 DEF StartInv
<1>5. CASE answer.kind \in {"busy", "error"} /\ start.attempt < MAX_RETRIES
  <2> DEFINE kept == Kept(answer)
             pause == delay(start.attempt, answer)
  <2>1. start' = [[start EXCEPT !.answers = answers] EXCEPT
                     !.stage = "sleep", !.delay = pause,
                     !.last_response = kept.last_response, !.last_err = kept.last_err]
    BY <1>1, <1>5 DEF answers
  <2>2. kept.last_response \subseteq Answers /\ kept.last_err \subseteq Answers
    BY DEF Kept
  <2>3. pause \in 0..MAX_RETRY_AFTER_MS
    BY <1>2, <1>5, DelayIsBounded DEF MAX_RETRIES
  <2> HIDE DEF kept, pause
  <2>4. StartUpTypeOK'
    BY <1>2, <1>3, <1>5, <2>1, <2>2, <2>3 DEF StartInv, StartUpTypeOK, StartFields
  <2>5. (start = [f \in StartFields |-> start[f]])'
    BY <1>2, <1>5, <2>1, <2>2, <2>3 DEF StartFields
  <2>6. Retried'
    BY <1>2, <1>3, <1>5, <2>1, <2>2, <2>3 DEF Retried, StartFields, MAX_RETRIES
  <2>7. PausesAreBounded'
    <3>1. /\ start'.delay = pause /\ start'.stage = "sleep"
          /\ start'.waited = start.waited /\ start'.attempt = start.attempt
      BY <1>2, <2>1 DEF StartFields
    <3> QED
      BY <1>2, <2>3, <3>1 DEF PausesAreBounded
  <2>8. CandidatesRemain' /\ ClientIsVerified'
    BY <1>2, <1>5, <2>1, <2>2, <2>3 DEF StartInv, CandidatesRemain, ClientIsVerified, StartFields
  <2> QED
    BY <2>4, <2>5, <2>6, <2>7, <2>8 DEF StartInv
<1>6. CASE answer.kind \in {"busy", "error"} /\ ~(start.attempt < MAX_RETRIES)
  <2>1. (IF Kept(answer).last_response # {}
         THEN Kept(answer).last_response ELSE Kept(answer).last_err) = {answer}
    BY <1>6 DEF Kept
  <2>2. start' = [[start EXCEPT !.answers = answers] EXCEPT !.stage = "answered",
                                                            !.result = {answer}]
    BY <1>1, <1>6, <2>1 DEF answers
  <2>3. start.attempt = MAX_RETRIES
    BY <1>2, <1>6 DEF MAX_RETRIES
  <2>4. StartUpTypeOK'
    BY <1>2, <1>3, <1>6, <2>2, <2>3 DEF StartInv, StartUpTypeOK, StartFields
  <2>5. (start = [f \in StartFields |-> start[f]])'
    BY <1>2, <1>6, <2>2, <2>3 DEF StartFields
  <2>6. Retried'
    BY <1>2, <1>3, <1>6, <2>2, <2>3 DEF Retried, StartFields, MAX_RETRIES
  <2>7. PausesAreBounded'
    BY <1>2, <1>6, <2>2, <2>3 DEF PausesAreBounded, StartFields, MAX_RETRIES, MAX_RETRY_AFTER_MS
  <2>8. CandidatesRemain' /\ ClientIsVerified'
    BY <1>2, <1>6, <2>2, <2>3 DEF StartInv, CandidatesRemain, ClientIsVerified, StartFields
  <2> QED
    BY <2>4, <2>5, <2>6, <2>7, <2>8 DEF StartInv
<1> QED
  BY <1>4, <1>5, <1>6

\* A pause adds at most its maximum.
LEMMA WakeStartInv == StartInv /\ Wake => StartInv'
<1> SUFFICES ASSUME StartInv, Wake PROVE StartInv'
  OBVIOUS
<1>1. start' = [start EXCEPT !.stage = "fetch", !.attempt = @ + 1,
                             !.waited = @ + start.delay, !.delay = 0]
      /\ start.stage = "sleep" /\ UNCHANGED client
  BY DEF Wake
<1>0. start = [f \in StartFields |-> start[f]]
  BY DEF StartInv
<1>2. /\ start.attempt \in {0, 1} /\ start.delay \in 0..MAX_RETRY_AFTER_MS
      /\ start.waited \in Nat /\ start.waited <= start.attempt * MAX_RETRY_AFTER_MS
  BY <1>1 DEF StartInv, StartUpTypeOK, Retried, PausesAreBounded, MAX_RETRIES
<1>3. start.waited + start.delay <= (start.attempt + 1) * MAX_RETRY_AFTER_MS
  BY <1>2, PausesAdd
<1>4. /\ start'.stage = "fetch" /\ start'.attempt = start.attempt + 1
      /\ start'.waited = start.waited + start.delay /\ start'.delay = 0
      /\ \A f \in StartFields \ {"stage", "attempt", "waited", "delay"} : start'[f] = start[f]
  BY <1>0, <1>1, <1>2 DEF StartFields
<1>5. /\ start'.answers = start.answers /\ start'.failed = start.failed
      /\ start'.last_response = start.last_response /\ start'.last_err = start.last_err
      /\ start'.result = start.result /\ start'.candidates = start.candidates
  BY <1>4 DEF StartFields
<1>6. StartUpTypeOK'
  <2>1. start.attempt + 1 \in 0..MAX_RETRIES
    BY <1>2 DEF MAX_RETRIES
  <2>2. start.waited + start.delay \in Nat
    BY <1>2, PausesAdd
  <2>3. start'.attempt \in 0..MAX_RETRIES /\ {start'.delay, start'.waited} \subseteq Nat
    BY <1>4, <2>1, <2>2
  <2> QED
    BY <1>1, <1>4, <1>5, <2>3 DEF StartInv, StartUpTypeOK
<1>7. (start = [f \in StartFields |-> start[f]])'
  BY <1>0, <1>1, <1>2 DEF StartFields
<1>8. Retried'
  BY <1>1, <1>2, <1>4, <1>5 DEF StartInv, Retried, MAX_RETRIES
<1>9. PausesAreBounded'
  BY <1>3, <1>4 DEF PausesAreBounded, MAX_RETRY_AFTER_MS
<1>10. CandidatesRemain' /\ ClientIsVerified'
  BY <1>1, <1>4, <1>5 DEF StartInv, CandidatesRemain, ClientIsVerified
<1> QED
  BY <1>6, <1>7, <1>8, <1>9, <1>10 DEF StartInv

\* The list of routers comes from a good answer.
LEMMA DiscoverStartInv == StartInv /\ Discover => StartInv'
<1> SUFFICES ASSUME StartInv, Discover PROVE StartInv'
  OBVIOUS
<1>1. PICK answer \in start.result :
        start' = [start EXCEPT !.stage = "verify", !.result = {},
                               !.candidates = routers(answer) \o <<DEFAULT_ROUTER>>]
  BY DEF Discover
<1>2. /\ start = [f \in StartFields |-> start[f]] /\ start.stage = "answered"
      /\ start.answers \in Seq(Answers) /\ start.answers # <<>>
      /\ answer = Last(start.answers) /\ answer \in Answers
      /\ start.failed = <<>> /\ UNCHANGED client
  BY <1>1 DEF Discover, StartInv, StartUpTypeOK, Retried, CandidatesRemain
<1> DEFINE candidates == routers(answer) \o <<DEFAULT_ROUTER>>
<1>3. candidates \in Seq(Hosts) /\ candidates # <<>> /\ <<>> \o candidates = candidates
  BY <1>2, RoutersType, DiscoveryAssumption
<1> HIDE DEF candidates
<1>4. candidates = Told
  BY <1>2 DEF candidates, Told
<1>5. start' = [start EXCEPT !.stage = "verify", !.result = {}, !.candidates = candidates]
  BY <1>1 DEF candidates
<1>6. Told' = Told
  BY <1>2, <1>5 DEF Told, StartFields
<1> QED
  BY <1>2, <1>3, <1>4, <1>5, <1>6
     DEF StartInv, StartFields, StartUpTypeOK, Retried, PausesAreBounded, CandidatesRemain,
         ClientIsVerified

\* Routers are tried from the front of the list.
LEMMA TryRouterStartInv == StartInv /\ TryRouter => StartInv'
<1> SUFFICES ASSUME StartInv, TryRouter PROVE StartInv'
  OBVIOUS
<1>1. /\ start = [f \in StartFields |-> start[f]] /\ start.stage = "verify"
      /\ start.candidates \in Seq(Hosts) /\ start.candidates # <<>>
      /\ start.failed \in Seq(Hosts) /\ client = None
      /\ start.failed \o start.candidates = Told
  BY DEF TryRouter, StartInv, StartUpTypeOK, CandidatesRemain, ClientIsVerified
<1> DEFINE head == Head(start.candidates)
<1>2. head \in Hosts
  BY <1>1
<1> HIDE DEF head
<1>3. ASSUME NEW key \in Genuine, head \in CertifiedFor[key],
             client' = [host |-> head, key |-> key], start' = Idle
      PROVE  StartInv'
  <2>1. client' \in Clients /\ client' # None
    BY <1>2, <1>3, DiscoveryAssumption DEF Clients
  <2>2. start' = [ stage |-> "idle", attempt |-> 0, last_response |-> {}, last_err |-> {},
                   delay |-> 0, waited |-> 0, result |-> {}, answers |-> <<>>,
                   candidates |-> <<>>, failed |-> <<>> ]
    BY <1>3 DEF Idle
  <2>3. StartUpTypeOK'
    BY <2>1, <2>2 DEF StartUpTypeOK, MAX_RETRIES
  <2>4. (start = [f \in StartFields |-> start[f]])'
    BY <2>2 DEF StartFields
  <2>5. Retried' /\ PausesAreBounded' /\ CandidatesRemain'
    BY <2>2 DEF Retried, PausesAreBounded, CandidatesRemain, MAX_RETRY_AFTER_MS
  <2>6. ClientIsVerified'
    BY <1>3, <2>1, <2>2 DEF ClientIsVerified
  <2> QED
    BY <2>3, <2>4, <2>5, <2>6 DEF StartInv
<1>4. ASSUME UNCHANGED client,
             start' = [start EXCEPT !.stage = IF Len(start.candidates) = 1
                                              THEN "failed" ELSE "verify",
                                    !.candidates = Tail(@),
                                    !.failed = Append(@, head)]
      PROVE  StartInv'
  <2> DEFINE stage == IF Len(start.candidates) = 1 THEN "failed" ELSE "verify"
             rest == Tail(start.candidates)
             failed == Append(start.failed, head)
  <2>1. rest \in Seq(Hosts) /\ failed \in Seq(Hosts)
    BY <1>1, <1>2
  <2>2. stage = "verify" => rest # <<>>
    BY <1>1, MoveHead
  <2>3. failed \o rest = Told
    BY <1>1, MoveHead DEF head
  <2>4. start' = [start EXCEPT !.stage = stage, !.candidates = rest, !.failed = failed]
        /\ stage \in {"failed", "verify"}
    BY <1>1, <1>4 DEF StartFields
  <2> HIDE DEF stage, rest, failed
  <2>5. Told' = Told
    BY <1>1, <2>4 DEF Told, StartFields
  <2>6. /\ start'.stage = stage /\ start'.candidates = rest /\ start'.failed = failed
        /\ \A f \in StartFields \ {"stage", "candidates", "failed"} : start'[f] = start[f]
    BY <1>1, <2>4 DEF StartFields
  <2>7. /\ start'.attempt = start.attempt /\ start'.answers = start.answers
        /\ start'.last_response = start.last_response /\ start'.last_err = start.last_err
        /\ start'.result = start.result /\ start'.delay = start.delay
        /\ start'.waited = start.waited
    BY <2>6 DEF StartFields
  <2>8. StartUpTypeOK'
    BY <1>4, <2>1, <2>4, <2>6, <2>7 DEF StartInv, StartUpTypeOK
  <2>9. (start = [f \in StartFields |-> start[f]])'
    BY <1>1, <2>4 DEF StartFields
  <2>10. Retried' /\ PausesAreBounded'
    BY <1>1, <2>4, <2>6, <2>7 DEF StartInv, Retried, PausesAreBounded
  <2>11. CandidatesRemain'
    BY <2>2, <2>3, <2>4, <2>5, <2>6, <2>7, <1>1 DEF StartInv, CandidatesRemain
  <2>12. ClientIsVerified'
    BY <1>1, <1>4, <2>4, <2>6 DEF StartInv, ClientIsVerified
  <2> QED
    BY <2>8, <2>9, <2>10, <2>11, <2>12 DEF StartInv
<1> QED
  BY <1>3, <1>4 DEF TryRouter, head

\* Every step of the start-up keeps its invariant.
LEMMA StartUpStartInv == StartInv /\ (StartUp \/ UNCHANGED <<start, client>>) => StartInv'
<1>1. StartInv /\ UNCHANGED <<start, client>> => StartInv'
  BY DEF StartInv, StartUpTypeOK, Retried, PausesAreBounded, CandidatesRemain,
         ClientIsVerified, Told
<1> QED
  BY <1>1, AttemptStartInv, WakeStartInv, DiscoverStartInv, TryRouterStartInv DEF StartUp

-----------------------------------------------------------------------------
(* The requests                                                            *)

\* All that the invariant says of the requests.
RequestInv ==
  /\ source \in Sources
  /\ request.path \in {"none", "typed", "relaxed", "raw"}
  /\ request.stage \in {"idle", "attempt", "send", "sent"}
  /\ request.url \in Urls \cup {None}
  /\ request.server \in Servers \cup {None}
  /\ request.attempt \in 0..MaxAttempts
  /\ request.hops \in 0..MaxHops
  /\ request.since \subseteq Sources
  /\ request = [f \in RequestFields |-> request[f]]
  /\ HopsAreAtTheOrigin

\* The invariant says one thing of the start-up and one of the requests.
LEMMA SplitIInv == IInv <=> StartInv /\ RequestInv
BY DEF IInv, StartInv, RequestInv, TypeOK, Shapes

\* The verified origin is a URL of a verified client.
LEMMA OriginIsUrl ==
  ASSUME StartInv, client # None
  PROVE  base_url(client.host) \in Urls
BY SessionAssumption DEF StartInv, StartUpTypeOK, Clients, base_url, Urls

\* Without a request there is nothing to say of it.
LEMMA NoRequestInv ==
  ASSUME source' \in Sources, request' = NoRequest
  PROVE  RequestInv'
<1>1. request' = [ path |-> "none", stage |-> "idle", asked |-> None_asked,
                   message |-> None_asked, url |-> None, server |-> None,
                   attempt |-> 0, hops |-> 0, since |-> {} ]
  BY DEF NoRequest
<1>2. (request = [f \in RequestFields |-> request[f]])'
  BY <1>1 DEF RequestFields
<1>3. /\ request'.path = "none" /\ request'.stage = "idle" /\ request'.url = None
      /\ request'.server = None /\ request'.attempt = 0 /\ request'.hops = 0
      /\ request'.since = {}
  BY <1>1
<1>4. 0 \in 0..MaxAttempts /\ 0 \in 0..MaxHops
  BY SessionAssumption
<1> QED
  BY <1>2, <1>3, <1>4 DEF RequestInv, HopsAreAtTheOrigin

\* A request may begin with no URL, or at the verified origin.
LEMMA BeginInv ==
  ASSUME StartInv, RequestInv, Ready,
         NEW path \in {"typed", "relaxed", "raw"}, NEW stage, NEW asked, NEW message, NEW url,
         \/ stage = "attempt" /\ url = None
         \/ stage = "send" /\ url = base_url(client.host),
         Begin(path, stage, asked, message, url)
  PROVE  RequestInv'
<1>1. request' = [ path |-> path, stage |-> stage, asked |-> asked, message |-> message,
                   url |-> url, server |-> None, attempt |-> 1, hops |-> 0,
                   since |-> {source} ]
  BY DEF Begin, NoRequest
<1>2. (request = [f \in RequestFields |-> request[f]])'
  BY <1>1 DEF RequestFields
<1>3. url \in Urls \cup {None} /\ client # None
  BY OriginIsUrl DEF Ready
<1>4. {source} \subseteq Sources /\ UNCHANGED <<source, client>>
  BY DEF RequestInv, Begin
<1> QED
  BY <1>1, <1>2, <1>3, <1>4, SessionAssumption DEF RequestInv, HopsAreAtTheOrigin

\* Every step keeps what is said of requests.
LEMMA NextRequestInv ==
  ASSUME StartInv, RequestInv, [Next]_vars
  PROVE  RequestInv'
<1>0. request = [f \in RequestFields |-> request[f]]
  BY DEF RequestInv
<1>1. CASE StartUp /\ UNCHANGED <<source, request>>
  \* A client appears while there is no request.
  <2>1. start.stage # "idle"
    BY <1>1 DEF StartUp, Attempt, Wake, Discover, TryRouter
  <2>2. request.stage = "idle"
    BY <2>1 DEF StartInv, ClientIsVerified, RequestInv, HopsAreAtTheOrigin
  <2> QED
    BY <1>1, <2>2 DEF RequestInv, HopsAreAtTheOrigin
<1>2. CASE SendTyped
  <2>1. PICK asked \in TypedRequests : Begin("typed", "attempt", asked, asked, None)
    BY <1>2 DEF SendTyped
  <2>2. Ready
    BY <1>2 DEF SendTyped
  <2> QED
    BY <2>1, <2>2, BeginInv
<1>3. CASE Build
  <2> DEFINE message == IF source = {} THEN request.asked
                        ELSE provision_request(request.asked, CHOOSE s \in source : TRUE)
  <2>1. request' = [request EXCEPT !.stage = "send", !.url = base_url(client.host),
                                   !.message = message]
        /\ request.stage = "attempt" /\ UNCHANGED <<source, client>>
    BY <1>3 DEF Build
  <2>2. client # None
    BY <2>1 DEF RequestInv, HopsAreAtTheOrigin
  <2>3. base_url(client.host) \in Urls
    BY <2>2, OriginIsUrl
  <2> HIDE DEF message
  <2> QED
    BY <1>0, <2>1, <2>2, <2>3 DEF RequestInv, RequestFields, HopsAreAtTheOrigin
<1>4. CASE SendRelaxed
  BY <1>4, BeginInv DEF SendRelaxed
<1>5. CASE SendRaw
  <2>1. PICK asked \in RawRequests, url \in Urls :
          request_origin_matches(url) /\ Begin("raw", "send", asked, asked, url)
    BY <1>5 DEF SendRaw
  <2>2. url = base_url(client.host) /\ Ready
    BY <1>5, <2>1 DEF SendRaw, request_origin_matches
  <2> QED
    BY <2>1, <2>2, BeginInv
<1>6. CASE Transmit
  <2>1. PICK server \in Servers :
          /\ verify_server_cert(request.url.host, server)
          /\ request' = [request EXCEPT !.stage = "sent", !.server = server]
    BY <1>6 DEF Transmit
  <2>2. server = client.key /\ request.stage = "send" /\ UNCHANGED <<source, client>>
    BY <1>6, <2>1 DEF Transmit, verify_server_cert
  <2> QED
    BY <1>0, <2>1, <2>2 DEF RequestInv, RequestFields, HopsAreAtTheOrigin
<1>7. CASE FollowRedirect
  <2>1. PICK url \in Urls, again \in BOOLEAN :
          request_origin_matches(url) /\ request' = Redirected(url, again)
    BY <1>7 DEF FollowRedirect
  <2>2. url = base_url(client.host) /\ request.stage = "sent" /\ request.hops < MaxHops
        /\ UNCHANGED <<source, client>>
    BY <1>7, <2>1 DEF FollowRedirect, request_origin_matches
  <2> DEFINE message ==
        IF again THEN request.message
        ELSE [request.message EXCEPT !.method = "GET", !.carries = "nothing",
                                     !.content = <<>>, !.content_length = {}]
  <2>3. request' = [request EXCEPT !.stage = "send", !.url = url, !.server = None,
                                   !.hops = @ + 1, !.message = message]
    BY <1>0, <2>1 DEF Redirected, RequestFields
  <2> HIDE DEF message
  <2>4. request.hops + 1 \in 0..MaxHops /\ client # None
    BY <2>2, SessionAssumption DEF RequestInv, HopsAreAtTheOrigin
  <2> QED
    BY <1>0, <2>2, <2>3, <2>4 DEF RequestInv, RequestFields, HopsAreAtTheOrigin
<1>8. CASE Finish
  BY <1>8, NoRequestInv DEF Finish, RequestInv
<1>9. CASE Retry
  <2>1. request' = [request EXCEPT !.stage = "attempt", !.url = None, !.server = None,
                                   !.attempt = @ + 1, !.hops = 0, !.since = {source}]
        /\ request.stage \in {"send", "sent"} /\ request.attempt < MaxAttempts
        /\ UNCHANGED <<source, client>>
    BY <1>9 DEF Retry
  <2>2. request.attempt + 1 \in 0..MaxAttempts
    BY <2>1, SessionAssumption DEF RequestInv
  <2>3. client # None /\ 0 \in 0..MaxHops /\ {source} \subseteq Sources
    BY <2>1, SessionAssumption DEF RequestInv, HopsAreAtTheOrigin
  <2>4. /\ request'.stage = "attempt" /\ request'.url = None /\ request'.server = None
        /\ request'.attempt = request.attempt + 1 /\ request'.hops = 0
        /\ request'.since = {source} /\ request'.path = request.path
        /\ request' = [f \in RequestFields |-> request'[f]]
    BY <1>0, <2>1 DEF RequestFields
  <2> QED
    BY <2>1, <2>2, <2>3, <2>4 DEF RequestInv, HopsAreAtTheOrigin
<1>10. CASE ReplaceSecret
  <2>1. PICK new \in Sources \ {source} :
          /\ source' = new
          /\ request' = IF request.stage = "attempt"
                        THEN [request EXCEPT !.since = @ \cup {new}] ELSE request
    BY <1>10 DEF ReplaceSecret
  <2> QED
    BY <1>0, <1>10, <2>1 DEF ReplaceSecret, RequestInv, RequestFields, HopsAreAtTheOrigin
<1>11. CASE UNCHANGED vars
  BY <1>11 DEF vars, RequestInv, HopsAreAtTheOrigin
<1> QED
  BY <1>1, <1>2, <1>3, <1>4, <1>5, <1>6, <1>7, <1>8, <1>9, <1>10, <1>11 DEF Next

\* The strengthening holds at first and every step keeps it.
THEOREM Inductive == Spec => []IInv
<1>1. Init => IInv
  <2> SUFFICES ASSUME Init PROVE StartInv /\ RequestInv
    BY SplitIInv
  <2>1. StartInv
    BY InitStartInv DEF Init
  <2>2. request = [ path |-> "none", stage |-> "idle", asked |-> None_asked,
                    message |-> None_asked, url |-> None, server |-> None,
                    attempt |-> 0, hops |-> 0, since |-> {} ]
    BY DEF Init, NoRequest
  <2>3. request = [f \in RequestFields |-> request[f]]
    BY <2>2 DEF RequestFields
  <2> QED
    BY <2>1, <2>2, <2>3, SessionAssumption DEF Init, RequestInv, HopsAreAtTheOrigin
<1>2. IInv /\ [Next]_vars => IInv'
  <2> SUFFICES ASSUME StartInv, RequestInv, [Next]_vars PROVE StartInv' /\ RequestInv'
    <3>1. IInv <=> StartInv /\ RequestInv
      BY SplitIInv
    <3>2. IInv' <=> StartInv' /\ RequestInv'
      BY SplitIInv, PTL
    <3> QED
      BY <3>1, <3>2
  <2>1. StartUp \/ UNCHANGED <<start, client>>
    BY DEF Next, vars, SendTyped, Build, SendRelaxed, SendRaw, Begin, Transmit,
           FollowRedirect, Finish, Retry, ReplaceSecret
  <2> QED
    BY <2>1, StartUpStartInv, NextRequestInv
<1> QED
  BY <1>1, <1>2, PTL DEF Spec

-----------------------------------------------------------------------------
(* Bodies *)

JsonMember == [key : Seq(STRING), value : Seq(STRING), pad : Seq(STRING)]

\* Each name of an object stands for its one member.
LEMMA ReadingOfDistinct ==
  ASSUME NEW M, NEW members \in Seq(M),
         \A i, j \in DOMAIN members : Name(members[i].key) = Name(members[j].key) => i = j
  PROVE  /\ DOMAIN Reading(members) = {Name(members[i].key) : i \in DOMAIN members}
         /\ \A i \in DOMAIN members : Reading(members)[Name(members[i].key)] = members[i].value
         /\ Reading(members) = [n \in DOMAIN Reading(members) |-> Reading(members)[n]]
<1> DEFINE Names == {Name(members[i].key) : i \in DOMAIN members}
           IsLast(n, i) == /\ Name(members[i].key) = n
                           /\ \A j \in i + 1..Len(members) : Name(members[j].key) # n
           value(n) == LET last == CHOOSE i \in DOMAIN members : IsLast(n, i)
                       IN  members[last].value
<1>1. Reading(members) = [n \in Names |-> value(n)]
  BY DEF Reading
<1>2. ASSUME NEW i \in DOMAIN members
      PROVE  value(Name(members[i].key)) = members[i].value
  <2> DEFINE n == Name(members[i].key)
  <2>1. \A j \in i + 1..Len(members) : j \in DOMAIN members /\ j # i
    OBVIOUS
  <2>2. IsLast(n, i)
    BY <2>1
  <2>3. \A j \in DOMAIN members : IsLast(n, j) => j = i
    OBVIOUS
  <2>4. (CHOOSE j \in DOMAIN members : IsLast(n, j)) = i
    <3> HIDE DEF IsLast, n
    <3> QED BY <2>2, <2>3
  <2> HIDE DEF IsLast, n
  <2> QED BY <2>4 DEF n
<1> HIDE DEF value
<1> QED BY <1>1, <1>2

\* The edit of the object that provision_value makes of what a parser reads is
\* the one the splice is meant to make of its text.
LEMMA EditsAgree ==
  ASSUME NEW body \in Values, NEW secret, NEW stream, IsObject(body)
  PROVE  provision_value(force_stream(Reading(body.members), stream), secret) =
         force_stream(
           Reading((IF secret = {} THEN body
                    ELSE Scoped(body, CHOOSE x \in secret : TRUE)).members), stream)
<1> DEFINE members == body.members
           map == Reading(members)
           Stream == NameKey("stream")
           streamed == force_stream(map, stream)
           s == CHOOSE x \in secret : TRUE
           text == SecretText(s)
           here == Occurrences(body)
<1>0. /\ DOMAIN body = {"lead", "inner", "members", "tail"}
      /\ members \in Seq(JsonMember)
      /\ \A i, j \in DOMAIN members : Name(members[i].key) = Name(members[j].key) => i = j
  BY BodiesAssumption DEF JsonMember
<1>1. /\ DOMAIN map = {Name(members[i].key) : i \in DOMAIN members}
      /\ \A i \in DOMAIN members : map[Name(members[i].key)] = members[i].value
      /\ map = [n \in DOMAIN map |-> map[n]]
  BY <1>0, ReadingOfDistinct
<1>2. Name(FieldKey) = FieldKey /\ FieldKey # Stream
  BY DEF Name, FieldKey, NameKey, Field, Quote, Backslash
<1>3. here = {i \in DOMAIN members : Name(members[i].key) = FieldKey}
  BY DEF Occurrences
<1> HIDE DEF map, Stream, text, here, members
<1>4. /\ FieldKey \in DOMAIN streamed <=> FieldKey \in DOMAIN map
      /\ FieldKey \in DOMAIN map => streamed[FieldKey] = map[FieldKey]
  BY <1>2 DEF force_stream, Set, Stream
<1>5. Set(streamed, FieldKey, text) = force_stream(Set(map, FieldKey, text), stream)
  BY <1>2 DEF force_stream, Set, Stream
<1>6. FieldKey \in DOMAIN map <=> here # {}
  BY <1>1, <1>3
<1>7. CASE secret = {}
  BY <1>7 DEF provision_value, map, members
<1>8. CASE secret # {} /\ here = {}
  <2> DEFINE new == [key |-> FieldKey, value |-> text, pad |-> <<>>]
             longer == Append(members, new)
  <2>1. Scoped(body, s).members = longer
    <3>1. Cardinality(Occurrences(body)) # 1
      BY <1>8, FS_EmptySet DEF here
    <3>2. Scoped(body, s) = [body EXCEPT !.members = Append(@, new)]
      BY <1>8, <3>1 DEF Scoped, here, text
    <3> QED BY <1>0, <3>2 DEF members
  <2>2. /\ DOMAIN longer = DOMAIN members \cup {Len(members) + 1}
        /\ \A i \in DOMAIN members : longer[i] = members[i]
        /\ longer[Len(members) + 1] = new
    BY <1>0
  <2> HIDE DEF longer
  <2>3. Reading(longer) = Set(map, FieldKey, text)
    <3>1. longer \in Seq(JsonMember \cup {new})
      BY <1>0 DEF longer
    <3>2. \A i, j \in DOMAIN longer : Name(longer[i].key) = Name(longer[j].key) => i = j
      BY <1>0, <1>2, <1>3, <1>8, <2>2
    <3>3. /\ DOMAIN Reading(longer) = {Name(longer[i].key) : i \in DOMAIN longer}
          /\ \A i \in DOMAIN longer : Reading(longer)[Name(longer[i].key)] = longer[i].value
          /\ Reading(longer) = [n \in DOMAIN Reading(longer) |-> Reading(longer)[n]]
      BY <3>1, <3>2, ReadingOfDistinct
    <3>4. DOMAIN Reading(longer) = DOMAIN map \cup {FieldKey}
      BY <1>1, <1>2, <2>2, <3>3
    <3>5. Reading(longer)[FieldKey] = text
      BY <1>2, <2>2, <3>3
    <3>6. ASSUME NEW n \in DOMAIN map
          PROVE  Reading(longer)[n] = IF n = FieldKey THEN text ELSE map[n]
      <4>1. PICK i \in DOMAIN members : n = Name(members[i].key)
        BY <1>1
      <4>2. i \in DOMAIN longer /\ longer[i] = members[i]
        BY <2>2
      <4>3. Reading(longer)[n] = members[i].value /\ map[n] = members[i].value
        BY <1>1, <3>3, <4>1, <4>2
      <4> QED BY <3>5, <4>3
    <3> QED BY <3>3, <3>4, <3>5, <3>6 DEF Set
  <2>4. provision_value(streamed, secret) = Set(streamed, FieldKey, text)
    BY <1>4, <1>6, <1>8 DEF provision_value, text
  <2> QED BY <1>5, <1>8, <2>1, <2>3, <2>4 DEF map, members
<1>9. CASE secret # {} /\ here # {}
  <2>1. PICK i \in DOMAIN members : here = {i} /\ Name(members[i].key) = FieldKey
    BY <1>0, <1>3, <1>9
  <2>2. map[FieldKey] = members[i].value
    BY <1>1, <2>1
  <2> DEFINE edited == [k \in DOMAIN members |->
                          IF k \in here /\ members[k].value = Empty
                          THEN [members[k] EXCEPT !.value = text] ELSE members[k]]
  <2>3. Scoped(body, s).members = edited
    <3>1. Cardinality(Occurrences(body)) = 1
      BY <2>1, FS_Singleton DEF here
    <3>2. Scoped(body, s) =
            [body EXCEPT !.members =
               [k \in DOMAIN @ |-> IF k \in here /\ @[k].value = Empty
                                   THEN [@[k] EXCEPT !.value = text] ELSE @[k]]]
      BY <1>9, <3>1 DEF Scoped, here, text
    <3> QED BY <1>0, <3>2 DEF members
  <2>4. CASE members[i].value # Empty
    <3>1. edited = members
      BY <1>0, <2>1, <2>4
    <3>2. provision_value(streamed, secret) = streamed
      BY <1>4, <1>6, <1>9, <2>2, <2>4 DEF provision_value
    <3>3. Scoped(body, s).members = members
      BY <2>3, <3>1
    <3> QED BY <1>9, <3>2, <3>3 DEF map, members
  <2>5. CASE members[i].value = Empty
    <3> DEFINE filled == [members[i] EXCEPT !.value = text]
    <3>1. /\ DOMAIN edited = DOMAIN members
          /\ edited[i] = filled
          /\ \A k \in DOMAIN members : k # i => edited[k] = members[k]
      BY <2>1, <2>5
    <3>2. filled.value = text /\ filled.key = members[i].key
      BY <1>0 DEF JsonMember
    <3>3. edited \in Seq(JsonMember \cup {filled})
      <4>1. /\ \A k \in 1..Len(members) : edited[k] \in JsonMember \cup {filled}
            /\ Len(members) \in Nat /\ DOMAIN members = 1..Len(members)
        BY <1>0, <3>1
      <4>2. edited \in [1..Len(members) -> JsonMember \cup {filled}]
        BY <4>1
      <4> HIDE DEF edited
      <4> QED BY <4>1, <4>2
    <3> HIDE DEF edited, filled
    <3>4. \A k, l \in DOMAIN edited : Name(edited[k].key) = Name(edited[l].key) => k = l
      BY <1>0, <3>1, <3>2
    <3>5. /\ DOMAIN Reading(edited) = {Name(edited[k].key) : k \in DOMAIN edited}
          /\ \A k \in DOMAIN edited : Reading(edited)[Name(edited[k].key)] = edited[k].value
          /\ Reading(edited) = [n \in DOMAIN Reading(edited) |-> Reading(edited)[n]]
      BY <3>3, <3>4, ReadingOfDistinct
    <3>6. \A k \in DOMAIN members : Name(edited[k].key) = Name(members[k].key)
      BY <3>1, <3>2
    <3>7. DOMAIN Reading(edited) = DOMAIN map \cup {FieldKey}
      BY <1>1, <1>6, <1>9, <3>1, <3>5, <3>6
    <3>8. ASSUME NEW n \in DOMAIN map
          PROVE  Reading(edited)[n] = IF n = FieldKey THEN text ELSE map[n]
      <4>1. PICK k \in DOMAIN members : n = Name(members[k].key)
        BY <1>1
      <4>2. Reading(edited)[n] = edited[k].value /\ map[n] = members[k].value
        BY <1>1, <3>1, <3>5, <3>6, <4>1
      <4>3. k = i <=> n = FieldKey
        BY <1>0, <2>1, <4>1
      <4> QED BY <3>1, <3>2, <4>2, <4>3
    <3>9. Reading(edited) = Set(map, FieldKey, text)
      BY <1>6, <1>9, <3>5, <3>7, <3>8 DEF Set
    <3>10. provision_value(streamed, secret) = Set(streamed, FieldKey, text)
      BY <1>4, <1>6, <1>9, <2>2, <2>5 DEF provision_value, text
    <3> QED BY <1>5, <1>9, <2>3, <3>9, <3>10 DEF map, members
  <2> QED BY <2>4, <2>5
<1> QED BY <1>7, <1>8, <1>9

\* provision_request keeps the fields of a request, and its length true.
LEMMA ProvisionedMessage ==
  ASSUME NEW asked \in TypedRequests, NEW s
  PROVE  LET message == Provisioned(asked, s) IN
         /\ message = [f \in MessageFields |-> message[f]]
         /\ \A n \in message.content_length : n = Len(message.content)
<1>1. /\ asked = [f \in MessageFields |-> asked[f]]
      /\ \A n \in asked.content_length : n = Len(asked.content)
  BY BodiesAssumption DEF MessageFields, None_asked
<1> DEFINE secret == CHOOSE x \in s : TRUE
           injected == CHOOSE t \in inject_user_cache_secret(asked.body, secret) : TRUE
           spliced == [asked EXCEPT !.content = injected,
                                    !.content_length = {Len(injected) : n \in @}]
<1>2. Provisioned(asked, s) \in {asked, spliced}
  BY DEF Provisioned, provision_request
<1> HIDE DEF injected
<1>3. /\ spliced.content = injected
      /\ spliced.content_length = {Len(injected) : n \in asked.content_length}
      /\ spliced = [f \in MessageFields |-> spliced[f]]
  BY <1>1 DEF MessageFields
<1> HIDE DEF spliced
<1>4. \A n \in spliced.content_length : n = Len(spliced.content)
  BY <1>3
<1> QED BY <1>1, <1>2, <1>3, <1>4

\* A request that begins is the caller's, with a source of that moment.
LEMMA BeginBodies ==
  ASSUME NEW path \in {"typed", "relaxed", "raw"}, NEW stage, NEW asked, NEW message, NEW url,
         stage \in {"attempt", "send"},
         Begin(path, stage, asked, message, url)
  PROVE  /\ request'.path = path /\ request'.stage = stage
         /\ request'.asked = asked /\ request'.message = message
         /\ request'.since = {source} /\ source' = source
  BY DEF Begin, NoRequest

\* Relaxed requests carry the edit of their object.
LEMMA RelaxedBodies ==
  ASSUME RequestInv, SendRelaxed
  PROVE  BodiesAreTheCallers'
<1>1. PICK body \in Values, stream \in BOOLEAN :
        LET asked == [ None_asked EXCEPT
                         !.method = "POST", !.endpoint = "/chat/completions",
                         !.carries = "bytes", !.body = body, !.content = Text(body) ]
            map == Reading(body.members)
        IN  Begin("relaxed", "send", asked,
                  [ asked EXCEPT
                      !.content =
                        IF IsObject(body)
                        THEN provision_value(
                               force_stream(map, IF stream THEN "true" ELSE "false"),
                               source)
                        ELSE @ ],
                  base_url(client.host))
  BY DEF SendRelaxed
<1> DEFINE flag == IF stream THEN "true" ELSE "false"
           edited == provision_value(force_stream(Reading(body.members), flag), source)
           content == IF IsObject(body) THEN edited ELSE Text(body)
           asked == [ method |-> "POST", endpoint |-> "/chat/completions",
                      carries |-> "bytes", body |-> body, content |-> Text(body),
                      content_length |-> {} ]
           message == [ method |-> "POST", endpoint |-> "/chat/completions",
                        carries |-> "bytes", body |-> body, content |-> content,
                        content_length |-> {} ]
<1>2. Begin("relaxed", "send", asked, message, base_url(client.host))
  <2> DEFINE built == [ None_asked EXCEPT
                          !.method = "POST", !.endpoint = "/chat/completions",
                          !.carries = "bytes", !.body = body, !.content = Text(body) ]
  <2>1. built = asked
    <3>1. /\ built.method = "POST" /\ built.endpoint = "/chat/completions"
          /\ built.carries = "bytes" /\ built.body = body
          /\ built.content = Text(body) /\ built.content_length = {}
      BY DEF None_asked
    <3>2. built = [f \in MessageFields |-> built[f]]
      BY DEF None_asked, MessageFields
    <3>3. asked = [f \in MessageFields |-> asked[f]]
      BY DEF MessageFields
    <3>4. /\ asked.method = "POST" /\ asked.endpoint = "/chat/completions"
          /\ asked.carries = "bytes" /\ asked.body = body
          /\ asked.content = Text(body) /\ asked.content_length = {}
      OBVIOUS
    <3> HIDE DEF built, asked
    <3>5. \A f \in MessageFields : built[f] = asked[f]
      BY <3>1, <3>4 DEF MessageFields
    <3> QED BY <3>2, <3>3, <3>5
  <2>2. Begin("relaxed", "send", built,
              [ built EXCEPT !.content = IF IsObject(body) THEN edited ELSE @ ],
              base_url(client.host))
    BY <1>1
  <2> HIDE DEF built, edited
  <2>3. [ asked EXCEPT !.content = IF IsObject(body) THEN edited ELSE @ ] = message
    OBVIOUS
  <2> QED BY <2>1, <2>2, <2>3
<1> HIDE DEF asked, message
<1>3. /\ request'.path = "relaxed" /\ request'.stage = "send"
      /\ request'.asked = asked /\ request'.message = message
      /\ request'.since = {source} /\ source' = source
  BY <1>2, BeginBodies
<1> HIDE DEF content, edited
<1>4. /\ asked.body = body /\ asked.content = Text(body)
      /\ message.content = content /\ message.content_length = {}
      /\ message = [f \in MessageFields |-> message[f]]
  BY DEF asked, message, MessageFields
<1>5. flag \in {"true", "false"}
  OBVIOUS
<1> HIDE DEF flag
<1>6. content = IF ~IsObject(body) THEN Text(body)
                ELSE force_stream(
                       Reading((IF source = {} THEN body
                                ELSE Scoped(body, CHOOSE x \in source : TRUE)).members),
                       flag)
  BY EditsAgree DEF content, edited
<1>7. content \in RelaxedContents'
  BY <1>3, <1>4, <1>5, <1>6 DEF RelaxedContents
<1> QED BY <1>3, <1>4, <1>7 DEF BodiesAreTheCallers

\* Every step keeps the bodies of attempts under way the caller's.
LEMMA BodiesStay ==
  ASSUME RequestInv, BodiesAreTheCallers, [Next]_vars
  PROVE  BodiesAreTheCallers'
<1>0. request = [f \in RequestFields |-> request[f]]
  BY DEF RequestInv
<1>1. CASE UNCHANGED <<source, request>>
  BY <1>1 DEF BodiesAreTheCallers, RelaxedContents
<1>2. CASE SendTyped
  <2>1. PICK asked \in TypedRequests : Begin("typed", "attempt", asked, asked, None)
    BY <1>2 DEF SendTyped
  <2>2. /\ request'.path = "typed" /\ request'.stage = "attempt"
        /\ request'.asked = asked /\ request'.since = {source} /\ source' = source
    BY <2>1, BeginBodies
  <2> QED BY <2>2 DEF BodiesAreTheCallers
<1>3. CASE Build
  <2>1. /\ request.stage = "attempt" /\ request.path = "typed"
        /\ request.asked \in TypedRequests /\ source \in request.since
    BY <1>3 DEF Build, BodiesAreTheCallers
  <2> DEFINE message == Provisioned(request.asked, source)
  <2>2. request' = [request EXCEPT !.stage = "send", !.url = base_url(client.host),
                                   !.message = message]
    BY <1>3 DEF Build, Provisioned
  <2>3. /\ message = [f \in MessageFields |-> message[f]]
        /\ \A n \in message.content_length : n = Len(message.content)
    BY <2>1, ProvisionedMessage
  <2> HIDE DEF message
  <2>4. /\ request'.stage = "send" /\ request'.message = message
        /\ request'.path = "typed" /\ request'.asked = request.asked
        /\ request'.since = request.since
    BY <1>0, <2>1, <2>2 DEF RequestFields
  <2> QED BY <2>1, <2>3, <2>4 DEF BodiesAreTheCallers, message
<1>4. CASE SendRelaxed
  BY <1>4, RelaxedBodies
<1>5. CASE SendRaw
  <2>1. PICK asked \in RawRequests, url \in Urls : Begin("raw", "send", asked, asked, url)
    BY <1>5 DEF SendRaw
  <2>2. /\ request'.path = "raw" /\ request'.stage = "send"
        /\ request'.asked = asked /\ request'.message = asked
    BY <2>1, BeginBodies
  <2>3. /\ asked = [f \in MessageFields |-> asked[f]]
        /\ \A n \in asked.content_length : n = Len(asked.content)
    BY BodiesAssumption DEF MessageFields, None_asked
  <2> QED BY <2>2, <2>3 DEF BodiesAreTheCallers
<1>6. CASE Transmit
  <2>1. PICK server \in Servers : request' = [request EXCEPT !.stage = "sent", !.server = server]
    BY <1>6 DEF Transmit
  <2>2. /\ request.stage = "send" /\ request'.stage = "sent"
        /\ request'.message = request.message
        /\ request'.path = request.path /\ request'.asked = request.asked
        /\ request'.since = request.since
    BY <1>0, <1>6, <2>1 DEF Transmit, RequestFields
  <2> QED BY <2>2 DEF BodiesAreTheCallers, RelaxedContents
<1>7. CASE FollowRedirect
  <2>1. PICK url \in Urls, again \in BOOLEAN : request' = Redirected(url, again)
    BY <1>7 DEF FollowRedirect
  <2> DEFINE emptied == [request.message EXCEPT !.method = "GET", !.carries = "nothing",
                                                !.content = <<>>, !.content_length = {}]
  <2>2. request.stage = "sent"
    BY <1>7 DEF FollowRedirect
  <2>3. request' = [request EXCEPT !.stage = "send", !.url = url, !.server = None,
                                   !.hops = @ + 1,
                                   !.message = IF again THEN request.message ELSE emptied]
    BY <1>0, <2>1 DEF Redirected, RequestFields
  <2>4. request.message = [f \in MessageFields |-> request.message[f]]
    BY <2>2 DEF BodiesAreTheCallers
  <2>5. emptied.carries = "nothing" /\ emptied = [f \in MessageFields |-> emptied[f]]
    BY <2>4 DEF MessageFields
  <2> HIDE DEF emptied
  <2>6. /\ request'.stage = "send" /\ request'.message \in {request.message, emptied}
        /\ request'.path = request.path /\ request'.asked = request.asked
        /\ request'.since = request.since
    BY <1>0, <2>3 DEF RequestFields
  <2>7. CASE request'.message = emptied
    BY <2>5, <2>6, <2>7 DEF BodiesAreTheCallers
  <2>8. CASE request'.message = request.message
    BY <2>2, <2>6, <2>8 DEF BodiesAreTheCallers, RelaxedContents
  <2> QED BY <2>6, <2>7, <2>8
<1>8. CASE Finish
  <2>1. request'.path = "none" /\ request'.stage = "idle"
    BY <1>8 DEF Finish, NoRequest
  <2> QED BY <2>1 DEF BodiesAreTheCallers
<1>9. CASE Retry
  <2>1. /\ request' = [request EXCEPT !.stage = "attempt", !.url = None, !.server = None,
                                      !.attempt = @ + 1, !.hops = 0, !.since = {source}]
        /\ request.path = "typed" /\ source' = source
    BY <1>9 DEF Retry
  <2>2. /\ request'.stage = "attempt" /\ request'.since = {source}
        /\ request'.path = "typed" /\ request'.asked = request.asked
    BY <1>0, <2>1 DEF RequestFields
  <2> QED BY <2>1, <2>2 DEF BodiesAreTheCallers
<1>10. CASE ReplaceSecret
  <2>1. PICK new \in Sources \ {source} :
          /\ source' = new
          /\ request' = IF request.stage = "attempt"
                        THEN [request EXCEPT !.since = @ \cup {new}] ELSE request
    BY <1>10 DEF ReplaceSecret
  <2>2. CASE request.stage = "attempt"
    <3>1. /\ request'.stage = "attempt" /\ request'.since = request.since \cup {new}
          /\ request'.path = request.path /\ request'.asked = request.asked
      BY <1>0, <2>1, <2>2 DEF RequestFields
    <3> QED BY <2>1, <2>2, <3>1 DEF BodiesAreTheCallers
  <2>3. CASE request.stage # "attempt"
    <3>1. request' = request
      BY <2>1, <2>3
    <3> QED BY <2>3, <3>1 DEF BodiesAreTheCallers, RelaxedContents
  <2> QED BY <2>2, <2>3
<1> QED
  BY <1>1, <1>2, <1>3, <1>4, <1>5, <1>6, <1>7, <1>8, <1>9, <1>10 DEF Next, vars

-----------------------------------------------------------------------------
(* The properties                                                          *)

\* The start-up, the client, the source and the request are of their types.
THEOREM TypeCorrect == Spec => []TypeOK
<1>1. IInv => TypeOK
  BY DEF IInv
<1> QED
  BY <1>1, Inductive, PTL

\* fetch_with_retry: the last answer counts, retries follow the answers they are
\* for and no others, and the pauses are bounded whatever the server asks for.
THEOREM FetchEnds == Spec => []FetchEndsAsItsLastAttempt
<1>1. IInv => FetchEndsAsItsLastAttempt
  <2> SUFFICES ASSUME IInv PROVE FetchEndsAsItsLastAttempt
    OBVIOUS
  <2>1. /\ start.attempt \in 0..MAX_RETRIES /\ start.waited \in Nat /\ start.delay \in Nat
        /\ start.stage = "sleep" => start.attempt < MAX_RETRIES
        /\ start.delay <= MAX_RETRY_AFTER_MS /\ (start.stage # "sleep" => start.delay = 0)
        /\ start.waited <= start.attempt * MAX_RETRY_AFTER_MS
    BY DEF IInv, TypeOK, StartUpTypeOK, Retried, PausesAreBounded
  <2>2. start.waited + start.delay <= MAX_RETRIES * MAX_RETRY_AFTER_MS
    BY <2>1 DEF MAX_RETRIES, MAX_RETRY_AFTER_MS
  <2> QED
    BY <2>2 DEF IInv, Retried, FetchEndsAsItsLastAttempt
<1> QED
  BY <1>1, Inductive, PTL

\* Whatever path a request takes, whatever URL a caller gives, and however a
\* server redirects or a retry starts over, what is sent reaches the enclave
\* that was verified, at its origin.
THEOREM RequestsStayAtTheOrigin == Spec => []OnlyTheVerifiedOrigin
<1>1. IInv => OnlyTheVerifiedOrigin
  BY DEF IInv, HopsAreAtTheOrigin, ClientIsVerified, OnlyTheVerifiedOrigin
<1> QED
  BY <1>1, Inductive, PTL

\* new_default_client settles on the first router that verifies, and fails only
\* after the whole list and the default router failed.
THEOREM RoutersTakeTurns == Spec => EveryRouterGetsItsTurn
<1>1. IInv /\ [Next]_vars =>
        [ start.stage = "verify" /\ start'.stage # "verify" =>
            LET told == routers(Last(start.answers)) \o <<DEFAULT_ROUTER>>
            IN  IF client' = None THEN start'.failed = told
                ELSE /\ IsPrefix(start.failed, told)
                     /\ client'.host = told[Len(start.failed) + 1] ]_<<start, client>>
  <2> SUFFICES ASSUME IInv, [Next]_vars,
                      start.stage = "verify", start'.stage # "verify"
               PROVE  IF client' = None THEN start'.failed = Told
                      ELSE /\ IsPrefix(start.failed, Told)
                           /\ client'.host = Told[Len(start.failed) + 1]
    BY DEF Told
  <2>1. TryRouter
    BY DEF Next, vars, StartUp, Attempt, Wake, Discover, SendTyped, Build, SendRelaxed,
           SendRaw, Begin, Transmit, FollowRedirect, Finish, Retry, ReplaceSecret
  <2>2. /\ start = [f \in StartFields |-> start[f]]
        /\ start.candidates \in Seq(Hosts) /\ start.candidates # <<>>
        /\ start.failed \in Seq(Hosts) /\ client = None
        /\ start.failed \o start.candidates = Told
    BY DEF IInv, Shapes, TypeOK, StartUpTypeOK, CandidatesRemain, ClientIsVerified
  <2> DEFINE head == Head(start.candidates)
  <2>3. ASSUME NEW key, client' = [host |-> head, key |-> key]
        PROVE  /\ client' # None => client'.host = Told[Len(start.failed) + 1]
               /\ IsPrefix(start.failed, Told)
    BY <2>2, <2>3, MoveHead
  <2>4. CASE \E key \in Genuine : client' = [host |-> head, key |-> key]
    <3>1. client' # None
      <4>1. head \in Hosts
        BY <2>2
      <4> QED
        BY <2>4, <4>1, DiscoveryAssumption
    <3> QED
      BY <2>3, <2>4, <3>1
  <2>5. CASE /\ UNCHANGED client
             /\ start' = [start EXCEPT !.stage = IF Len(start.candidates) = 1
                                                 THEN "failed" ELSE "verify",
                                       !.candidates = Tail(@), !.failed = Append(@, head)]
    <3>1. Len(start.candidates) = 1 /\ start'.failed = Append(start.failed, head)
      BY <2>2, <2>5 DEF StartFields
    <3>2. start'.failed = Told
      BY <2>2, <3>1, MoveHead
    <3> QED
      BY <2>2, <2>5, <3>2
  <2> QED
    BY <2>1, <2>4, <2>5 DEF TryRouter
<1> QED
  BY <1>1, Inductive, PTL DEF Spec, EveryRouterGetsItsTurn

\* Every attempt of the typed path is made with a source of its own time, not with
\* one that was swapped away before it began (UserCacheSecretService).
THEOREM BodiesAreKept == Spec => []BodiesAreTheCallers
<1>1. Init => BodiesAreTheCallers
  BY DEF Init, NoRequest, BodiesAreTheCallers
<1>2. IInv /\ BodiesAreTheCallers /\ [Next]_vars => BodiesAreTheCallers'
  BY SplitIInv, BodiesStay
<1> QED
  BY <1>1, <1>2, Inductive, PTL DEF Spec

\* The relaxed path's edit is the one of the object, whatever the object and the
\* source are; raw requests arrive as they are, and lengths are true.
THEOREM OtherBodiesArrive == Spec => []RelaxedAndRawBodiesArrive
<1>1. BodiesAreTheCallers => RelaxedAndRawBodiesArrive
  BY DEF BodiesAreTheCallers, RelaxedAndRawBodiesArrive
<1> QED
  BY <1>1, BodiesAreKept, PTL
=============================================================================
