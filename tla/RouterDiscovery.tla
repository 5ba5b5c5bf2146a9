--------------------------- MODULE RouterDiscovery ---------------------------
(***************************************************************************)
(* How a client without a named enclave comes to one: the list of routers  *)
(* is fetched (src/src/discovery.rs) by the crate's retrying GET           *)
(* (src/src/verifier/util.rs), and the routers on it are verified in turn, *)
(* the default router last (SecureClient::new_default_client).             *)
(*                                                                         *)
(* A step is one await that is over: an answer, a pause, a verification.   *)
(* verify() is one step here, DirectClient has it in full: it succeeds     *)
(* only when a genuine enclave answers for the host, and may always fail.  *)
(***************************************************************************)
EXTENDS Integers, Sequences, SequencesExt

CONSTANTS
  Hosts,
  DEFAULT_ROUTER,
  Lists,          \* router lists the discovery endpoint may serve
  Servers,        \* machines that may answer for a host
  CertifiedFor,   \* server -> hosts its CA certificates name
  Genuine,        \* servers that are enclaves running released code
  RetryAfters,    \* Retry-After values in seconds, None for no usable header
  MaxU64,         \* stands for u64::MAX, where seconds * 1000 saturates
  None

ASSUME DiscoveryAssumption ==
  /\ DEFAULT_ROUTER \in Hosts
  /\ Lists \subseteq Seq(Hosts)
  /\ CertifiedFor \in [Servers -> SUBSET Hosts]
  /\ Genuine \subseteq Servers
  /\ MaxU64 \in Nat /\ \A seconds \in RetryAfters \ {None} : seconds \in 0..MaxU64
  /\ None \notin [host : Hosts, key : Servers]

MAX_RETRIES == 2
INITIAL_BACKOFF_MS == 500
MAX_RETRY_AFTER_MS == 10000

VARIABLES
  start,    \* the locals of new_default_client and of the calls under it
  client    \* the verified client: its host and the key it pins

Clients == [host : Hosts, key : Servers]

\* Answers to one GET.  "busy" is a 5xx or a 429, "refused" any other status
\* that is not a success, "garbled" a success whose body cannot be read or is
\* not a list, "error" a transport error.
Answers ==
  [kind : {"busy"}, retry_after : RetryAfters]
    \cup [kind : {"refused", "garbled", "error"}]
    \cup [kind : {"list"}, routers : Lists]

-----------------------------------------------------------------------------
(* fetch_with_retry                                                        *)

parse_retry_after(seconds) ==
  LET millis == IF seconds > MaxU64 \div 1000 THEN MaxU64 ELSE seconds * 1000
  IN  IF millis < MAX_RETRY_AFTER_MS THEN millis ELSE MAX_RETRY_AFTER_MS

\* How long the loop sleeps after an answer to attempt number `attempt`.
delay(attempt, answer) ==
  IF answer.kind = "busy" /\ answer.retry_after # None
  THEN parse_retry_after(answer.retry_after)
  ELSE INITIAL_BACKOFF_MS * 2 ^ attempt

\* A mistake: a transport error leaves the response of an earlier attempt.
Kept_stale(answer) ==
  IF answer.kind = "busy" THEN [last_response |-> {answer}, last_err |-> {}]
  ELSE [last_response |-> start.last_response, last_err |-> {answer}]

\* Only the last attempt counts: one of the two is empty.
Kept(answer) ==
  IF answer.kind = "busy" THEN [last_response |-> {answer}, last_err |-> {}]
  ELSE [last_response |-> {}, last_err |-> {answer}]

\* A mistake: one retry too many.
Attempt_once_more ==
  /\ start.stage = "fetch"
  /\ \E answer \in Answers :
       LET kept == Kept(answer)
           told == [start EXCEPT !.answers = Append(@, answer)]
       IN  start' =
             IF answer.kind \notin {"busy", "error"}
             THEN [told EXCEPT !.stage = "answered", !.result = {answer}]
             ELSE IF start.attempt <= MAX_RETRIES
             THEN [told EXCEPT !.stage = "sleep", !.delay = delay(start.attempt, answer),
                               !.last_response = kept.last_response,
                               !.last_err = kept.last_err]
             ELSE [told EXCEPT !.stage = "answered",
                               !.result = IF kept.last_response # {}
                                          THEN kept.last_response ELSE kept.last_err]
  /\ UNCHANGED client

\* One attempt is answered.  A status that is neither 5xx nor 429 ends the
\* loop; the last attempt ends it with what was kept, a response first.
Attempt ==
  /\ start.stage = "fetch"
  /\ \E answer \in Answers :
       LET kept == Kept(answer)
           told == [start EXCEPT !.answers = Append(@, answer)]
       IN  start' =
             IF answer.kind \notin {"busy", "error"}
             THEN [told EXCEPT !.stage = "answered", !.result = {answer}]
             ELSE IF start.attempt < MAX_RETRIES
             THEN [told EXCEPT !.stage = "sleep", !.delay = delay(start.attempt, answer),
                               !.last_response = kept.last_response,
                               !.last_err = kept.last_err]
             ELSE [told EXCEPT !.stage = "answered",
                               !.result = IF kept.last_response # {}
                                          THEN kept.last_response ELSE kept.last_err]
  /\ UNCHANGED client

Wake ==
  /\ start.stage = "sleep"
  /\ start' = [start EXCEPT !.stage = "fetch", !.attempt = @ + 1,
                            !.waited = @ + start.delay, !.delay = 0]
  /\ UNCHANGED client

-----------------------------------------------------------------------------
(* fetch_routers and new_default_client                                    *)

\* The list of an answer; fetch_routers is an error for every other answer.
routers(answer) == IF answer.kind = "list" THEN answer.routers ELSE <<>>

\* Without a list, and after all on it, the default router is the candidate.
Discover ==
  /\ start.stage = "answered"
  /\ \E answer \in start.result :
       start' = [start EXCEPT !.stage = "verify", !.result = {},
                              !.candidates = routers(answer) \o <<DEFAULT_ROUTER>>]
  /\ UNCHANGED client

\* Before the first await, and again when the future has returned.
Idle ==
  [ stage |-> "idle", attempt |-> 0, last_response |-> {}, last_err |-> {},
    delay |-> 0, waited |-> 0, result |-> {}, answers |-> <<>>,
    candidates |-> <<>>, failed |-> <<>> ]

\* A mistake: an error of one router is the error of the whole call.
TryRouter_firstError ==
  /\ start.stage = "verify"
  /\ \/ \E key \in Genuine :
          /\ Head(start.candidates) \in CertifiedFor[key]
          /\ client' = [host |-> Head(start.candidates), key |-> key]
          /\ start' = Idle
     \/ /\ start' = [start EXCEPT !.stage = "failed",
                                  !.failed = Append(@, Head(start.candidates))]
        /\ UNCHANGED client

\* The first candidate that verifies is the client's host.  Only the error of
\* the last one is returned.
TryRouter ==
  /\ start.stage = "verify"
  /\ \/ \E key \in Genuine :
          /\ Head(start.candidates) \in CertifiedFor[key]
          /\ client' = [host |-> Head(start.candidates), key |-> key]
          /\ start' = Idle
     \/ /\ start' = [start EXCEPT !.stage = IF Len(start.candidates) = 1
                                            THEN "failed" ELSE "verify",
                                  !.candidates = Tail(@),
                                  !.failed = Append(@, Head(start.candidates))]
        /\ UNCHANGED client

StartUpInit ==
  /\ start = [Idle EXCEPT !.stage = "fetch"]
  /\ client = None

StartUp == Attempt \/ Wake \/ Discover \/ TryRouter

-----------------------------------------------------------------------------
(* Properties                                                              *)

StartUpTypeOK ==
  /\ client \in Clients \cup {None}
  /\ start.stage \in {"fetch", "sleep", "answered", "verify", "failed", "idle"}
  /\ start.attempt \in 0..MAX_RETRIES
  /\ start.last_response \subseteq Answers /\ start.last_err \subseteq Answers
  /\ start.result \subseteq Answers
  /\ {start.delay, start.waited} \subseteq Nat
  /\ start.answers \in Seq(Answers)
  /\ {start.candidates, start.failed} \subseteq Seq(Hosts)

\* fetch_with_retry: its result is what the last attempt got, an error only
\* for a transport error, whatever the attempts before it got; another attempt
\* follows an answer worth a retry, and no other, until there have been three;
\* and the pauses, whose length the server may ask for, together never come to
\* more than MAX_RETRY_AFTER_MS for each retry there can be.
FetchEndsAsItsLastAttempt ==
  /\ start.stage = "answered" =>
       /\ start.result = {Last(start.answers)}
       /\ Last(start.answers).kind \in {"busy", "error"} =>
            Len(start.answers) = MAX_RETRIES + 1
  /\ \A i \in 1..Len(start.answers) - 1 : start.answers[i].kind \in {"busy", "error"}
  /\ start.waited + start.delay <= MAX_RETRIES * MAX_RETRY_AFTER_MS

\* new_default_client: the client is for the first router of the list that
\* verifies, and a start-up that fails has tried every router it was told of
\* and the default one, which it tries too when there is no list.
EveryRouterGetsItsTurn ==
  [][ start.stage = "verify" /\ start'.stage # "verify" =>
        LET told == routers(Last(start.answers)) \o <<DEFAULT_ROUTER>>
        IN  IF client' = None THEN start'.failed = told
            ELSE /\ IsPrefix(start.failed, told)
                 /\ client'.host = told[Len(start.failed) + 1] ]_<<start, client>>

=============================================================================
