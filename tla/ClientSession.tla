---------------------------- MODULE ClientSession ----------------------------
(***************************************************************************)
(* A direct-mode Client from its start-up to its requests: the router it   *)
(* found and verified (RouterDiscovery), the body each request carries     *)
(* (BodyInjection), and the pinned transport of src/src/verifier/tls.rs,   *)
(* which follows redirects.  The user cache secret's source is swapped at  *)
(* any moment.                                                             *)
(*                                                                         *)
(* One request at a time, by one of three paths: typed (async-openai's     *)
(* retry layer around the injection), relaxed (post_json), and raw         *)
(* (http_client(), any URL).  The enclave is the verified one for as long  *)
(* as the session lasts; DirectClient has the rotations.                   *)
(***************************************************************************)
EXTENDS RouterDiscovery, BodyInjection

CONSTANTS
  Secrets,
  TypedRequests,   \* requests async-openai builds
  Values,          \* bodies given to the relaxed path
  RawRequests,
  Ports,
  DefaultPort,
  MaxAttempts,     \* tries of async-openai's retry layer
  MaxHops          \* bound on the redirects a server answers with

ASSUME SessionAssumption ==
  /\ DefaultPort \in Ports
  /\ MaxAttempts \in Nat \ {0} /\ MaxHops \in Nat

VARIABLES
  source,    \* what SharedUserCacheSecret's source answers: {} or {secret}
  request    \* the request under way

vars == <<start, client, source, request>>

Sources == {{}} \cup {{s} : s \in Secrets}
Urls == [scheme : {"https", "http"}, host : Hosts, port : Ports]

\* SecureClient::base_url.
base_url(host) == [scheme |-> "https", host |-> host, port |-> DefaultPort]

None_asked ==
  [ method |-> "GET", endpoint |-> "/", carries |-> "nothing", body |-> None,
    content |-> <<>>, content_length |-> {} ]

\* A request says of its own bytes how many they are, and an object that was
\* parsed has no name twice.
ASSUME BodiesAssumption ==
  /\ \A asked \in TypedRequests \cup RawRequests :
       /\ asked = [f \in DOMAIN None_asked |-> asked[f]]
       /\ asked.content_length \subseteq {Len(asked.content)}
  /\ \A body \in Values :
       LET members == body.members IN
       /\ DOMAIN body = {"lead", "inner", "members", "tail"}
       /\ members \in Seq([key : Seq(STRING), value : Seq(STRING), pad : Seq(STRING)])
       /\ \A i, j \in DOMAIN members : Name(members[i].key) = Name(members[j].key) => i = j

\* `asked` is the request as the caller built it and `message` as it is sent;
\* `since` is a ghost: the sources since the attempt began.
NoRequest ==
  [ path |-> "none", stage |-> "idle", asked |-> None_asked, message |-> None_asked,
    url |-> None, server |-> None, attempt |-> 0, hops |-> 0, since |-> {} ]

-----------------------------------------------------------------------------
(* The pinned transport                                                    *)

\* A mistake: the port is left out of the comparison.
request_origin_matches_host(url) ==
  url.scheme = "https" /\ url.host = client.host

request_origin_matches(url) == url = base_url(client.host)

\* PinnedCertVerifier: the verified server name, a chain of the CAs for it, and
\* the pinned key.
verify_server_cert(host, server) ==
  /\ host = client.host
  /\ host \in CertifiedFor[server]
  /\ server = client.key

\* One hop of one attempt reaches whoever answers for the host.
Transmit ==
  /\ request.stage = "send"
  /\ request.url.scheme = "https"           \* https_only
  /\ \E server \in Servers :
       /\ verify_server_cert(request.url.host, server)
       /\ request' = [request EXCEPT !.stage = "sent", !.server = server]
  /\ UNCHANGED <<start, client, source>>

\* A 307 or a 308 is followed with the body, if it can be sent again; any other
\* redirect with a GET and no body.
Redirected(url, again) ==
  [ request EXCEPT
      !.stage = "send", !.url = url, !.server = None, !.hops = @ + 1,
      !.message = IF again THEN @
                  ELSE [@ EXCEPT !.method = "GET", !.carries = "nothing",
                                 !.content = <<>>, !.content_length = {}] ]

\* The redirect policy follows within the verified origin, however often.
FollowRedirect ==
  /\ request.stage = "sent"
  /\ request.hops < MaxHops
  /\ \E url \in Urls, again \in BOOLEAN :
       /\ request_origin_matches(url)
       /\ again => request.message.carries # "stream"
       /\ request' = Redirected(url, again)
  /\ UNCHANGED <<start, client, source>>

-----------------------------------------------------------------------------
(* The three paths                                                         *)

Ready == client # None /\ request.stage = "idle"

Begin(path, stage, asked, message, url) ==
  /\ request' = [ NoRequest EXCEPT
                    !.path = path, !.stage = stage, !.asked = asked,
                    !.message = message, !.url = url, !.attempt = 1,
                    !.since = {source} ]
  /\ UNCHANGED <<start, client, source>>

\* async-openai calls the retry layer with a factory of requests.
SendTyped ==
  Ready /\ \E asked \in TypedRequests : Begin("typed", "attempt", asked, asked, None)

\* UserCacheSecretService: every attempt builds the request anew and asks the
\* source of that moment.
Build ==
  /\ request.stage = "attempt"
  /\ request' = [ request EXCEPT
                    !.stage = "send", !.url = base_url(client.host),
                    !.message =
                      IF source = {} THEN request.asked
                      ELSE provision_request(request.asked,
                                             CHOOSE s \in source : TRUE) ]
  /\ UNCHANGED <<start, client, source>>

\* RelaxedChat::create and create_stream; what is not an object is left alone.
SendRelaxed ==
  Ready /\ \E body \in Values, stream \in BOOLEAN :
    LET asked == [ None_asked EXCEPT
                     !.method = "POST", !.endpoint = "/chat/completions",
                     !.carries = "bytes", !.body = body,
                     !.content = Text(body) ]
        map == Reading(body.members)
    IN  Begin("relaxed", "send", asked,
              [ asked EXCEPT
                  !.content =
                    IF IsObject(body)
                    THEN provision_value(
                           force_stream(map, IF stream THEN "true" ELSE "false"),
                           source)
                    ELSE @ ],
              base_url(client.host))

\* OriginBoundClient: its middleware looks at the URL before anything is sent.
SendRaw ==
  Ready /\ \E asked \in RawRequests, url \in Urls :
    /\ request_origin_matches(url)
    /\ Begin("raw", "send", asked, asked, url)

\* An answer the caller gets, an error that no one retries, or the caller
\* drops the future.
Finish ==
  /\ request.stage # "idle"
  /\ request' = NoRequest
  /\ UNCHANGED <<start, client, source>>

\* A connection that fails, a redirect elsewhere, a 429 or a 5xx: the retry
\* layer, on the typed path only, tries again.
Retry ==
  /\ request.stage \in {"send", "sent"}
  /\ request.path = "typed"
  /\ request.attempt < MaxAttempts
  /\ request' = [ request EXCEPT
                    !.stage = "attempt", !.url = None, !.server = None,
                    !.attempt = @ + 1, !.hops = 0,
                    !.since = {source} ]
  /\ UNCHANGED <<start, client, source>>

\* Client::with_user_cache_secret; a clone of the async-openai client may have
\* a request under way, on the same cell.
ReplaceSecret ==
  /\ client # None
  /\ \E new \in Sources \ {source} :
       /\ source' = new
       /\ request' = IF request.stage = "attempt"
                     THEN [request EXCEPT !.since = @ \cup {new}] ELSE request
  /\ UNCHANGED <<start, client>>

-----------------------------------------------------------------------------
Init ==
  /\ StartUpInit
  /\ source \in Sources
  /\ request = NoRequest

Next ==
  \/ StartUp /\ UNCHANGED <<source, request>>
  \/ SendTyped \/ Build \/ SendRelaxed \/ SendRaw
  \/ Transmit \/ FollowRedirect \/ Finish \/ Retry
  \/ ReplaceSecret

Spec == Init /\ [][Next]_vars

-----------------------------------------------------------------------------
(* Properties                                                              *)

TypeOK ==
  /\ StartUpTypeOK
  /\ source \in Sources
  /\ request.path \in {"none", "typed", "relaxed", "raw"}
  /\ request.stage \in {"idle", "attempt", "send", "sent"}
  /\ request.url \in Urls \cup {None}
  /\ request.server \in Servers \cup {None}
  /\ request.attempt \in 0..MaxAttempts
  /\ request.hops \in 0..MaxHops
  /\ request.since \subseteq Sources

\* "ALL requests are made through a TLS connection" to the verified enclave
\* (client.rs): whichever path a body takes, whatever URL the caller gives and
\* wherever a server redirects it, it reaches the enclave that was verified, at
\* the verified origin.
OnlyTheVerifiedOrigin ==
  request.stage = "sent" =>
    /\ request.server = client.key
    /\ client.key \in Genuine /\ client.host \in CertifiedFor[client.key]
    /\ request.url = base_url(client.host)

\* The bytes of the body with the secret of one of the sources since the
\* attempt began, or as they are when the request or its body is not eligible.
TypedContents ==
  LET eligible == /\ request.asked.method = "POST"
                  /\ request.asked.carries = "bytes"
                  /\ request.asked.endpoint \in USER_CACHE_SECRET_PATHS
  IN  { IF eligible /\ s # {}
        THEN Text(Scoped(request.asked.body, CHOOSE x \in s : TRUE))
        ELSE request.asked.content : s \in request.since }

\* The same edit of the same object, read by a parser, with `stream` set.
RelaxedContents ==
  { IF ~IsObject(request.asked.body) THEN request.asked.content
    ELSE force_stream(
           Reading((IF s = {} THEN request.asked.body
                    ELSE Scoped(request.asked.body, CHOOSE x \in s : TRUE)).members),
           stream) : s \in request.since, stream \in {"true", "false"} }

\* The relaxed path makes the same edit of the parsed object (provision_value)
\* and a raw request is sent as the caller built it, on its first hop and on
\* every one it is sent again; an explicit length is, on every path, that of the
\* bytes that are sent.
RelaxedAndRawBodiesArrive ==
  request.stage = "sent" /\ request.message.carries = "bytes" =>
    /\ request.path = "relaxed" => request.message.content \in RelaxedContents
    /\ request.path = "raw" => request.message = request.asked
    /\ \A n \in request.message.content_length : n = Len(request.message.content)

\* What a server reads is the caller's body with the secret added, or set when it
\* is empty, and nothing else changed: no value of the caller is lost or
\* overwritten however it is spelled, nested or escaped, and a swap of the source
\* holds from the next attempt on (inject_user_cache_secret).
RouterReadsTheCallersBody ==
  /\ request.stage = "sent" /\ request.message.carries = "bytes" /\ request.path = "typed" =>
       request.message.content \in TypedContents
  /\ RelaxedAndRawBodiesArrive

=============================================================================
