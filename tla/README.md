# TLA+ verification of tinfoil-rs

tinfoil-rs is a client for language models that run inside attested enclaves.
It verifies an enclave (AMD SEV-SNP report, Sigstore provenance of the code,
TLS key binding) and then lets requests out over a transport bound to what it
verified: a TLS connection pinned to the attested key, or a proxy over which
bodies are sealed (EHBP) to the attested HPKE key. These modules model the
parts where order matters: what is trusted when, by whom, and what happens to
the requests in flight when trust changes.

Paths below are relative to `src/src/`. Source lines of every definition are in
`PROJECT.json` under `map`.

## Inventory

### EHBP proxy transport: `ehbp_transport.rs`
*State.* `EhbpChannel` behind an `RwLock` (client, key, rejected key, ground
truth, generation), a refresher behind another, a tokio mutex `refresh_lock`.
All clones of `EhbpProxy` share them.
*Operations.* `send`, `send_replayable` and the tower `call` (seal, send, on a
key mismatch refresh and retry once), `refresh_after_mismatch`, `rekey`,
`install_verified_state`, `revoke`, `set_refresher`, `lock_refresh`.
*Interactions.* Requests of the typed and relaxed paths use the channel
concurrently; `verify` replaces it; the refresher calls back into attestation.
*Hard.* State is read, the network awaited, and the state written again, with
every other caller between; futures are dropped at any await; mismatch reports
arrive late; the refresh lock is held over an attestation.
*Correct when* refreshes are serial, a mismatch is charged to the channel it
was met on, a refresh never overwrites newer trust or brings back the rejected
key, a closed channel sends nothing, a ground truth is the active key's, and
every request ends.

### Verified client: `client.rs`
*State.* `pinned_client`, `ground_truth`, `ehbp`, `pinned_measurement`; in
`Client` also the `openai` client built on the transport.
*Operations.* `verify` (takes the refresh lock in proxy mode, withdraws trust,
runs the pipeline, commits), `is_verified`, `ground_truth`, `http_client`,
`post_json`, the typed path through `Deref`.
*Interactions.* GitHub and Sigstore (`verifier/github.rs`,
`verifier/sigstore/`), the enclave's attestation document
(`verifier/attestation/`), a TLS probe (`verifier/tls.rs`).
*Hard.* Five awaits, between which releases are published and enclaves
replaced; failure or cancellation at each; two request paths.
*Correct when* a failed verification leaves the client closed, a successful
one commits a single release and a single enclave, requests only reach what
was verified, and the two paths agree.

### User cache secret: `user_cache_secret.rs`
*State.* `~/.tinfoil/user_cache_secret` and candidate files, shared by all
processes of a user; a static `OnceLock` per process; per client an
`RwLock<Arc<UserCacheSecret>>` with a `OnceLock` in it.
*Operations.* resolve (environment, file, generate and publish by
`hard_link`, fall back), memoise, replace the source, inject into bodies.
*Hard.* Processes race on first use, die between system calls, and file
operations fail one by one; builds on several threads share a cell. The
injection finds its place in the caller's bytes with a scanner of its own.
*Correct when* published secrets are whole and never replaced, all publishers
adopt one secret, one source yields one secret, candidates are removed, and the
body a router reads is the caller's with the secret added and nothing else
changed.

### Start-up: `discovery.rs`, `verifier/util.rs`, `SecureClient::new_default_client`
*State.* the loop variables of the retrying fetch and of the list of routers.
*Operations.* an attempt, a pause (`Retry-After` or a backoff), a verification
of the next router, the default router last.
*Hard.* An early answer and a late error, or the other way round; a server that
asks for a long pause; a list that is missing, empty or names the default.
*Correct when* the last attempt decides, pauses are bounded, and the client is
the first router's that verifies.

### Transport: `verifier/tls.rs`, `verifier/dcode.rs`, `relaxed.rs`
*State.* per client the pinned fingerprint, server name and origin.
*Operations.* the binding of a certificate to a document (keys and a hash in
DNS names), the handshake check, the origin middleware, the redirect policy.
*Hard.* Redirects, and URLs the caller gives; connections that reach another
machine with a valid certificate; chunks out of order among other names.
*Correct when* no byte leaves for anything but the verified enclave at the
verified origin, and every certificate an enclave may have is accepted.

### VCEK certificate cache: `verifier/attestation/sev/cert_chain.rs:15-120`
*State.* one file per chip and TCB level and one temporary path beside it.
*Operations.* read and parse, discard, fetch, write temporary, rename.
*Hard.* The temporary path is the same for every lookup of a certificate.
*Correct when* torn bytes are never used and do not stay.

### Provenance checks: `verifier/sigstore/`
*State.* none; the trust root is embedded.
*Operations.* one bundle's DSSE signature, certificate identity, Rekor entry
(`rekor.rs`, `checkpoint.rs`, `tsa.rs`), Merkle inclusion
(`merkle/proof_verification.rs`), Fulcio chain and SCTs, statement and digest.
*Hard.* A bundle is many signed parts, each sound on its own, that must be of
one signing event; the time that counts comes from the log or from a time
stamper; certificates live for minutes; proofs have sizes and sides.
*Correct when* an accepted bundle is one run of the release's workflow, signed
while its certificate was valid, and sound bundles are accepted.

### Attestation checks: `verifier/attestation/`
*State.* none; AMD's chain and its root key's fingerprint are embedded.
*Operations.* checks of one report, of the chip's certificate and of the
signature; comparison of measurements across platforms (`types.rs:65-188`).
*Hard.* Four firmware levels in a report with several parts each; the host
updates, commits and takes back firmware while it is verified.
*Correct when* the machine behind an accepted report meets the minimums, stays
there, and runs the code of the release with the keys the client is given.

### Event streams: `sse.rs`
*State.* a buffer of text and the bytes of an unfinished character.
*Operations.* a chunk, an error of the transport, the end of the stream.
*Hard.* Chunks cut events, line ends and characters anywhere; a size limit.
*Correct when* what is handed out depends on the body and not on the cuts.

### Conformance binary: `bin/conformance.rs`
*State.* none.
*Operations.* `verify-bundle`: arguments, then the checks of a bundle, with a
certificate or a key, of an envelope or a message.
*Hard.* It is a second verifier beside the library's, with an order and some
rules of its own, over the library's parts.
*Correct when* it accepts single signing events only, and what the library
accepts.

### Smaller parts
`verification_document.rs` shows a ground truth; `multimodal.rs` and `error.rs`
carry no state; `test_support.rs` and the tests are not part of the library.

The hazards each part is exposed to, with the properties that cover them, are
listed in `PROJECT.json`.

## Modules

| module | models | kind |
|---|---|---|
| `EhbpProxy` | `ehbp_transport.rs`: the channel and everything that touches it | component |
| `TrustCell` | what a client promises about trust, without locks or generations | abstract specification |
| `ProxyClient` | `client.rs` verify in proxy mode, EXTENDS `EhbpProxy` | composition |
| `DirectClient` | `client.rs` in direct mode with the pipeline and a changing world | component |
| `CacheSecret` | `user_cache_secret.rs` over processes and a file system | component |
| `VcekCache` | `fetch_vcek` and its files | component |
| `SseStream` | `sse.rs`: the parser over a body that arrives in chunks | component |
| `Merkle` | `merkle/`: inclusion proofs, and the tree of RFC 6962 | operators |
| `Provenance` | `sigstore/`: what `verify_repo` accepts; EXTENDS `Merkle` | operators |
| `SevAttestation` | `attestation/sev/`: what `verify_full` accepts | operators |
| `TlsBinding` | `dcode.rs`, `verify_tls_binding`, the verification document | operators |
| `Verifier` | `verify_attestation` with the world the evidence is from; EXTENDS the three above | composition |
| `Conformance` | `bin/conformance.rs`; INSTANCEs `Provenance` for the library's parts | operators |
| `CrossCheck` | the library and the binary over one bundle; EXTENDS `Verifier`, INSTANCEs `Conformance` | composition |
| `BodyInjection` | the scanner and splice of `user_cache_secret.rs`, and the edit it stands for | operators |
| `RouterDiscovery` | `util.rs`, `discovery.rs`, `new_default_client` | component |
| `ClientSession` | a client from start-up to its requests: `tls.rs`, the request paths, the secret's source; EXTENDS the two above | composition |
| `EhbpProxy_proofs`, `ProxyClient_proofs`, `DirectClient_proofs`, `CacheSecret_proofs`, `VcekCache_proofs`, `SseStream_proofs`, `ClientSession_proofs` | the theorems about the component of that name | proofs |
| `Verifier_proofs` | the theorems about `Verifier` and `CrossCheck` | proofs |
| `MC*` | instances for the model checker | instances |

Each component has one action for each step that other actors can get between:
an access under a lock, a file-system call, or the arrival of an answer. The
step's guard is the condition of the code at that point, including its early
returns. Keys, artifacts, secrets and certificates are model values or small
records. A definition named `X_...` that stands before a definition `X` is `X` as
a plausible mistake would have it. No specification uses these: each exists to
show that a property tells the code from the mistake.

### EhbpProxy
`channel` is `EhbpChannel`; `call[r]` holds a request's locals (the generation
it read, the client it cloned, the attested key it got) and the stage its
future is at. `ReadGeneration`, `Send`, `Mismatch`, `Lock`, `RejectSeen`,
`StartRefresh`, `FetchAttestation`, `InstallRefreshed`, `Resend` follow
`send_replayable` and `refresh_after_mismatch` line by line; `AlreadyReplaced`,
`SendRefused`, `BuildFails`, `AttemptFails`, `RefreshFails` are the early
returns; `Drop` cancels a future at an await and runs the guard's destructor.
`Revoke`, `Rekey`, `InstallVerifiedState`, `SetRefresher`, `LockRefresh` and
`DropGuard` are the crate's other calls. `RotateKey` is the enclave restarting.
A proxy may report a mismatch that is none: `Mismatch` does not need a rotated
key. Retries by async-openai's layer are new calls, so they are further
requests. Bodyless unauthenticated requests pass through in the clear by
design and are not modelled; `Bodyless` are the ones that carry an
`Authorization` header, which are refused. `RefreshOnlyReopens` says what the end
of a refresh may write over: the state the refresh left when it rejected the key,
told by the generation, and not one that was revoked or rejected again since.
`ClosedUntilFreshTrust` says the rest: nothing else opens a closed channel, so a
refresh that fails or is dropped leaves it closed. Under which key the replay is
then sealed is not part of either; it reads the channel again, and
`EhbpProxy_replay` shows what can come of that.

### ProxyClient and TrustCell
`verify` holds a `tokio` guard over `VerifyClear` (withdraw), `VerifyFetch`,
`VerifyInstall` and `VerifyReturn`; `VerifyGivesUp` and `VerifyDropped` leave it
early. `TrustCell` knows the trusted key or none, the keys attested since trust
was withdrawn, and the key each body in flight was sealed to. Its rules: trust
may be withdrawn at any time, and the evidence goes with it (`Withdraw`); a key
is attested only while nothing is trusted, and takes the place of earlier
evidence (`Attest`); only an attested key is trusted next, and only while nothing
is (`Grant`), so one key never replaces another directly; a body is sealed to
the trusted key or not at all (`Seal`). `ImplementsTrustCell` maps the channel's
client to the trusted key, and what a refresh or `verify` has attested and not
yet installed to the evidence.

### DirectClient
A step is one answer of the network: tag, digest, bundle, attestation document,
TLS probe. `Release`, `StartEnclave` and `StopEnclave` happen between them. An
artifact stands for its digest and its measurement; an enclave's number stands
for its keys and document, which are its own. Signatures and hardware reports
are sound. Two artifacts can carry one tag (a moved tag), so tag and digest are
checked apart, as the code does. The mirror may answer with any published tag,
digest and bundle, older ones too: the client keeps no memory of the release it
had, so that a verification never goes back to an older release is not a property
of this code and none is stated.

### CacheSecret
`file`, `temp`, `ephemeral`, `source`, `cell` are the files and cells above;
`build[r]` the locals of one request build. A step is one system call or one
use of a `OnceLock` or of the `RwLock`. `Fails` lets a system call fail, `Kill`
ends a process, `Foreign` is another tool writing or deleting the file. Random
secrets never collide: each is named by who drew it. `unremoved` is history: the
requests whose candidate `remove_file` failed on, and `CandidatesAreRemoved` says
that no other candidate stays, whichever of the calls before it failed.

### VcekCache
Paths name files and an open file outlives its name, so `path`, `content` and
`lookup[l].file` are kept apart. Contents are abstracted to a whole payload or
`Torn`. Overwriting another payload at offset 0 gives the new one or, when the
old one was longer, a torn one. A machine without a cache directory caches
nothing and shares nothing, so it is not modelled.

### SseStream
`status` is where the call or the stream is, `buffer` and `pending` are the
parser's text and its unfinished character, `yielded` what the caller got;
`body` is what arrived so far, as history. `Respond` is the response's head,
`Chunk` takes in any number of further bytes, `Fail` is an error of the
transport and `End` the end of the body with its last event. Bytes are symbols
for what the parser tells apart: line ends, data lines, and the two halves of a
character. `Chunk` decodes; the inner loop is `Cut`, one turn for each complete
event, with `TooLong` for the limit's two returns and `Await` for its end. The
properties read the values and the faults off the whole body, by positions, and
compare.

### Provenance, SevAttestation and Merkle
These are pure operators under the names of the functions they translate, in
the order of the code. Hashes, encodings and signatures are symbolic: a hash is
what was hashed and a signature is a key and what it is over, so a check that
compares the wrong thing, or nothing, is visible. A report and a certificate
are records of their fields; areas that must be zero are names in `nonzero`,
which is what the different report versions differ in. Parsing, and the
parameters of the signature schemes, are `complete` and `well_formed`.
Consistency proofs are left out: nothing calls them.

Two things a reader may not expect are in the code and so in the model. The
checkpoint's tree size is never compared with the proof's, and a proof can lead
to its root under another index and size: what is shown is that the entry is in
the log, not where. And the payload digest of a `hashedrekord` 0.0.1 entry is
not compared (`rekor.rs:660`); the entry's signature is the bundle's, and that
one is over the payload.

### TlsBinding
An enclave writes its HPKE key and its document's hash into DNS names of its
certificate, in pieces of base32 with an index. `decode_from_sans` passes over
names of another shape and refuses an index that stands twice; what the code
then sorts, the model reads off at each of the hundred indices in turn.
A value is two pieces, so a piece can be missing, twice, out of order, in the
wrong place or from elsewhere.

### Verifier
The client takes a release (`FetchRelease`) and its measurement from a bundle
(`FetchBundle`, `VerifyRepo`), or a measurement as pinned (`UsePinned`), fetches
a document (`FetchDoc`), checks report and measurement (`VerifyDoc`), makes a
second connection for the certificate (`Connect`) and gives its verdict
(`VerifyBinding`). A bundle has each of its eight parts from a workflow run;
`Bundles` are those of one run at every place of a log of up to six entries, and
those of the parts of two runs that `Mixes` pairs. The chip has a current and a
committed firmware and a reported level, which the host changes with `Load`,
`Commit` and `ReportLower`; `Launch` starts the guest. The host's actions are
enabled while the client waits for a document and after the verdict: while it
looks at a document it only reads what it holds, so the same changes after the
verdict lead to the same states. `origin`, `truth.report` and
`truth.certificate` are history: the runs an accepted bundle is of, and the
evidence that was accepted. The properties speak of the runs, the chip and the
guest, not of what the checks compared. A host may serve any of `HonestCerts`,
the guest's own certificate with its names in any order, or one of `TlsCerts`
whose names are names (`ServedCerts`). `CertificateHoldsBothValues` says what the
names of the accepted certificate spell (`Spells`): in the order of their
indices all pieces of the guest's key, and of the document's hash, no others,
and no index twice.

### Conformance and CrossCheck
`verify_bundle` is the binary's command on a list of words, a bundle and the
files on disk. Where the binary calls the library (`tsa.rs`, `rekor.rs`,
`checkpoint.rs`, `certificate.rs`, the Merkle proofs) the module uses
`Library!...`; where it has code of its own the module has it too. `CrossCheck`
gives every bundle of `Verifier` to the binary, as an envelope, as an envelope
with a second signature, and as a signature of the artifact itself, by commands
in several spellings. The two verifiers share no rule for the time that counts:
the library takes an observer's time, the binary the log's or the earliest
stamp's. `ToolAgreesWithTheLibrary` says where that shows in what this project's
release workflows leave in the log: the binary also wants the older log's time
within the certificate's validity when nobody vouches for that time. It says so
of the entries of the instance's runs, dsse 0.0.1 and hashedrekord of both
versions, with a promise that carries a signature or with none. On other
evidence the code's rules differ further, and no property says how: the binary
takes dsse 0.0.2 entries (`conformance.rs:575`, `840-877`) and intoto entries,
which the library refuses (`rekor.rs:140-147`); a promise without a signature is
refused by the library (`rekor.rs:205`) where the binary passes it over
(`conformance.rs:645`, `707`); and the library wants the predicate of its own
releases.

The binary differs from its comments in ways no property needs: "Every RFC 3161
timestamp must verify" (`conformance.rs:608`), but for an entry of the older log
stamps that do not verify are passed over; it prefers the first issuer
extension in the certificate; it looks at an envelope's first signature only;
it takes the artifact of a statement by a subject's name too; and options after
the artifact are not looked at. The model does what the code does.

### BodyInjection
Bytes are tokens for what the scanner tells apart: delimiters, a backslash, a
blank, the field's name, an escape in it, and a run of anything else. The
scanner (`skip_json_whitespace`, `json_string_end`, `json_value_end`,
`top_level_value_range`) works on the text of a body. A body is also given as
the members a JSON parser sees, and `Scoped` is the edit of these that the
splice stands for: add the field when it is missing, set it when it is empty,
else leave every byte. An object that says the field twice, or says it empty
under an escaped name, is covered.

### RouterDiscovery and ClientSession
`start` holds the locals of `new_default_client` and of the calls under it: the
attempt and what it kept (`Attempt`, `Kept`), the pause (`Wake`), the list and
the routers left to try (`Discover`, `TryRouter`). `verify()` is one step here,
which succeeds only with a genuine enclave that answers for the host.
`ClientSession` adds the requests of the verified client, one at a time by one
of three paths: `SendTyped` with a `Build` for each attempt of async-openai's
retry layer, `SendRelaxed` with its `stream` flag, and `SendRaw` with a URL of
the caller's. `Transmit` is a handshake with whoever answers for the host,
`FollowRedirect` the redirect policy, and `ReplaceSecret` swaps the source at
any moment. `since` is history: the sources since the attempt began.

## Runs

| run | question | bounds | states |
|---|---|---|---|
| `EhbpProxy_safety` | can interleaved requests, refreshes and administrative calls break the channel? | 3 requests (1 without a body), 2 usable keys and 1 unusable, 2 administrative calls | 0.6M |
| `EhbpProxy_replay` | *violated*: no body is replayed under the key just turned down | 2 requests | |
| `ProxyClient` | does trust stay withdrawn while and after `verify`, is the composition a trust cell, and does every call end? | 2 requests, 2 verifications (`MaxAdminCalls`), no other administrative calls | 0.2M |
| `CacheSecret` | do processes converge on one whole secret? | 2 processes with a client each, 3 builds, 1 replacement, 1 failure, 1 foreign change | 0.3M |
| `CacheSecret_firstuse` | *violated*: only an unusable home falls back | no failures at all | |
| `DirectClient_safety` | is what `verify` commits one release and one enclave? | 2 releases, 2 builds each, 3 enclaves, 2 verifications, 2 requests | 0.2M |
| `DirectClient_typed` | *violated*: an unverified client sends nothing | same | |
| `VcekCache` | can torn files be used or stay? | 2 lookups, repeated, 1 fault | 0.4M |
| `VcekCache_atomic` | *violated*: the entry is whole | 2 lookups, no fault | |
| `SseStream` | does the way a stream is cut matter? | every body of up to 7 bytes, every cut, events of up to 3 | 1.2M |
| `Verifier` | is accepted evidence of one timely run, and of a machine that is and stays what it said; is sound evidence accepted; does the binary agree? | 8 runs, 3 releases, logs of up to 6, 3 firmware images, 3 microcode levels, 7 guests, 5 chip and 13 TLS certificates, 4 artifacts | 0.2M |
| `ClientSession` | is the client the first router's that verifies, does anything leave its origin, and what does the router read? | 3 hosts, 3 router lists, 3 servers, 5 `Retry-After` values (one saturates), 3 answers of 5 kinds, some 600 bodies, 2 secrets, 2 attempts, 1 redirect, 2 ports | 1.0M |

Why the bounds are enough. Three requests are the least with which one request
refreshes, one waits for the lock with a mismatch of the same generation, and a
third meets a mismatch of a later one. Two usable keys give a change and a
change back. Two administrative calls fit around one await of a refresh. In
`DirectClient` two releases let the tag, the digest and the bundle be answered
from different ones, and an enclave replaced during the second verification needs
three. In `CacheSecret`
two builds share a cell and the third is the other process. In `VcekCache` a
third lookup only repeats what the second can do to the first's file.
In `SseStream` seven bytes hold two events and an unfinished third, either line
end, and a character cut in two; events may be longer than the limit of three.
In `Verifier` the first six runs are one for each kind of log entry, log key
and authority, and one each for what must be refused: signed late, another
repository's, certified by a retired authority; parts of three runs in one
bundle fail at the same comparisons as parts of two. The first five are mixed in
every pair and the other three with those they could be taken for (`MCMixes`). A
tree of six leaves has proofs with inner and border hashes on both sides. Two
further runs sign the artifact itself, one of them with a key of its own, for
the forms only the binary takes. Three images give one below the minimum and two
of the same security level with different builds, and three microcode levels
give one above the minimum that could make up for another part. The minimums of
the defaults are scaled down to these levels.
In `ClientSession` the lists are empty, name one router, or name two of which
the first has no enclave; a third server has certificates for every host and
runs no released code. Two secrets and two
attempts show a swap between attempts; one redirect reaches every URL of three
hosts, two ports and two schemes, and a second one starts from the same place.
Bodies have up to two members with every kind of value the scanner treats apart
(an escaped quote, an escaped backslash, brackets in strings, a nested object
with the field) under the field's name, its escaped spelling, and names that
only look like it. Requests are interchangeable in `EhbpProxy` and
`DirectClient`, and in `DirectClient` builds as well; their safety runs, which
have no liveness property, use symmetry.

`CHECK_DEADLOCK FALSE` stands in the runs of `CacheSecret`, `DirectClient`,
`Verifier` and `ClientSession`, where builds, calls or the world's changes are
finite and then nothing is left to do, or the client has refused, or found no
router, and is done. The others never stop.

### What the violated runs show
* `EhbpProxy_replay`: `send_replayable` reads the generation and then clones
  the client under a second lock. A refresh of another request that completes
  between gives it the new client with the old generation. If the enclave turns
  that key down too, `refresh_after_mismatch` takes the channel as already
  replaced and the body is sent again under the key just turned down. The test
  `key_mismatch_does_not_replay_without_an_attested_key_change` states that
  this does not happen; it runs one request.
* `CacheSecret_firstuse`: the secret file is read and then its absence checked.
  If another process publishes between, the path is neither readable as
  missing nor read: the process uses an in-memory secret although the home
  directory is healthy, against the doc comment of `load_or_generate`.
* `DirectClient_typed`: `Client::verify` replaces `openai` only after
  `SecureClient::verify` succeeded. After a failure the relaxed path refuses
  and the typed path goes on over the old pin. `DeliveredToVerifiedCode` still
  holds: the old pin only ever reaches an enclave that was verified.
* `VcekCache_atomic`: the cache write is called atomic, but the temporary path
  is shared, and one lookup truncates the file another renames into place.
  `UsedBytesWereServed` and `TornEntriesHeal` show that readers cope.

## Fairness
* `EhbpProxy`: weak fairness on the local steps of a request's future (the
  runtime polls it) and on the answer it awaits; strong fairness on taking the
  refresh lock, which tokio's mutex grants in the order of the waiters; weak
  fairness on dropping a held guard. That answers come is an assumption: neither
  the proxy client nor the attestation fetch sets a timeout, so with a peer that
  never answers the lock is held until the future is dropped.
* `ProxyClient`: the same, and weak fairness on the steps of `verify`, strong on
  its lock. `SentRequestsSettle` and `VerifyTerminates` are checked here, so
  with a verification in the way of the requests.
* `CacheSecret`: weak fairness on each build; its steps are synchronous.
* `VcekCache`: weak fairness on each lookup, including the network's answer and
  that the client verifies again; heals are claimed for clients that keep
  verifying.

`SseStream`, `Verifier` and `ClientSession` state safety only: that a start-up
ends cannot be claimed, as neither the fetches nor `verify` have a time limit.
No fairness is assumed of crashes, failures, administrative calls, key
rotations, releases or enclaves.

## Proofs
The theorems hold for every value of the constants: any number of requests,
processes, lookups, enclaves, runs or bodies, any sets of keys, and any bound on
failures and administrative calls. They assume what the modules state as
`ASSUME` about the constants, which TLC evaluates on every run. Most say that a
constant is a set of the right kind. The others are
* `PlatformAssumption`: the chip's firmware images have levels that do not fall
  from one release to the next, and the client's options forbid debugging, as
  their defaults do;
* `SigningAssumption`: no two runs and no two authorities share a key, and what
  an authority certifies of a run is true. The chain of signatures can show no
  more than this;
* `BodiesAssumption`: a request's length is that of its bytes, and a parsed
  object has no name twice;
* `BytesDiffer`: line ends, the halves of a character, the end marker and values
  are different bytes.

In every proof module `IInv` is the inductive invariant; `Inductive` shows that
it holds at first and that each action keeps it, and the theorems about the
runs' properties follow. Each `IInv` was also checked on the runs' instances.

`EhbpProxy_proofs`. The invariant `IInv` adds to the properties:
`ChannelAgrees` (client, key, rejected key and ground truth fit together),
`SeenIsPast` (generations a request holds are not ahead of the channel's) and
`RejectionIsPast` (a refresh in flight started from a rejection, and as long as
the generation is unchanged the rejected key is the one it was charged with).
Without them the properties are not inductive: that a refresh which finds its
generation unchanged may install its key needs that nothing else wrote the
channel since. The action properties follow from `IInv` on the left of a step:
`RefreshOutcome` says that a refresh which writes at its end found the generation
of its own rejection, and `RejectionIsPast` what the channel then holds.
Beside the properties of the runs it proves that at most one refresh is in its
critical section (`RefreshesAreSerialised`) and that the channel changes only
with its generation (`GenerationsIncrease`).

`ProxyClient_proofs`. `ClientIInv` adds that `verify` holds the lock from its
acquisition to its end (`VerifyHoldsLock`), so that no request is in its
critical section then (`VerifyWindow`), what it installed is still there
(`VerifyInstalled`), and that an unverified client's channel is closed unless a
verification is committing (`UnverifiedIsClosed`). The refinement is proved
action by action: every step of the composition is a step of `TrustCell` or
leaves its variables alone.

`DirectClient_proofs`. What reaches an enclave depends on pins that were made
long before, so `PinsAreVouched` says of every pin, of the two paths and of each
request, that its enclave runs vouched-for code, and `LocalsAgree` what `verify`
holds between its awaits: a tag and a digest that are published, code and
document that agree. `VouchedStays` is the reason why the
world may change meanwhile: enclaves and releases are added, never altered.

`VcekCache_proofs`. `FilesHoldAnswers` says of every file, whatever path leads to
it and whoever is writing, that it holds something that was served or is torn;
`HitsParsed` that what a lookup took from the disk parsed, which a torn file
does not.

`CacheSecret_proofs`. A published secret is the one of a candidate, so
`CandidatesFollowStages` follows a candidate from its creation to its removal.
That processes converge is not inductive by itself: `GeneratedArePersisted`
says that every generated secret in a source or in the hands of a build that
will return it is the file's, as long as nobody else writes the file.
`OneResolves` and `DoneIsMemoized` are the `OnceLock`: one build at a time fills
the memo, and what builds return is in it. `CandidatesAreRemoved` is inductive
beside `CandidatesFollowStages`: a build has no candidate before it creates one,
and leaves the publication through the removal only.

`Verifier_proofs`. `AcceptedBundleIsOneRuns` does the work for bundles: whichever
runs the eight parts are of, the signature ties statement and key to one
(`EnvelopesAreOfOneRun`), certificate and entry are of that one too
(`CertificatesSayWhatRunsAre`), and the time that counts is that run's
(`TimeIsTheRuns`). For the platform it is not enough that the report meets the
minimums: `AcceptedLevelIsCommitted` says that the committed level has reached
the report's, and it never falls (`CommittedNeverFalls`), so that what the chip
runs stays above. `DocumentIsOfTheGuest` and `VerifiedDocumentIsHonest` carry
the guest's measurement and keys through the awaits between document, connection
and verdict. The inclusion proof plays no part in `OneSigningEvent`: the time
comes from the log's promise or from a time stamper, and each signs it for one
entry.

For the certificate `NamesAreRead` shows that names which decode to a value spell
it: each chunk stands in the whole behind those of lower indices (`PiecesStand`),
and nothing is in the whole that is in no chunk (`PiecesAreInOrder`). Names may
be any number, cut anywhere, with gaps between the indices and others among
them; a value has two pieces, as everywhere in the model.

For `CrossCheck`, in the same module, a command is followed from its words
(`OptionsAreRead`, on top of `OptionsArePairs`, which says where each argument
begins) to the form of the bundle (`FormsSayTheSame`). Whichever key counts, of
the certificate or of the command, ties the signature to one run and the
artifact to what that run signed (`SignaturesAreOfTheKeysRun`); the entry is the
signature's run's (`EntriesAreOfTheSignaturesRun`), and the times the binary
compares are that run's (`TheBinaryWantsRunsInTime`). The rest is the invariant
of `Verifier`: the bundle in hand is one of the world's.

`SseStream_proofs`. The code reads events, lines and characters from left to
right; the properties define them by positions in the whole body. `Taken` is the
invariant between the two: m bytes of the body are cut off and handed out, the
bytes up to the e-th are the buffer, the rest is pending and is at most the
beginning of a character. `Waits` adds, between two chunks, that nothing that
came ends another block. The lemmas follow the parser. `LineRead` shows that a
line without its carriage returns is the line of `LineAt`; `BlockRead`, by
induction over the bytes, that what `parse_event_block` gives is what the text
says there; `Boundary` and `BlockEnds` that the first separator in the buffer
ends the next of `Blocks`, and not an earlier one that overlaps it;
`BlocksStay` and `LinesStay` that more bytes leave complete events as they were;
`CharactersStayWhole` that a character is put together again. The library's
induction takes an operator, so `Induction` is derived from the least element of
a set of naturals, and the recursive functions are unfolded from
`RecursionExists`.

`ClientSession_proofs`. `Retried`, `PausesAreBounded` and `CandidatesRemain` say
how far the start-up is; from the last, the routers that failed and those left
are together the list and the default. `HopsAreAtTheOrigin` holds for the
request on every hop. `BodiesAreKept` is an invariant of its own, stated here and
not in a run: what each path hands to its transport is the edit of the caller's
own request for a secret that was the source while this attempt was prepared,
through retries, swaps and redirects. On the relaxed path the edit of the parsed
object is proved to be the edit `Scoped` promises (`EditsAgree`), so that
`RelaxedAndRawBodiesArrive`, the second part of `RouterReadsTheCallersBody`,
follows for all bodies.

Only model-checked:
* liveness (`VerifyTerminates`, `SentRequestsSettle`, `BuildsGetASecret`,
  `TornEntriesHeal`), which with `ENABLED` is outside what the prover handles;
* what rests on a recursion over data: that honest inclusion proofs verify
  (`HonestPartiesVerify` and the last part of `ToolAgreesWithTheLibrary`), and
  the scanner behind the typed path's splice (the first part of
  `RouterReadsTheCallersBody`);
* the rest of `ToolAgreesWithTheLibrary`, which holds of releases whose
  statements are of the expected kind, as those of the instance are, and not of
  every set of runs.

## Not modelled, and why
Cryptography and decoding (X.509, DER, CMS, JSON, HPKE, signature schemes) are
assumed to do what they claim; they are deterministic, stateless and tested by
vectors.
`generation` is a natural number: a `u64` that grows by one a change does not
wrap. `RwLock` sections do not await and are one step each. A pause of the
retrying fetch is as long as it should be. What a redirect does to a request is
the HTTP library's (`Redirected`), and so is when async-openai tries again
(`Retry`): both may happen whenever they can. The request builder and the
accessors of `relaxed.rs`, `multimodal.rs` and the error texts build and read
values that nobody else sees. Merkle consistency proofs are called by nobody.
The directory checks of `user_cache_secret.rs` (symbolic links, modes, file
types) are the failures of `Fails`. `fetch_with_retry` is documented with pauses
of "500ms, 1s, 2s" (`util.rs:36`); three attempts have two pauses, as in the
model, and no property depends on a third.

## Plan
Order, most important behaviour first. Done: 1 to 12.
1. `EhbpProxy`, its safety and liveness runs. 2. `EhbpProxy_proofs`.
3. `TrustCell`, `ProxyClient` and their proofs. 4. `CacheSecret`.
5. `DirectClient`. 6. `VcekCache`. 7. `SseStream`.
8. `Merkle`, `Provenance`, `SevAttestation`, `Verifier`; `TlsBinding` and the
   last step of the pipeline.
9. `BodyInjection`, `RouterDiscovery`, `ClientSession`.
10. `Conformance`, `CrossCheck`.
11. The proofs for `DirectClient`, `VcekCache`, `CacheSecret`, `ClientSession` and
    `Verifier`. 12. The proofs for `CrossCheck`, `SseStream` and the names of
    certificates.
13. Left to prove: the scanner of `BodyInjection`, with the induction and the
    recursive functions of `SseStream_proofs`.
Abstract specifications still worth stating: a write-once register that
`CacheSecret`'s published file implements as long as no foreign tool writes, and
a memo table that `VcekCache` implements up to misses.
