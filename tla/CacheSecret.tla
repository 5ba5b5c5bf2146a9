----------------------------- MODULE CacheSecret -----------------------------
(***************************************************************************)
(* The prompt-cache secret of src/src/user_cache_secret.rs: how the        *)
(* request builds of several clients, in several processes that share a    *)
(* home directory, come to the secret they inject.                         *)
(*                                                                         *)
(* A step is one file-system call, one use of a OnceLock or one of the     *)
(* source's RwLock.  Generated secrets are 256 random bits: each is named  *)
(* by the request, or for the in-memory fallback the process, that drew    *)
(* it.  Candidate files bear a random name too: one for each request.      *)
(***************************************************************************)
EXTENDS Naturals

CONSTANTS
  Processes, Clients, Requests,
  ProcessOf,        \* the process a client lives in
  ClientOf,         \* the client whose factory a request is built from
  CallerSecret,     \* passed to with_user_cache_secret
  EnvSecret,        \* found in TINFOIL_USER_CACHE_SECRET
  ForeignSecret,    \* written by another SDK
  NoSecret,         \* the empty string of a failed random generator
  Unset,            \* a OnceLock not yet initialised
  Missing,          \* no file
  Unusable,         \* a file that is blank, not UTF-8 or not regular
  Failed,           \* an Err
  MaxReplacements,  \* bound on with_user_cache_secret, per client
  MaxFailures,      \* bound on failing system calls
  MaxForeign        \* bound on changes of the file by other programs

ASSUME SecretAssumption ==
  /\ ProcessOf \in [Clients -> Processes]
  /\ ClientOf \in [Requests -> Clients]
  /\ {MaxReplacements, MaxFailures, MaxForeign} \subseteq Nat

\* Secrets are drawn at random, so no two parties draw the same, nor one that
\* was given; and what stands for no secret or no file is no secret.
ASSUME SecretsDiffer ==
  /\ Requests \cap Processes = {}
  /\ {CallerSecret, EnvSecret, ForeignSecret, NoSecret, Unset, Failed, Missing, Unusable}
       \cap (Requests \cup Processes) = {}
  /\ {Unset, Failed} \cap {CallerSecret, EnvSecret, ForeignSecret, NoSecret} = {}
  /\ Unset # Failed /\ Missing # Unusable /\ ForeignSecret \notin {Missing, Unusable}

VARIABLES
  file,       \* ~/.tinfoil/user_cache_secret
  temp,       \* the candidate file of each request
  ephemeral,  \* the static EPHEMERAL of each process
  source,     \* which UserCacheSecret the client's shared cell holds
  cell,       \* the value of each UserCacheSecret
  build,      \* the locals of each request build
  alive,      \* processes that have not been killed
  failures, foreign,
  unremoved   \* requests whose candidate remove_file failed on (history)

vars == <<file, temp, ephemeral, source, cell, build, alive, failures, foreign, unremoved>>

Versions == 0..MaxReplacements
Values ==
  Requests \cup Processes \cup {CallerSecret, EnvSecret, ForeignSecret, NoSecret}

\* get_or_init runs its closure while the OnceLock is unset.
Resolving ==
  {"reading", "checking", "creating", "writing", "linking", "rereading",
   "removing", "fallback"}

Process(r) == ProcessOf[ClientOf[r]]

Blank(stage) == [stage |-> stage, source |-> 0, secret |-> Unset]

At(r, stage) == build[r].stage = stage

Goto(r, stage) == build' = [build EXCEPT ![r].stage = stage]

\* A system call fails here; MaxFailures bounds how often.
Fails == failures < MaxFailures /\ failures' = failures + 1

\* The OnceLock of r's source takes its value, which r injects.
Resolve(r, value) ==
  /\ cell' = [cell EXCEPT ![ClientOf[r]][build[r].source] = value]
  /\ build' = [build EXCEPT ![r].stage = "done", ![r].secret = value]

-----------------------------------------------------------------------------
(* The shared source                                                       *)

\* with_user_cache_secret replaces the source; an empty string defers again.
Replace(c, value) ==
  /\ ProcessOf[c] \in alive
  /\ source[c] < MaxReplacements
  /\ source' = [source EXCEPT ![c] = @ + 1]
  /\ cell' = [cell EXCEPT ![c][source[c] + 1] = value]
  /\ UNCHANGED <<file, temp, ephemeral, build, alive, failures, foreign, unremoved>>

\* SharedUserCacheSecret::current, once for every build of the request.
Snapshot(r) ==
  /\ At(r, "start")
  /\ build' = [build EXCEPT ![r].stage = "get", ![r].source = source[ClientOf[r]]]
  /\ UNCHANGED <<file, temp, ephemeral, source, cell, alive, failures, foreign, unremoved>>

\* UserCacheSecret::get on a source that is explicit or already resolved.
GetResolved(r) ==
  LET value == cell[ClientOf[r]][build[r].source] IN
  /\ At(r, "get")
  /\ value # Unset
  /\ build' = [build EXCEPT ![r].stage = "done", ![r].secret = value]
  /\ UNCHANGED <<file, temp, ephemeral, source, cell, alive, failures, foreign, unremoved>>

\* (Bug variants, named X_bug, stand before the definition X they would replace.)
\* two threads resolve one source
GetOrInit_twice(r) ==
  /\ At(r, "get")
  /\ cell[ClientOf[r]][build[r].source] = Unset
  /\ Goto(r, "reading")
  /\ UNCHANGED <<file, temp, ephemeral, source, cell, alive, failures, foreign, unremoved>>

\* OnceLock::get_or_init: other threads block until one has the value.  Its
\* closure finds the environment's secret or the home directory, or neither.
GetOrInit(r) ==
  /\ At(r, "get")
  /\ cell[ClientOf[r]][build[r].source] = Unset
  /\ \A other \in Requests :
       (ClientOf[other] = ClientOf[r] /\ build[other].source = build[r].source)
         => build[other].stage \notin Resolving
  /\ \/ Resolve(r, EnvSecret) /\ UNCHANGED failures
     \/ Goto(r, "reading") /\ UNCHANGED <<cell, failures>>
     \/ Goto(r, "fallback") /\ Fails /\ UNCHANGED cell
  /\ UNCHANGED <<file, temp, ephemeral, source, alive, foreign, unremoved>>

-----------------------------------------------------------------------------
(* load_or_generate                                                        *)

\* read_secret_file: a value, None for a missing or blank file, or an error.
ReadFile(r) ==
  /\ At(r, "reading")
  /\ \/ file \notin {Missing, Unusable} /\ Resolve(r, file) /\ UNCHANGED failures
     \/ file \in {Missing, Unusable} /\ Goto(r, "checking")
        /\ UNCHANGED <<cell, failures>>
     \/ file = Unusable /\ Goto(r, "fallback") /\ UNCHANGED <<cell, failures>>
     \/ Goto(r, "fallback") /\ Fails /\ UNCHANGED cell
  /\ UNCHANGED <<file, temp, ephemeral, source, alive, foreign, unremoved>>

\* a file that is there is read again instead
CheckMissing_rereads(r) ==
  /\ At(r, "checking")
  /\ Goto(r, IF file = Missing THEN "creating" ELSE "reading")
  /\ UNCHANGED <<file, temp, ephemeral, source, cell, alive, failures, foreign, unremoved>>

\* After None, symlink_metadata tells missing from blank: any file that is
\* there by now counts as blank.
CheckMissing(r) ==
  /\ At(r, "checking")
  /\ \/ file = Missing /\ Goto(r, "creating") /\ UNCHANGED failures
     \/ file # Missing /\ Goto(r, "fallback") /\ UNCHANGED failures
     \/ Goto(r, "fallback") /\ Fails
  /\ UNCHANGED <<file, temp, ephemeral, source, cell, alive, foreign, unremoved>>

-----------------------------------------------------------------------------
(* publish_secret_file                                                     *)

\* Both random draws, then create_new of write_secret_file_exclusive.
CreateTemp(r) ==
  /\ At(r, "creating")
  /\ \/ /\ temp' = [temp EXCEPT ![r] = Unusable]
        /\ Goto(r, "writing")
        /\ UNCHANGED <<cell, failures>>
     \/ Goto(r, "fallback") /\ Fails /\ UNCHANGED <<temp, cell>>
     \/ Resolve(r, NoSecret) /\ Fails /\ UNCHANGED temp
  /\ UNCHANGED <<file, ephemeral, source, alive, foreign, unremoved>>

\* a failed write returns at once
WriteTemp_keepsCandidate(r) ==
  /\ At(r, "writing")
  /\ \/ /\ temp' = [temp EXCEPT ![r] = r]
        /\ Goto(r, "linking")
        /\ UNCHANGED failures
     \/ Goto(r, "fallback") /\ Fails /\ UNCHANGED temp
  /\ UNCHANGED <<file, ephemeral, source, cell, alive, foreign, unremoved>>

\* Its write_all.
WriteTemp(r) ==
  /\ At(r, "writing")
  /\ \/ /\ temp' = [temp EXCEPT ![r] = r]
        /\ Goto(r, "linking")
        /\ UNCHANGED failures
     \/ /\ build' = [build EXCEPT ![r].stage = "removing", ![r].secret = Failed]
        /\ Fails
        /\ UNCHANGED temp
  /\ UNCHANGED <<file, ephemeral, source, cell, alive, foreign, unremoved>>

\* rename in place of hard_link
Link_replaces(r) ==
  /\ At(r, "linking")
  /\ file' = temp[r]
  /\ build' = [build EXCEPT ![r].stage = "removing", ![r].secret = r]
  /\ UNCHANGED <<temp, ephemeral, source, cell, alive, failures, foreign, unremoved>>

\* hard_link never replaces a destination that exists.
Link(r) ==
  /\ At(r, "linking")
  /\ \/ /\ file = Missing
        /\ file' = temp[r]
        /\ build' = [build EXCEPT ![r].stage = "removing", ![r].secret = r]
        /\ UNCHANGED failures
     \/ file # Missing /\ Goto(r, "rereading") /\ UNCHANGED <<file, failures>>
     \/ /\ build' = [build EXCEPT ![r].stage = "removing", ![r].secret = Failed]
        /\ Fails
        /\ UNCHANGED file
  /\ UNCHANGED <<temp, ephemeral, source, cell, alive, foreign, unremoved>>

\* the loser keeps its own draw
ReadWinner_keepsOwn(r) ==
  /\ At(r, "rereading")
  /\ build' = [build EXCEPT ![r].stage = "removing", ![r].secret = r]
  /\ UNCHANGED <<file, temp, ephemeral, source, cell, alive, failures, foreign, unremoved>>

\* AlreadyExists: adopt what the winner published.
ReadWinner(r) ==
  LET found == IF file \in {Missing, Unusable} THEN Failed ELSE file IN
  /\ At(r, "rereading")
  /\ \/ /\ build' = [build EXCEPT ![r].stage = "removing", ![r].secret = found]
        /\ UNCHANGED failures
     \/ /\ build' = [build EXCEPT ![r].stage = "removing", ![r].secret = Failed]
        /\ Fails
  /\ UNCHANGED <<file, temp, ephemeral, source, cell, alive, foreign, unremoved>>

\* the error of the publication is memoized
RemoveTemp_keepsError(r) ==
  /\ At(r, "removing")
  /\ temp' = [temp EXCEPT ![r] = Missing]
  /\ Resolve(r, build[r].secret)
  /\ UNCHANGED <<file, ephemeral, source, alive, failures, foreign, unremoved>>

\* remove_file, whose error is ignored, and the result of publish_secret_file.
RemoveTemp(r) ==
  /\ At(r, "removing")
  /\ \/ temp' = [temp EXCEPT ![r] = Missing] /\ UNCHANGED <<failures, unremoved>>
     \/ UNCHANGED temp /\ Fails /\ unremoved' = unremoved \cup {r}
  /\ IF build[r].secret = Failed
     THEN Goto(r, "fallback") /\ UNCHANGED cell
     ELSE Resolve(r, build[r].secret)
  /\ UNCHANGED <<file, ephemeral, source, alive, foreign>>

\* ephemeral_user_cache_secret: one draw for the life of the process.
Fallback(r) ==
  LET p == Process(r) IN
  /\ At(r, "fallback")
  /\ \/ ephemeral[p] # Unset /\ UNCHANGED <<ephemeral, failures>>
     \/ /\ ephemeral[p] = Unset
        /\ ephemeral' = [ephemeral EXCEPT ![p] = p]
        /\ UNCHANGED failures
     \/ /\ ephemeral[p] = Unset
        /\ ephemeral' = [ephemeral EXCEPT ![p] = NoSecret]
        /\ Fails
  /\ Resolve(r, ephemeral'[p])
  /\ UNCHANGED <<file, temp, source, alive, foreign, unremoved>>

-----------------------------------------------------------------------------
(* The environment                                                         *)

\* The process is killed between any two steps: its memory is gone, its
\* candidate files stay.
Kill(p) ==
  /\ p \in alive
  /\ alive' = alive \ {p}
  /\ ephemeral' = [ephemeral EXCEPT ![p] = Unset]
  /\ source' = [c \in Clients |-> IF ProcessOf[c] = p THEN 0 ELSE source[c]]
  /\ cell' = [c \in Clients |->
                IF ProcessOf[c] = p THEN [v \in Versions |-> Unset] ELSE cell[c]]
  /\ build' = [r \in Requests |->
                 IF Process(r) = p THEN Blank("killed") ELSE build[r]]
  /\ UNCHANGED <<file, temp, failures, foreign, unremoved>>

\* Another SDK or the user creates, completes or removes the file.
Foreign ==
  /\ foreign < MaxForeign
  /\ foreign' = foreign + 1
  /\ \/ file \in {Missing, Unusable} /\ file' = ForeignSecret
     \/ file = Missing /\ file' = Unusable
     \/ file # Missing /\ file' = Missing
  /\ UNCHANGED <<temp, ephemeral, source, cell, build, alive, failures, unremoved>>

-----------------------------------------------------------------------------
Init ==
  /\ file = Missing
  /\ temp = [r \in Requests |-> Missing]
  /\ ephemeral = [p \in Processes |-> Unset]
  /\ source = [c \in Clients |-> 0]
  /\ cell = [c \in Clients |-> [v \in Versions |-> Unset]]
  /\ build = [r \in Requests |-> Blank("start")]
  /\ alive = Processes
  /\ failures = 0
  /\ foreign = 0
  /\ unremoved = {}

Build(r) ==
  \/ Snapshot(r) \/ GetResolved(r) \/ GetOrInit(r)
  \/ ReadFile(r) \/ CheckMissing(r) \/ CreateTemp(r)
  \/ WriteTemp(r) \/ Link(r) \/ ReadWinner(r) \/ RemoveTemp(r) \/ Fallback(r)

Next ==
  \/ \E r \in Requests : Build(r)
  \/ \E c \in Clients, value \in {CallerSecret, Unset} : Replace(c, value)
  \/ \E p \in Processes : Kill(p)
  \/ Foreign

Spec == Init /\ [][Next]_vars

\* Every thread of a living process runs on; no system call hangs.
FairSpec == Spec /\ \A r \in Requests : WF_vars(Build(r))

-----------------------------------------------------------------------------
(* Properties                                                              *)

TypeOK ==
  /\ file \in Requests \cup {ForeignSecret, Missing, Unusable}
  /\ temp \in [Requests -> Requests \cup {Missing, Unusable}]
  /\ \A r \in Requests : temp[r] \in {Missing, Unusable, r}
  /\ ephemeral \in [Processes -> Processes \cup {Unset, NoSecret}]
  /\ \A p \in Processes : ephemeral[p] \in {Unset, p, NoSecret}
  /\ source \in [Clients -> Versions]
  /\ cell \in [Clients -> [Versions -> Values \cup {Unset}]]
  /\ build \in [Requests ->
       [ stage : Resolving \cup {"start", "get", "done", "killed"},
         source : Versions, secret : Values \cup {Unset, Failed} ]]
  /\ alive \subseteq Processes
  /\ failures \in 0..MaxFailures
  /\ foreign \in 0..MaxForeign
  /\ unremoved \subseteq Requests

\* "Publish one complete value for a missing destination without replacing
\* anything another process may have created concurrently": no crash and no
\* failed call lets this code change the file in any other way.
PublishedOnceAndWhole ==
  [][ file' # file => foreign' # foreign \/ (file = Missing /\ file' \in Requests) ]_vars

\* First uses that race converge: whoever comes back with a generated secret
\* has the persisted one, even if it drew another for itself, unless another
\* program changed the file.
PersistedSecretsConverge ==
  foreign = 0 =>
    \A r \in Requests :
      (build[r].stage = "done" /\ build[r].secret \in Requests)
        => build[r].secret = file

\* A source is resolved once and memoized: the requests that read the same
\* source inject the same secret, whoever initialised it.
OneSecretPerSource ==
  \A r, s \in Requests :
    /\ ClientOf[r] = ClientOf[s]
    /\ build[r].source = build[s].source
    /\ build[r].stage = "done" /\ build[s].stage = "done"
    => build[r].secret = build[s].secret

\* A publication leaves no candidate file behind, whichever of its calls fails
\* and whoever wins, but for the files that remove_file itself failed on.
CandidatesAreRemoved ==
  \A r \in Requests :
    (build[r].stage \in {"fallback", "done"} /\ temp[r] # Missing) => r \in unremoved

\* A build is never blocked for ever by the thread that resolves the source.
BuildsGetASecret ==
  \A r \in Requests :
    build[r].stage = "get" ~> build[r].stage \in {"done", "killed"}

\* The doc of load_or_generate has it fall back "when the home directory is
\* unavailable or unwritable".
FallbackOnlyWithoutAHome ==
  \A r \in Requests :
    (build[r].stage = "done" /\ failures = 0 /\ foreign = 0)
      => build[r].secret \notin Processes

=============================================================================
