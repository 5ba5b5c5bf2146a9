-------------------------- MODULE CacheSecret_proofs --------------------------
(***************************************************************************)
(* Proofs about CacheSecret, for every number of processes, clients,       *)
(* requests, replacements, failures and changes by other programs.         *)
(***************************************************************************)
EXTENDS CacheSecret, TLAPS

\* The OnceLock that a build's snapshot refers to.
Cell(r) == cell[ClientOf[r]][build[r].source]

SameSource(r, s) == ClientOf[r] = ClientOf[s] /\ build[r].source = build[s].source

\* A candidate file is there from its creation on, and whole when it is linked.
CandidatesFollowStages ==
  \A r \in Requests :
    /\ build[r].stage \in {"start", "get", "reading", "checking", "creating"}
         => temp[r] = Missing
    /\ At(r, "linking") => temp[r] = r

\* One build at a time resolves a source, and the source is unset meanwhile.
OneResolves ==
  \A r \in Requests : build[r].stage \in Resolving =>
    /\ Cell(r) = Unset
    /\ \A s \in Requests :
         SameSource(r, s) /\ build[s].stage \in Resolving => s = r

\* Nobody holds a source that the client does not have yet.
SnapshotsArePast == \A r \in Requests : build[r].source <= source[ClientOf[r]]

\* What a build came back with is what its source has memoized.
DoneIsMemoized ==
  \A r \in Requests :
    /\ At(r, "done") => Cell(r) = build[r].secret /\ build[r].secret # Unset
    /\ At(r, "removing") => build[r].secret # Unset

\* Every generated secret that a build or a source has is the one in the file.
Persisted ==
  /\ file \in Requests \cup {Missing}
  /\ \A c \in Clients, v \in Versions : cell[c][v] \in Requests => cell[c][v] = file
  /\ \A r \in Requests :
       build[r].stage \in {"removing", "done"} /\ build[r].secret \in Requests
         => build[r].secret = file

\* So it stays as long as no other program touches the file.
GeneratedArePersisted == foreign = 0 => Persisted

IInv ==
  /\ TypeOK /\ CandidatesFollowStages /\ OneResolves /\ SnapshotsArePast
  /\ DoneIsMemoized /\ GeneratedArePersisted /\ CandidatesAreRemoved

-----------------------------------------------------------------------------
(* Type correctness                                                        *)

StageNames == Resolving \cup {"start", "get", "done", "killed"}

\* A failing system call is counted within the bound.
LEMMA FailsType ==
  ASSUME TypeOK, Fails \/ UNCHANGED failures
  PROVE  failures' \in 0..MaxFailures
BY SecretAssumption DEF Fails, TypeOK

\* At first everything is of its type.
LEMMA InitTypeOK == Init => TypeOK
<1> SUFFICES ASSUME Init PROVE TypeOK
  OBVIOUS
<1>1. 0 \in Versions /\ 0 \in 0..MaxFailures /\ 0 \in 0..MaxForeign
  BY SecretAssumption DEF Versions
<1>2. build \in [Requests -> [ stage : StageNames, source : Versions,
                                secret : Values \cup {Unset, Failed} ]]
  BY <1>1 DEF Init, Blank, StageNames
<1>3. cell \in [Clients -> [Versions -> Values \cup {Unset}]]
  BY DEF Init
<1> QED
  BY <1>1, <1>2, <1>3 DEF Init, TypeOK, StageNames

\* Taking a value keeps the sources and the builds of their types.
LEMMA ResolveType ==
  ASSUME TypeOK, NEW r \in Requests, NEW value \in Values \cup {Unset}, Resolve(r, value)
  PROVE  /\ cell' \in [Clients -> [Versions -> Values \cup {Unset}]]
         /\ build' \in [Requests -> [ stage : StageNames, source : Versions,
                                      secret : Values \cup {Unset, Failed} ]]
<1>1. ClientOf[r] \in Clients /\ build[r].source \in Versions
  BY SecretAssumption DEF TypeOK
<1>2. cell' \in [Clients -> [Versions -> Values \cup {Unset}]]
  BY <1>1 DEF Resolve, TypeOK
<1>3. build' \in [Requests -> [ stage : StageNames, source : Versions,
                                secret : Values \cup {Unset, Failed} ]]
  BY DEF Resolve, TypeOK, StageNames
<1> QED
  BY <1>2, <1>3

\* So does moving on, with whatever came of it.
LEMMA GotoType ==
  ASSUME TypeOK, NEW r \in Requests, NEW stage \in StageNames,
         NEW secret \in Values \cup {Unset, Failed},
         \/ Goto(r, stage)
         \/ build' = [build EXCEPT ![r].stage = stage, ![r].secret = secret]
  PROVE  build' \in [Requests -> [ stage : StageNames, source : Versions,
                                   secret : Values \cup {Unset, Failed} ]]
BY DEF Goto, TypeOK, StageNames

\* A build leaves every build but its own as it is, and the sources too.
LEMMA BuildTypeOK ==
  ASSUME TypeOK, NEW r \in Requests, Build(r)
  PROVE  TypeOK'
<1> DEFINE BuildOK == build' \in [Requests -> [ stage : StageNames, source : Versions,
                                              secret : Values \cup {Unset, Failed} ]]
           CellOK == cell' \in [Clients -> [Versions -> Values \cup {Unset}]]
           TempOK == /\ temp' \in [Requests -> Requests \cup {Missing, Unusable}]
                     /\ \A s \in Requests : temp'[s] \in {Missing, Unusable, s}
           EphemeralOK == /\ ephemeral' \in [Processes -> Processes \cup {Unset, NoSecret}]
                          /\ \A p \in Processes : ephemeral'[p] \in {Unset, p, NoSecret}
           FileOK == file' \in Requests \cup {ForeignSecret, Missing, Unusable}
<1> HIDE DEF BuildOK, CellOK, TempOK, EphemeralOK, FileOK
<1>a. UNCHANGED temp => TempOK
  BY DEF TempOK, TypeOK
<1>b. UNCHANGED ephemeral => EphemeralOK
  BY DEF EphemeralOK, TypeOK
<1>c. UNCHANGED file => FileOK
  BY DEF FileOK, TypeOK
<1>d. UNCHANGED cell => CellOK
  BY DEF CellOK, TypeOK
<1>e. ASSUME NEW stage \in StageNames, Goto(r, stage) PROVE BuildOK
  BY <1>e, GotoType DEF BuildOK
<1>f. ASSUME NEW value \in Values \cup {Unset}, Resolve(r, value) PROVE BuildOK /\ CellOK
  BY <1>f, ResolveType DEF BuildOK, CellOK
<1>g. ASSUME NEW stage \in StageNames, NEW secret \in Values \cup {Unset, Failed},
             build' = [build EXCEPT ![r].stage = stage, ![r].secret = secret]
      PROVE  BuildOK
  BY <1>g, GotoType DEF BuildOK
<1>h. ASSUME NEW content \in {Missing, Unusable, r}, temp' = [temp EXCEPT ![r] = content]
      PROVE  TempOK
  BY <1>h DEF TempOK, TypeOK
<1>1. CASE Snapshot(r)
  <2>1. BuildOK
    <3>1. ClientOf[r] \in Clients
      BY SecretAssumption
    <3>2. source[ClientOf[r]] \in Versions
      BY <3>1 DEF TypeOK
    <3> QED
      BY <1>1, <3>2 DEF Snapshot, BuildOK, TypeOK, StageNames
  <2> QED
    BY <1>1, <2>1, <1>a, <1>b, <1>c, <1>d
       DEF Snapshot, TypeOK, BuildOK, CellOK, TempOK, EphemeralOK, FileOK, StageNames
<1>2. CASE GetResolved(r)
  <2>1. cell[ClientOf[r]][build[r].source] \in Values \cup {Unset, Failed}
    BY SecretAssumption DEF TypeOK
  <2>2. BuildOK
    BY <1>2, <2>1, <1>g DEF GetResolved, StageNames
  <2> QED
    BY <1>2, <2>2, <1>a, <1>b, <1>c, <1>d
       DEF GetResolved, TypeOK, BuildOK, CellOK, TempOK, EphemeralOK, FileOK, StageNames
<1>3. CASE GetOrInit(r)
  <2>1. BuildOK /\ CellOK
    BY <1>3, <1>d, <1>e, <1>f DEF GetOrInit, StageNames, Resolving, Values
  <2> QED
    BY <1>3, <2>1, <1>a, <1>b, <1>c, FailsType
       DEF GetOrInit, TypeOK, BuildOK, CellOK, TempOK, EphemeralOK, FileOK, StageNames
<1>4. CASE ReadFile(r)
  <2>1. file \notin {Missing, Unusable} => file \in Values
    BY DEF TypeOK, Values
  <2>2. BuildOK /\ CellOK
    BY <1>4, <2>1, <1>d, <1>e, <1>f DEF ReadFile, StageNames, Resolving
  <2> QED
    BY <1>4, <2>2, <1>a, <1>b, <1>c, FailsType
       DEF ReadFile, TypeOK, BuildOK, CellOK, TempOK, EphemeralOK, FileOK, StageNames
<1>5. CASE CheckMissing(r)
  <2>1. BuildOK
    BY <1>5, <1>e DEF CheckMissing, StageNames, Resolving
  <2> QED
    BY <1>5, <2>1, <1>a, <1>b, <1>c, <1>d, FailsType
       DEF CheckMissing, TypeOK, BuildOK, CellOK, TempOK, EphemeralOK, FileOK, StageNames
<1>6. CASE CreateTemp(r)
  <2>1. BuildOK /\ CellOK
    BY <1>6, <1>d, <1>e, <1>f DEF CreateTemp, StageNames, Resolving, Values
  <2>2. TempOK
    BY <1>6, <1>a, <1>h DEF CreateTemp
  <2> QED
    BY <1>6, <2>1, <2>2, <1>b, <1>c, FailsType
       DEF CreateTemp, TypeOK, BuildOK, CellOK, TempOK, EphemeralOK, FileOK, StageNames
<1>7. CASE WriteTemp(r)
  <2>1. BuildOK
    BY <1>7, <1>e, <1>g DEF WriteTemp, StageNames, Resolving
  <2>2. TempOK
    BY <1>7, <1>a, <1>h DEF WriteTemp
  <2> QED
    BY <1>7, <2>1, <2>2, <1>b, <1>c, <1>d, FailsType
       DEF WriteTemp, TypeOK, BuildOK, CellOK, TempOK, EphemeralOK, FileOK, StageNames
<1>8. CASE Link(r)
  <2>1. r \in Values
    BY DEF Values
  <2>2. BuildOK
    BY <1>8, <2>1, <1>e, <1>g DEF Link, StageNames, Resolving
  <2>3. FileOK
    BY <1>8, <1>c DEF Link, FileOK, TypeOK
  <2> QED
    BY <1>8, <2>2, <2>3, <1>a, <1>b, <1>d, FailsType
       DEF Link, TypeOK, BuildOK, CellOK, TempOK, EphemeralOK, FileOK, StageNames
<1>9. CASE ReadWinner(r)
  <2>1. (IF file \in {Missing, Unusable} THEN Failed ELSE file) \in Values \cup {Unset, Failed}
    BY DEF TypeOK, Values
  <2>2. BuildOK
    BY <1>9, <2>1, <1>g DEF ReadWinner, StageNames, Resolving
  <2> QED
    BY <1>9, <2>2, <1>a, <1>b, <1>c, <1>d, FailsType
       DEF ReadWinner, TypeOK, BuildOK, CellOK, TempOK, EphemeralOK, FileOK, StageNames
<1>10. CASE RemoveTemp(r)
  <2>1. build[r].secret # Failed => build[r].secret \in Values \cup {Unset}
    BY DEF TypeOK
  <2>2. BuildOK /\ CellOK
    BY <1>10, <2>1, <1>d, <1>e, <1>f DEF RemoveTemp, StageNames, Resolving
  <2>3. TempOK
    BY <1>10, <1>a, <1>h DEF RemoveTemp
  <2> QED
    BY <1>10, <2>2, <2>3, <1>b, <1>c, FailsType
       DEF RemoveTemp, TypeOK, BuildOK, CellOK, TempOK, EphemeralOK, FileOK, StageNames
<1>11. CASE Fallback(r)
  <2>1. Process(r) \in Processes
    BY SecretAssumption DEF Process
  <2>2. EphemeralOK
    BY <1>11, <2>1 DEF Fallback, EphemeralOK, TypeOK
  <2>3. ephemeral'[Process(r)] \in Values \cup {Unset}
    BY <2>1, <2>2 DEF EphemeralOK, Values
  <2>4. BuildOK /\ CellOK
    BY <1>11, <2>3, <1>f DEF Fallback
  <2> QED
    BY <1>11, <2>2, <2>4, <1>a, <1>c, FailsType
       DEF Fallback, TypeOK, BuildOK, CellOK, TempOK, EphemeralOK, FileOK, StageNames
<1> QED
  BY <1>1, <1>2, <1>3, <1>4, <1>5, <1>6, <1>7, <1>8, <1>9, <1>10, <1>11 DEF Build

\* Every step keeps the types.
LEMMA NextTypeOK == TypeOK /\ [Next]_vars => TypeOK'
<1> SUFFICES ASSUME TypeOK, [Next]_vars PROVE TypeOK'
  OBVIOUS
<1>1. ASSUME NEW r \in Requests, Build(r) PROVE TypeOK'
  BY <1>1, BuildTypeOK
<1>2. ASSUME NEW c \in Clients, NEW value \in {CallerSecret, Unset}, Replace(c, value)
      PROVE  TypeOK'
  <2>1. source[c] + 1 \in Versions
    BY <1>2, SecretAssumption DEF Replace, TypeOK, Versions
  <2>2. source' \in [Clients -> Versions]
    BY <1>2, <2>1 DEF Replace, TypeOK
  <2>3. cell' \in [Clients -> [Versions -> Values \cup {Unset}]]
    BY <1>2, <2>1 DEF Replace, TypeOK, Values
  <2> QED
    BY <1>2, <2>2, <2>3 DEF Replace, TypeOK
<1>3. ASSUME NEW p \in Processes, Kill(p) PROVE TypeOK'
  <2>1. 0 \in Versions
    BY SecretAssumption DEF Versions
  <2>2. build' \in [Requests -> [ stage : StageNames, source : Versions,
                                  secret : Values \cup {Unset, Failed} ]]
    BY <1>3, <2>1 DEF Kill, TypeOK, Blank, StageNames
  <2>3. source' \in [Clients -> Versions]
    BY <1>3, <2>1 DEF Kill, TypeOK
  <2>4. cell' \in [Clients -> [Versions -> Values \cup {Unset}]]
    BY <1>3 DEF Kill, TypeOK
  <2> QED
    BY <1>3, <2>2, <2>3, <2>4 DEF Kill, TypeOK, StageNames
<1>4. CASE Foreign
  BY <1>4, SecretAssumption DEF Foreign, TypeOK
<1>5. CASE UNCHANGED vars
  BY <1>5 DEF vars, TypeOK
<1> QED
  BY <1>1, <1>2, <1>3, <1>4, <1>5 DEF Next

-----------------------------------------------------------------------------
(* What a step of a build does to the shared sources                       *)

\* Nobody else is resolving the source that r would resolve.
Entered(r) ==
  \A s \in Requests : SameSource(s, r) => build[s].stage \notin Resolving

\* It goes on resolving, or has a value for everybody.
Proceeds(r) ==
  \/ /\ build'[r].stage \in Resolving
     /\ build'[r].stage = "removing" => build'[r].secret # Unset
     /\ UNCHANGED cell
  \/ \E value \in Values : Resolve(r, value)

OnlyBuild(r) ==
  /\ UNCHANGED <<source, alive, foreign>>
  /\ \A s \in Requests : s # r => build'[s] = build[s] /\ temp'[s] = temp[s]

\* Moving on keeps a build's client and its snapshot, whatever it resolves.
LEMMA MovesProceed ==
  ASSUME TypeOK, NEW r \in Requests,
         \/ \E value \in Values : Resolve(r, value)
         \/ UNCHANGED cell /\ \E stage \in Resolving \ {"removing"} : Goto(r, stage)
         \/ /\ UNCHANGED cell
            /\ \E secret \in Values \cup {Failed} :
                 build' = [build EXCEPT ![r].stage = "removing", ![r].secret = secret]
  PROVE  /\ Proceeds(r) /\ build'[r].source = build[r].source
         /\ \A s \in Requests : s # r => build'[s] = build[s]
<1>0. build \in [Requests -> [ stage : StageNames, source : Versions,
                                secret : Values \cup {Unset, Failed} ]]
  BY DEF TypeOK, StageNames
<1>1. ASSUME NEW value \in Values, Resolve(r, value)
      PROVE  /\ Proceeds(r) /\ build'[r].source = build[r].source
             /\ \A s \in Requests : s # r => build'[s] = build[s]
  <2>1. Proceeds(r)
    BY <1>1 DEF Proceeds
  <2>2. build'[r] = [build[r] EXCEPT !.stage = "done", !.secret = value]
    BY <1>0, <1>1 DEF Resolve
  <2>3. build'[r].source = build[r].source
    BY <1>0, <2>2
  <2> QED
    BY <1>0, <1>1, <2>1, <2>3 DEF Resolve
<1>2. ASSUME UNCHANGED cell, NEW stage \in Resolving \ {"removing"}, Goto(r, stage)
      PROVE  /\ Proceeds(r) /\ build'[r].source = build[r].source
             /\ \A s \in Requests : s # r => build'[s] = build[s]
  <2>1. build'[r] = [build[r] EXCEPT !.stage = stage]
    BY <1>0, <1>2 DEF Goto
  <2>2. build'[r].stage = stage /\ build'[r].source = build[r].source
    BY <1>0, <2>1
  <2>3. Proceeds(r)
    BY <1>2, <2>2 DEF Proceeds
  <2> QED
    BY <1>0, <1>2, <2>2, <2>3 DEF Goto
<1>3. ASSUME UNCHANGED cell, NEW secret \in Values \cup {Failed},
             build' = [build EXCEPT ![r].stage = "removing", ![r].secret = secret]
      PROVE  /\ Proceeds(r) /\ build'[r].source = build[r].source
             /\ \A s \in Requests : s # r => build'[s] = build[s]
  <2>1. Unset \notin Values \cup {Failed}
    BY SecretsDiffer DEF Values
  <2>2. build'[r] = [build[r] EXCEPT !.stage = "removing", !.secret = secret]
    BY <1>0, <1>3
  <2>3. /\ build'[r].stage = "removing" /\ build'[r].secret = secret
        /\ build'[r].source = build[r].source
    BY <1>0, <2>2
  <2>4. Proceeds(r)
    BY <1>3, <2>1, <2>3 DEF Proceeds, Resolving
  <2> QED
    BY <1>0, <1>3, <2>3, <2>4
<1> QED
  BY <1>1, <1>2, <1>3

\* A step of a build takes a snapshot, finds the source resolved, goes on
\* resolving it, or resolves it; the other builds stay as they are.
LEMMA BuildShape ==
  ASSUME TypeOK, DoneIsMemoized, NEW r \in Requests, Build(r)
  PROVE  /\ OnlyBuild(r)
         /\ \/ /\ At(r, "start") /\ UNCHANGED cell
               /\ build'[r] = [build[r] EXCEPT !.stage = "get", !.source = source[ClientOf[r]]]
            \/ /\ At(r, "get") /\ Cell(r) # Unset /\ UNCHANGED cell
               /\ build'[r] = [build[r] EXCEPT !.stage = "done", !.secret = Cell(r)]
            \/ /\ At(r, "get") => Cell(r) = Unset /\ Entered(r)
               /\ build[r].stage \in {"get"} \cup Resolving
               /\ build'[r].source = build[r].source
               /\ Proceeds(r)
<1>1. CASE Snapshot(r)
  BY <1>1 DEF Snapshot, TypeOK, OnlyBuild
<1>2. CASE GetResolved(r)
  BY <1>2 DEF GetResolved, TypeOK, Cell, OnlyBuild
<1>3. CASE GetOrInit(r)
  <2>1. Cell(r) = Unset /\ Entered(r)
    BY <1>3 DEF GetOrInit, Cell, Entered, SameSource
  <2>2. EnvSecret \in Values /\ {"reading", "fallback"} \subseteq Resolving \ {"removing"}
    BY DEF Values, Resolving
  <2> QED
    BY <1>3, <2>1, <2>2, MovesProceed DEF GetOrInit, At, OnlyBuild
<1>4. CASE ReadFile(r)
  <2>1. file \notin {Missing, Unusable} => file \in Values
    BY DEF TypeOK, Values
  <2>2. {"reading", "checking", "fallback"} \subseteq Resolving \ {"removing"}
    BY DEF Resolving
  <2> QED
    BY <1>4, <2>1, <2>2, MovesProceed DEF ReadFile, At, OnlyBuild
<1>5. CASE CheckMissing(r)
  BY <1>5, MovesProceed DEF CheckMissing, Resolving, At, OnlyBuild
<1>6. CASE CreateTemp(r)
  <2>1. NoSecret \in Values /\ {"creating", "writing", "fallback"} \subseteq Resolving \ {"removing"}
    BY DEF Values, Resolving
  <2>2. \A s \in Requests : s # r => temp'[s] = temp[s]
    BY <1>6 DEF CreateTemp, TypeOK
  <2> QED
    BY <1>6, <2>1, <2>2, MovesProceed DEF CreateTemp, At, OnlyBuild
<1>7. CASE WriteTemp(r)
  <2>1. \A s \in Requests : s # r => temp'[s] = temp[s]
    BY <1>7 DEF WriteTemp, TypeOK
  <2> QED
    BY <1>7, <2>1, MovesProceed DEF WriteTemp, Resolving, At, OnlyBuild
<1>8. CASE Link(r)
  <2>1. r \in Values
    BY DEF Values
  <2> QED
    BY <1>8, <2>1, MovesProceed DEF Link, Resolving, At, OnlyBuild
<1>9. CASE ReadWinner(r)
  <2>1. (IF file \in {Missing, Unusable} THEN Failed ELSE file) \in Values \cup {Failed}
    BY DEF TypeOK, Values
  <2> QED
    BY <1>9, <2>1, MovesProceed DEF ReadWinner, Resolving, At, OnlyBuild
<1>10. CASE RemoveTemp(r)
  <2>1. build[r].secret # Failed => build[r].secret \in Values
    BY <1>10 DEF TypeOK, DoneIsMemoized, RemoveTemp
  <2>2. \A s \in Requests : s # r => temp'[s] = temp[s]
    BY <1>10 DEF RemoveTemp, TypeOK
  <2>3. "removing" \in Resolving /\ "fallback" \in Resolving \ {"removing"}
    BY DEF Resolving
  <2> QED
    BY <1>10, <2>1, <2>2, <2>3, MovesProceed DEF RemoveTemp, At, OnlyBuild
<1>11. CASE Fallback(r)
  <2>1. ephemeral'[Process(r)] \in Values
    BY <1>11, SecretAssumption DEF Fallback, TypeOK, Process, Values
  <2> QED
    BY <1>11, <2>1, MovesProceed DEF Fallback, Resolving, At, OnlyBuild
<1> QED
  BY <1>1, <1>2, <1>3, <1>4, <1>5, <1>6, <1>7, <1>8, <1>9, <1>10, <1>11 DEF Build

\* The value of a resolved source is read from its own place only.
LEMMA ResolveCell ==
  ASSUME TypeOK, NEW r \in Requests, NEW value, Resolve(r, value),
         NEW c \in Clients, NEW v \in Versions
  PROVE  cell'[c][v] = IF c = ClientOf[r] /\ v = build[r].source THEN value ELSE cell[c][v]
<1>1. cell \in [Clients -> [Versions -> Values \cup {Unset}]]
  BY DEF TypeOK
<1>2. cell' = [cell EXCEPT ![ClientOf[r]][build[r].source] = value]
  BY DEF Resolve
<1> QED
  BY <1>1, <1>2

\* The value a build resolves is that of its own source.
LEMMA ResolveBuild ==
  ASSUME TypeOK, NEW r \in Requests, NEW value, Resolve(r, value)
  PROVE  build'[r] = [build[r] EXCEPT !.stage = "done", !.secret = value]
<1>1. build \in [Requests -> [ stage : StageNames, source : Versions,
                                secret : Values \cup {Unset, Failed} ]]
  BY DEF TypeOK, StageNames
<1> QED
  BY <1>1 DEF Resolve

\* Every build has a client and a version of its source.
LEMMA BuildFields ==
  ASSUME TypeOK, NEW r \in Requests
  PROVE  /\ ClientOf[r] \in Clients /\ build[r].source \in Versions
         /\ source[ClientOf[r]] \in Versions
         /\ build[r].stage \in StageNames /\ build[r].secret \in Values \cup {Unset, Failed}
         /\ build[r] \in [ stage : StageNames, source : Versions,
                           secret : Values \cup {Unset, Failed} ]
BY SecretAssumption DEF TypeOK, StageNames

-----------------------------------------------------------------------------
(* One build resolves a source, and every build has what it resolved to    *)

\* A step of a build takes no snapshot of a version to come.
LEMMA BuildSnapshotsArePast ==
  ASSUME TypeOK, DoneIsMemoized, SnapshotsArePast, NEW r \in Requests, Build(r)
  PROVE  SnapshotsArePast'
<1>1. OnlyBuild(r)
  BY BuildShape
<1>2. build'[r].source \in {source[ClientOf[r]], build[r].source}
  BY BuildShape, BuildFields
<1>3. source[ClientOf[r]] \in Nat
  BY BuildFields DEF Versions
<1> QED
  BY <1>1, <1>2, <1>3 DEF SnapshotsArePast, OnlyBuild

\* While r resolves its source, or enters to, the source is unset and nobody
\* else resolves it.
Alone(r) ==
  /\ Cell(r) = Unset
  /\ \A s \in Requests : SameSource(s, r) /\ build[s].stage \in Resolving => s = r

\* A step that leaves r outside of Resolving and memoizes nothing, or one that
\* r takes alone.
LEMMA BuildAlone ==
  ASSUME TypeOK, DoneIsMemoized, OneResolves, NEW r \in Requests, Build(r)
  PROVE  \/ UNCHANGED cell /\ build'[r].stage \notin Resolving
         \/ /\ Alone(r) /\ Proceeds(r) /\ build'[r].source = build[r].source
            /\ build[r].stage \in {"get"} \cup Resolving
<1>1. CASE /\ UNCHANGED cell
           /\ build'[r] = [build[r] EXCEPT !.stage = "get", !.source = source[ClientOf[r]]]
  BY <1>1, BuildFields DEF Resolving
<1>2. CASE /\ UNCHANGED cell
           /\ build'[r] = [build[r] EXCEPT !.stage = "done", !.secret = Cell(r)]
  BY <1>2, BuildFields DEF Resolving
<1>3. CASE /\ At(r, "get") => Cell(r) = Unset /\ Entered(r)
           /\ build[r].stage \in {"get"} \cup Resolving
           /\ build'[r].source = build[r].source
           /\ Proceeds(r)
  <2>1. CASE At(r, "get")
    BY <1>3, <2>1 DEF Alone, Entered
  <2>2. CASE build[r].stage \in Resolving
    BY <2>2, <1>3 DEF OneResolves, Alone, SameSource
  <2> QED
    BY <1>3, <2>1, <2>2 DEF At
<1> QED
  BY <1>1, <1>2, <1>3, BuildShape

\* The memo of a source is filled by one build at a time.
LEMMA BuildOneResolves ==
  ASSUME TypeOK, DoneIsMemoized, OneResolves, NEW r \in Requests, Build(r)
  PROVE  OneResolves'
<1>0. OnlyBuild(r)
  BY BuildShape
<1>1. CASE build'[r].stage \notin Resolving /\ UNCHANGED cell
  BY <1>0, <1>1 DEF OneResolves, OnlyBuild, SameSource, Cell
<1>2. ASSUME NEW value \in Values, Resolve(r, value), Alone(r)
      PROVE  OneResolves'
  <2>1. build'[r].stage \notin Resolving /\ build'[r].source = build[r].source
    BY <1>2, ResolveBuild, BuildFields DEF Resolving
  <2> SUFFICES ASSUME NEW s \in Requests, build'[s].stage \in Resolving
               PROVE  /\ Cell(s)' = Unset
                      /\ \A t \in Requests :
                           SameSource(s, t)' /\ build'[t].stage \in Resolving => t = s
    BY DEF OneResolves
  <2>2. s # r /\ build'[s] = build[s]
    BY <1>0, <2>1 DEF OnlyBuild
  <2>3. \A t \in Requests :
          SameSource(s, t)' /\ build'[t].stage \in Resolving => t = s
    BY <1>0, <2>1, <2>2 DEF OneResolves, OnlyBuild, SameSource
  <2>4. ~ SameSource(s, r)
    BY <1>2, <2>2 DEF Alone
  <2>5. Cell(s)' = Cell(s)
    BY <1>2, <2>2, <2>4, ResolveCell, BuildFields DEF Cell, SameSource
  <2> QED
    BY <2>2, <2>3, <2>5 DEF OneResolves
<1>3. ASSUME UNCHANGED cell, Alone(r), build'[r].source = build[r].source
      PROVE  OneResolves'
  BY <1>0, <1>3 DEF OneResolves, OnlyBuild, SameSource, Cell, Alone
<1> QED
  BY <1>1, <1>2, <1>3, BuildAlone DEF Proceeds

\* A build that ends has the value its source keeps.
LEMMA BuildDoneIsMemoized ==
  ASSUME TypeOK, DoneIsMemoized, OneResolves, NEW r \in Requests, Build(r)
  PROVE  DoneIsMemoized'
<1>0. OnlyBuild(r)
  BY BuildShape
<1>1. ASSUME NEW value \in Values, Resolve(r, value), Alone(r)
      PROVE  DoneIsMemoized'
  <2>0. build'[r] = [build[r] EXCEPT !.stage = "done", !.secret = value]
    BY <1>1, ResolveBuild
  <2>1. /\ build'[r].stage = "done" /\ build'[r].secret = value
        /\ build'[r].source = build[r].source
    BY <2>0, BuildFields
  <2>2. Cell(r)' = value /\ value # Unset
    BY <1>1, <2>1, ResolveCell, BuildFields, SecretsDiffer DEF Cell, Values
  <2> SUFFICES ASSUME NEW s \in Requests, s # r, At(s, "done")
               PROVE  Cell(s)' = build[s].secret
    BY <1>0, <2>1, <2>2 DEF DoneIsMemoized, At, OnlyBuild
  <2>3. ~ SameSource(s, r)
    BY <1>1 DEF Alone, DoneIsMemoized, SameSource, Cell
  <2>4. Cell(s)' = Cell(s)
    BY <1>0, <1>1, <2>3, ResolveCell, BuildFields DEF Cell, SameSource, OnlyBuild
  <2> QED
    BY <2>4 DEF DoneIsMemoized
<1>2. ASSUME UNCHANGED cell,
             At(r, "done")' => Cell(r)' = build'[r].secret /\ build'[r].secret # Unset,
             At(r, "removing")' => build'[r].secret # Unset
      PROVE  DoneIsMemoized'
  BY <1>0, <1>2 DEF DoneIsMemoized, OnlyBuild, At, Cell
<1>3. CASE build'[r] = [build[r] EXCEPT !.stage = "get", !.source = source[ClientOf[r]]]
           /\ UNCHANGED cell
  BY <1>2, <1>3, BuildFields DEF At
<1>4. CASE build'[r] = [build[r] EXCEPT !.stage = "done", !.secret = Cell(r)]
           /\ Cell(r) # Unset /\ UNCHANGED cell
  BY <1>2, <1>4, BuildFields DEF At, Cell
<1>5. CASE /\ build'[r].stage \in Resolving /\ UNCHANGED cell
           /\ build'[r].stage = "removing" => build'[r].secret # Unset
  BY <1>2, <1>5 DEF At, Resolving
<1>6. CASE Proceeds(r) /\ (At(r, "get") => Cell(r) = Unset /\ Entered(r))
           /\ build[r].stage \in {"get"} \cup Resolving
  <2>1. CASE \E value \in Values : Resolve(r, value)
    <3>1. Alone(r)
      BY <1>6 DEF Alone, Entered, OneResolves, SameSource, At
    <3> QED
      BY <1>1, <2>1, <3>1
  <2> QED
    BY <1>5, <1>6, <2>1 DEF Proceeds
<1> QED
  BY <1>3, <1>4, <1>6, BuildShape

\* with_user_cache_secret writes a version that no build has a snapshot of.
LEMMA ReplaceCell ==
  ASSUME TypeOK, SnapshotsArePast, NEW c \in Clients, NEW value, Replace(c, value),
         NEW r \in Requests
  PROVE  Cell(r)' = Cell(r) /\ build' = build
<1>1. cell \in [Clients -> [Versions -> Values \cup {Unset}]]
  BY DEF TypeOK
<1>2. cell' = [cell EXCEPT ![c][source[c] + 1] = value] /\ build' = build
  BY DEF Replace
<1>3. build[r].source \in Nat /\ source[ClientOf[r]] \in Nat
  BY BuildFields DEF Versions
<1>4. ClientOf[r] = c => build[r].source # source[c] + 1
  BY <1>3 DEF SnapshotsArePast
<1> QED
  BY <1>1, <1>2, <1>4, BuildFields DEF Cell

\* A killed process loses its builds and its sources together.
LEMMA KillBuilds ==
  ASSUME TypeOK, NEW p \in Processes, Kill(p), NEW r \in Requests
  PROVE  \/ /\ Process(r) = p /\ build'[r].stage = "killed" /\ build'[r].source = 0
         \/ /\ Process(r) # p /\ build'[r] = build[r] /\ Cell(r)' = Cell(r)
            /\ source'[ClientOf[r]] = source[ClientOf[r]]
<1>1. ClientOf[r] \in Clients
  BY SecretAssumption
<1> QED
  BY <1>1 DEF Kill, Blank, Process, Cell

\* Snapshots, the memo and its one writer go together through every step.
LEMMA NextSources ==
  ASSUME TypeOK, SnapshotsArePast, OneResolves, DoneIsMemoized, [Next]_vars
  PROVE  SnapshotsArePast' /\ OneResolves' /\ DoneIsMemoized'
<1>1. ASSUME NEW r \in Requests, Build(r)
      PROVE  SnapshotsArePast' /\ OneResolves' /\ DoneIsMemoized'
  BY <1>1, BuildSnapshotsArePast, BuildOneResolves, BuildDoneIsMemoized
<1>2. ASSUME NEW c \in Clients, NEW value \in {CallerSecret, Unset}, Replace(c, value)
      PROVE  SnapshotsArePast' /\ OneResolves' /\ DoneIsMemoized'
  <2>1. \A r \in Requests : Cell(r)' = Cell(r) /\ build' = build
    BY <1>2, ReplaceCell
  <2>2. ASSUME NEW r \in Requests PROVE build'[r].source <= source'[ClientOf[r]]
    <3>1. source \in [Clients -> Versions] /\ source' = [source EXCEPT ![c] = source[c] + 1]
      BY <1>2 DEF TypeOK, Replace
    <3>2. build[r].source \in Nat /\ source[ClientOf[r]] \in Nat /\ ClientOf[r] \in Clients
      BY BuildFields DEF Versions
    <3>3. source'[ClientOf[r]] \in {source[ClientOf[r]], source[ClientOf[r]] + 1}
      BY <3>1, <3>2
    <3> QED
      BY <2>1, <3>2, <3>3 DEF SnapshotsArePast
  <2>3. OneResolves' /\ DoneIsMemoized'
    BY <2>1 DEF OneResolves, DoneIsMemoized, SameSource, At
  <2> QED
    BY <2>2, <2>3 DEF SnapshotsArePast
<1>3. ASSUME NEW p \in Processes, Kill(p)
      PROVE  SnapshotsArePast' /\ OneResolves' /\ DoneIsMemoized'
  <2>1. ASSUME NEW r \in Requests PROVE build'[r].source <= source'[ClientOf[r]]
    <3>1. CASE Process(r) = p
      <4>1. source'[ClientOf[r]] = 0
        BY <1>3, <3>1, BuildFields DEF Kill, Process
      <4> QED
        BY <1>3, <3>1, <4>1, KillBuilds
    <3>2. CASE Process(r) # p
      BY <1>3, <3>2, KillBuilds DEF SnapshotsArePast
    <3> QED
      BY <3>1, <3>2
  <2>2. DoneIsMemoized'
    BY <1>3, KillBuilds DEF DoneIsMemoized, At
  <2>3. OneResolves'
    <3> SUFFICES ASSUME NEW r \in Requests, build'[r].stage \in Resolving
                 PROVE  /\ Cell(r)' = Unset
                        /\ \A s \in Requests :
                             SameSource(r, s)' /\ build'[s].stage \in Resolving => s = r
      BY DEF OneResolves
    <3>1. "killed" \notin Resolving
      BY DEF Resolving
    <3>2. \A s \in Requests : build'[s].stage \in Resolving => build'[s] = build[s]
      BY <1>3, <3>1, KillBuilds
    <3>3. Cell(r)' = Cell(r)
      BY <1>3, <3>1, KillBuilds
    <3> QED
      BY <3>2, <3>3 DEF OneResolves, SameSource
  <2> QED
    BY <2>1, <2>2, <2>3 DEF SnapshotsArePast
<1>4. CASE Foreign \/ UNCHANGED vars
  BY <1>4 DEF Foreign, vars, SnapshotsArePast, OneResolves, DoneIsMemoized, SameSource, Cell, At
<1> QED
  BY <1>1, <1>2, <1>3, <1>4 DEF Next

-----------------------------------------------------------------------------
(* Candidate files                                                         *)

\* Every step but those of the publication leaves the candidates alone.
LEMMA NextCandidatesFollowStages ==
  TypeOK /\ CandidatesFollowStages /\ [Next]_vars => CandidatesFollowStages'
<1> SUFFICES ASSUME TypeOK, CandidatesFollowStages, [Next]_vars
             PROVE  CandidatesFollowStages'
  OBVIOUS
<1>0. build \in [Requests -> [ stage : StageNames, source : Versions,
                               secret : Values \cup {Unset, Failed} ]]
      /\ temp \in [Requests -> Requests \cup {Missing, Unusable}]
  BY DEF TypeOK, StageNames
<1> USE <1>0 DEF CandidatesFollowStages, At
<1>1. ASSUME NEW r \in Requests, Snapshot(r) \/ GetResolved(r) \/ GetOrInit(r)
      PROVE  CandidatesFollowStages'
  BY <1>1 DEF Snapshot, GetResolved, GetOrInit, Goto, Resolve
<1>2. ASSUME NEW r \in Requests, ReadFile(r) \/ CheckMissing(r)
      PROVE  CandidatesFollowStages'
  BY <1>2 DEF ReadFile, CheckMissing, Goto, Resolve
<1>3. ASSUME NEW r \in Requests, CreateTemp(r)
      PROVE  CandidatesFollowStages'
  BY <1>3 DEF CreateTemp, Goto, Resolve
<1>4. ASSUME NEW r \in Requests, WriteTemp(r)
      PROVE  CandidatesFollowStages'
  BY <1>4 DEF WriteTemp, Goto
<1>5. ASSUME NEW r \in Requests, Link(r) \/ ReadWinner(r)
      PROVE  CandidatesFollowStages'
  BY <1>5 DEF Link, ReadWinner, Goto
<1>6. ASSUME NEW r \in Requests, RemoveTemp(r)
      PROVE  CandidatesFollowStages'
  BY <1>6 DEF RemoveTemp, Goto, Resolve
<1>7. ASSUME NEW r \in Requests, Fallback(r)
      PROVE  CandidatesFollowStages'
  BY <1>7 DEF Fallback, Resolve
<1>8. ASSUME NEW p \in Processes, Kill(p)
      PROVE  CandidatesFollowStages'
  BY <1>8 DEF Kill, Blank
<1>9. CASE UNCHANGED <<temp, build>>
  BY <1>9
<1> QED
  BY <1>1, <1>2, <1>3, <1>4, <1>5, <1>6, <1>7, <1>8, <1>9
     DEF Next, Build, Replace, Foreign, vars

\* Every step of a request keeps candidates that are left to remove_file's failures.
LEMMA NextCandidatesAreRemoved ==
  TypeOK /\ CandidatesFollowStages /\ CandidatesAreRemoved /\ [Next]_vars
    => CandidatesAreRemoved'
<1> SUFFICES ASSUME TypeOK, CandidatesFollowStages, CandidatesAreRemoved, [Next]_vars
             PROVE  CandidatesAreRemoved'
  OBVIOUS
<1>0. build \in [Requests -> [ stage : StageNames, source : Versions,
                               secret : Values \cup {Unset, Failed} ]]
      /\ temp \in [Requests -> Requests \cup {Missing, Unusable}]
  BY DEF TypeOK, StageNames
<1> USE <1>0 DEF CandidatesFollowStages, CandidatesAreRemoved, At
<1>1. ASSUME NEW r \in Requests, Snapshot(r) \/ GetResolved(r) \/ GetOrInit(r)
      PROVE  CandidatesAreRemoved'
  BY <1>1 DEF Snapshot, GetResolved, GetOrInit, Goto, Resolve
<1>2. ASSUME NEW r \in Requests, ReadFile(r) \/ CheckMissing(r)
      PROVE  CandidatesAreRemoved'
  BY <1>2 DEF ReadFile, CheckMissing, Goto, Resolve
<1>3. ASSUME NEW r \in Requests, CreateTemp(r)
      PROVE  CandidatesAreRemoved'
  BY <1>3 DEF CreateTemp, Goto, Resolve
<1>4. ASSUME NEW r \in Requests, WriteTemp(r)
      PROVE  CandidatesAreRemoved'
  BY <1>4 DEF WriteTemp, Goto
<1>5. ASSUME NEW r \in Requests, Link(r) \/ ReadWinner(r)
      PROVE  CandidatesAreRemoved'
  BY <1>5 DEF Link, ReadWinner, Goto
<1>6. ASSUME NEW r \in Requests, RemoveTemp(r)
      PROVE  CandidatesAreRemoved'
  <2>1. \A s \in Requests : s # r => build'[s] = build[s] /\ temp'[s] = temp[s]
    BY <1>6 DEF RemoveTemp, Goto, Resolve
  <2>2. unremoved \subseteq unremoved' /\ (temp'[r] = Missing \/ r \in unremoved')
    BY <1>6 DEF RemoveTemp
  <2> QED
    BY <2>1, <2>2
<1>7. ASSUME NEW r \in Requests, Fallback(r)
      PROVE  CandidatesAreRemoved'
  BY <1>7 DEF Fallback, Resolve
<1>8. ASSUME NEW p \in Processes, Kill(p)
      PROVE  CandidatesAreRemoved'
  BY <1>8 DEF Kill, Blank
<1>9. CASE UNCHANGED <<temp, build, unremoved>>
  BY <1>9
<1> QED
  BY <1>1, <1>2, <1>3, <1>4, <1>5, <1>6, <1>7, <1>8, <1>9
     DEF Next, Build, Replace, Foreign, vars

-----------------------------------------------------------------------------
(* What was generated is what the file holds                               *)

\* A source may take any value that is not generated, or the persisted one.
LEMMA ResolvePersists ==
  ASSUME TypeOK, Persisted, NEW r \in Requests, NEW value, Resolve(r, value),
         UNCHANGED file, value \in Requests => value = file
  PROVE  Persisted'
<1>1. \A c \in Clients, v \in Versions : cell'[c][v] \in {value, cell[c][v]}
  BY ResolveCell
<1>2. build'[r].secret = value
  <2>1. build'[r] = [build[r] EXCEPT !.stage = "done", !.secret = value]
    BY ResolveBuild
  <2> QED
    BY <2>1, BuildFields
<1>3. \A s \in Requests : s # r => build'[s] = build[s]
  BY DEF Resolve, TypeOK
<1> QED
  BY <1>1, <1>2, <1>3 DEF Persisted

\* So may a build, without telling anybody.
LEMMA GotoPersists ==
  ASSUME TypeOK, Persisted, NEW r \in Requests, UNCHANGED <<file, cell>>,
         \A s \in Requests : s # r => build'[s] = build[s],
         build'[r].stage \in {"removing", "done"} /\ build'[r].secret \in Requests
           => build'[r].secret = file
  PROVE  Persisted'
BY DEF Persisted

\* Every step of a build keeps generated values persisted or on their way.
LEMMA BuildPersists ==
  ASSUME TypeOK, CandidatesFollowStages, Persisted, NEW r \in Requests, Build(r)
  PROVE  Persisted'
<1>0. build \in [Requests -> [ stage : StageNames, source : Versions,
                               secret : Values \cup {Unset, Failed} ]]
  BY DEF TypeOK, StageNames
<1>a. \A stage \in Resolving \ {"removing"} :
        Goto(r, stage) /\ UNCHANGED <<file, cell>> => Persisted'
  <2> SUFFICES ASSUME NEW stage \in Resolving \ {"removing"}, Goto(r, stage),
                      UNCHANGED <<file, cell>>
               PROVE  Persisted'
    OBVIOUS
  <2>1. build'[r].stage = stage /\ \A s \in Requests : s # r => build'[s] = build[s]
    BY <1>0 DEF Goto
  <2> QED
    BY <2>1, GotoPersists DEF Resolving
<1>b. \A secret \in Values \cup {Failed} :
        /\ build' = [build EXCEPT ![r].stage = "removing", ![r].secret = secret]
        /\ UNCHANGED <<file, cell>>
        /\ secret \in Requests => secret = file
        => Persisted'
  <2> SUFFICES ASSUME NEW secret \in Values \cup {Failed},
                      build' = [build EXCEPT ![r].stage = "removing", ![r].secret = secret],
                      UNCHANGED <<file, cell>>,
                      secret \in Requests => secret = file
               PROVE  Persisted'
    OBVIOUS
  <2>1. build'[r] = [build[r] EXCEPT !.stage = "removing", !.secret = secret]
    BY <1>0
  <2>2. build'[r].secret = secret /\ \A s \in Requests : s # r => build'[s] = build[s]
    BY <1>0, <2>1
  <2> QED
    BY <2>2, GotoPersists
<1>c. \A value \in Values :
        Resolve(r, value) /\ UNCHANGED file /\ (value \in Requests => value = file)
          => Persisted'
  BY ResolvePersists
<1>d. Failed \notin Requests /\ NoSecret \notin Requests /\ EnvSecret \notin Requests
      /\ Missing \notin Requests /\ Unset \notin Requests
  BY SecretsDiffer
<1>1. CASE Snapshot(r)
  <2>1. UNCHANGED <<file, cell>> /\ build'[r].stage = "get"
        /\ \A s \in Requests : s # r => build'[s] = build[s]
    BY <1>0, <1>1 DEF Snapshot
  <2> QED
    BY <2>1, GotoPersists
<1>2. CASE GetResolved(r)
  <2>1. UNCHANGED <<file, cell>> /\ build'[r].secret = Cell(r)
        /\ \A s \in Requests : s # r => build'[s] = build[s]
    BY <1>0, <1>2 DEF GetResolved, Cell
  <2>2. Cell(r) \in Requests => Cell(r) = file
    BY BuildFields DEF Persisted, Cell
  <2> QED
    BY <2>1, <2>2, GotoPersists
<1>3. CASE GetOrInit(r)
  BY <1>3, <1>a, <1>c, <1>d DEF GetOrInit, Resolving, Values
<1>4. CASE ReadFile(r)
  <2>1. file \notin {Missing, Unusable} => file \in Values
    BY DEF TypeOK, Values
  <2> QED
    BY <1>4, <2>1, <1>a, <1>c DEF ReadFile, Resolving
<1>5. CASE CheckMissing(r)
  BY <1>5, <1>a DEF CheckMissing, Resolving
<1>6. CASE CreateTemp(r)
  BY <1>6, <1>a, <1>c, <1>d DEF CreateTemp, Resolving, Values
<1>7. CASE WriteTemp(r)
  BY <1>7, <1>a, <1>b, <1>d DEF WriteTemp, Resolving
<1>8. CASE Link(r)
  <2>1. ASSUME file = Missing, file' = temp[r], UNCHANGED cell,
               build' = [build EXCEPT ![r].stage = "removing", ![r].secret = r]
        PROVE  Persisted'
    <3>1. temp[r] = r
      BY <1>8 DEF Link, CandidatesFollowStages
    <3>2. build'[r] = [build[r] EXCEPT !.stage = "removing", !.secret = r]
      BY <1>0, <2>1
    <3>3. build'[r].secret = r /\ \A s \in Requests : s # r => build'[s] = build[s]
      BY <1>0, <2>1, <3>2
    <3> QED
      BY <1>d, <2>1, <3>1, <3>3 DEF Persisted
  <2> QED
    BY <1>8, <2>1, <1>a, <1>b, <1>d DEF Link, Resolving
<1>9. CASE ReadWinner(r)
  <2>1. (IF file \in {Missing, Unusable} THEN Failed ELSE file) \in Values \cup {Failed}
    BY DEF TypeOK, Values
  <2> QED
    BY <1>9, <2>1, <1>b, <1>d DEF ReadWinner
<1>10. CASE RemoveTemp(r)
  <2>1. build[r].secret \in Requests => build[r].secret = file
    BY <1>10 DEF RemoveTemp, At, Persisted
  <2>2. Resolve(r, build[r].secret) => Persisted'
    BY <1>10, <2>1, ResolvePersists DEF RemoveTemp
  <2> QED
    BY <1>10, <2>2, <1>a DEF RemoveTemp, Resolving
<1>11. CASE Fallback(r)
  <2>1. ephemeral'[Process(r)] \in Processes \cup {Unset, NoSecret}
    BY <1>11, SecretAssumption DEF Fallback, TypeOK, Process
  <2>2. ephemeral'[Process(r)] \notin Requests
    BY <1>d, <2>1, SecretsDiffer
  <2> QED
    BY <1>11, <2>2, ResolvePersists DEF Fallback
<1> QED
  BY <1>1, <1>2, <1>3, <1>4, <1>5, <1>6, <1>7, <1>8, <1>9, <1>10, <1>11 DEF Build

\* So does every step.
LEMMA NextGeneratedArePersisted ==
  TypeOK /\ CandidatesFollowStages /\ DoneIsMemoized /\ GeneratedArePersisted /\ [Next]_vars
    => GeneratedArePersisted'
<1> SUFFICES ASSUME TypeOK, CandidatesFollowStages, DoneIsMemoized, GeneratedArePersisted,
                    [Next]_vars, foreign' = 0
             PROVE  Persisted'
  BY DEF GeneratedArePersisted
<1>0. CASE Foreign
  BY <1>0 DEF Foreign, TypeOK
<1>1. ASSUME NEW r \in Requests, Build(r) PROVE Persisted'
  BY <1>1, BuildPersists, BuildShape DEF GeneratedArePersisted, OnlyBuild
<1>2. ASSUME NEW c \in Clients, NEW value \in {CallerSecret, Unset}, Replace(c, value)
      PROVE  Persisted'
  <2>1. \A d \in Clients, v \in Versions : cell'[d][v] \in {value, cell[d][v]}
    BY <1>2 DEF Replace, TypeOK
  <2>2. value \notin Requests
    BY SecretsDiffer
  <2> QED
    BY <1>2, <2>1, <2>2 DEF Replace, GeneratedArePersisted, Persisted
<1>3. ASSUME NEW p \in Processes, Kill(p) PROVE Persisted'
  <2>1. \A d \in Clients, v \in Versions : cell'[d][v] \in {Unset, cell[d][v]}
    BY <1>3 DEF Kill, TypeOK
  <2>2. Unset \notin Requests
    BY SecretsDiffer
  <2>3. \A r \in Requests : build'[r].stage \in {"removing", "done"} => build'[r] = build[r]
    BY <1>3, KillBuilds
  <2> QED
    BY <1>3, <2>1, <2>2, <2>3 DEF Kill, GeneratedArePersisted, Persisted
<1>4. CASE UNCHANGED vars
  BY <1>4 DEF vars, GeneratedArePersisted, Persisted
<1> QED
  BY <1>0, <1>1, <1>2, <1>3, <1>4 DEF Next

-----------------------------------------------------------------------------
(* The invariant                                                           *)

\* The strengthening holds at first and every step keeps it.
THEOREM Inductive == Spec => []IInv
<1>1. Init => IInv
  <2> SUFFICES ASSUME Init PROVE IInv
    OBVIOUS
  <2>2. CandidatesAreRemoved
    BY DEF Init, CandidatesAreRemoved
  <2>3. \A r \in Requests : build[r] = Blank("start")
    BY DEF Init
  <2>4. CandidatesFollowStages /\ OneResolves /\ DoneIsMemoized
    BY <2>3 DEF Init, Blank, CandidatesFollowStages, OneResolves, DoneIsMemoized, At, Resolving
  <2>5. SnapshotsArePast
    BY <2>3, SecretAssumption DEF Init, Blank, SnapshotsArePast
  <2>6. Persisted
    BY <2>3, SecretsDiffer DEF Init, Blank, Persisted
  <2> QED
    BY <2>2, <2>4, <2>5, <2>6, InitTypeOK DEF IInv, GeneratedArePersisted
<1>2. IInv /\ [Next]_vars => IInv'
  BY NextTypeOK, NextSources, NextCandidatesFollowStages, NextGeneratedArePersisted,
     NextCandidatesAreRemoved DEF IInv
<1> QED
  BY <1>1, <1>2, PTL DEF Spec

-----------------------------------------------------------------------------
(* The properties                                                          *)

\* The file, the candidates, the sources and the builds are of their types.
THEOREM TypeCorrect == Spec => []TypeOK
<1>1. IInv => TypeOK
  BY DEF IInv
<1> QED
  BY <1>1, Inductive, PTL

\* Racing first uses of load_or_generate come back with the secret of the file,
\* however many processes race and are killed.
THEOREM FirstUsesConverge == Spec => []PersistedSecretsConverge
<1>1. IInv => PersistedSecretsConverge
  BY DEF IInv, GeneratedArePersisted, Persisted, PersistedSecretsConverge
<1> QED
  BY <1>1, Inductive, PTL

\* The builds that took a snapshot of one source inject one secret.
THEOREM SourcesAreMemoized == Spec => []OneSecretPerSource
<1>1. IInv => OneSecretPerSource
  BY DEF IInv, DoneIsMemoized, OneSecretPerSource, Cell, At
<1> QED
  BY <1>1, Inductive, PTL

\* A build that is through with publish_secret_file has removed its candidate, or
\* remove_file failed on it, whichever other calls failed before.
THEOREM CandidatesGo == Spec => []CandidatesAreRemoved
<1>1. IInv => CandidatesAreRemoved
  BY DEF IInv
<1> QED
  BY <1>1, Inductive, PTL

\* publish_secret_file makes a missing file whole, and this code changes the
\* file in no other way.
THEOREM PublicationIsAtomic == Spec => PublishedOnceAndWhole
<1>1. IInv /\ [Next]_vars =>
        [file' # file => foreign' # foreign \/ (file = Missing /\ file' \in Requests)]_vars
  <2> SUFFICES ASSUME IInv, [Next]_vars, file' # file
               PROVE  foreign' # foreign \/ (file = Missing /\ file' \in Requests)
    OBVIOUS
  <2>1. CASE Foreign
    BY <2>1 DEF Foreign, IInv, TypeOK
  <2>2. ASSUME NEW r \in Requests, Link(r)
        PROVE  file = Missing /\ file' \in Requests
    BY <2>2 DEF Link, IInv, CandidatesFollowStages
  <2> QED
    BY <2>1, <2>2 DEF Next, Build, Snapshot, GetResolved, GetOrInit, ReadFile, CheckMissing,
       CreateTemp, WriteTemp, ReadWinner, RemoveTemp, Fallback, Replace, Kill, vars
<1> QED
  BY <1>1, Inductive, PTL DEF Spec, PublishedOnceAndWhole

=============================================================================
