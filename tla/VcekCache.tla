----------------------------- MODULE VcekCache -----------------------------
(***************************************************************************)
(* The disk cache of AMD VCEK certificates (fetch_vcek): one entry, the    *)
(* certificate of one chip at one TCB level, looked up by several          *)
(* verifications at once, in one process or in several.  Every lookup that *)
(* misses writes the fetched bytes to the same temporary path and renames  *)
(* it over the entry.  Paths name files (inodes) and a lookup that opened  *)
(* the temporary path keeps its file whatever the path names later.        *)
(*                                                                         *)
(* A file's content is the payload it holds whole, or Torn: nothing yet, a *)
(* part of a payload, or a payload with the tail of a longer one behind    *)
(* it.  The proxy's payloads are the chip's certificate (Good), another    *)
(* well-formed certificate (Wrong), or a 200 answer that is none (Junk).   *)
(***************************************************************************)
EXTENDS Naturals, FiniteSets

CONSTANTS
  Lookups,      \* verifications that look the certificate up
  Files,        \* inodes: one for the entry and one for each open file
  Good, Wrong, Junk, Torn,
  None,         \* no file, no certificate
  MaxFaults     \* bound on failed file operations and killed processes

ASSUME FilesSuffice == IsFiniteSet(Files) /\ Cardinality(Files) > Cardinality(Lookups)

\* No file, no certificate and torn bytes are none of the files and payloads.
ASSUME CacheAssumption ==
  /\ None \notin Files \cup {Good, Wrong, Junk}
  /\ Torn \notin {Good, Wrong, Junk}
  /\ MaxFaults \in Nat

VARIABLES
  path,      \* the file each path names: "entry" (VCEK_*.der), "tmp"
  content,   \* what each file holds
  lookup,    \* each lookup's progress: stage, its open file, its bytes and
             \*   whether they came from the cache
  served,    \* payloads the proxy has answered with so far
  faults

vars == <<path, content, lookup, served, faults>>

Payloads == {Good, Wrong, Junk}

\* Certificate::from_der accepts the bytes.
Parses(bytes) == bytes \in {Good, Wrong}

Stages == {"idle", "discard", "fetch", "open", "write", "rename", "cleanup", "returned", "failed"}

Idle == [stage |-> "idle", file |-> None, bytes |-> None, cached |-> FALSE]

At(l, stage) == lookup[l].stage = stage

Goto(l, stage) == lookup' = [lookup EXCEPT ![l].stage = stage]

\* What a read of the entry returns; None when there is no file.
Entry == IF path["entry"] = None THEN None ELSE content[path["entry"]]

\* The file system refuses an operation.
Fault == faults < MaxFaults /\ faults' = faults + 1

-----------------------------------------------------------------------------
\* Use, without a look at them, the bytes the entry holds.
Hit(l) ==
  lookup' = [lookup EXCEPT ![l] = [Idle EXCEPT !.stage = "returned", !.bytes = Entry,
                                               !.cached = TRUE]]

\* fs::read and the parse: a hit returns the bytes, a corrupted entry is to
\* be discarded, a miss goes to the network.
ReadEntry_unparsed(l) ==
  /\ At(l, "idle")
  /\ \/ Entry = None /\ Goto(l, "fetch")
     \/ Entry # None /\ Hit(l)
  /\ UNCHANGED <<path, content, served, faults>>

ReadEntry(l) ==
  /\ At(l, "idle")
  /\ \/ Entry = None /\ Goto(l, "fetch")
     \/ Entry # None /\ ~Parses(Entry) /\ Goto(l, "discard")
     \/ Parses(Entry) /\ Hit(l)
  /\ UNCHANGED <<path, content, served, faults>>

\* remove_file(path): whatever the path names by now; a failure is ignored.
\* Without it the entry waits for a lookup that replaces it.
Discard_keeps(l) ==
  /\ At(l, "discard")
  /\ Goto(l, "fetch")
  /\ UNCHANGED <<path, content, served, faults>>

Discard(l) ==
  /\ At(l, "discard")
  /\ Goto(l, "fetch")
  /\ \/ path' = [path EXCEPT !["entry"] = None] /\ UNCHANGED faults
     \/ Fault /\ UNCHANGED path
  /\ UNCHANGED <<content, served>>

\* The proxy's answer, which goes to the disk unverified.
Fetch(l) ==
  /\ At(l, "fetch")
  /\ \E payload \in Payloads :
       /\ lookup' = [lookup EXCEPT ![l].stage = "open", ![l].bytes = payload]
       /\ served' = served \cup {payload}
  /\ UNCHANGED <<path, content, faults>>

\* A transport error or a status other than success.
FetchFails(l) ==
  /\ At(l, "fetch")
  /\ Goto(l, "failed")
  /\ UNCHANGED <<path, content, served, faults>>

\* Open create+truncate of the shared temporary path.
OpenTmp(l) ==
  /\ At(l, "open")
  /\ \/ \E f \in Files :
          /\ IF path["tmp"] # None
             THEN f = path["tmp"]
             ELSE /\ f # path["entry"]
                  /\ \A k \in Lookups : lookup[k].file # f
          /\ path' = [path EXCEPT !["tmp"] = f]
          /\ content' = [content EXCEPT ![f] = Torn]
          /\ lookup' = [lookup EXCEPT ![l].stage = "write", ![l].file = f]
          /\ UNCHANGED faults
     \/ Fault /\ Goto(l, "returned") /\ UNCHANGED <<path, content>>
  /\ UNCHANGED served

\* The file stays open over the rename.
WriteTmp_keepsFile(l) ==
  /\ At(l, "write")
  /\ content' = [content EXCEPT ![lookup[l].file] = lookup[l].bytes]
  /\ Goto(l, "rename")
  /\ UNCHANGED <<path, served, faults>>

\* write_all at offset 0 and sync_all, into the file opened.  Over another
\* payload the bytes end up whole or followed by its tail.  A failure leaves
\* the temporary file behind.
WriteTmp(l) ==
  LET f == lookup[l].file
      bytes == lookup[l].bytes
  IN
  /\ At(l, "write")
  /\ \/ /\ content' = [content EXCEPT ![f] = bytes]
        /\ lookup' = [lookup EXCEPT ![l].stage = "rename", ![l].file = None]
        /\ UNCHANGED faults
     \/ /\ content[f] \notin {Torn, bytes}
        /\ content' = [content EXCEPT ![f] = Torn]
        /\ lookup' = [lookup EXCEPT ![l].stage = "rename", ![l].file = None]
        /\ UNCHANGED faults
     \/ /\ Fault
        /\ content' \in {[content EXCEPT ![f] = c] : c \in {Torn, bytes}}
        /\ lookup' = [lookup EXCEPT ![l].stage = "returned", ![l].file = None]
  /\ UNCHANGED <<path, served>>

\* rename(tmp, path): fails when another lookup has renamed the file already.
RenameTmp(l) ==
  /\ At(l, "rename")
  /\ \/ /\ path["tmp"] # None
        /\ path' = [entry |-> path["tmp"], tmp |-> None]
        /\ Goto(l, "returned")
        /\ UNCHANGED faults
     \/ path["tmp"] = None /\ Goto(l, "cleanup") /\ UNCHANGED <<path, faults>>
     \/ Fault /\ Goto(l, "cleanup") /\ UNCHANGED path
  /\ UNCHANGED <<content, served>>

\* remove_file(tmp), a failure ignored.
Cleanup(l) ==
  /\ At(l, "cleanup")
  /\ Goto(l, "returned")
  /\ \/ path' = [path EXCEPT !["tmp"] = None] /\ UNCHANGED faults
     \/ Fault /\ UNCHANGED path
  /\ UNCHANGED <<content, served>>

\* The verification goes on with the bytes, or gives up, and a later one
\* looks the certificate up again.
Again(l) ==
  /\ lookup[l].stage \in {"returned", "failed"}
  /\ lookup' = [lookup EXCEPT ![l] = Idle]
  /\ UNCHANGED <<path, content, served, faults>>

\* The process is killed; what it did to the disk stays.
Kill(l) ==
  /\ ~At(l, "idle")
  /\ Fault
  /\ lookup' = [lookup EXCEPT ![l] = Idle]
  /\ UNCHANGED <<path, content, served>>

-----------------------------------------------------------------------------
\* A machine that has cached nothing yet.
Init ==
  /\ path = [entry |-> None, tmp |-> None]
  /\ content = [f \in Files |-> Torn]
  /\ lookup = [l \in Lookups |-> Idle]
  /\ served = {}
  /\ faults = 0

\* The synchronous part of a lookup and the answer it awaits.
Step(l) ==
  \/ ReadEntry(l) \/ Discard(l) \/ Fetch(l) \/ FetchFails(l)
  \/ OpenTmp(l) \/ WriteTmp(l) \/ RenameTmp(l) \/ Cleanup(l) \/ Again(l)

Next == \E l \in Lookups : Step(l) \/ Kill(l)

Spec == Init /\ [][Next]_vars

\* Every lookup goes on, and the client keeps verifying.
FairSpec == Spec /\ \A l \in Lookups : WF_vars(Step(l))

-----------------------------------------------------------------------------
\* Types.  A file is open only between its opening and its writing.
TypeOK ==
  /\ path \in [{"entry", "tmp"} -> Files \cup {None}]
  /\ content \in [Files -> Payloads \cup {Torn}]
  /\ lookup \in [Lookups -> [stage : Stages, file : Files \cup {None},
                             bytes : Payloads \cup {None}, cached : BOOLEAN]]
  /\ \A l \in Lookups : (lookup[l].file # None) <=> At(l, "write")
  /\ served \subseteq Payloads
  /\ faults \in 0..MaxFaults

\* Although lookups truncate, overwrite and rename each other's temporary file,
\* a verification goes on with nothing but bytes the proxy answered with, whole,
\* and with bytes from the disk only if they parse (the check behind fs::read).
UsedBytesWereServed ==
  \A l \in Lookups : At(l, "returned") =>
    /\ lookup[l].bytes \in served
    /\ lookup[l].cached => Parses(lookup[l].bytes)

\* A torn or unparseable entry does not stay: some lookup discards it or
\* replaces it, although the answer or the write that was to replace it may
\* fail (remove_file before the network fetch).
TornEntriesHeal == (Entry \in {Torn, Junk}) ~> (Entry \notin {Torn, Junk})

\* "Write to cache (atomic: write tmp then rename)": the entry is absent or
\* holds an answer of the proxy whole.
EntryIsWhole == Entry \in Payloads \cup {None}
=============================================================================
