---------------------------- MODULE VcekCache_proofs ----------------------------
(***************************************************************************)
(* Proofs about VcekCache, for every set of lookups and of files and every *)
(* number of faults.                                                       *)
(***************************************************************************)
EXTENDS VcekCache, TLAPS

\* A lookup that has the proxy's answer, or bytes it used instead of one, has
\* bytes the proxy once answered with.
AnswersAreServed ==
  \A l \in Lookups :
    lookup[l].stage \in {"open", "write", "rename", "cleanup", "returned"}
      => lookup[l].bytes \in served

\* Whatever a file holds is torn or an answer, whichever lookups wrote it.
FilesHoldAnswers == \A f \in Files : content[f] \in served \cup {Torn}

\* Only bytes that parsed were taken from the disk.
HitsParsed ==
  \A l \in Lookups :
    lookup[l].cached => At(l, "returned") /\ Parses(lookup[l].bytes)

IInv == TypeOK /\ AnswersAreServed /\ FilesHoldAnswers /\ HitsParsed

-----------------------------------------------------------------------------
(* Lemmas about the helpers                                                *)

\* A faulty operation is counted within the bound.
LEMMA FaultType ==
  ASSUME TypeOK, Fault \/ UNCHANGED faults
  PROVE  faults' \in 0..MaxFaults
BY CacheAssumption DEF Fault, TypeOK

\* The entry is the whole or torn content of a file, if it is there.
LEMMA EntryType ==
  ASSUME TypeOK
  PROVE  /\ Entry \in Payloads \cup {Torn, None}
         /\ Entry # None => \E f \in Files : Entry = content[f]
BY DEF TypeOK, Entry

-----------------------------------------------------------------------------
(* Type correctness                                                        *)

\* At first everything is of its type.
LEMMA InitTypeOK == Init => TypeOK
BY CacheAssumption DEF Init, TypeOK, Idle, Stages, At

\* Every step keeps the types.
LEMMA NextTypeOK == TypeOK /\ [Next]_vars => TypeOK'
<1> SUFFICES ASSUME TypeOK, [Next]_vars PROVE TypeOK'
  OBVIOUS
<1> USE DEF TypeOK
<1>1. ASSUME NEW l \in Lookups, ReadEntry(l) PROVE TypeOK'
  <2>1. CASE Goto(l, "fetch") \/ Goto(l, "discard")
    BY <1>1, <2>1 DEF ReadEntry, Goto, At, Stages
  <2>2. CASE Parses(Entry) /\ Hit(l)
    <3>1. Entry \in Payloads
      BY <2>2 DEF Parses, Payloads
    <3> QED
      BY <1>1, <2>2, <3>1 DEF ReadEntry, Hit, Idle, At, Stages
  <2> QED
    BY <1>1, <2>1, <2>2 DEF ReadEntry
<1>2. ASSUME NEW l \in Lookups, Discard(l) PROVE TypeOK'
  BY <1>2, FaultType DEF Discard, Goto, At, Stages
<1>3. ASSUME NEW l \in Lookups, Fetch(l) PROVE TypeOK'
  <2>1. PICK payload \in Payloads :
          /\ lookup' = [lookup EXCEPT ![l].stage = "open", ![l].bytes = payload]
          /\ served' = served \cup {payload}
    BY <1>3 DEF Fetch
  <2> QED
    BY <1>3, <2>1 DEF Fetch, At, Stages
<1>4. ASSUME NEW l \in Lookups, FetchFails(l) PROVE TypeOK'
  BY <1>4 DEF FetchFails, Goto, At, Stages
<1>5. ASSUME NEW l \in Lookups, OpenTmp(l) PROVE TypeOK'
  BY <1>5, CacheAssumption, FaultType DEF OpenTmp, Goto, At, Stages
<1>6. ASSUME NEW l \in Lookups, WriteTmp(l) PROVE TypeOK'
  BY <1>6, CacheAssumption, FaultType DEF WriteTmp, At, Stages
<1>7. ASSUME NEW l \in Lookups, RenameTmp(l) PROVE TypeOK'
  BY <1>7, FaultType DEF RenameTmp, Goto, At, Stages
<1>8. ASSUME NEW l \in Lookups, Cleanup(l) PROVE TypeOK'
  BY <1>8, FaultType DEF Cleanup, Goto, At, Stages
<1>9. ASSUME NEW l \in Lookups, Again(l) PROVE TypeOK'
  BY <1>9, CacheAssumption DEF Again, Idle, At, Stages
<1>10. ASSUME NEW l \in Lookups, Kill(l) PROVE TypeOK'
  BY <1>10, CacheAssumption, FaultType DEF Kill, Idle, At, Stages
<1>11. CASE UNCHANGED vars
  BY <1>11 DEF vars, At
<1> QED
  BY <1>1, <1>2, <1>3, <1>4, <1>5, <1>6, <1>7, <1>8, <1>9, <1>10, <1>11 DEF Next, Step

-----------------------------------------------------------------------------
(* The invariant                                                           *)

\* Answers are never taken back: what was served stays served.
LEMMA ServedGrows == [Next]_vars => served \subseteq served'
BY DEF Next, Step, ReadEntry, Discard, Fetch, FetchFails, OpenTmp, WriteTmp, RenameTmp,
       Cleanup, Again, Kill, vars

\* Files hold answers, or torn ones, whoever writes to them.
LEMMA NextFilesHoldAnswers ==
  TypeOK /\ AnswersAreServed /\ FilesHoldAnswers /\ [Next]_vars => FilesHoldAnswers'
<1> SUFFICES ASSUME TypeOK, AnswersAreServed, FilesHoldAnswers, [Next]_vars
             PROVE  FilesHoldAnswers'
  OBVIOUS
<1> USE DEF FilesHoldAnswers
<1>1. CASE UNCHANGED content
  BY <1>1, ServedGrows
<1>2. ASSUME NEW l \in Lookups, OpenTmp(l) PROVE FilesHoldAnswers'
  BY <1>2 DEF OpenTmp, TypeOK
<1>3. ASSUME NEW l \in Lookups, WriteTmp(l) PROVE FilesHoldAnswers'
  <2>1. lookup[l].bytes \in served
    BY <1>3 DEF WriteTmp, At, AnswersAreServed
  <2> QED
    BY <1>3, <2>1 DEF WriteTmp, TypeOK
<1> QED
  BY <1>1, <1>2, <1>3 DEF Next, Step, ReadEntry, Discard, Fetch, FetchFails, RenameTmp,
                          Cleanup, Again, Kill, vars

\* What a hit uses is a file's content, and it parses.
LEMMA HitsAreServed ==
  ASSUME TypeOK, FilesHoldAnswers, Parses(Entry)
  PROVE  Entry \in served
BY CacheAssumption, EntryType DEF FilesHoldAnswers, Parses

\* What a lookup has in hand was served.
LEMMA NextAnswersAreServed ==
  TypeOK /\ AnswersAreServed /\ FilesHoldAnswers /\ [Next]_vars => AnswersAreServed'
<1> SUFFICES ASSUME TypeOK, AnswersAreServed, FilesHoldAnswers, [Next]_vars
             PROVE  AnswersAreServed'
  OBVIOUS
<1> USE DEF AnswersAreServed, TypeOK
<1>1. ASSUME NEW l \in Lookups, ReadEntry(l) PROVE AnswersAreServed'
  <2>1. CASE Goto(l, "fetch") \/ Goto(l, "discard")
    BY <1>1, <2>1 DEF ReadEntry, Goto
  <2>2. CASE Parses(Entry) /\ Hit(l)
    BY <1>1, <2>2, HitsAreServed DEF ReadEntry, Hit, Idle
  <2> QED
    BY <1>1, <2>1, <2>2 DEF ReadEntry
<1>2. ASSUME NEW l \in Lookups, Discard(l) \/ FetchFails(l) PROVE AnswersAreServed'
  BY <1>2 DEF Discard, FetchFails, Goto
<1>3. ASSUME NEW l \in Lookups, Fetch(l) PROVE AnswersAreServed'
  <2>1. PICK payload \in Payloads :
          /\ lookup' = [lookup EXCEPT ![l].stage = "open", ![l].bytes = payload]
          /\ served' = served \cup {payload}
    BY <1>3 DEF Fetch
  <2> QED
    BY <2>1
<1>4. ASSUME NEW l \in Lookups, OpenTmp(l) PROVE AnswersAreServed'
  BY <1>4 DEF OpenTmp, Goto, At
<1>5. ASSUME NEW l \in Lookups, WriteTmp(l) PROVE AnswersAreServed'
  BY <1>5 DEF WriteTmp, At
<1>6. ASSUME NEW l \in Lookups, RenameTmp(l) \/ Cleanup(l) PROVE AnswersAreServed'
  BY <1>6 DEF RenameTmp, Cleanup, Goto, At
<1>7. ASSUME NEW l \in Lookups, Again(l) \/ Kill(l) PROVE AnswersAreServed'
  BY <1>7 DEF Again, Kill, Idle
<1>8. CASE UNCHANGED vars
  BY <1>8 DEF vars
<1> QED
  BY <1>1, <1>2, <1>3, <1>4, <1>5, <1>6, <1>7, <1>8 DEF Next, Step

\* What a lookup took from the disk parsed.
LEMMA NextHitsParsed == TypeOK /\ HitsParsed /\ [Next]_vars => HitsParsed'
<1> SUFFICES ASSUME TypeOK, HitsParsed, [Next]_vars PROVE HitsParsed'
  OBVIOUS
<1> USE DEF HitsParsed, TypeOK, At
<1>1. ASSUME NEW l \in Lookups, ReadEntry(l) PROVE HitsParsed'
  <2>1. CASE Goto(l, "fetch") \/ Goto(l, "discard")
    BY <1>1, <2>1 DEF ReadEntry, Goto
  <2>2. CASE Parses(Entry) /\ Hit(l)
    BY <1>1, <2>2 DEF ReadEntry, Hit, Idle
  <2> QED
    BY <1>1, <2>1, <2>2 DEF ReadEntry
<1>2. ASSUME NEW l \in Lookups, Discard(l) \/ Fetch(l) \/ FetchFails(l) PROVE HitsParsed'
  BY <1>2 DEF Discard, Fetch, FetchFails, Goto
<1>3. ASSUME NEW l \in Lookups, OpenTmp(l) \/ WriteTmp(l) PROVE HitsParsed'
  BY <1>3 DEF OpenTmp, WriteTmp, Goto
<1>4. ASSUME NEW l \in Lookups, RenameTmp(l) \/ Cleanup(l) PROVE HitsParsed'
  BY <1>4 DEF RenameTmp, Cleanup, Goto
<1>5. ASSUME NEW l \in Lookups, Again(l) \/ Kill(l) PROVE HitsParsed'
  BY <1>5 DEF Again, Kill, Idle
<1>6. CASE UNCHANGED vars
  BY <1>6 DEF vars
<1> QED
  BY <1>1, <1>2, <1>3, <1>4, <1>5, <1>6 DEF Next, Step

\* The strengthening holds at first and every step keeps it.
THEOREM Inductive == Spec => []IInv
<1>1. Init => IInv
  BY InitTypeOK DEF Init, IInv, AnswersAreServed, FilesHoldAnswers, HitsParsed, Idle
<1>2. IInv /\ [Next]_vars => IInv'
  BY NextTypeOK, NextAnswersAreServed, NextFilesHoldAnswers, NextHitsParsed DEF IInv
<1> QED
  BY <1>1, <1>2, PTL DEF Spec

-----------------------------------------------------------------------------
(* The properties                                                          *)

\* The disk, the lookups and the faults are of their types.
THEOREM TypeCorrect == Spec => []TypeOK
<1>1. IInv => TypeOK
  BY DEF IInv
<1> QED
  BY <1>1, Inductive, PTL

\* However lookups truncate, overwrite, rename and delete each other's files,
\* what a verification goes on with is an answer of the proxy, whole, and what it
\* took from the disk parses.
THEOREM OnlyServedBytesAreUsed == Spec => []UsedBytesWereServed
<1>1. IInv => UsedBytesWereServed
  BY DEF IInv, AnswersAreServed, HitsParsed, At, UsedBytesWereServed
<1> QED
  BY <1>1, Inductive, PTL
=============================================================================
