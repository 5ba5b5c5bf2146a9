---------------------------- MODULE BodyInjection ----------------------------
(***************************************************************************)
(* How the user cache secret gets into a request body                      *)
(* (src/src/user_cache_secret.rs).  The typed path splices the field into  *)
(* the bytes the caller built; the relaxed path sets it in a JSON value.   *)
(*                                                                         *)
(* Bytes are tokens: the JSON delimiters, a backslash, a blank, and one    *)
(* token for a run of other bytes; "f" is the field's name, "u" any        *)
(* spelling of it as a Unicode escape (after the backslash).  A result     *)
(* that may be absent is a set of at most one element.                     *)
(*                                                                         *)
(* A body is also given as what a JSON parser sees in it, so that the      *)
(* splice can be compared with the edit of the parsed object:              *)
(*   [lead, inner, members, tail]    members a sequence of                 *)
(*   [key, value, pad]               token sequences, pad a run of blanks  *)
(***************************************************************************)
EXTENDS Integers, Sequences, SequencesExt, FiniteSets

Field == "f"
Quote == "\""
FieldKey == <<Quote, Field, Quote>>        \* the field's name as a JSON string
Backslash == "\\"
Empty == <<Quote, Quote>>                  \* the JSON string ""
SecretText(secret) == <<Quote, secret, Quote>>

SmallestOf(S) == {n \in S : \A m \in S : n <= m}
ByteAt(raw, i) == IF i \in DOMAIN raw THEN raw[i] ELSE "eof"

-----------------------------------------------------------------------------
(* The byte scanner.  Ranges are [from, to), as in the code.               *)

skip_json_whitespace(raw, i) ==
  CHOOSE j \in i..Len(raw) + 1 :
    ByteAt(raw, j) # " " /\ \A k \in i..j - 1 : raw[k] = " "

\* A mistake: a quote after a backslash never ends the string.
json_string_end_lookback(raw, start) ==
  IF ByteAt(raw, start) # Quote THEN {}
  ELSE {i + 1 : i \in SmallestOf({i \in start + 1..Len(raw) :
                        raw[i] = Quote /\ raw[i - 1] # Backslash})}

\* The first quote that no backslash escapes; a backslash may be escaped too.
json_string_end(raw, start) ==
  LET escaped[i \in start..Len(raw)] ==
        i > start + 1 /\ raw[i - 1] = Backslash /\ ~escaped[i - 1]
  IN  IF ByteAt(raw, start) # Quote THEN {}
      ELSE {i + 1 : i \in SmallestOf({i \in start + 1..Len(raw) :
                            raw[i] = Quote /\ ~escaped[i]})}

\* An object or an array ends where the brackets outside strings balance.
container_end(raw, start) ==
  LET After(s, byte) ==
        CASE s.in_string ->
               [s EXCEPT !.escaped = byte = Backslash /\ ~s.escaped,
                         !.in_string = s.escaped \/ byte # Quote]
          [] ~s.in_string /\ byte = Quote -> [s EXCEPT !.in_string = TRUE]
          [] ~s.in_string /\ byte \in {"{", "["} -> [s EXCEPT !.depth = @ + 1]
          [] ~s.in_string /\ byte \in {"}", "]"} -> [s EXCEPT !.depth = @ - 1]
          [] OTHER -> s
      scan[i \in start..Len(raw)] ==
        After(IF i = start
              THEN [depth |-> 0, in_string |-> FALSE, escaped |-> FALSE]
              ELSE scan[i - 1],
              raw[i])
  IN  {i + 1 : i \in SmallestOf({i \in start..Len(raw) : scan[i].depth = 0})}

\* A number or a keyword: up to a comma or a brace, less the blanks before it.
atom_end(raw, start) ==
  LET stop == CHOOSE j \in start..Len(raw) + 1 :
                /\ ByteAt(raw, j) \in {",", "}", "eof"}
                /\ \A k \in start..j - 1 : raw[k] \notin {",", "}"}
      filled == {j \in start..stop - 1 : raw[j] # " "}
  IN  {j + 1 : j \in {j \in filled : \A k \in filled : k <= j}}

json_value_end(raw, start) ==
  CASE ByteAt(raw, start) = "eof" -> {}
    [] ByteAt(raw, start) = Quote -> json_string_end(raw, start)
    [] ByteAt(raw, start) \in {"{", "["} -> container_end(raw, start)
    [] OTHER -> atom_end(raw, start)

\* serde_json on one string: escapes are decoded.
Name(key) == IF key = <<Quote, Backslash, "u", Quote>> THEN FieldKey ELSE key

\* The member that starts at i, if one can be read there: whether it is the
\* field, the range of its value, and the position of what follows it.
member_at(raw, i) ==
  UNION { LET colon == skip_json_whitespace(raw, keyEnd)
              start == skip_json_whitespace(raw, colon + 1)
              key == SubSeq(raw, i, keyEnd - 1)
          IN  IF ByteAt(raw, colon) # ":" THEN {}
              ELSE {[ named |-> Name(key) = FieldKey,
                      value |-> [from |-> start, to |-> end],
                      next |-> skip_json_whitespace(raw, end) ] :
                    end \in json_value_end(raw, start)} :
          keyEnd \in json_string_end(raw, i) }

\* Where the field's value stands in the object: none when a byte is not the
\* expected one, or the field stands there twice.
top_level_value_range(raw) ==
  LET start == skip_json_whitespace(raw, 1)
      \* the ranges of the field from i on, in a set when the rest can be read
      ranges[i \in 1..Len(raw) + 1] ==
        IF ByteAt(raw, i) = "}" THEN {{}}
        ELSE UNION { LET here == IF m.named THEN {m.value} ELSE {}
                     IN  CASE ByteAt(raw, m.next) = "}" -> {here}
                           [] ByteAt(raw, m.next) = "," ->
                                {here \cup rest : rest \in
                                   ranges[skip_json_whitespace(raw, m.next + 1)]}
                           [] OTHER -> {} :
                     m \in member_at(raw, i) }
  IN  IF ByteAt(raw, start) # "{" THEN {}
      ELSE UNION {found \in ranges[skip_json_whitespace(raw, start + 1)] :
                    Cardinality(found) = 1}

-----------------------------------------------------------------------------
(* Bodies, and serde_json's reading of them                                *)

MemberText(m) == m.pad \o m.key \o m.pad \o <<":">> \o m.pad \o m.value \o m.pad

MembersText(members) ==
  FoldLeftDomain(LAMBDA text, i :
                   text \o (IF i = 1 THEN <<>> ELSE <<",">>) \o MemberText(members[i]),
                 <<>>, members)

Text(body) == body.lead \o <<"{">> \o body.inner \o MembersText(body.members)
                \o <<"}">> \o body.tail

\* HashMap::deserialize and Deserializer::end: only blanks may follow.
IsObject(body) == \A i \in DOMAIN body.tail : body.tail[i] = " "

Occurrences(body) ==
  {i \in DOMAIN body.members : Name(body.members[i].key) = FieldKey}

\* The map keeps the last of several members with one name.
LastValue(body) ==
  {body.members[i].value : i \in
     {i \in Occurrences(body) : \A j \in Occurrences(body) : j <= i}}

-----------------------------------------------------------------------------
(* The injection                                                           *)

\* None leaves the body as it is: not an object, or the caller set the field.
inject_user_cache_secret(body, secret) ==
  LET raw == Text(body)
      closing == CHOOSE i \in DOMAIN raw :
                 raw[i] # " " /\ \A j \in i + 1..Len(raw) : raw[j] = " "
      comma == IF body.members = <<>> THEN <<>> ELSE <<",">>
  IN  CASE ~IsObject(body) -> {}
        [] IsObject(body) /\ LastValue(body) = {} ->
             {SubSeq(raw, 1, closing - 1) \o comma \o FieldKey \o <<":">>
                \o SecretText(secret) \o SubSeq(raw, closing, Len(raw))}
        [] IsObject(body) /\ LastValue(body) = {Empty} ->
             {SubSeq(raw, 1, range.from - 1) \o SecretText(secret)
                \o SubSeq(raw, range.to, Len(raw)) :
              range \in top_level_value_range(raw)}
        [] OTHER -> {}

USER_CACHE_SECRET_PATHS == {"/chat/completions", "/completions", "/responses"}

\* Only a POST of buffered bytes to one of the endpoints; an explicit
\* Content-Length follows the bytes.
provision_request(request, secret) ==
  IF /\ request.method = "POST"
     /\ request.endpoint \in USER_CACHE_SECRET_PATHS
     /\ request.carries = "bytes"
     /\ inject_user_cache_secret(request.body, secret) # {}
  THEN LET injected == CHOOSE t \in inject_user_cache_secret(request.body, secret) : TRUE
       IN  [request EXCEPT !.content = injected,
                           !.content_length = {Len(injected) : n \in @}]
  ELSE request

-----------------------------------------------------------------------------
(* The relaxed path: a serde_json::Value, here what a parser reads         *)

NameKey(n) == <<Quote, n, Quote>>

\* The object as a function from names to values; the last of equal names wins.
Reading(members) ==
  [ n \in {Name(members[i].key) : i \in DOMAIN members} |->
      LET last == CHOOSE i \in DOMAIN members :
                    /\ Name(members[i].key) = n
                    /\ \A j \in i + 1..Len(members) : Name(members[j].key) # n
      IN  members[last].value ]

Set(map, n, value) ==
  [m \in DOMAIN map \cup {n} |-> IF m = n THEN value ELSE map[m]]

\* force_stream of relaxed.rs.
force_stream(map, value) == Set(map, NameKey("stream"), <<value>>)

\* A value of the caller wins unless it is "".  The source is asked last, and
\* may have no secret.
provision_value(map, secret) ==
  IF (FieldKey \in DOMAIN map => map[FieldKey] = Empty) /\ secret # {}
  THEN Set(map, FieldKey, SecretText(CHOOSE s \in secret : TRUE))
  ELSE map

-----------------------------------------------------------------------------
\* What the injection promises, said of the parsed object: the field is added
\* when it is missing and set when it is empty; an object that says it twice,
\* or says something, keeps every byte, as does what is not an object.
Scoped(body, secret) ==
  CASE ~IsObject(body) -> body
    [] IsObject(body) /\ Occurrences(body) = {} ->
         [body EXCEPT !.members =
            Append(@, [ key |-> FieldKey,
                        value |-> SecretText(secret), pad |-> <<>> ])]
    [] IsObject(body) /\ Cardinality(Occurrences(body)) = 1 ->
         [body EXCEPT !.members =
            [i \in DOMAIN @ |->
               IF i \in Occurrences(body) /\ @[i].value = Empty
               THEN [@[i] EXCEPT !.value = SecretText(secret)] ELSE @[i]]]
    [] OTHER -> body

=============================================================================
