--------------------------- MODULE MCClientSession ---------------------------
(***************************************************************************)
(* A small instance of ClientSession.                                      *)
(***************************************************************************)
EXTENDS ClientSession

CONSTANTS routerA, routerB, inference, enclaveA, enclaveD, other, s1, s2

\* `other` has certificates for every host and runs no released code.
MCCertifiedFor ==
  (enclaveA :> {routerA}) @@ (enclaveD :> {inference})
    @@ (other :> {routerA, routerB, inference})

MCLists == {<<>>, <<routerA>>, <<routerB, routerA>>}

MCRetryAfters == {None, 0, 3, 60, MaxU64}

-----------------------------------------------------------------------------
(* Bodies                                                                  *)

Str(inside) == <<Quote>> \o inside \o <<Quote>>

\* The field, the field spelled with an escape, another name, and a name that
\* would end with the field's if the escaped quote in it counted.
Keys == {FieldKey, Str(<<Backslash, "u">>), Str(<<"a">>), Str(<<Backslash, Quote, Field>>)}

\* The empty string; one that says something; a number; strings with an escaped
\* quote and delimiters, and with an escaped backslash at the end; an object
\* with the field inside; an array with brackets in a string and a blank.
Texts ==
  { Empty, Str(<<"x">>), <<"1">>, Str(<<Backslash, Quote, "}", ",">>),
    Str(<<Backslash, Backslash>>), <<"{">> \o FieldKey \o <<":">> \o Empty \o <<"}">>,
    <<"[">> \o Str(<<"]">>) \o <<",", "{", "}", " ", "]">> }

Pads == {<<>>, <<" ">>}

Bodies ==
  [ lead : {<<>>}, inner : {<<>>}, tail : {<<>>},
    members : {<<m, n>> : m \in [key : Keys, value : Texts, pad : Pads],
                          n \in [key : Keys, value : {Empty, <<"1">>}, pad : {<<>>}]} ]
    \cup [ lead : Pads, inner : Pads,
           tail : {<<>>, <<" ">>, <<"}">>, <<" ", "x">>},
           members : {<<>>} \cup {<<m>> : m \in [key : Keys, value : Texts, pad : Pads]} ]
    \cup [ lead : {<<"[">>}, inner : {<<>>}, tail : {<<"]">>},
           members : {<<m>> : m \in [key : Keys, value : {Empty}, pad : {<<>>}]} ]

Distinct(members) ==
  \A i, j \in DOMAIN members :
    Name(members[i].key) = Name(members[j].key) => i = j

MCValues ==
  {b \in Bodies : b.lead # <<" ">> /\ b.inner = <<>> /\ b.tail \in {<<>>, <<"]">>}
                    /\ Distinct(b.members)}

Plain == [lead |-> <<>>, inner |-> <<>>, members |-> <<>>, tail |-> <<>>]

Posted(endpoint, body, length) ==
  [ method |-> "POST", endpoint |-> endpoint, carries |-> "bytes", body |-> body,
    content |-> Text(body),
    content_length |-> IF length THEN {Len(Text(body))} ELSE {} ]

MCTypedRequests ==
  {Posted("/chat/completions", b, FALSE) : b \in Bodies}
    \cup {Posted(e, Plain, TRUE) : e \in USER_CACHE_SECRET_PATHS \cup {"/embeddings"}}
    \cup {[Posted("/completions", Plain, FALSE) EXCEPT !.method = "PUT"],
          [None_asked EXCEPT !.method = "POST", !.endpoint = "/responses",
                             !.carries = "stream"],
          None_asked}

MCRawRequests ==
  {Posted("/chat/completions", Plain, TRUE), None_asked,
   [None_asked EXCEPT !.method = "PUT", !.carries = "stream"]}

=============================================================================
