----------------------------- MODULE SseStream -----------------------------
(***************************************************************************)
(* The streaming half of the relaxed chat client: create_stream waits for  *)
(* the response and parse_event_stream cuts its body, chunk by chunk, into *)
(* the events it yields.                                                   *)
(*                                                                         *)
(* A body is a sequence of bytes.  An element of Payloads stands for a     *)
(* line's `data: ` and one JSON value, Done for a data line the parser     *)
(* skips (`data: [DONE]`, or `data:` with nothing after it), Lead and      *)
(* Cont for the two bytes of one character, CR and LF for themselves.      *)
(* Each counts as one byte, so the limits count elements.                  *)
(***************************************************************************)
EXTENDS Integers, SequencesExt

CONSTANTS
  Payloads,         \* the JSON values the server sends
  Done, Lead, Cont, CR, LF,
  MaxEvent,         \* MAX_SSE_EVENT_BYTES
  MaxPending,       \* MAX_PENDING_UTF8_BYTES: the longest incomplete character
  MaxBytes          \* bound on the body's length

ASSUME SizesAreNat == MaxEvent \in Nat /\ MaxPending \in Nat /\ MaxBytes \in Nat

ASSUME BytesDiffer ==
  /\ Payloads \cap {Done, Lead, Cont, CR, LF} = {}
  /\ Done \notin {Lead, Cont, CR, LF}
  /\ Lead \notin {Cont, CR, LF} /\ Cont \notin {CR, LF} /\ CR # LF

VARIABLES
  status,    \* "sent", "open" (awaits a chunk), "cutting" (cuts events off the
             \* buffer), "ended", or the error the stream stopped with
  body,      \* the bytes received so far: what the parser is a function of
  pending,   \* bytes of a character that is still incomplete
  buffer,    \* characters not yet cut into events
  yielded    \* the values handed to the caller

vars == <<status, body, pending, buffer, yielded>>

Bytes == Payloads \cup {Done, Lead, Cont, CR, LF}
Errors == {"http", "network", "utf8", "too_long", "json"}

-----------------------------------------------------------------------------
\* A line's text without the carriage returns around it (lines, trim_start, trim).
Trim(line) ==
  LET kept == {i \in 1..Len(line) : line[i] # CR}
  IN  IF kept = {} THEN <<>> ELSE SubSeq(line, Min(kept), Max(kept))

IsData(line) == line # <<>> /\ line[1] \in Payloads \cup {Done}

\* A data line holds one value and nothing else.
IsJson(line) == Len(line) = 1

\* A mistake: the end marker is handed out as a value.
ReadLine_keepsDone(block, line) ==
  LET data == Trim(line) IN
  IF ~IsData(data) THEN block
  ELSE [ok |-> block.ok /\ IsJson(data), values |-> Append(block.values, data[1])]

\* One turn of the loop over a block's lines: a data line's value, or that it
\* is not JSON.
ReadLine(block, line) ==
  LET data == Trim(line) IN
  IF ~IsData(data) \/ data = <<Done>> THEN block
  ELSE [ok |-> block.ok /\ IsJson(data), values |-> Append(block.values, data[1])]

\* The values of a block, or that one of its data lines is not JSON: read[n] is
\* what the lines that end within n bytes give, and the line the n-th is in.
parse_event_block(event) ==
  LET read[n \in 0..Len(event)] ==
        IF n = 0 THEN [block |-> [ok |-> TRUE, values |-> <<>>], line |-> <<>>]
        ELSE LET before == read[n - 1] IN
             IF event[n] = LF
             THEN [block |-> ReadLine(before.block, before.line), line |-> <<>>]
             ELSE [block |-> before.block, line |-> Append(before.line, event[n])]
      last == read[Len(event)]
  IN  ReadLine(last.block, last.line)

OccursAt(text, i, sep) ==
  i + Len(sep) - 1 <= Len(text) /\ SubSeq(text, i, i + Len(sep) - 1) = sep

\* A mistake: events are only ended by LF LF.
find_event_boundary_lfOnly(text) ==
  LET places == {i \in DOMAIN text : OccursAt(text, i, <<LF, LF>>)}
  IN  IF places = {} THEN [found |-> FALSE, idx |-> 0, len |-> 0]
      ELSE [found |-> TRUE, idx |-> Min(places) - 1, len |-> 2]

\* The first place a separator is found, LF LF before CR LF CR LF, and its length.
find_event_boundary(text) ==
  LET places(sep) == {i \in DOMAIN text : OccursAt(text, i, sep)}
      lf == places(<<LF, LF>>)
      crlf == places(<<CR, LF, CR, LF>>)
  IN  IF lf \cup crlf = {} THEN [found |-> FALSE, idx |-> 0, len |-> 0]
      ELSE IF crlf = {} \/ (lf # {} /\ Min(lf) < Min(crlf))
           THEN [found |-> TRUE, idx |-> Min(lf) - 1, len |-> 2]
           ELSE [found |-> TRUE, idx |-> Min(crlf) - 1, len |-> 4]

\* How much of the bytes is whole characters, as from_utf8 finds it.
valid_up_to(bytes) ==
  LET misplaced == {i \in DOMAIN bytes :
                      \/ bytes[i] = Lead /\ (i = Len(bytes) \/ bytes[i + 1] # Cont)
                      \/ bytes[i] = Cont /\ (i = 1 \/ bytes[i - 1] # Lead)}
  IN  IF misplaced = {} THEN Len(bytes) ELSE Min(misplaced) - 1

\* from_utf8's error_len: the rest is wrong, not merely cut short.
Malformed(rest) == rest \notin {<<>>, <<Lead>>}

-----------------------------------------------------------------------------
Init ==
  /\ status = "sent"
  /\ body = <<>> /\ pending = <<>> /\ buffer = <<>> /\ yielded = <<>>

\* The response's head arrives: a success opens the stream, another status
\* ends the call with the server's error.
Respond(success) ==
  /\ status = "sent"
  /\ status' = IF success THEN "open" ELSE "http"
  /\ UNCHANGED <<body, pending, buffer, yielded>>

\* A chunk is taken in: the whole characters it completes join the buffer, unless
\* the bytes are not UTF-8.
Chunk(c) ==
  LET bytes == pending \o c
      n     == valid_up_to(bytes)
      rest  == SubSeq(bytes, n + 1, Len(bytes))
  IN
  /\ status = "open"
  /\ body' = body \o c
  /\ pending' = rest
  /\ buffer' = buffer \o SubSeq(bytes, 1, n)
  /\ status' = IF Malformed(rest) \/ Len(rest) > MaxPending THEN "utf8" ELSE "cutting"
  /\ UNCHANGED yielded

\* One turn of the loop over the buffer's complete events: the first one is cut
\* off and its values are yielded, unless one is not JSON.
Cut ==
  LET b     == find_event_boundary(buffer)
      block == parse_event_block(SubSeq(buffer, 1, b.idx))
  IN
  /\ status = "cutting"
  /\ b.found /\ b.idx <= MaxEvent
  /\ buffer' = SubSeq(buffer, b.idx + b.len + 1, Len(buffer))
  /\ \/ block.ok /\ yielded' = yielded \o block.values /\ UNCHANGED status
     \/ ~block.ok /\ status' = "json" /\ UNCHANGED yielded
  /\ UNCHANGED <<body, pending>>

\* An event is above the limit, with its separator or before it has one.
TooLong ==
  LET b == find_event_boundary(buffer) IN
  /\ status = "cutting"
  /\ IF b.found THEN b.idx > MaxEvent ELSE Len(buffer) > MaxEvent
  /\ status' = "too_long"
  /\ UNCHANGED <<body, pending, buffer, yielded>>

\* No complete event is left: the loop awaits the next chunk.
Await ==
  /\ status = "cutting"
  /\ ~find_event_boundary(buffer).found
  /\ Len(buffer) <= MaxEvent
  /\ status' = "open"
  /\ UNCHANGED <<body, pending, buffer, yielded>>

\* The transport fails: nothing buffered is yielded.
Fail ==
  /\ status \in {"sent", "open"}
  /\ status' = "network"
  /\ UNCHANGED <<body, pending, buffer, yielded>>

\* A mistake: what has no separator after it is forgotten.
End_forgetsTheRest ==
  /\ status = "open"
  /\ status' = IF pending # <<>> THEN "utf8"
               ELSE IF parse_event_block(buffer).ok THEN "ended" ELSE "json"
  /\ UNCHANGED <<body, pending, buffer, yielded>>

\* The body ends: what is left is one event without its separator.
End ==
  LET block == parse_event_block(buffer) IN
  /\ status = "open"
  /\ \/ pending # <<>> /\ status' = "utf8" /\ UNCHANGED yielded
     \/ pending = <<>> /\ ~block.ok /\ status' = "json" /\ UNCHANGED yielded
     \/ pending = <<>> /\ block.ok /\ status' = "ended" /\ yielded' = yielded \o block.values
  /\ UNCHANGED <<body, pending, buffer>>

Terminated == status \in Errors \cup {"ended"} /\ UNCHANGED vars

Next ==
  \/ \E success \in BOOLEAN : Respond(success)
  \/ \E n \in 0..(MaxBytes - Len(body)) : \E c \in [1..n -> Bytes] : Chunk(c)
  \/ Cut
  \/ TooLong
  \/ Await
  \/ Fail
  \/ End
  \/ Terminated

Spec == Init /\ [][Next]_vars

-----------------------------------------------------------------------------
(***************************************************************************)
(* What a text says, whatever the chunks it came in: its lines and blocks  *)
(* as positions of the whole text.                                         *)
(***************************************************************************)
Separators == {<<LF, LF>>, <<CR, LF, CR, LF>>}

\* The separators that end with the n-th byte and begin at first or later.
Ends(text, first, n) ==
  {sep \in Separators : /\ first + Len(sep) <= n + 1
                        /\ OccursAt(text, n + 1 - Len(sep), sep)}

\* Where the block begins that goes on after n bytes: a separator ends the block
\* it begins in.
BlockStart(text) ==
  LET start[n \in 0..Len(text)] ==
        IF n = 0 THEN 1
        ELSE LET first == start[n - 1]
             IN  IF Ends(text, first, n) = {} THEN first ELSE n + 1
  IN  start

\* The blocks a separator ends: where each begins, where its separator is and
\* where the text goes on.
Blocks(text) ==
  UNION {LET first == BlockStart(text)[n - 1]
         IN  {[first |-> first, sep |-> n + 1 - Len(sep), next |-> n + 1] :
                sep \in Ends(text, first, n)} : n \in DOMAIN text}

\* How many bytes the complete blocks and their separators are.
CompleteLength(text) == BlockStart(text)[Len(text)] - 1

\* The positions of i's line but for carriage returns.
LineAt(text, i) ==
  {j \in DOMAIN text : /\ text[j] # CR
                       /\ \A k \in DOMAIN text : k \in i..j \/ k \in j..i => text[k] # LF}

\* The values alone on their line among the first n bytes, in the text's order.
ValuesUpTo(text, n) ==
  LET values[i \in 0..Len(text)] ==
        IF i = 0 THEN <<>>
        ELSE values[i - 1] \o (IF text[i] \in Payloads /\ LineAt(text, i) = {i}
                               THEN <<text[i]>> ELSE <<>>)
  IN  values[n]

\* A line that begins with data and goes on.
IsBadLine(text, i) ==
  /\ text[i] \in Payloads \cup {Done}
  /\ LineAt(text, i) # {i}
  /\ \A j \in LineAt(text, i) : j >= i

HasBadLine(text) == \E i \in DOMAIN text : IsBadLine(text, i)

IsUtf8(bytes) ==
  \A i \in DOMAIN bytes : /\ bytes[i] = Lead => i < Len(bytes) /\ bytes[i + 1] = Cont
                          /\ bytes[i] = Cont => i > 1 /\ bytes[i - 1] = Lead

-----------------------------------------------------------------------------
TypeOK ==
  /\ status \in {"sent", "open", "cutting", "ended"} \cup Errors
  /\ body \in Seq(Bytes) /\ pending \in Seq(Bytes) /\ buffer \in Seq(Bytes)
  /\ yielded \in Seq(Payloads)

\* However the body is cut into chunks, inside a character and inside a
\* separator included, the caller gets its values once each and in order: all
\* of the complete events when the next chunk is awaited, all of the body's when
\* it has ended, and a beginning of them meanwhile and after an error.  The
\* stream ends well only on a body that is whole, and fails on its text only when
\* the text is at fault: no cut turns a good body into an error
\* (parse_event_stream).
EventsIgnoreTheCuts ==
  /\ IsPrefix(yielded, ValuesUpTo(body, Len(body)))
  /\ status = "open" => yielded = ValuesUpTo(body, CompleteLength(body))
  /\ status = "ended" => /\ yielded = ValuesUpTo(body, Len(body))
                         /\ IsUtf8(body) /\ ~HasBadLine(body)
  /\ status = "json" => HasBadLine(body)
  /\ status = "utf8" => ~IsUtf8(body)

\* No event above the limit is let through and none is waited for any longer
\* than the limit: the buffer of a server that never ends an event is bounded.
\* A stream refused as too long held more than the limit without a separator.
SizeLimitHolds ==
  /\ status = "open" => Len(body) - CompleteLength(body) <= MaxEvent + MaxPending
  /\ status \in {"open", "ended"} => \A b \in Blocks(body) : b.sep - b.first <= MaxEvent
  /\ status = "too_long" =>
       \E i \in DOMAIN body :
         /\ i + MaxEvent <= Len(body)
         /\ \A b \in Blocks(body) : b.sep < i \/ b.next > i + MaxEvent + 1
=============================================================================
