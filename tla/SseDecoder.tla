----------------------------- MODULE SseDecoder -----------------------------
(***************************************************************************)
(* kodkod-http/src/lib.rs: the incremental decoder of server-sent events,  *)
(* fed with whatever chunks the connection delivers, and what it must      *)
(* yield: the events of the whole text, wherever the chunks ended.         *)
(*                                                                         *)
(* A byte is a member of Bytes.  "data" and "event" stand for a field name *)
(* with its colon, "note" for the colon of a comment, "hi" and "lo" for    *)
(* the two bytes of one character, and anything else for itself; each of   *)
(* them counts as one byte against the limit.  The space that may follow a *)
(* colon is left out.                                                      *)
(***************************************************************************)
EXTENDS Selection, SequencesExt, FiniteSetsExt

CONSTANTS
    Bytes,              \* what a body is made of
    MaxEventBytes,      \* MAX_SSE_EVENT_BYTES
    MaxBody             \* bound: length of a body

ASSUME LimitsAssumption == MaxEventBytes \in Nat /\ MaxBody \in Nat
ASSUME LineEndsAssumption == {"CR", "LF"} \subseteq Bytes

VARIABLES
    sent,               \* history: the bytes delivered so far
    buffer,             \* SseDecoder.buffer
    events,             \* what the reader of the stream was given
    status              \* "open" | "ended" | "truncated" | "failed"

decoder == <<sent, buffer, events, status>>

CR == "CR"
LF == "LF"

-----------------------------------------------------------------------------
(* Lines.                                                                  *)

\* Where a line ends: at a CR, with the LF behind it, or at an LF of its own.
LineEnds(text) ==
    {i \in DOMAIN text :
        text[i] = CR \/ (text[i] = LF /\ ~(i > 1 /\ text[i - 1] = CR))}

Behind(text, i) ==
    IF text[i] = CR /\ i < Len(text) /\ text[i + 1] = LF THEN i + 2 ELSE i + 1

Normalized(text) ==
    FlattenSeq([i \in DOMAIN text |->
        IF i \in LineEnds(text) THEN <<LF>>
        ELSE IF text[i] = LF THEN <<>>
        ELSE <<text[i]>>])

\* The parts of a sequence in front of each `end`, and what follows the last.
Put(parts, next, end) ==
    IF next = end THEN [done |-> Append(parts.done, parts.rest), rest |-> <<>>]
    ELSE [parts EXCEPT !.rest = Append(@, next)]
Parts(sequence, end) ==
    FoldLeft(LAMBDA parts, next : Put(parts, next, end), [done |-> <<>>, rest |-> <<>>], sequence)
Finished(sequence, end) == Parts(sequence, end).done

\* The finished lines of a text, without their ends.
Lines(text) == Finished(Normalized(text), LF)

Utf8(text) ==
    \A i \in DOMAIN text :
        /\ text[i] = "hi" => i < Len(text) /\ text[i + 1] = "lo"
        /\ text[i] = "lo" => i > 1 /\ text[i - 1] = "hi"

-----------------------------------------------------------------------------
(* parse_sse_block: the event that a block of lines tells, as a sequence   *)
(* of at most one.                                                         *)

Values(lines, field) ==
    LET of == Select(lines, {n \in DOMAIN lines : lines[n] # <<>> /\ Head(lines[n]) = field})
    IN  [n \in DOMAIN of |-> Tail(of[n])]

Event(lines) ==
    LET data == Values(lines, "data")
        names == Values(lines, "event")
    IN  IF data = <<>> THEN <<>>
        ELSE << [name |-> IF names = <<>> THEN <<>> ELSE <<Last(names)>>, data |-> data] >>

-----------------------------------------------------------------------------
(* find_event_boundary and the loop of push.                               *)

\* The line ends with nothing in front of them.  (An operator named X_Y is X with
\* the mistake Y.)
Boundaries_Apart(text) ==
    {i \in DOMAIN text : text[i] \in {CR, LF} /\ (i = 1 \/ text[i - 1] \in {CR, LF})}
Boundaries(text) ==
    {i \in LineEnds(text) : i = 1 \/ text[i - 1] \in {CR, LF}}

Fed(rest, told, ok) == [rest |-> rest, told |-> told, ok |-> ok]

\* One turn of the loop, for as long as there is a boundary.
Turn(fed) ==
    IF ~fed.ok \/ Boundaries(fed.rest) = {} THEN fed
    ELSE LET end == Min(Boundaries(fed.rest))
             payload == SubSeq(fed.rest, 1, end - 1)
             rest == SubSeq(fed.rest, Behind(fed.rest, end), Len(fed.rest))
         IN  IF Len(payload) <= MaxEventBytes /\ Utf8(payload)
             THEN Fed(rest, fed.told \o Event(Lines(payload)), TRUE)
             ELSE Fed(rest, <<>>, FALSE)

\* The loop: every turn takes a byte at least.
Turned(text) == FoldLeft(LAMBDA fed, i : Turn(fed), Fed(text, <<>>, TRUE), text)

\* push: an error takes the events of its chunk with it.
Pushed_LimitFirst(text) ==
    IF Len(text) > MaxEventBytes THEN Fed(text, <<>>, FALSE) ELSE Turned(text)
Pushed(text) ==
    LET fed == Turned(text)
    IN  IF fed.ok /\ Len(fed.rest) <= MaxEventBytes THEN fed
        ELSE Fed(fed.rest, <<>>, FALSE)

-----------------------------------------------------------------------------
DecoderInit == sent = <<>> /\ buffer = <<>> /\ events = <<>> /\ status = "open"

Push(chunk) ==
    /\ status = "open"
    /\ sent' = sent \o chunk
    /\ LET fed == Pushed(buffer \o chunk)
       IN  /\ buffer' = fed.rest
           /\ events' = events \o fed.told
           /\ status' = IF fed.ok THEN "open" ELSE "failed"

\* finish, at the end of the body: only blank lines may be left over.
Finish ==
    /\ status = "open"
    /\ status' = IF \A i \in DOMAIN buffer : buffer[i] \in {CR, LF}
                 THEN "ended" ELSE "truncated"
    /\ UNCHANGED <<sent, buffer, events>>

Chunks(room) == UNION {[1 .. n -> Bytes] : n \in 1 .. room}

DecoderNext == (\E chunk \in Chunks(MaxBody - Len(sent)) : Push(chunk)) \/ Finish
DecoderSpec == DecoderInit /\ [][DecoderNext]_decoder

-----------------------------------------------------------------------------
(* The decoding of a whole text: its blocks are the lines between blank    *)
(* lines, and the unfinished rest is not one.                              *)

EventsOf(text) ==
    LET blocks == Finished(Lines(text), <<>>)
    IN  FlattenSeq([n \in DOMAIN blocks |-> Event(blocks[n])])

\* A text that may not be decoded to its end: a block with its line ends is too
\* long, finished or not, or a finished one is not UTF-8.
Broken(text) ==
    \E start \in {1} \cup {Behind(text, b) : b \in Boundaries(text)} :
        LET later == {b \in Boundaries(text) : b >= start}
            end == IF later = {} THEN Len(text) ELSE Min(later) - 1
        IN  \/ end - start >= MaxEventBytes
            \/ later # {} /\ ~Utf8(SubSeq(text, start, end))

\* A text that ends in the middle of an event: no blank line is behind all of it.
Unfinished(text) ==
    \E i \in DOMAIN text : text[i] \notin {CR, LF} /\ \A b \in Boundaries(text) : b < i

(* What is given out is what the whole text so far says, wherever chunks   *)
(* ended (between the CR and the LF of a line, or inside a character), and *)
(* a text that ends well left nothing unsaid.                              *)
DecodedAsSent ==
    /\ status = "failed" => IsPrefix(events, EventsOf(sent))
    /\ status \in {"open", "truncated"} => events = EventsOf(sent)
    /\ status = "ended" => events = EventsOf(sent \o <<LF, LF>>)

(* A text is refused as soon as it has a block over the limit or one of    *)
(* bytes that are no text, and only then, however it was cut into chunks;  *)
(* and a body that ends is refused just when it ends in the middle of an   *)
(* event.  A chunk that ends inside a character, or within the limit with  *)
(* the next event begun, refuses nothing.                                  *)
RefusedForTheText ==
    /\ status = "failed" <=> Broken(sent)
    /\ status = "truncated" => Unfinished(sent)
    /\ status = "ended" => ~Unfinished(sent)
=============================================================================
