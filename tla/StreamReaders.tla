---------------------------- MODULE StreamReaders ----------------------------
(***************************************************************************)
(* The readers of an event stream: sendChat of the SDK, `infernet chat`,   *)
(* and the NIM adapter, which reads NVIDIA's stream the same way.          *)
(*                                                                         *)
(* The body of the response reaches a reader in pieces that end anywhere,  *)
(* in the middle of a frame or between its lines, and several frames can   *)
(* come in one.  Two parsers put the frames together: one splits at blank  *)
(* lines, the other goes line by line.  The body can end early, with an    *)
(* error, or without one when the server or a proxy closes it in order.    *)
(***************************************************************************)
EXTENDS Integers, Sequences

CONSTANTS
    Tokens,    \* tokens of the answer
    MaxPings   \* heartbeat comments (bound)

ASSUME ReadersAssumption == Tokens \in Nat /\ MaxPings \in Nat

VARIABLES
    reader,   \* who reads
    said,     \* events the server has written
    pings,    \* heartbeats it has written between them
    wire,     \* what is on its way
    parser,   \* buf, currentEvent and dataLines
    yielded,  \* events the parser has yielded
    body,     \* "open", "ended" or "broken", and "over" when the reader knows
    outcome,  \* what the caller got: "reading", "ok", "error" or "threw"
    text      \* tokens of the answer the caller has

readerVars == <<reader, said, pings, wire, parser, yielded, body, outcome, text>>

Readers == {"sdk", "cli", "nim"}
\* Events: the job, the tokens by number, and the final ones.
Job == 0
Done == Tokens + 1
Error == Tokens + 2
Finals == {Done, Error}
Events == Job..Error
Heartbeat == -1
Nothing == -2

\* The symbols of the body: lines without their ends, and ends of lines.
NL == [line |-> "end", of |-> Nothing]
EventLine(e) == [line |-> "event", of |-> e]
DataLine(e) == [line |-> "data", of |-> e]
Comment == [line |-> "comment", of |-> Nothing]
Marks == {NL, Comment} \cup {EventLine(e) : e \in Events} \cup {DataLine(e) : e \in Events}
Bodies == Seq(Marks)

\* sseFrame and the heartbeat.  (NVIDIA sends data lines only.)
Frame(e) ==
    IF e = Heartbeat THEN <<Comment, NL, NL>>
    ELSE IF reader = "nim" THEN <<DataLine(e), NL, NL>>
    ELSE <<EventLine(e), NL, DataLine(e), NL, NL>>

Outcomes == {"reading", "ok", "error", "threw"}
Parsers == [buf : Bodies, event : BOOLEAN, data : Seq(Events)]

ReadersTypeOK ==
    /\ reader \in Readers
    /\ said \in Seq(Events) /\ pings \in 0..MaxPings
    /\ wire \in Bodies /\ parser \in Parsers
    /\ yielded \in Seq(Events)
    /\ body \in {"open", "ended", "broken", "over"}
    /\ outcome \in Outcomes
    /\ text \in Seq(1..Tokens)

ReadersInit ==
    /\ reader \in Readers
    /\ said = << >> /\ pings = 0 /\ wire = << >> /\ yielded = << >> /\ text = << >>
    /\ parser = [buf |-> << >>, event |-> FALSE, data |-> << >>]
    /\ body = "open" /\ outcome = "reading"

-----------------------------------------------------------------------------
(* Parsing. *)

TextAfter(s, i) == SubSeq(s, i, Len(s))
FirstAt(places) == CHOOSE i \in places : \A j \in places : i <= j

\* parseFrame: the event its data belongs to; a comment, or a frame that has no
\* data line, is none.
DataLines(raw) == {i \in DOMAIN raw : raw[i].line = "data"}
ParseFrame(raw) ==
    IF DataLines(raw) = {} \/ raw[1].line = "comment" THEN << >>
    ELSE <<raw[FirstAt(DataLines(raw))].of>>

\* parseSseFrames, parseOpenAiSseFrames: frames end where two ends of lines meet.
BodyEnds(buf) == {i \in 1..(Len(buf) - 1) : buf[i] = NL /\ buf[i + 1] = NL}

\* Mutation: all that has come is taken to be one frame.
LastEnd(buf) == IF BodyEnds(buf) = {} THEN 0
                ELSE CHOOSE i \in BodyEnds(buf) : \A j \in BodyEnds(buf) : j <= i

\* Where the first frame ends, or 0.
FrameEnd(buf) == IF BodyEnds(buf) = {} THEN 0 ELSE FirstAt(BodyEnds(buf))

SplitFrames[buf \in Bodies] ==
    LET i == FrameEnd(buf)
        rest == SplitFrames[TextAfter(buf, i + 2)]
    IN  IF i = 0 THEN [events |-> << >>, buf |-> buf]
        ELSE [events |-> ParseFrame(SubSeq(buf, 1, i - 1)) \o rest.events, buf |-> rest.buf]

\* streamChatEvents: flush, at an empty line; and what a line makes of the parser.
Flush(p) == IF ~p.event /\ p.data = << >> THEN << >>
            ELSE IF p.data = << >> THEN <<Nothing>> ELSE <<p.data[1]>>

Line(p, l, rest) ==
    [buf |-> rest,
     event |-> l # << >> /\ (p.event \/ l[1].line = "event"),
     data |-> IF l = << >> THEN << >>
              ELSE IF l[1].line = "data" THEN Append(p.data, l[1].of) ELSE p.data]

ByLine[p \in Parsers] ==
    LET ends == {i \in DOMAIN p.buf : p.buf[i] = NL}
        l == SubSeq(p.buf, 1, FirstAt(ends) - 1)
        rest == ByLine[Line(p, l, TextAfter(p.buf, FirstAt(ends) + 1))]
    IN  IF ends = {} THEN [events |-> << >>, parser |-> p]
        ELSE [events |-> (IF l = << >> THEN Flush(p) ELSE << >>) \o rest.events,
              parser |-> rest.parser]

Parsed(piece) ==
    LET p == [parser EXCEPT !.buf = @ \o piece]
        split == SplitFrames[p.buf]
    IN  IF reader = "cli" THEN ByLine[p]
        ELSE [events |-> split.events, parser |-> [p EXCEPT !.buf = split.buf]]

\* What is left when the body ends; an incomplete one yields no text.
Rest == IF reader = "cli" THEN Flush(parser) ELSE ParseFrame(parser.buf)

-----------------------------------------------------------------------------
(* The server. *)

Final(s) == s # << >> /\ s[Len(s)] \in Finals
\* The job, the tokens in order, and one final event; NVIDIA's stream has no job
\* and no error events.
Coming ==
    LET n == Len(said) + (IF reader = "nim" THEN 1 ELSE 0)
    IN  IF Final(said) THEN {}
        ELSE IF n = 0 THEN {Job}
        ELSE (IF n <= Tokens THEN {n} ELSE {Done})
               \cup IF reader = "nim" THEN {} ELSE {Error}

Say(e) ==
    /\ wire' = wire \o Frame(e)
    /\ UNCHANGED <<reader, parser, yielded, body, outcome, text>>

Speak ==
    /\ body = "open"
    /\ \E e \in Coming : said' = Append(said, e) /\ Say(e)
    /\ UNCHANGED pings

Ping ==
    /\ body = "open" /\ ~Final(said)
    /\ pings < MaxPings /\ pings' = pings + 1 /\ Say(Heartbeat)
    /\ UNCHANGED said

\* The response is closed after its last event; or at the limit of ten minutes,
\* by a proxy or with the server, and then with or without an error.
EndBody ==
    /\ body = "open"
    /\ \/ body' = "ended" /\ UNCHANGED wire
       \/ /\ ~Final(said)
          /\ body' \in {"ended", "broken"}
          /\ \E k \in 0..Len(wire) : wire' = SubSeq(wire, 1, k)
    /\ UNCHANGED <<reader, said, pings, parser, yielded, outcome, text>>

-----------------------------------------------------------------------------
(* The readers. *)

\* What a caller makes of events, in order: sendChat and the adapter stop at the
\* final one; runRemote reads on and keeps the exit code.
Hearing == [text : Seq(1..Tokens), outcome : Outcomes, events : Seq(Events \cup {Nothing})]

HeardToken[h \in Hearing] ==
    LET e == h.events[1]
    IN  IF h.events = << >> \/ (h.outcome # "reading" /\ reader # "cli") THEN h
        ELSE HeardToken[[text |-> IF e \in 1..Tokens THEN Append(h.text, e) ELSE h.text,
                         outcome |-> IF e = Error THEN "error"
                                     ELSE IF e = Done /\ reader # "cli" THEN "ok" ELSE h.outcome,
                         events |-> Tail(h.events)]]
CallerHears(events) == HeardToken[[text |-> text, outcome |-> outcome, events |-> events]]

TakeToken(events) ==
    LET got == CallerHears(events)
    IN  /\ yielded' = yielded \o events
        /\ text' = got.text /\ outcome' = got.outcome

\* reader.read() and what the parser makes of a piece.
Read ==
    /\ wire # << >>
    /\ outcome = "reading" \/ (reader = "cli" /\ outcome = "error")
    /\ \E k \in 1..Len(wire) :
         LET p == Parsed(SubSeq(wire, 1, k))
         IN  /\ wire' = TextAfter(wire, k + 1)
             /\ parser' = p.parser
             /\ TakeToken(p.events)
    /\ UNCHANGED <<reader, said, pings, body>>

\* The body is over, and so is the generator, whether or not a final event came;
\* what was under way when it broke off is lost.
ReadEnd ==
    /\ outcome = "reading" \/ (reader = "cli" /\ outcome = "error")
    /\ \/ /\ body = "ended" /\ wire = << >>
          /\ LET got == CallerHears(Rest)
             IN  /\ text' = got.text
                 /\ outcome' = IF got.outcome = "error" THEN "error" ELSE "ok"
          /\ yielded' = IF Rest = <<Nothing>> THEN yielded ELSE yielded \o Rest
       \/ /\ body = "broken"
          /\ outcome' = "threw"
          /\ UNCHANGED <<yielded, text>>
    /\ wire' = << >>
    /\ parser' = [buf |-> << >>, event |-> FALSE, data |-> << >>]
    /\ body' = "over"
    /\ UNCHANGED <<reader, said, pings>>

ReadersNext == Speak \/ Ping \/ EndBody \/ Read \/ ReadEnd

ReadersSpec == ReadersInit /\ [][ReadersNext]_readerVars

-----------------------------------------------------------------------------
(* Properties. *)

PrefixOf(s, t) == Len(s) <= Len(t) /\ s = SubSeq(t, 1, Len(s))

\* Wherever the pieces end, the parsers yield the events that were written, each
\* once, in order and as soon as the whole of it is there, and nothing else; and
\* the caller's text is made of the tokens among them, 1, 2, 3 and so on.
FramesAreWhole ==
    /\ PrefixOf(yielded, said)
    /\ wire = << >> /\ body = "open" => yielded = said
    /\ \A n \in DOMAIN text : text[n] = n
    /\ \A n \in 1..Tokens : n \in DOMAIN text <=> \E i \in DOMAIN yielded : yielded[i] = n
=============================================================================
