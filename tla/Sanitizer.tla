------------------------------ MODULE Sanitizer ------------------------------
(***************************************************************************)
(* The sanitizer of an answer (apps/web/lib/sanitize-stream.js) inside     *)
(* streamJobEvents, and what /v1/chat/completions makes of it.             *)
(*                                                                         *)
(* An answer arrives in tokens that end anywhere, also in the middle of a  *)
(* tag.  The sanitizer takes blocks between certain tags out of it; it     *)
(* holds back the end of what arrived as long as that might be the         *)
(* beginning of such a tag, and what it still holds at the end goes into   *)
(* the text of `done`.                                                     *)
(*                                                                         *)
(* A text is a sequence of symbols; a name is a symbol of its own.         *)
(***************************************************************************)
EXTENDS Integers, Sequences

CONSTANTS
    Names,     \* names of the tags that are taken out
    HoldBack,  \* how close to the end of the buffer a "<" is held back
    MaxText,   \* symbols of an answer (bound)
    MaxToken   \* symbols of a token (bound)

ASSUME SanitizerAssumption ==
    /\ MaxText \in Nat /\ MaxToken \in Nat \ {0}
    /\ HoldBack \in Nat /\ HoldBack >= 3        \* no opening tag is longer
    /\ Names \cap {"x", "<", ">", "/", "no"} = {}

VARIABLES
    arrived,      \* the answer so far
    buffer,       \* what has not been decided
    suppressing,  \* the name whose closing tag is waited for, or "no"
    out,          \* the text of the token events that were sent
    done          \* the text of the done event, when that was sent

sanitizerVars == <<arrived, buffer, suppressing, out, done>>

Symbols == {"x", "<", ">", "/"} \cup Names
Texts == Seq(Symbols)
Loop == [buffer : Texts, suppressing : Names \cup {"no"}, out : Texts]

SanitizerTypeOK ==
    /\ arrived \in Texts /\ Len(arrived) <= MaxText
    /\ buffer \in Texts /\ out \in Texts
    /\ suppressing \in Names \cup {"no"}
    /\ done \in Seq(Texts) /\ Len(done) <= 1

SanitizerInit ==
    /\ arrived = << >> /\ buffer = << >> /\ out = << >>
    /\ suppressing = "no" /\ done = << >>

-----------------------------------------------------------------------------
(* Texts. *)

Opening(n) == <<"<", n, ">">>
Closing(n) == <<"<", "/", n, ">">>

At(s, i, tag) == i + Len(tag) - 1 <= Len(s) /\ SubSeq(s, i, i + Len(tag) - 1) = tag
After(s, i) == SubSeq(s, i, Len(s))

\* Where one of the tags begins first in s, or 0.
First(s, tags) ==
    LET places == {i \in DOMAIN s : \E tag \in tags : At(s, i, tag)}
    IN  IF places = {} THEN 0 ELSE CHOOSE i \in places : \A j \in places : i <= j

Openings == {Opening(n) : n \in Names}

\* What a text is without its blocks; one that is not closed reaches to the end.
Clean[s \in Texts] ==
    LET o == First(s, Openings)
        rest == After(s, o + 3)
        c == First(rest, {Closing(s[o + 1])})
    IN  IF o = 0 THEN s
        ELSE SubSeq(s, 1, o - 1) \o (IF c = 0 THEN << >> ELSE Clean[After(rest, c + 4)])

-----------------------------------------------------------------------------
(* makeStreamSanitizer. *)

\* Mutation: nothing is held back.
NothingHeld(s) == 0

\* The last "<" if it is close to the end, or 0.
HeldFrom(s) ==
    LET places == {i \in DOMAIN s : s[i] = "<"}
        last == CHOOSE i \in places : \A j \in places : j <= i
    IN  IF places = {} THEN 0 ELSE IF Len(s) - (last - 1) < HoldBack THEN last ELSE 0

\* The loop of process: p has the buffer with the new token in it, the tag that
\* is waited for and what has been emitted.
Process[p \in Loop] ==
    LET b == p.buffer
        c == First(b, {Closing(p.suppressing)})
        o == First(b, Openings)
        h == HeldFrom(b)
    IN  IF p.suppressing # "no" /\ c = 0 THEN p
        ELSE IF p.suppressing # "no"
        THEN Process[[buffer |-> After(b, c + 4), suppressing |-> "no", out |-> p.out]]
        ELSE IF o # 0
        THEN Process[[buffer |-> After(b, o + 3), suppressing |-> b[o + 1],
                      out |-> p.out \o SubSeq(b, 1, o - 1)]]
        ELSE IF h # 0
        THEN [buffer |-> After(b, h), suppressing |-> "no", out |-> p.out \o SubSeq(b, 1, h - 1)]
        ELSE [buffer |-> << >>, suppressing |-> "no", out |-> p.out \o b]

\* flush.
Flushed(p) == IF p.suppressing # "no" THEN << >> ELSE p.buffer

\* sanitizeText: a sanitizer of its own, for a text that is there as a whole.
SanitizeText(s) ==
    LET r == Process[[buffer |-> s, suppressing |-> "no", out |-> << >>]]
    IN  r.out \o Flushed(r)

-----------------------------------------------------------------------------
(* streamJobEvents. *)

\* A token row, a Realtime insert or a token of NIM.
TokenEvent ==
    /\ done = << >>
    /\ \E k \in 1..MaxToken : \E t \in [1..k -> Symbols] :
         /\ Len(arrived) + k <= MaxText
         /\ arrived' = arrived \o t
         /\ LET r == Process[[buffer |-> buffer \o t, suppressing |-> suppressing, out |-> out]]
            IN  /\ buffer' = r.buffer /\ suppressing' = r.suppressing
                /\ out' = r.out
    /\ UNCHANGED done

\* The done event carries the whole text, cleaned, and what flush returns.
DoneEvent ==
    /\ done = << >>
    /\ done' = <<SanitizeText(arrived)
                   \o Flushed([buffer |-> buffer, suppressing |-> suppressing])>>
    /\ buffer' = << >> /\ suppressing' = "no"
    /\ UNCHANGED <<arrived, out>>

SanitizerNext == TokenEvent \/ DoneEvent

SanitizerSpec == SanitizerInit /\ [][SanitizerNext]_sanitizerVars

\* What a client of /v1/chat/completions gets: the tokens, or without `stream`
\* the text of done when that is longer.
StreamedText == out
ReturnedText == IF done # << >> /\ Len(done[1]) > Len(out) THEN done[1] ELSE out

-----------------------------------------------------------------------------
(* Properties. *)

\* However the answer is cut into tokens, what is sent is the clean text, without
\* the part that is held back: never a piece of a block or of its tags, never
\* other text, and no more is held than might still become a tag.
OnlyTailIsHeld == done = << >> =>
    IF suppressing # "no" THEN Clean[arrived] = out
    ELSE /\ Clean[arrived] = out \o buffer
         /\ buffer # << >> => buffer[1] = "<" /\ Len(buffer) < HoldBack

\* What sanitize-stream.js says of itself: it strips the blocks without breaking
\* legitimate content.
ContentSurvives == done # << >> => /\ StreamedText = Clean[arrived]
                                    /\ ReturnedText = Clean[arrived]

=============================================================================
