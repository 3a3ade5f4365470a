------------------------------- MODULE ChatPage -------------------------------
(***************************************************************************)
(* The chat page (apps/web/app/chat/chat-view.js).                         *)
(*                                                                         *)
(* Sending a message posts a job and opens an EventSource on its stream,   *)
(* which replays the job's events from the first one.  The callbacks of    *)
(* all of these write to the last assistant message of the page, whichever *)
(* it is by then.  When a connection breaks, the browser opens it again by *)
(* itself, while the page asks for the status of the job; either may be    *)
(* first.                                                                  *)
(***************************************************************************)
EXTENDS Integers, Sequences

CONSTANTS
    MaxSends,   \* messages that are sent (bound)
    Tokens,     \* tokens of an answer (bound)
    MaxBreaks   \* connections that break (bound)

ASSUME PageAssumption == MaxSends \in Nat /\ Tokens \in Nat /\ MaxBreaks \in Nat

VARIABLES
    messages,   \* the assistant messages, one for each that was sent
    shown,      \* the first message that has not been cleared away
    streaming,  \* whether the composer is locked
    esRef,      \* the job whose EventSource is current, or 0
    job,        \* the jobs: their request, rows, stream and status request
    breaks

pageVars == <<messages, shown, streaming, esRef, job, breaks>>

Sends == 1..MaxSends
Finals == {"done", "error"}

PageTypeOK ==
    /\ messages \in Seq([content : Seq(Sends \X (1..Tokens)), state : {"pending", "done", "failed"}])
    /\ shown \in 1..(MaxSends + 1)
    /\ streaming \in BOOLEAN
    /\ esRef \in 0..MaxSends
    /\ job \in [Sends -> [post : {"none", "out", "over"}, rows : 0..Tokens,
                          final : Finals \cup {"none"},
                          stream : {"none", "open", "broken", "closed"}, pos : 0..Tokens,
                          status : {"none", "out"}]]
    /\ breaks \in 0..MaxBreaks

PageInit ==
    /\ messages = << >> /\ shown = 1
    /\ streaming = FALSE /\ esRef = 0
    /\ job = [j \in Sends |-> [post |-> "none", rows |-> 0, final |-> "none",
                               stream |-> "none", pos |-> 0, status |-> "none"]]
    /\ breaks = 0

\* updateLastAssistant; `clear` may have left none.
Last == Len(messages)
UpdateLast(m) == messages' = IF Last < shown THEN messages ELSE [messages EXCEPT ![Last] = m]

\* A page that has closed the stream of a job.
Closed(jobs, j) == IF j = 0 THEN jobs ELSE [jobs EXCEPT ![j].stream = "closed"]

\* Mutation: the composer is unlocked, and the message is left as it is.
FailLeavesMessage(jobs) ==
    /\ streaming' = FALSE
    /\ job' = Closed(jobs, esRef) /\ esRef' = 0
    /\ UNCHANGED messages

\* failPending: the last message has failed, and the current stream is closed.
FailPending(jobs) ==
    /\ streaming' = FALSE
    /\ job' = Closed(jobs, esRef) /\ esRef' = 0
    /\ UpdateLast(IF messages = << >> THEN << >> ELSE [messages[Last] EXCEPT !.state = "failed"])

-----------------------------------------------------------------------------
(* The page. *)

SendMessage ==
    /\ ~streaming /\ Last < MaxSends
    /\ messages' = Append(messages, [content |-> << >>, state |-> "pending"])
    /\ job' = [job EXCEPT ![Last + 1].post = "out"]
    /\ streaming' = TRUE
    /\ UNCHANGED <<shown, esRef, breaks>>

\* POST /api/chat fails, or is refused.
PostFails(j) ==
    /\ job[j].post = "out"
    /\ FailPending([job EXCEPT ![j].post = "over"])
    /\ UNCHANGED <<shown, breaks>>

PostAnswered(j) ==
    /\ job[j].post = "out"
    /\ job' = [job EXCEPT ![j].post = "over", ![j].stream = "open"]
    /\ esRef' = j
    /\ UNCHANGED <<messages, shown, streaming, breaks>>

TokenListener(j) ==
    /\ job[j].stream = "open" /\ job[j].pos < job[j].rows
    /\ job' = [job EXCEPT ![j].pos = @ + 1]
    /\ UpdateLast([messages[Last] EXCEPT !.content = Append(@, <<j, job[j].pos + 1>>)])
    /\ UNCHANGED <<shown, streaming, esRef, breaks>>

AtFinal(j, final) ==
    job[j].stream = "open" /\ job[j].pos = job[j].rows /\ job[j].final = final

\* done, which closes its own stream and forgets the current one.
DoneListener(j) ==
    /\ AtFinal(j, "done")
    /\ job' = Closed(job, j)
    /\ esRef' = 0 /\ streaming' = FALSE
    /\ UpdateLast([messages[Last] EXCEPT !.state = "done"])
    /\ UNCHANGED <<shown, breaks>>

\* The error event of the stream.
ErrorListener(j) ==
    /\ AtFinal(j, "error")
    /\ FailPending(job)
    /\ UNCHANGED <<shown, breaks>>

\* An error without data, the browser's own: fetchPersistedFailure asks for the
\* status.  (onerror sees the `streaming` of the render that sent the message,
\* which is always false.)
StreamBreaks(j) ==
    /\ breaks < MaxBreaks /\ breaks' = breaks + 1
    /\ job[j].stream = "open"
    /\ job' = [job EXCEPT ![j].stream = "broken", ![j].status = "out"]
    /\ UNCHANGED <<messages, shown, streaming, esRef>>

\* Whatever the answer is, it ends in failPending.
StatusAnswered(j) ==
    /\ job[j].status = "out"
    /\ FailPending([job EXCEPT ![j].status = "none"])
    /\ UNCHANGED <<shown, breaks>>

ClearConversation ==
    /\ ~streaming /\ shown <= Last
    /\ shown' = Last + 1
    /\ UNCHANGED <<messages, streaming, esRef, job, breaks>>

-----------------------------------------------------------------------------
(* Around it. *)

\* The EventSource connects again, and the route replays from the first row.
Reconnect(j) ==
    /\ job[j].stream = "broken"
    /\ job' = [job EXCEPT ![j].stream = "open", ![j].pos = 0]
    /\ UNCHANGED <<messages, shown, streaming, esRef, breaks>>

\* The daemon writes the rows of the job (ChatStream), whether or not the answer
\* of POST arrives.
RowWritten(j) ==
    /\ job[j].post # "none" /\ job[j].final = "none"
    /\ \/ /\ job[j].rows < Tokens
          /\ job' = [job EXCEPT ![j].rows = @ + 1]
       \/ \E f \in Finals : job' = [job EXCEPT ![j].final = f]
    /\ UNCHANGED <<messages, shown, streaming, esRef, breaks>>

Answers(j) == PostFails(j) \/ PostAnswered(j)
PageListens(j) == TokenListener(j) \/ DoneListener(j) \/ ErrorListener(j)

PageNext ==
    \/ SendMessage \/ ClearConversation
    \/ \E j \in Sends : \/ Answers(j) \/ PageListens(j) \/ StatusAnswered(j)
                        \/ StreamBreaks(j) \/ Reconnect(j) \/ RowWritten(j)

PageSpec == PageInit /\ [][PageNext]_pageVars

\* Requests are answered, the browser connects again and delivers what is there,
\* and the job comes to an end (ChatStream, NodeJobs).
PageFairness == \A j \in Sends :
    /\ WF_pageVars(Answers(j)) /\ WF_pageVars(PageListens(j))
    /\ WF_pageVars(StatusAnswered(j)) /\ WF_pageVars(Reconnect(j)) /\ WF_pageVars(RowWritten(j))

PageFairSpec == PageSpec /\ PageFairness

-----------------------------------------------------------------------------
(* Properties. *)

Whole(j) == [n \in 1..Tokens |-> <<j, n>>]
PrefixOf(s, t) == Len(s) <= Len(t) /\ s = SubSeq(t, 1, Len(s))

\* While no connection has broken, a message holds the beginning of the answer to
\* its own question and of no other, each token once.
OwnAnswer == breaks = 0 => \A i \in DOMAIN messages : PrefixOf(messages[i].content, Whole(i))

\* Every message that was sent ends as done or failed, and the composer is free
\* again: whichever of a stream, a new connection and the status answers, in
\* whatever order, and also when callbacks hit a later message than their own.
PageSettles ==
    []<>(~streaming /\ \A i \in DOMAIN messages : messages[i].state # "pending")

\* What a user of the page sees.
PageDelivers == []OwnAnswer /\ PageSettles
=============================================================================
