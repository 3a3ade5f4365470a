----------------------------- MODULE ChatStream -----------------------------
(***************************************************************************)
(* The events of one chat job, from the engine to the clients.             *)
(*                                                                         *)
(* A daemon that runs the job buffers the engine's events and posts them   *)
(* in batches (apps/cli/lib/chat-executor.js); the control plane inserts   *)
(* them into the append-only `job_events` table (lib/data/node-api.js).    *)
(* A stream first replays the rows it finds and then tails the table       *)
(* through Supabase Realtime (app/api/chat/stream/[jobId]/route.js and     *)
(* lib/data/chat-stream.js, which /v1/chat/completions consumes).  When    *)
(* createChatJob found no provider, the stream itself runs NVIDIA NIM,     *)
(* writes the rows and finalizes the job.                                  *)
(*                                                                         *)
(* The poll claims nothing, so one job may be run more than once (NodeJobs *)
(* shows how): Runs names its executions.                                  *)
(***************************************************************************)
EXTENDS Integers, Sequences

CONSTANTS
    Runs,       \* executions of the job by its daemon
    Streams,    \* streams clients open on the job
    Tails,      \* those that may open on a job of a daemon (bound)
    Slots,      \* batches being inserted at once (bound)
    Tokens,     \* tokens of one answer (bound)
    BatchMax,   \* EVENT_BATCH_MAX of chat-executor.js
    MaxFaults,  \* faults that may happen in a behaviour (bound)
    Null

ASSUME ChatStreamAssumption ==
    /\ Tokens \in Nat
    /\ BatchMax \in Nat \ {0}
    /\ MaxFaults \in Nat
    /\ Runs \cap Streams = {}
    /\ Tails \subseteq Streams
    /\ Null \notin Runs \cup Streams \cup Slots

VARIABLES
    (* control plane *)
    source,     \* "p2p", or "nim": input_spec.fallback = 'nvidia-nim'
    verdict,    \* jobs.status and result.incomplete, as a NIM run left them
    rows,       \* job_events rows that are committed
    nextId,     \* the bigserial of job_events.id
    ins,        \* batches on their way into the table
    (* daemon, per run *)
    pc,         \* where executeChatJob is
    buf,        \* EventBuffer.events
    post,       \* the batch whose answer the run awaits
    made,       \* tokens of the answer so far, also of a stream's NIM run
    (* streams *)
    st,         \* where the stream is
    kind,       \* "sse" (/api/chat/stream) or "openai" (/v1/chat/completions)
    lastId,     \* the highest id the stream has passed on
    inbox,      \* rows Realtime has for the subscription
    outcome,    \* what the stream's NIM run will write into the job
    held,       \* the last frame of a NIM run, held back until that is done
    gone,       \* openai streams whose client has left
    shut,       \* those that have noticed (`closed` in the route)
    (* history and bounds *)
    sent,       \* the set of frames passed on to the client
    missed,     \* rows committed between the replay's read and the subscription
    faults

dbVars == <<rows, nextId, ins>>
runVars == <<pc, buf, post>>
clientVars == <<kind, gone, shut>>
tailVars == <<lastId, inbox, missed>>
nimVars == <<outcome, held>>
vars == <<source, verdict, dbVars, runVars, made, st, clientVars, tailVars,
          nimVars, sent, faults>>

Writers == Runs \cup Streams
Final == {"done", "error"}
RowTypes == {"meta", "token"} \cup Final

\* `upto`: the token's index, or how many tokens a done event's text holds.
Event == [type : RowTypes, by : Writers, upto : 0..Tokens]
Row == [id : Nat, type : RowTypes, by : Writers, upto : 0..Tokens]
Ev(type, by, upto) == [type |-> type, by |-> by, upto |-> upto]

Stored(id, type, by, upto) == [id |-> id, type |-> type, by |-> by, upto |-> upto]
Unstored(type, by, upto) == Stored(0, type, by, upto)   \* a frame without a row

NoBatch == [at |-> "free", evs |-> <<>>, first |-> 0]
RowsOf(evs, first) ==
    [i \in 1..Len(evs) |-> Stored(first + i - 1, evs[i].type, evs[i].by, evs[i].upto)]

TypeOK ==
    /\ source \in {"p2p", "nim"}
    /\ verdict \in {"open", "completed", "incomplete", "failed"}
    /\ rows \subseteq Row
    /\ nextId \in Nat \ {0}
    /\ ins \in [Slots -> [at : {"free", "sent", "ids", "answered"},
                          evs : Seq(Event), first : Nat]]
    /\ pc \in [Runs -> {"idle", "running", "closing", "erring", "done",
                        "failing", "over"}]
    /\ buf \in [Runs -> Seq(Event)]
    /\ post \in [Runs -> Slots \cup {Null}]
    /\ made \in [Writers -> 0..Tokens]
    /\ st \in [Streams -> {"unopened", "joining", "tailing", "nim", "nimrun",
                           "nimfinal", "closed"}]
    /\ kind \in [Streams -> {"sse", "openai"}]
    /\ lastId \in [Streams -> Nat]
    /\ inbox \in [Streams -> Seq(Row)]
    /\ outcome \in [Streams -> {"open", "completed", "incomplete", "failed"}]
    /\ held \in [Streams -> SUBSET Row]
    /\ gone \subseteq Streams
    /\ shut \subseteq Streams
    /\ sent \in [Streams -> SUBSET Row]
    /\ missed \in [Streams -> SUBSET Row]
    /\ faults \in 0..MaxFaults

Init ==
    /\ source \in {"p2p", "nim"}
    /\ verdict = "open"
    /\ rows = {} /\ nextId = 1
    /\ ins = [b \in Slots |-> NoBatch]
    /\ pc = [r \in Runs |-> "idle"]
    /\ buf = [r \in Runs |-> <<>>]
    /\ post = [r \in Runs |-> Null]
    /\ made = [w \in Writers |-> 0]
    /\ st = [s \in Streams |-> "unopened"]
    /\ kind = [s \in Streams |-> "sse"]
    /\ lastId = [s \in Streams |-> 0]
    /\ inbox = [s \in Streams |-> <<>>]
    /\ outcome = [s \in Streams |-> "open"]
    /\ held = [s \in Streams |-> {}]
    /\ gone = {} /\ shut = {}
    /\ sent = [s \in Streams |-> {}]
    /\ missed = [s \in Streams |-> {}]
    /\ faults = 0

-----------------------------------------------------------------------------
(* The daemon: executeChatJob() and its EventBuffer. *)

\* EventBuffer.flush: the buffer is emptied before the batch is posted, and a
\* batch that cannot be posted is only logged.
Flush(r, evs) ==
    /\ buf' = [buf EXCEPT ![r] = <<>>]
    /\ \E b \in Slots :
         /\ ins[b].at = "free"
         /\ ins' = [ins EXCEPT ![b] = [at |-> "sent", evs |-> evs, first |-> 0]]
         /\ post' = [post EXCEPT ![r] = b]

\* EventBuffer.push: a full buffer is flushed, and any buffer when 250 ms have
\* passed since the last flush.
Push(r, e) ==
    LET evs == Append(buf[r], e) IN
    \/ Flush(r, evs)
    \/ /\ Len(evs) < BatchMax
       /\ buf' = [buf EXCEPT ![r] = evs]
       /\ UNCHANGED <<ins, post>>

RunGoes(r, from, to) ==
    /\ pc[r] = from
    /\ post[r] = Null
    /\ pc' = [pc EXCEPT ![r] = to]

UnchangedByRuns ==
    UNCHANGED <<source, verdict, rows, nextId, st, clientVars, tailVars, nimVars, sent>>

\* The engine's META.
StartRun(r) ==
    /\ source = "p2p"
    /\ RunGoes(r, "idle", "running")
    /\ Push(r, Ev("meta", r, 0))
    /\ UnchangedByRuns /\ UNCHANGED <<made, faults>>

Produce(r) ==
    /\ RunGoes(r, "running", "running")
    /\ made[r] < Tokens
    /\ made' = [made EXCEPT ![r] = @ + 1]
    /\ Push(r, Ev("token", r, made[r] + 1))
    /\ UnchangedByRuns /\ UNCHANGED faults

\* The engine's DONE: the event carries the whole accumulated text.
Finish(r) ==
    /\ RunGoes(r, "running", "closing")
    /\ Push(r, Ev("done", r, made[r]))
    /\ UnchangedByRuns /\ UNCHANGED <<made, faults>>

\* The engine's ERROR: pushed and flushed before executeChatJob throws.
EngineErrs(r) ==
    /\ RunGoes(r, "running", "erring")
    /\ Push(r, Ev("error", r, 0))
    /\ UnchangedByRuns /\ UNCHANGED <<made, faults>>

\* The stream of the generation rejects: the buffer is left behind.
EngineDies(r) ==
    /\ RunGoes(r, "running", "failing")
    /\ buf' = [buf EXCEPT ![r] = <<>>]
    /\ UnchangedByRuns /\ UNCHANGED <<ins, post, made, faults>>

\* The last flush; an empty buffer is not posted.
LastFlush(r) ==
    /\ pc[r] \in {"closing", "erring"}
    /\ post[r] = Null
    /\ pc' = [pc EXCEPT ![r] =
                IF buf[r] # <<>> THEN @ ELSE IF @ = "closing" THEN "done" ELSE "failing"]
    /\ IF buf[r] # <<>> THEN Flush(r, buf[r]) ELSE UNCHANGED <<buf, ins, post>>
    /\ UnchangedByRuns /\ UNCHANGED <<made, faults>>

\* failChatJob posts an error event of its own, whatever was posted before.
FailChatJob(r) ==
    /\ RunGoes(r, "failing", "over")
    /\ Flush(r, <<Ev("error", r, 0)>>)
    /\ UnchangedByRuns /\ UNCHANGED <<made, faults>>

PostAnswered(r) ==
    /\ post[r] # Null
    /\ ins[post[r]].at = "answered"
    /\ ins' = [ins EXCEPT ![post[r]] = NoBatch]
    /\ post' = [post EXCEPT ![r] = Null]
    /\ UnchangedByRuns /\ UNCHANGED <<pc, buf, made, faults>>

-----------------------------------------------------------------------------
(* The control plane: emitJobEvents(), and Realtime behind the table. *)

Answered(b) == IF \E r \in Runs : post[r] = b
               THEN [ins[b] EXCEPT !.at = "answered"] ELSE NoBatch

UnchangedByInserts ==
    UNCHANGED <<source, verdict, runVars, made, st, clientVars, lastId, nimVars, sent>>

\* The insert of a batch draws its ids ...
TakeIds(b) ==
    /\ ins[b].at = "sent"
    /\ ins' = [ins EXCEPT ![b].at = "ids", ![b].first = nextId]
    /\ nextId' = nextId + Len(ins[b].evs)
    /\ UnchangedByInserts /\ UNCHANGED <<rows, inbox, missed, faults>>

\* ... and commits; subscriptions get the rows in the order of the commits.
Published(new) ==
    /\ rows' = rows \cup {new[i] : i \in 1..Len(new)}
    /\ inbox' = [s \in Streams |-> IF st[s] = "tailing" THEN inbox[s] \o new ELSE inbox[s]]
    /\ missed' = [s \in Streams |->
                    IF st[s] = "joining"
                    THEN missed[s] \cup {new[i] : i \in 1..Len(new)} ELSE missed[s]]

Commit(b) ==
    /\ ins[b].at = "ids"
    /\ Published(RowsOf(ins[b].evs, ins[b].first))
    /\ ins' = [ins EXCEPT ![b] = Answered(b)]
    /\ UnchangedByInserts /\ UNCHANGED <<nextId, faults>>

-----------------------------------------------------------------------------
(* Streams: both routes, up to where they differ. *)

UnchangedByStreams ==
    UNCHANGED <<source, ins, runVars, kind>>

\* A frame reaches a client that is still there; the openai route notices a
\* client that is not by the frame it cannot enqueue.
Emit(s, f) ==
    /\ sent' = IF s \in gone THEN sent ELSE [sent EXCEPT ![s] = @ \cup {f}]
    /\ shut' = IF s \in gone THEN shut \cup {s} ELSE shut

\* getJobWithEvents(jobId, 0), and the replay of its rows in the order of their
\* ids up to the first final one.  /v1/chat/completions creates its job, so
\* only one stream of a job is its own.
Replayed == {e \in rows : \A f \in rows : f.type \in Final => e.id <= f.id}

Open(s, k) ==
    /\ st[s] = "unopened"
    /\ source = "p2p" => s \in Tails
    /\ k = "openai" => \A t \in Streams : st[t] = "unopened" \/ kind[t] = "sse"
    /\ kind' = [kind EXCEPT ![s] = k]
    /\ sent' = [sent EXCEPT ![s] = Replayed]
    /\ \E id \in {0} \cup {e.id : e \in Replayed} :
         /\ \A e \in Replayed : e.id <= id
         /\ lastId' = [lastId EXCEPT ![s] = id]
    /\ st' = [st EXCEPT ![s] =
                IF \E e \in rows : e.type \in Final THEN "closed"
                ELSE IF source = "nim" THEN "nim" ELSE "joining"]
    /\ UNCHANGED <<source, verdict, dbVars, runVars, made, gone, shut, inbox, missed,
                   nimVars, faults>>

\* channel.subscribe() takes effect: later inserts are delivered.
Joined(s) ==
    /\ st[s] = "joining"
    /\ st' = [st EXCEPT ![s] = "tailing"]
    /\ UnchangedByStreams
    /\ UNCHANGED <<verdict, rows, nextId, made, gone, shut, tailVars, nimVars, sent, faults>>

\* Mutation: the callback does not compare ids.
DeliverAnyId(s) ==
    /\ st[s] = "tailing"
    /\ inbox[s] # <<>>
    /\ LET e == Head(inbox[s]) IN
       /\ inbox' = [inbox EXCEPT ![s] = Tail(@)]
       /\ lastId' = [lastId EXCEPT ![s] = e.id]
       /\ Emit(s, e)
       /\ st' = [st EXCEPT ![s] = IF e.type \in Final \/ s \in shut THEN "closed" ELSE @]
    /\ UnchangedByStreams
    /\ UNCHANGED <<verdict, rows, nextId, made, gone, missed, nimVars, faults>>

\* Mutation: off by one in the comparison with lastId.
DeliverPastNext(s) ==
    /\ st[s] = "tailing"
    /\ inbox[s] # <<>>
    /\ LET e == Head(inbox[s]) IN
       /\ inbox' = [inbox EXCEPT ![s] = Tail(@)]
       /\ IF e.id > lastId[s] + 1
          THEN /\ lastId' = [lastId EXCEPT ![s] = e.id]
               /\ Emit(s, e)
               /\ st' = [st EXCEPT ![s] =
                           IF e.type \in Final \/ s \in shut THEN "closed" ELSE @]
          ELSE UNCHANGED <<lastId, sent, shut, st>>
    /\ UnchangedByStreams
    /\ UNCHANGED <<verdict, rows, nextId, made, gone, missed, nimVars, faults>>

\* The Realtime callback drops ids it is past, and the stream ends with the
\* first final event; an openai stream also ends once it knows nobody listens.
Deliver(s) ==
    /\ st[s] = "tailing"
    /\ inbox[s] # <<>>
    /\ LET e == Head(inbox[s]) IN
       /\ inbox' = [inbox EXCEPT ![s] = Tail(@)]
       /\ IF e.id > lastId[s]
          THEN /\ lastId' = [lastId EXCEPT ![s] = e.id]
               /\ Emit(s, e)
               /\ st' = [st EXCEPT ![s] =
                           IF e.type \in Final \/ s \in shut THEN "closed" ELSE @]
          ELSE UNCHANGED <<lastId, sent, shut, st>>
    /\ UnchangedByStreams
    /\ UNCHANGED <<verdict, rows, nextId, made, gone, missed, nimVars, faults>>

\* Mutation: only the generator has a time limit.
TimesOutInGenerator(s) ==
    /\ st[s] \in {"joining", "tailing"}
    /\ kind[s] = "openai"
    /\ inbox[s] = <<>>
    /\ st' = [st EXCEPT ![s] = "closed"]
    /\ Emit(s, Unstored("error", s, 0))
    /\ UnchangedByStreams
    /\ UNCHANGED <<verdict, rows, nextId, made, gone, tailVars, nimVars, faults>>

\* Ten minutes have passed: the sse route just closes, the generator says so
\* once its queue is empty.
TimesOut(s) ==
    /\ st[s] \in {"joining", "tailing"}
    /\ kind[s] = "openai" => inbox[s] = <<>>
    /\ st' = [st EXCEPT ![s] = "closed"]
    /\ IF kind[s] = "openai" THEN Emit(s, Unstored("error", s, 0)) ELSE UNCHANGED <<sent, shut>>
    /\ UnchangedByStreams
    /\ UNCHANGED <<verdict, rows, nextId, made, gone, tailVars, nimVars, faults>>

\* The sse route goes on as if its client were there.
ClientLeaves(s) ==
    /\ kind[s] = "openai"
    /\ st[s] \notin {"unopened", "closed"}
    /\ gone' = gone \cup {s}
    /\ UNCHANGED <<source, verdict, dbVars, runVars, made, st, kind, shut, tailVars,
                   nimVars, sent, faults>>

-----------------------------------------------------------------------------
(* runNimFallback(), by the stream itself. *)

\* insertJobEvent: the row, or nothing when the insert fails.
InsertNimEvent(s, type, upto) ==
    /\ Published(<<Stored(nextId, type, s, upto)>>)
    /\ nextId' = nextId + 1
    /\ UNCHANGED faults

NimInsertFails ==
    /\ faults < MaxFaults
    /\ faults' = faults + 1
    /\ UNCHANGED <<rows, inbox, missed, nextId>>

\* NIM's own meta event stands for nothing; the sse route shows a meta event
\* only if its row is there.
NimMeta(s) ==
    /\ st[s] = "nim"
    /\ st' = [st EXCEPT ![s] = IF s \in shut THEN "closed" ELSE "nimrun"]
    /\ \/ InsertNimEvent(s, "meta", 0) /\ Emit(s, Stored(nextId, "meta", s, 0))
       \/ /\ NimInsertFails
          /\ IF kind[s] = "sse" THEN UNCHANGED <<sent, shut>>
             ELSE Emit(s, Unstored("meta", s, 0))
    /\ UnchangedByStreams
    /\ UNCHANGED <<verdict, made, gone, lastId, nimVars>>

\* The generator is left through its finally block.
BreakOff(s) ==
    /\ st' = [st EXCEPT ![s] = "nimfinal"]
    /\ outcome' = [outcome EXCEPT ![s] = "incomplete"]

NimToken(s) ==
    /\ st[s] = "nimrun"
    /\ made[s] < Tokens
    /\ made' = [made EXCEPT ![s] = @ + 1]
    /\ \/ /\ InsertNimEvent(s, "token", made[s] + 1)
          /\ Emit(s, Stored(nextId, "token", s, made[s] + 1))
       \/ NimInsertFails /\ Emit(s, Unstored("token", s, made[s] + 1))
    /\ IF s \in shut THEN BreakOff(s) ELSE UNCHANGED <<st, outcome>>
    /\ UnchangedByStreams
    /\ UNCHANGED <<verdict, gone, lastId, held>>

\* NIM's done or error event: its row first, then the job.  The sse route
\* shows the frame before it finalizes the job, the generator after that.
NimEnds(s, type, result) ==
    /\ st[s] = "nimrun"
    /\ st' = [st EXCEPT ![s] = "nimfinal"]
    /\ outcome' = [outcome EXCEPT ![s] = result]
    /\ LET upto == IF type = "done" THEN made[s] ELSE 0 IN
       \E f \in {Stored(nextId, type, s, upto), Unstored(type, s, upto)} :
         /\ IF f.id = nextId THEN InsertNimEvent(s, type, upto) ELSE NimInsertFails
         /\ IF kind[s] = "sse" THEN Emit(s, f) /\ UNCHANGED held
            ELSE held' = [held EXCEPT ![s] = {f}] /\ UNCHANGED <<sent, shut>>
    /\ UnchangedByStreams
    /\ UNCHANGED <<verdict, made, gone, lastId>>

NimDone(s) == NimEnds(s, "done", "completed")

NimErrs(s) == NimEnds(s, "error", "failed")

\* finalizeJob, with no look at the status the job has; then the stream ends.
Closing(s) ==
    /\ st[s] = "nimfinal"
    /\ st' = [st EXCEPT ![s] = "closed"]
    /\ held' = [held EXCEPT ![s] = {}]
    /\ outcome' = [outcome EXCEPT ![s] = "open"]
    /\ IF held[s] = {} THEN UNCHANGED <<sent, shut>> ELSE \E f \in held[s] : Emit(s, f)
    /\ UnchangedByStreams
    /\ UNCHANGED <<rows, nextId, made, gone, tailVars>>

FinalizeJob(s) ==
    /\ Closing(s)
    /\ verdict' = outcome[s]
    /\ UNCHANGED faults

-----------------------------------------------------------------------------
(* Faults, at most MaxFaults of them. *)

Fault ==
    /\ faults < MaxFaults
    /\ faults' = faults + 1

\* The request is lost, refused, or its handler fails.
PostLost(b) ==
    /\ Fault
    /\ ins[b].at \in {"sent", "ids"}
    /\ ins' = [ins EXCEPT ![b] = Answered(b)]
    /\ UnchangedByInserts /\ UNCHANGED <<rows, nextId, inbox, missed>>

\* signedFetch gives up after 15 s; the handler goes on.
PostTimesOut(r) ==
    /\ Fault
    /\ post[r] # Null
    /\ post' = [post EXCEPT ![r] = Null]
    /\ ins' = IF ins[post[r]].at = "answered" THEN [ins EXCEPT ![post[r]] = NoBatch] ELSE ins
    /\ UnchangedByRuns /\ UNCHANGED <<pc, buf, made>>

\* completeJob fails: processJob's catch block calls failChatJob for a job whose
\* done event may have been shown.
CompletionFails(r) ==
    /\ Fault
    /\ RunGoes(r, "done", "failing")
    /\ UnchangedByRuns /\ UNCHANGED <<buf, ins, post, made>>

RealtimeDrops(s) ==
    /\ Fault
    /\ inbox[s] # <<>>
    /\ inbox' = [inbox EXCEPT ![s] = Tail(@)]
    /\ UNCHANGED <<source, verdict, dbVars, runVars, made, st, clientVars, lastId,
                   missed, nimVars, sent>>

\* The NIM key is gone: streamChatCompletion throws before its first event.
NimThrows(s) ==
    /\ Fault
    /\ st[s] = "nimrun"
    /\ made[s] = 0
    /\ IF kind[s] = "sse"
       THEN /\ st' = [st EXCEPT ![s] = "closed"]
            /\ Emit(s, Unstored("error", s, 0))
            /\ UNCHANGED nimVars
       ELSE /\ BreakOff(s)
            /\ held' = [held EXCEPT ![s] = {Unstored("error", s, 0)}]
            /\ UNCHANGED <<sent, shut>>
    /\ UnchangedByStreams
    /\ UNCHANGED <<verdict, rows, nextId, made, gone, lastId, inbox, missed>>

FinalizeFails(s) ==
    /\ Fault
    /\ Closing(s)
    /\ UNCHANGED verdict

\* The web server restarts under its streams and handlers.
ServerDies ==
    /\ Fault
    /\ st' = [s \in Streams |-> IF st[s] = "unopened" THEN "unopened" ELSE "closed"]
    /\ ins' = [b \in Slots |->
                 IF ins[b].at \in {"sent", "ids"} THEN Answered(b) ELSE ins[b]]
    /\ UNCHANGED <<source, verdict, rows, nextId, runVars, made, clientVars,
                   tailVars, nimVars, sent>>

-----------------------------------------------------------------------------

RunStep(r) ==
    \/ Produce(r) \/ Finish(r) \/ EngineErrs(r) \/ EngineDies(r)
    \/ LastFlush(r) \/ FailChatJob(r) \/ PostAnswered(r)

InsertStep(b) == TakeIds(b) \/ Commit(b)

StreamStep(s) ==
    \/ Joined(s) \/ Deliver(s)
    \/ NimMeta(s) \/ NimToken(s) \/ NimDone(s) \/ NimErrs(s) \/ FinalizeJob(s)

Next ==
    \/ \E r \in Runs : StartRun(r) \/ RunStep(r) \/ PostTimesOut(r) \/ CompletionFails(r)
    \/ \E b \in Slots : InsertStep(b) \/ PostLost(b)
    \/ \E s \in Streams :
         \/ \E k \in {"sse", "openai"} : Open(s, k)
         \/ StreamStep(s) \/ TimesOut(s) \/ ClientLeaves(s)
         \/ RealtimeDrops(s) \/ NimThrows(s) \/ FinalizeFails(s)
    \/ ServerDies

Spec == Init /\ [][Next]_vars

\* The event loop goes on, NIM's answer ends (fetch has its own time limits),
\* and the ten-minute timer fires.
Fairness ==
    /\ \A r \in Runs : WF_vars(RunStep(r))
    /\ \A b \in Slots : WF_vars(InsertStep(b))
    /\ \A s \in Streams : WF_vars(StreamStep(s)) /\ WF_vars(TimesOut(s))

FairSpec == Spec /\ Fairness

-----------------------------------------------------------------------------
(* Properties. *)

(***************************************************************************)
(* Replay, tail and the id filter fit together: whatever two runs of the   *)
(* job and late inserts do to the table, a client is shown stored events   *)
(* in the order of their ids, and nothing after the final one.              *)
(***************************************************************************)
Follows(e, f) == e.type \notin Final /\ (e.id > 0 /\ f.id > 0 => e.id < f.id)

InOrder ==
    [][\A s \in Streams : \A e \in sent[s], f \in sent'[s] \ sent[s] : Follows(e, f)]_sent

(***************************************************************************)
(* The done event makes up for every batch that was lost or not shown: its *)
(* text is the whole answer of the run it belongs to.                      *)
(***************************************************************************)
DoneIsWhole ==
    \A s \in Streams : \A f \in sent[s] : f.type = "done" => f.upto = made[f.by]

\* The poll handed the job to one daemon loop only.
RunOnce == \A q, r \in Runs : pc[q] # "idle" /\ pc[r] # "idle" => q = r

(***************************************************************************)
(* Without faults, a stream on a job that is run once shows all rows up to *)
(* the last one it showed, except those committed after the replay's read  *)
(* and before the subscription took effect.                                *)
(***************************************************************************)
OnlyGapIsLost ==
    faults = 0 /\ RunOnce =>
        \A s \in Streams \ gone : \A e \in rows :
            source = "p2p" /\ e.id <= lastId[s] => e \in missed[s] \cup sent[s]

(***************************************************************************)
(* Every stream ends, whatever its client, the daemon or Realtime do.      *)
(***************************************************************************)
StreamEnds == \A s \in Streams : st[s] # "unopened" ~> st[s] = "closed"

(***************************************************************************)
(* A NIM run that got as far as NIM settles the job, even if the client    *)
(* leaves, unless something fails.                                         *)
(***************************************************************************)
NimSettles == \A s \in Streams : st[s] = "nimrun" ~> (verdict # "open" \/ faults > 0)

(***************************************************************************)
(* What a NIM run leaves in the job agrees with the audit trail in         *)
(* job_events, as long as no insert fails: completed only with a done row, *)
(* failed only with an error row, also when clients leave half-way and     *)
(* several streams run NIM for the same job.                               *)
(***************************************************************************)
VerdictHasRow ==
    faults = 0 =>
        /\ verdict = "completed" => \E e \in rows : e.type = "done"
        /\ verdict = "failed" => \E e \in rows : e.type = "error"

\* What a watcher was told is what was stored, but for a gap of its own, and so
\* is the outcome of the job.
NothingElseIsLost == TypeOK /\ DoneIsWhole /\ OnlyGapIsLost /\ VerdictHasRow

\* Neither a watcher nor a request to NIM hangs.
EveryoneLeaves == StreamEnds /\ NimSettles
=============================================================================
