------------------------------- MODULE Engine -------------------------------
(***************************************************************************)
(* The inference engine of a daemon: packages/engine and the part of       *)
(* apps/cli/lib/chat-executor.js that starts it, uses it and stops it.     *)
(*                                                                         *)
(* The first chat job starts the engine and keeps a promise for it that    *)
(* later jobs share (getEngine).  The Mojo backend is a child process that *)
(* speaks NDJSON on its standard streams (EngineProcess); the vLLM,        *)
(* llama.cpp and Ollama backends stream from a local HTTP server; the stub *)
(* makes its tokens up in the process.  Every backend hands a generation's *)
(* events to its reader through an AsyncQueue.                             *)
(*                                                                         *)
(* The events of Node's loop are the steps.  What the child writes waits   *)
(* in its pipe, and the loop reports the child's exit and the data still   *)
(* in the pipe in either order.                                            *)
(***************************************************************************)
EXTENDS Integers, FiniteSets, SequencesExt

CONSTANTS
    Jobs,       \* chat jobs; each is one generation
    Children,   \* child processes that may be spawned (bound)
    Tokens,     \* tokens of an answer (bound)
    MaxFaults,  \* faults that may happen in a behaviour (bound)
    Configs,    \* what the operator may have configured
    Null

ASSUME EngineAssumption ==
    /\ Tokens \in Nat
    /\ MaxFaults \in Nat
    /\ Configs \subseteq {"auto", "http", "mojo"}
    /\ Null \notin Children \cup Jobs
    /\ Children \cap {"none", "stub", "http"} = {}
    /\ IsFiniteSet(Children) /\ IsFiniteSet(Jobs)

VARIABLES
    config,     \* engine.backend of the config, or the environment's choice
    server,     \* is the local HTTP server reachable? (of no concern to "mojo")
    daemon,     \* "up"; "stopping", "draining", "leaving" in shutdown; "dead"
    promise,    \* enginePromise: "none", "pending" or "ready"
    backend,    \* engine.kind of a ready promise ("http" for the three)
    cur,        \* the EngineProcess of the promise, if it has one
    child,      \* the EngineProcesses and their children
    job,        \* executeChatJob and the AsyncQueue it reads
    said,       \* history: the events the engine produced for a job
    faults

vars == <<config, server, daemon, promise, backend, cur, child, job, said, faults>>

Alive == daemon # "dead"
Fault == faults < MaxFaults /\ faults' = faults + 1

\* One event of a generation; `at` is its place in what the engine said.
Event == [id : Jobs, at : Nat \ {0}, type : {"meta", "token", "done", "error"}]
\* A line of the child's standard output: an event, or one without an id.
Line == Event \cup [id : {Null}, at : {0}, type : {"ready", "error"}]
EngineLine(type) == [id |-> Null, at |-> 0, type |-> type]

\* What the engine may say next for j: meta, the tokens, done; or an error.
NextEvent(j, type) == [id |-> j, at |-> Len(said[j]) + 1, type |-> type]
Regular(j) ==
    NextEvent(j, IF said[j] = <<>> THEN "meta"
                 ELSE IF Len(said[j]) <= Tokens THEN "token" ELSE "done")
Over(e) == e.type \in {"done", "error"}

ChildRecord ==
    [os : {"unborn", "absent", "loading", "up", "exited"},
     ready : {"unset", "pending", "settled"},   \* _readyResolve, _readyReject
     closed : BOOLEAN, streams : SUBSET Jobs, asked : SUBSET Jobs,
     told : BOOLEAN, pipe : Seq(Line)]
JobRecord ==
    [pc : {"idle", "starting", "ready", "waiting", "handling", "done",
           "failed"},
     from : {"none", "stub", "http"} \cup Children,
     queue : {"open", "ended", "failed"},
     vals : Seq(Event), got : Seq(Event)]

NoChild == [os |-> "unborn", ready |-> "unset", closed |-> FALSE, streams |-> {},
           asked |-> {}, told |-> FALSE, pipe |-> <<>>]

Init ==
    /\ config \in Configs
    /\ server \in IF config = "mojo" THEN {TRUE} ELSE BOOLEAN
    /\ daemon = "up"
    /\ promise = "none"
    /\ backend = "none"
    /\ cur = Null
    /\ child = [c \in Children |-> NoChild]
    /\ job = [j \in Jobs |-> [pc |-> "idle", from |-> "none", queue |-> "open",
                              vals |-> <<>>, got |-> <<>>]]
    /\ said = [j \in Jobs |-> <<>>]
    /\ faults = 0

(***************************************************************************)
(* AsyncQueue, as its effect on the job that reads it.  A reader that      *)
(* waits in next() is the queue's only waiter (pc = "waiting"); it takes a *)
(* pushed value at once and handles it before it asks for the next one.    *)
(***************************************************************************)
At(r, pc) == [r EXCEPT !.pc = pc]
Takes(r, e) == At([r EXCEPT !.got = Append(@, e)], "handling")
Queued(r, e) == [r EXCEPT !.vals = Append(@, e)]
Closed(r, how) == [r EXCEPT !.queue = how]

\* Mutant: a waiting reader is not woken.
PushedQuietly(r, e) == IF r.queue # "open" THEN r ELSE Queued(r, e)
\* Mutant: the reader takes the newest value first.
PushedInFront(r, e) ==
    IF r.queue # "open" THEN r
    ELSE IF r.pc = "waiting" THEN Takes(r, e) ELSE [r EXCEPT !.vals = <<e>> \o @]
Pushed(r, e) ==
    IF r.queue # "open" THEN r
    ELSE IF r.pc = "waiting" THEN Takes(r, e) ELSE Queued(r, e)
Ended(r) ==
    IF r.queue # "open" THEN r
    ELSE Closed(IF r.pc = "waiting" THEN At(r, "done") ELSE r, "ended")
Failed(r) ==
    IF r.queue # "open" THEN r
    ELSE Closed(IF r.pc = "waiting" THEN At(r, "failed") ELSE r, "failed")

\* next(): a value that is there, the end of the queue, or a wait.
Asked(r) ==
    IF r.vals # <<>>
    THEN Takes([r EXCEPT !.vals = Tail(@)], Head(r.vals))
    ELSE At(r, IF r.queue = "open" THEN "waiting"
               ELSE IF r.queue = "ended" THEN "done" ELSE "failed")

\* A terminal event also ends the queue.
Given(r, e) == IF Over(e) THEN Ended(Pushed(r, e)) ELSE Pushed(r, e)

(***************************************************************************)
(* getEngine: jobs that find a promise share it.                           *)
(***************************************************************************)
Starting == {j \in Jobs : job[j].pc = "starting"}

\* The promise is settled: every job that awaits it goes on with that engine, or fails.
With(r, from) == [At(r, "ready") EXCEPT !.from = from]
Resolved(from) ==
    [j \in Jobs |-> IF j \in Starting THEN With(job[j], from) ELSE job[j]]
Rejected == [j \in Jobs |-> IF j \in Starting THEN At(job[j], "failed") ELSE job[j]]

\* Mutant: enginePromise is assigned after the start, when it is ready.
AskEngineAnew(j) ==
    /\ Alive
    /\ job[j].pc = "idle"
    /\ promise # "ready"
    /\ job' = [job EXCEPT ![j] = At(@, "starting")]
    /\ promise' = "pending"
    /\ cur' = Null
    /\ UNCHANGED <<config, server, daemon, backend, child, said, faults>>
AskEngine(j) ==
    /\ Alive
    /\ job[j].pc = "idle"
    /\ IF promise = "ready"
       THEN /\ job' = [job EXCEPT ![j] = With(@, IF backend = "mojo" THEN cur ELSE backend)]
            /\ UNCHANGED promise
       ELSE /\ job' = [job EXCEPT ![j] = At(@, "starting")]
            /\ promise' = "pending"
    /\ cur' = IF promise = "none" THEN Null ELSE cur
    /\ UNCHANGED <<config, server, daemon, backend, child, said, faults>>

\* createEngine of a backend that is no child process.
UseServer ==
    /\ Alive /\ promise = "pending" /\ cur = Null
    /\ config \in {"auto", "http"} /\ server
    /\ promise' = "ready" /\ backend' = "http" /\ job' = Resolved("http")
    /\ UNCHANGED <<config, server, daemon, cur, child, said, faults>>
UseStub ==
    /\ Alive /\ promise = "pending" /\ cur = Null
    /\ config = "auto" /\ ~server
    /\ promise' = "ready" /\ backend' = "stub" /\ job' = Resolved("stub")
    /\ UNCHANGED <<config, server, daemon, cur, child, said, faults>>
NoServer ==
    /\ Alive /\ promise = "pending" /\ cur = Null
    /\ config = "http" /\ ~server
    /\ promise' = "none" /\ job' = Rejected
    /\ UNCHANGED <<config, server, daemon, backend, cur, child, said, faults>>

Unborn == {c \in Children : child[c].os = "unborn"}

Spawned(k, os) == [k EXCEPT !.os = os, !.ready = "pending"]
Settled(k) == [k EXCEPT !.ready = "settled"]

\* createMojoBackend spawns the binary; a missing one shows up as an error event.
Spawn ==
    /\ Alive /\ promise = "pending" /\ cur = Null
    /\ config = "mojo"
    /\ Unborn # {}
    /\ LET c == CHOOSE x \in Unborn : TRUE IN
        /\ cur' = c
        /\ \/ child' = [child EXCEPT ![c] = Spawned(@, "loading")] /\ UNCHANGED faults
           \/ child' = [child EXCEPT ![c] = Spawned(@, "absent")] /\ Fault
    /\ UNCHANGED <<config, server, daemon, promise, backend, job, said>>

\* The ready promise of c is rejected: the next job starts the engine again.
Rejects(c) ==
    /\ promise' = "none"
    /\ job' = Rejected

ChildError(c) ==
    /\ Alive
    /\ child[c].os = "absent" /\ child[c].ready = "pending"
    /\ child' = [child EXCEPT ![c] = Settled(@)]
    /\ Rejects(c)
    /\ UNCHANGED <<config, server, daemon, backend, cur, said, faults>>

(***************************************************************************)
(* The child.  It may serve several requests at once, and nothing keeps a  *)
(* library in it from printing a line that is not a message: the splitter  *)
(* makes that an error without an id.                                      *)
(***************************************************************************)
Wrote(k, line) == [k EXCEPT !.pipe = Append(@, line)]
Up(k) == [k EXCEPT !.os = "up"]
Gone(k) == [k EXCEPT !.os = "exited", !.asked = {}]
Served(k, j) == [k EXCEPT !.asked = @ \ {j}]
external == <<config, server, daemon, promise, backend, cur, job>>

ChildReady(c) ==
    /\ Alive
    /\ child[c].os = "loading"
    /\ child' = [child EXCEPT ![c] = Up(Wrote(@, EngineLine("ready")))]
    /\ UNCHANGED <<external, said, faults>>

ChildBabbles(c) ==
    /\ Alive
    /\ child[c].os \in {"loading", "up"}
    /\ Fault
    /\ child' = [child EXCEPT ![c] = Wrote(@, EngineLine("error"))]
    /\ UNCHANGED <<external, said>>

ChildSays(c, j, e) ==
    /\ Alive
    /\ child[c].os = "up" /\ j \in child[c].asked
    /\ said' = [said EXCEPT ![j] = Append(@, e)]
    /\ child' = [child EXCEPT ![c] = IF Over(e) THEN Served(Wrote(@, e), j) ELSE Wrote(@, e)]
    /\ UNCHANGED external
ChildAnswers(c, j) == ChildSays(c, j, Regular(j)) /\ UNCHANGED faults
ChildRefuses(c, j) == ChildSays(c, j, NextEvent(j, "error")) /\ Fault

\* It leaves when it reads a shutdown, or dies.
ChildExits(c) ==
    /\ Alive
    /\ child[c].os \in {"loading", "up"}
    /\ \/ child[c].told /\ UNCHANGED faults
       \/ ~child[c].told /\ Fault
    /\ child' = [child EXCEPT ![c] = Gone(@)]
    /\ UNCHANGED <<external, said>>

(***************************************************************************)
(* EngineProcess.                                                          *)
(***************************************************************************)

\* _onStdout, one line: to the stream with the line's id, if there is one.
Read(k) == [k EXCEPT !.pipe = Tail(@)]
Forgets(k, j) == [k EXCEPT !.streams = @ \ {j}]
Stdout(c) ==
    /\ Alive
    /\ child[c].pipe # <<>>
    /\ LET line == Head(child[c].pipe)
       IN  \/ /\ line = EngineLine("ready") /\ child[c].ready = "pending"
              /\ child' = [child EXCEPT ![c] = Settled(Read(@))]
              /\ promise' = "ready" /\ backend' = "mojo" /\ job' = Resolved(c)
           \/ /\ line = EngineLine("error") /\ child[c].ready = "pending"
              /\ child' = [child EXCEPT ![c] = Settled(Read(@))]
              /\ Rejects(c)
              /\ UNCHANGED backend
           \/ /\ IF line.id = Null THEN child[c].ready # "pending"
                 ELSE line.id \notin child[c].streams
              /\ child' = [child EXCEPT ![c] = Read(@)]
              /\ UNCHANGED <<promise, backend, job>>
           \/ /\ line.id \in child[c].streams
              /\ child' = [child EXCEPT ![c] = IF Over(line) THEN Forgets(Read(@), line.id)
                                               ELSE Read(@)]
              /\ job' = [job EXCEPT ![line.id] = Given(@, line)]
              /\ UNCHANGED <<promise, backend>>
    /\ UNCHANGED <<config, server, daemon, cur, said, faults>>

\* _onExit; a start that is still pending is rejected, and shutdown() resolves.
Deserted(k) == [k EXCEPT !.closed = TRUE, !.streams = {}]
ExitEvent(c) ==
    /\ Alive
    /\ child[c].os = "exited" /\ ~child[c].closed
    /\ child' = [child EXCEPT ![c] = Settled(Deserted(@))]
    /\ job' = [j \in Jobs |->
                 IF j \in child[c].streams THEN Failed(job[j])
                 ELSE IF child[c].ready = "pending" /\ j \in Starting
                      THEN At(job[j], "failed")
                 ELSE job[j]]
    /\ promise' = IF child[c].ready = "pending" \/ (daemon = "draining" /\ cur = c)
                  THEN "none" ELSE promise
    /\ daemon' = IF daemon = "draining" /\ cur = c THEN "leaving" ELSE daemon
    /\ UNCHANGED <<config, server, backend, cur, said, faults>>

\* generate() of the backend the job was given, and the first next().  A request written to a child
\* that is gone is lost; the pipe's error has no listener, so it may end the daemon.
Requested(k, j) ==
    [k EXCEPT !.streams = @ \cup {j}, !.asked = IF k.os = "exited" THEN @ ELSE @ \cup {j}]
\* Mutant: the child is not asked whether it is still there.
GenerateUnchecked(j) ==
    /\ Alive
    /\ job[j].pc = "ready"
    /\ job' = [job EXCEPT ![j] = Asked(@)]
    /\ IF job[j].from \in Children
       THEN child' = [child EXCEPT ![job[j].from] = Requested(@, j)]
       ELSE UNCHANGED child
    /\ UNCHANGED <<config, server, daemon, promise, backend, cur, said, faults>>
Generate(j) ==
    /\ Alive
    /\ job[j].pc = "ready"
    /\ IF job[j].from \notin Children
       THEN /\ job' = [job EXCEPT ![j] = Asked(@)]
            /\ UNCHANGED <<child, daemon>>
       ELSE LET c == job[j].from
            IN  IF child[c].closed
                THEN /\ job' = [job EXCEPT ![j] = At(@, "failed")]
                     /\ UNCHANGED <<child, daemon>>
                ELSE /\ job' = [job EXCEPT ![j] = Asked(@)]
                     /\ child' = [child EXCEPT ![c] = Requested(@, j)]
                     /\ \/ UNCHANGED daemon
                        \/ child[c].os = "exited" /\ daemon' = "dead"
    /\ UNCHANGED <<config, server, promise, backend, cur, said, faults>>

(***************************************************************************)
(* The backends without a child push into the queue as the response comes  *)
(* in.  A body that ends early is reported as done all the same.           *)
(***************************************************************************)
Begun(j) == job[j].pc \in {"waiting", "handling"} /\ job[j].queue = "open"

Produce(j, e) ==
    /\ Alive
    /\ Begun(j)
    /\ said' = [said EXCEPT ![j] = Append(@, e)]
    /\ job' = [job EXCEPT ![j] = Given(@, e)]
    /\ UNCHANGED <<config, server, daemon, promise, backend, cur, child>>

StubProduces(j) ==
    /\ job[j].from = "stub"
    /\ Produce(j, Regular(j))
    /\ UNCHANGED faults
ServerAnswers(j) ==
    /\ job[j].from = "http" /\ server
    /\ Produce(j, Regular(j))
    /\ UNCHANGED faults
ServerFails(j) ==
    /\ job[j].from = "http"
    /\ \/ ~server /\ UNCHANGED faults
       \/ server /\ Fault
    /\ \E type \in {"error"} \cup (IF said[j] = <<>> THEN {} ELSE {"done"}) :
          Produce(j, NextEvent(j, type))

ServerGoes ==
    /\ Alive /\ config # "mojo" /\ server /\ server' = FALSE
    /\ Fault
    /\ UNCHANGED <<config, daemon, promise, backend, cur, child, job, said>>
ServerComes ==
    /\ Alive /\ ~server /\ server' = TRUE
    /\ UNCHANGED <<config, daemon, promise, backend, cur, child, job, said, faults>>

(***************************************************************************)
(* The reader: for await (const ev of generation.stream).                  *)
(***************************************************************************)
\* The event has been buffered or posted; an error event ends the job.
Handled(j) ==
    /\ Alive
    /\ job[j].pc = "handling"
    /\ job' = [job EXCEPT ![j] = IF Last(@.got).type = "error" THEN At(@, "failed")
                                 ELSE Asked(@)]
    /\ UNCHANGED <<config, server, daemon, promise, backend, cur, child, said, faults>>

(***************************************************************************)
(* The daemon's shutdown, which awaits the engine's promise and then the   *)
(* child for five seconds.  A poll under way may still start a job.        *)
(***************************************************************************)
Signal ==
    /\ daemon = "up"
    /\ daemon' = "stopping"
    /\ UNCHANGED <<config, server, promise, backend, cur, child, job, said, faults>>

Told(k) == [k EXCEPT !.told = IF k.os = "exited" THEN @ ELSE TRUE]
HasChild == backend = "mojo" /\ ~child[cur].closed

ShutdownEngine ==
    /\ daemon = "stopping"
    /\ \/ /\ promise = "none"
          /\ daemon' = "leaving"
          /\ UNCHANGED <<promise, child>>
       \/ /\ promise = "ready"
          /\ ~HasChild
          /\ promise' = "none" /\ daemon' = "leaving"
          /\ UNCHANGED child
       \/ /\ promise = "ready" /\ HasChild
          /\ child' = [child EXCEPT ![cur] = Told(@)]
          /\ \/ daemon' = "draining"
             \/ child[cur].os = "exited" /\ daemon' = "dead"
          /\ UNCHANGED promise
    /\ UNCHANGED <<config, server, backend, cur, job, said, faults>>

DrainTimesOut ==
    /\ daemon = "draining"
    /\ daemon' = "leaving" /\ promise' = "none"
    /\ UNCHANGED <<config, server, backend, cur, child, job, said, faults>>

Leave ==
    /\ daemon = "leaving"
    /\ daemon' = "dead"
    /\ UNCHANGED <<config, server, promise, backend, cur, child, job, said, faults>>

JobStep(j) == AskEngine(j) \/ Generate(j) \/ Handled(j)
Next ==
    \/ \E j \in Jobs : \/ JobStep(j) \/ StubProduces(j)
                       \/ ServerAnswers(j) \/ ServerFails(j)
    \/ \E c \in Children :
        \/ ChildError(c) \/ ChildReady(c) \/ ChildBabbles(c) \/ ChildExits(c)
        \/ Stdout(c) \/ ExitEvent(c)
        \/ \E j \in Jobs : ChildAnswers(c, j) \/ ChildRefuses(c, j)
    \/ UseServer \/ UseStub \/ NoServer \/ Spawn
    \/ ServerGoes \/ ServerComes
    \/ Signal \/ ShutdownEngine \/ DrainTimesOut \/ Leave

Spec == Init /\ [][Next]_vars

(***************************************************************************)
(* Node's loop runs what is due, timers included.  The engine is trusted   *)
(* to get ready and to answer: the code sets it no time limit.             *)
(***************************************************************************)
Fairness ==
    /\ \A j \in Jobs :
        /\ WF_vars(Generate(j)) /\ WF_vars(Handled(j))
        /\ WF_vars(StubProduces(j)) /\ WF_vars(ServerAnswers(j) \/ ServerFails(j))
    /\ \A c \in Children :
        /\ WF_vars(ChildError(c)) /\ WF_vars(ChildReady(c))
        /\ WF_vars(Stdout(c)) /\ WF_vars(ExitEvent(c))
        /\ \A j \in Jobs : WF_vars(ChildAnswers(c, j))
    /\ WF_vars(UseServer \/ UseStub \/ NoServer) /\ WF_vars(Spawn)
    /\ WF_vars(ShutdownEngine) /\ WF_vars(DrainTimesOut) /\ WF_vars(Leave)

FairSpec == Spec /\ Fairness

-----------------------------------------------------------------------------
(***************************************************************************)
(* Properties.                                                             *)
(***************************************************************************)

\* Every variable has its type.
TypeOK ==
    /\ config \in Configs
    /\ server \in BOOLEAN
    /\ daemon \in {"up", "stopping", "draining", "leaving", "dead"}
    /\ promise \in {"none", "pending", "ready"}
    /\ backend \in {"none", "stub", "http", "mojo"}
    /\ cur \in Children \cup {Null}
    /\ child \in [Children -> ChildRecord]
    /\ job \in [Jobs -> JobRecord]
    /\ said \in [Jobs -> Seq(Event)]
    /\ faults \in 0..MaxFaults

\* No reader sleeps on a queue that has a value for it, or that has been
\* closed: AsyncQueue never loses a wakeup.
NoLostWakeup ==
    \A j \in Jobs : job[j].pc = "waiting" => job[j].queue = "open" /\ job[j].vals = <<>>

\* A job reads what the engine said for it, in order, from the start and
\* without a gap, however generations share the pipe and whenever the child dies.
ReadsAPrefix ==
    \A j \in Jobs : IsPrefix(job[j].got \o job[j].vals, said[j])

\* A job completes only if the engine ended its answer: a child that dies
\* in the middle of an answer fails the job, and never passes for its end.
CompletedWasEnded ==
    \A j \in Jobs : job[j].pc = "done" =>
        job[j].got # <<>> /\ Last(job[j].got).type = "done" /\ job[j].got = said[j]

\* While the daemon is up, jobs share one engine: at most one start is under
\* way, and every generation on a child is on the same child.
OneEngine ==
    daemon = "up" =>
        /\ \A c, d \in Children : child[c].ready = "pending" /\ child[d].ready = "pending" => c = d
        /\ \A i, j \in Jobs : {job[i].from, job[j].from} \subseteq Children => job[i].from = job[j].from

\* A job that asked for the engine ends, unless the daemon does: it is not
\* stuck behind a start that failed or a child that died.
JobsEnd ==
    \A j \in Jobs : job[j].pc # "idle" ~> job[j].pc \in {"done", "failed"} \/ ~Alive

\* A daemon that is told to stop does stop, whatever its engine is doing.
ShutdownEnds == daemon = "stopping" ~> ~Alive

\* What a reader got, and what it was told of it.
AnswersAreTrue == ReadsAPrefix /\ CompletedWasEnded

\* Neither a job nor the end of the daemon hangs.
WorkEnds == JobsEnd /\ ShutdownEnds
=============================================================================
