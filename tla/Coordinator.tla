---------------------------- MODULE Coordinator ----------------------------
(* Distributed inference: packages/inference/src/distributed/coordinator.js *)
(* and worker.js.  Workers hold one WebSocket each to a coordinator, which  *)
(* hands them the parts of a job and collects their results.  A worker that *)
(* reconnects gets a new connection; the coordinator learns of the end of   *)
(* the old one only later, by its close event or by the heartbeat sweep.    *)
(* Every await of a database call is a point where other handlers run.      *)
EXTENDS Naturals, Sequences, FiniteSets, SequencesExt

CONSTANTS
    Workers,        \* node ids of the workers
    MaxStarts,      \* bound on the jobs that are started
    MaxConns,       \* bound on the WebSocket connections a worker ever opens
    Jobs,           \* job ids, each passed to startJob once
    DataJobs,       \* jobs of strategy data_parallel
    PipelineJobs,   \* jobs of strategy pipeline_parallel
    TensorJobs,     \* jobs of strategy tensor_parallel; the others have none
    NumWorkers,     \* jobConfig.numWorkers
    MaxJobs,        \* capabilities.maxJobs of every worker
    Flaky,          \* bound: the workers that may lose a connection
    MaxLosses,      \* bound on lost connections
    MaxFaults,      \* bound on failing database calls
    Null            \* no worker, no connection, no entry

ASSUME BoundsAssumption ==
    /\ MaxConns \in Nat
    /\ NumWorkers \in Nat \ {0}
    /\ MaxJobs \in Nat
    /\ MaxStarts \in Nat
    /\ MaxLosses \in Nat
    /\ MaxFaults \in Nat

ASSUME StrategyAssumption ==
    /\ DataJobs \subseteq Jobs /\ PipelineJobs \subseteq Jobs /\ TensorJobs \subseteq Jobs
    /\ DataJobs \cap PipelineJobs = {} /\ DataJobs \cap TensorJobs = {}
    /\ PipelineJobs \cap TensorJobs = {}

\* The n-th connection of a worker.
Conns == Workers \X (1..MaxConns)

VARIABLES
    conn,     \* both ends of every connection and the messages in flight
    current,  \* current[w]: the worker's this.ws
    model,    \* model[w][j]: the worker's models and activeJobs entry of the job
    workers,  \* the coordinator's `workers` map: connection and activeJobs
    jobs,     \* its `jobs` map: workerFailures, results, timeout not yet fired
    plan,     \* plan[j]: the workers selected for the job, in order
    stage,    \* stage[j]: how far startJob and its caller are
    flows,    \* handlers of the coordinator that will end a job
    row,      \* row[j]: status and result of the jobs row
    faults,   \* failed database calls so far
    computed  \* history: the parts a worker has computed

vars == <<conn, current, model, workers, jobs, plan, stage, flows, row, faults, computed>>

workerVars == <<current, model, computed>>

coordinatorVars == <<workers, jobs, plan, stage, flows, row>>

Messages == [type : {"init", "input", "result", "error"}, job : Jobs]

\* One handler that ends a job: finalizeJob ("result"), handleJobTimeout
\* ("timer") or handleJobFailure ("left", "error"); `out` is finalResult.
FlowStates ==
    [job : Jobs, cause : {"result", "timer", "left", "error"}, by : Workers \cup {Null},
     at : {"write", "fail", "clean"}, out : SUBSET Workers]

ConnStates ==
    [ws : {"unused", "open", "closed"}, cs : {"unused", "open", "closing", "closed"},
     id : Workers \cup {Null}, asking : BOOLEAN, up : Seq(Messages), down : Seq(Messages)]

\* The values of the coordinator's two maps.
Entries == [conn : Conns, active : SUBSET Jobs]
JobEntries == [failures : Seq(Workers), results : SUBSET Workers, armed : BOOLEAN]

ASSUME NullAssumption == Null \notin Workers \cup Conns \cup Entries \cup JobEntries

(* The kind of a job and what its workers send back *)

Supported(j) == j \in DataJobs \cup PipelineJobs \cup TensorJobs

\* isComplete as the worker computes it: never for a tensor part, whose
\* totalLayers the worker did not keep; for the stage without a successor.
IsComplete(w, j) == j \in DataJobs \/ (j \in PipelineJobs /\ w = Last(plan[j]))

\* finalResult: every result so far, or the one of the last worker.
FinalResult(j, results) == IF j \in DataJobs THEN results ELSE results \cap {Last(plan[j])}

\* The workers that get the input: each of them, or the first one only.
InputTo(j) == IF j \in DataJobs THEN Range(plan[j]) ELSE {Head(plan[j])}

Init ==
    /\ conn = [c \in Conns |-> [ws |-> "unused", cs |-> "unused", id |-> Null,
                                asking |-> FALSE, up |-> <<>>, down |-> <<>>]]
    /\ current = [w \in Workers |-> Null]
    /\ model = [w \in Workers |-> [j \in Jobs |-> "none"]]
    /\ workers = [w \in Workers |-> Null]
    /\ jobs = [j \in Jobs |-> Null]
    /\ plan = [j \in Jobs |-> <<>>]
    /\ stage = [j \in Jobs |-> "idle"]
    /\ flows = {}
    /\ row = [j \in Jobs |-> [status |-> "open", result |-> {}]]
    /\ faults = 0
    /\ computed = {}

-----------------------------------------------------------------------------
(* Sending *)

\* sendToWorker(w, m) for every w of ws: only over an open connection of the
\* worker's entry; what is sent after the other end is gone never arrives.
SendToWorkers(ws, m) ==
    [c \in Conns |->
        IF /\ conn[c].cs = "open" /\ conn[c].ws = "open"
           /\ \E w \in ws : workers[w] # Null /\ workers[w].conn = c
        THEN [conn[c] EXCEPT !.down = Append(@, m)]
        ELSE conn[c]]

\* this.ws.send(m): nothing is sent, and nothing queued, while disconnected.
SendToCoordinator(cs, w, m) ==
    IF cs[current[w]].ws = "open" THEN [cs EXCEPT ![current[w]].up = Append(@, m)] ELSE cs

Msg(type, j) == [type |-> type, job |-> j]

-----------------------------------------------------------------------------
(* The worker *)

\* connect and its 'open' handler, first or after scheduleReconnect.  From
\* WORKER_READY on, registerWorker asks for the node.
Connect(w) ==
    LET c == <<w, IF current[w] = Null THEN 1 ELSE current[w][2] + 1>> IN
    /\ c \in Conns
    /\ current[w] # Null => conn[current[w]].ws = "closed"
    /\ current' = [current EXCEPT ![w] = c]
    /\ conn' = [conn EXCEPT ![c] = [ws |-> "open", cs |-> "open", id |-> Null,
                                    asking |-> TRUE, up |-> <<>>, down |-> <<>>]]
    /\ UNCHANGED <<model, coordinatorVars, faults, computed>>

MayFail == faults < MaxFaults

MayLose(w) == w \in Flaky /\ Cardinality({c \in Conns : conn[c].ws = "closed"}) < MaxLosses

\* The worker's end closes; what is on its way to it is lost.
LoseConnection(c) ==
    /\ MayLose(c[1])
    /\ conn[c].ws = "open"
    /\ conn' = [conn EXCEPT ![c].ws = "closed", ![c].down = <<>>]
    /\ UNCHANGED <<workerVars, coordinatorVars, faults>>

\* The worker's process ends and a new one takes its place: no models.
RestartWorker(w) ==
    /\ current[w] # Null
    /\ conn[current[w]].ws = "open"
    /\ MayLose(w)
    /\ conn' = [conn EXCEPT ![current[w]].ws = "closed", ![current[w]].down = <<>>]
    /\ model' = [model EXCEPT ![w] = [j \in Jobs |-> "none"]]
    /\ UNCHANGED <<current, coordinatorVars, faults, computed>>

Receives(w, type, j) ==
    /\ current[w] # Null
    /\ conn[current[w]].down # <<>>
    /\ Head(conn[current[w]].down) = Msg(type, j)

Received(w) == [conn EXCEPT ![current[w]].down = Tail(@)]

\* initializeModel up to its await: the model is not stored yet.
InitializeModel(w, j) ==
    /\ Receives(w, "init", j)
    /\ conn' = Received(w)
    /\ model' = [model EXCEPT ![w][j] = "loading"]
    /\ UNCHANGED <<current, coordinatorVars, faults, computed>>

ModelLoaded(w, j) ==
    /\ model[w][j] = "loading"
    /\ model' = [model EXCEPT ![w][j] = "ready"]
    /\ UNCHANGED <<conn, current, coordinatorVars, faults, computed>>

\* processInput without a model in the map: sendError.
InputTooEarly(w, j) ==
    /\ Receives(w, "input", j)
    /\ model[w][j] \in {"none", "loading"}
    /\ conn' = SendToCoordinator(Received(w), w, Msg("error", j))
    /\ UNCHANGED <<workerVars, coordinatorVars, faults>>

BeginProcessing(w, j) ==
    /\ Receives(w, "input", j)
    /\ model[w][j] \notin {"none", "loading"}
    /\ conn' = Received(w)
    /\ model' = [model EXCEPT ![w][j] = "processing"]
    /\ UNCHANGED <<current, coordinatorVars, faults, computed>>

\* The result goes out on the connection the worker has by then, if any.
SendResult(w, j) ==
    /\ model[w][j] = "processing"
    /\ model' = [model EXCEPT ![w][j] = "ready"]
    /\ computed' = computed \cup {<<w, j>>}
    /\ conn' = SendToCoordinator(conn, w, Msg("result", j))
    /\ UNCHANGED <<current, coordinatorVars, faults>>

-----------------------------------------------------------------------------
(* The coordinator: connections *)

Arrives(c, type, j) ==
    /\ conn[c].cs \in {"open", "closing"}
    /\ conn[c].up # <<>>
    /\ Head(conn[c].up) = Msg(type, j)

Taken(c) == [conn EXCEPT ![c].up = Tail(@)]

\* registerWorker after the answer of the nodes query: the entry is replaced whatever it was, and
\* whether or not the connection is still open.
NodeFound(c) ==
    /\ conn[c].asking
    /\ conn' = [conn EXCEPT ![c].asking = FALSE, ![c].id = c[1]]
    /\ workers' = [workers EXCEPT ![c[1]] = [conn |-> c, active |-> {}]]
    /\ UNCHANGED <<workerVars, jobs, plan, stage, flows, row, faults>>

\* The query fails: the worker keeps its connection and never asks again.
NodeNotFound(c) ==
    /\ conn[c].asking
    /\ MayFail
    /\ faults' = faults + 1
    /\ conn' = [conn EXCEPT ![c].asking = FALSE]
    /\ UNCHANGED <<workerVars, coordinatorVars>>

Tracked == {j \in Jobs : jobs[j] # Null}

Ending(cause, j, w, out) == [job |-> j, cause |-> cause, by |-> w, at |-> "write", out |-> out]

\* Mutation: rounds the threshold down.
TooManyFailuresFloor(j, failures) == Len(failures) >= Len(plan[j]) \div 2

\* handleJobFailure's threshold, Math.ceil(workers.length / 2).
TooManyFailures(j, failures) == Len(failures) >= (Len(plan[j]) + 1) \div 2

\* 'close' event: handleWorkerDisconnect(ws) acts on the entry of ws.id,
\* which may by now belong to a later connection of that worker.
HandleWorkerDisconnect(c) ==
    LET id == conn[c].id
        lost == IF id = Null \/ workers[id] = Null THEN {} ELSE workers[id].active \cap Tracked
        failures(j) == Append(jobs[j].failures, id)
    IN  /\ conn[c].ws = "closed"
        /\ conn[c].cs \in {"open", "closing"}
        /\ conn' = [conn EXCEPT ![c].cs = "closed", ![c].up = <<>>]
        /\ jobs' = [j \in Jobs |-> IF j \in lost THEN [jobs[j] EXCEPT !.failures = failures(j)]
                                   ELSE jobs[j]]
        /\ flows' = flows \cup
                {Ending("left", j, id, {}) : j \in {k \in lost : TooManyFailures(k, failures(k))}}
        /\ workers' = [w \in Workers |-> IF w = id THEN Null ELSE workers[w]]
        /\ UNCHANGED <<workerVars, plan, stage, row, faults>>

\* No connection under this id refreshes lastSeen any more.
Silent(w) == \A c \in Conns : conn[c].id = w => conn[c].ws = "closed"

\* sendHeartbeat, for an entry not seen for two intervals.
TimeOutWorker(w) ==
    /\ workers[w] # Null
    /\ Silent(w)
    /\ conn' = [conn EXCEPT ![workers[w].conn].cs = IF @ = "open" THEN "closing" ELSE @]
    /\ workers' = [workers EXCEPT ![w] = Null]
    /\ UNCHANGED <<workerVars, jobs, plan, stage, flows, row, faults>>

-----------------------------------------------------------------------------
(* The coordinator: starting a job *)

Load(w) == Cardinality(workers[w].active)

\* selectWorkersForJob: the least busy ones below maxJobs, at most numWorkers.
Selections ==
    LET able == {w \in Workers : workers[w] # Null /\ Load(w) < MaxJobs}
    IN  {s \in UNION {[1..n -> able] : n \in 1..NumWorkers} :
            /\ IsInjective(s)
            /\ Len(s) = IF Cardinality(able) < NumWorkers THEN Cardinality(able) ELSE NumWorkers
            /\ \A i \in 1..Len(s) - 1 : Load(s[i]) <= Load(s[i + 1])
            /\ \A w \in able \ Range(s) : Load(Last(s)) <= Load(w)}

\* startJob up to the insert.  It ends, without a trace, when no worker is
\* able; the caller may then try again.
SelectWorkersForJob(j) ==
    /\ stage[j] = "idle"
    /\ Cardinality({k \in Jobs : stage[k] # "idle"}) < MaxStarts
    /\ \E s \in Selections : plan' = [plan EXCEPT ![j] = s]
    /\ stage' = [stage EXCEPT ![j] = "inserting"]
    /\ UNCHANGED <<conn, workerVars, workers, jobs, flows, row, faults>>

InsertFails(j) ==
    /\ stage[j] = "inserting"
    /\ MayFail
    /\ faults' = faults + 1
    /\ stage' = [stage EXCEPT ![j] = "idle"]
    /\ plan' = [plan EXCEPT ![j] = <<>>]
    /\ UNCHANGED <<conn, workerVars, workers, jobs, flows, row>>

\* The workers initialize*Parallelism reaches: it throws at the first one
\* whose entry is gone, after the ones before it got their part.
Reached(j) ==
    {plan[j][i] : i \in {k \in 1..Len(plan[j]) : \A l \in 1..k : workers[plan[j][l]] # Null}}

\* startJob between its two awaits: the job is tracked, with its timer,
\* whether or not the initialization succeeds.
TrackJob(j) ==
    LET reached == IF Supported(j) THEN Reached(j) ELSE {}
        ok == Supported(j) /\ reached = Range(plan[j])
    IN  /\ stage[j] = "inserting"
        /\ jobs' = [jobs EXCEPT ![j] = [failures |-> <<>>, results |-> {}, armed |-> TRUE]]
        /\ conn' = SendToWorkers(reached, Msg("init", j))
        /\ workers' = [w \in Workers |-> IF w \in reached
                                         THEN [workers[w] EXCEPT !.active = @ \cup {j}]
                                         ELSE workers[w]]
        /\ stage' = [stage EXCEPT ![j] = IF ok THEN "marking" ELSE "refused"]
        /\ UNCHANGED <<workerVars, plan, flows, row, faults>>

MarkRunning(j) ==
    /\ stage[j] = "marking"
    /\ stage' = [stage EXCEPT ![j] = "started"]
    /\ UNCHANGED <<conn, workerVars, workers, jobs, plan, flows, row, faults>>

\* The caller hears of a failure although the job is tracked and running.
MarkRunningFails(j) ==
    /\ stage[j] = "marking"
    /\ MayFail
    /\ faults' = faults + 1
    /\ stage' = [stage EXCEPT ![j] = "refused"]
    /\ UNCHANGED <<conn, workerVars, workers, jobs, plan, flows, row>>

\* The caller hands in its input once startJob has succeeded.
ProcessInput(j) ==
    /\ stage[j] = "started"
    /\ stage' = [stage EXCEPT ![j] = "fed"]
    /\ conn' = IF jobs[j] = Null THEN conn ELSE SendToWorkers(InputTo(j), Msg("input", j))
    /\ UNCHANGED <<workerVars, workers, jobs, plan, flows, row, faults>>

-----------------------------------------------------------------------------
(* The coordinator: ending a job *)

\* processLayerResult; the first result that says isComplete finalizes.
ProcessLayerResult(c, j) ==
    LET w == c[1]
        results == jobs[j].results \cup {w}
    IN  /\ Arrives(c, "result", j)
        /\ conn' = Taken(c)
        /\ IF jobs[j] = Null
           THEN UNCHANGED <<jobs, flows>>
           ELSE /\ jobs' = [jobs EXCEPT ![j].results = results]
                /\ flows' = flows \cup
                    IF IsComplete(w, j) THEN {Ending("result", j, w, FinalResult(j, results))} ELSE {}
        /\ UNCHANGED <<workerVars, workers, plan, stage, row, faults>>

\* handleWorkerError counts no failure itself.
HandleWorkerError(c, j) ==
    /\ Arrives(c, "error", j)
    /\ conn' = Taken(c)
    /\ flows' = flows \cup
            IF jobs[j] # Null /\ TooManyFailures(j, jobs[j].failures)
            THEN {Ending("error", j, c[1], {})} ELSE {}
    /\ UNCHANGED <<workerVars, workers, jobs, plan, stage, row, faults>>

\* The five-minute timer set by startJob; clearTimeout in cleanupJob.
HandleJobTimeout(j) ==
    /\ jobs[j] # Null
    /\ jobs[j].armed
    /\ jobs' = [jobs EXCEPT ![j].armed = FALSE]
    /\ flows' = flows \cup {Ending("timer", j, Null, {})}
    /\ UNCHANGED <<conn, workerVars, workers, plan, stage, row, faults>>

Goes(f, at) == flows' = (flows \ {f}) \cup {[f EXCEPT !.at = at]}

\* What a handler writes to the jobs row, after its update of the row in
\* distributed_jobs; the failing update leaves the result alone.
Written(f) ==
    IF f.cause = "result" /\ f.at = "write"
    THEN [row EXCEPT ![f.job] = [status |-> "completed", result |-> f.out]]
    ELSE [row EXCEPT ![f.job].status = "failed"]

WriteRow(f) ==
    /\ f.at \in {"write", "fail"}
    /\ row' = Written(f)
    /\ Goes(f, "clean")
    /\ UNCHANGED <<conn, workerVars, workers, jobs, plan, stage, faults>>

\* Mutation: a handler whose write fails leaves without the clean-up.
WriteFailsUncleaned(f) ==
    /\ f.at \in {"write", "fail"}
    /\ MayFail
    /\ faults' = faults + 1
    /\ row' \in {row, Written(f)}
    /\ flows' = flows \ {f}
    /\ UNCHANGED <<conn, workerVars, workers, jobs, plan, stage>>

\* One of its database calls fails, the last one before or after it took
\* effect: finalizeJob then tries to mark the job failed, the other
\* handlers go straight to the clean-up.
WriteFails(f) ==
    /\ f.at \in {"write", "fail"}
    /\ MayFail
    /\ faults' = faults + 1
    /\ row' \in {row, Written(f)}
    /\ Goes(f, IF f.cause = "result" /\ f.at = "write" THEN "fail" ELSE "clean")
    /\ UNCHANGED <<conn, workerVars, workers, jobs, plan, stage>>

\* Mutation: the workers' activeJobs are forgotten.
CleanupJobLeaksPlace(f) ==
    /\ f.at = "clean"
    /\ flows' = flows \ {f}
    /\ jobs' = [jobs EXCEPT ![f.job] = Null]
    /\ UNCHANGED <<conn, workerVars, workers, plan, stage, row, faults>>

\* cleanupJob, for the handlers that reach it first: the job is untracked,
\* its timer cleared, its workers get their place back.
CleanupJob(f) ==
    LET j == f.job IN
    /\ f.at = "clean"
    /\ flows' = flows \ {f}
    /\ jobs' = [jobs EXCEPT ![j] = Null]
    /\ workers' = [w \in Workers |->
                    IF jobs[j] # Null /\ w \in Range(plan[j]) /\ workers[w] # Null
                    THEN [workers[w] EXCEPT !.active = @ \ {j}]
                    ELSE workers[w]]
    /\ UNCHANGED <<conn, workerVars, plan, stage, row, faults>>

-----------------------------------------------------------------------------
Worker(w) ==
    \/ Connect(w)
    \/ RestartWorker(w)
    \/ \E j \in Jobs :
        \/ InitializeModel(w, j)
        \/ ModelLoaded(w, j)
        \/ InputTooEarly(w, j)
        \/ BeginProcessing(w, j)
        \/ SendResult(w, j)

Connection(c) ==
    \/ LoseConnection(c)
    \/ NodeFound(c)
    \/ NodeNotFound(c)
    \/ HandleWorkerDisconnect(c)
    \/ \E j \in Jobs : ProcessLayerResult(c, j) \/ HandleWorkerError(c, j)

StartJob(j) ==
    \/ SelectWorkersForJob(j)
    \/ InsertFails(j)
    \/ TrackJob(j)
    \/ MarkRunning(j)
    \/ MarkRunningFails(j)
    \/ ProcessInput(j)

EndJob(f) ==
    \/ WriteRow(f)
    \/ WriteFails(f)
    \/ CleanupJob(f)

Next ==
    \/ \E w \in Workers : Worker(w) \/ TimeOutWorker(w)
    \/ \E c \in Conns : Connection(c)
    \/ \E j \in Jobs : StartJob(j) \/ HandleJobTimeout(j)
    \/ \E f \in flows : EndJob(f)

Spec == Init /\ [][Next]_vars

\* Timers of the coordinator fire and its database calls are answered.
Fairness ==
    /\ \A w \in Workers : WF_vars(TimeOutWorker(w))
    /\ \A j \in Jobs :
        /\ WF_vars(HandleJobTimeout(j))
        /\ WF_vars(\E f \in flows : f.job = j /\ f.cause = "timer" /\ EndJob(f))

FairSpec == Spec /\ Fairness

-----------------------------------------------------------------------------
(* Properties *)

\* Every table, connection and handler keeps its type.
TypeOK ==
    /\ conn \in [Conns -> ConnStates]
    /\ current \in [Workers -> Conns \cup {Null}]
    /\ model \in [Workers -> [Jobs -> {"none", "loading", "ready", "processing"}]]
    /\ workers \in [Workers -> Entries \cup {Null}]
    /\ jobs \in [Jobs -> JobEntries \cup {Null}]
    /\ plan \in [Jobs -> Seq(Workers)]
    /\ stage \in [Jobs -> {"idle", "inserting", "marking", "started", "fed", "refused"}]
    /\ flows \subseteq FlowStates
    /\ row \in [Jobs -> [status : {"open", "completed", "failed"}, result : SUBSET Workers]]
    /\ faults \in 0..MaxFaults
    /\ computed \subseteq Workers \X Jobs

\* A worker's capacity (activeJobs, against maxJobs) is held only by jobs
\* the coordinator still tracks, of whose plan the worker is part and which
\* have not counted it as failed: neither reconnecting, nor the close of an
\* old connection, nor two handlers ending one job leaks a place.
ActiveTracked ==
    \A w \in Workers : workers[w] # Null =>
        \A j \in workers[w].active :
            /\ jobs[j] # Null
            /\ w \in Range(plan[j]) \ Range(jobs[j].failures)

\* A job is failed for too many failures only when at least half of its
\* workers are gone, each counted once however often it reconnected.
FailedByMajority ==
    \A f \in flows : f.cause \in {"left", "error"} /\ jobs[f.job] # Null =>
        2 * Cardinality(Range(jobs[f.job].failures)) >= Len(plan[f.job])

\* The result saved with a completed job is not empty and was computed by
\* workers of the job's plan, for a pipeline by its last stage.
SavedWasComputed ==
    \A j \in Jobs : row[j].status = "completed" =>
        /\ row[j].result # {}
        /\ row[j].result \subseteq Range(plan[j])
        /\ \A w \in row[j].result : <<w, j>> \in computed
        /\ j \notin DataJobs => row[j].result = {Last(plan[j])}

\* Unless a database call failed, a job the coordinator no longer tracks
\* is completed or failed in the jobs table: none is dropped silently.
UntrackedIsSettled ==
    \A j \in Jobs : stage[j] \notin {"idle", "inserting"} /\ jobs[j] = Null /\ faults = 0 =>
        row[j].status # "open"

\* The coordinator does not track a job for ever, whatever becomes of its
\* workers, its caller and the database: the timer of startJob ends it.
TrackedEnds == \A j \in Jobs : jobs[j] # Null ~> jobs[j] = Null

\* An entry whose connections are all gone leaves the workers map or is
\* taken over by a new connection: the sweep catches what 'close' missed.
DeadWorkerLeaves ==
    \A w \in Workers : (workers[w] # Null /\ Silent(w)) ~> (workers[w] = Null \/ ~Silent(w))

\* Either end of a job is earned.
OutcomesEarned == FailedByMajority /\ SavedWasComputed

\* Nothing stays in the coordinator's books for ever: neither a job nor a worker
\* that is gone.
BooksClear == TrackedEnds /\ DeadWorkerLeaves

\* A worker's capacity and its jobs are given back together with the job's row.
NothingLeaks == ActiveTracked /\ UntrackedIsSettled
=============================================================================
