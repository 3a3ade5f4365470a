------------------------- MODULE CoordinatorProofs -------------------------
(***************************************************************************)
(* What the coordinator guarantees for any number of workers, connections, *)
(* jobs and faults.                                                        *)
(***************************************************************************)
EXTENDS Coordinator, FiniteSetTheorems, TLAPS

(***************************************************************************)
(* Types                                                                   *)
(***************************************************************************)

LEMMA PairType ==
  ASSUME NEW c \in Conns
  PROVE  c[1] \in Workers /\ c[2] \in 1..MaxConns
BY DEF Conns

\* A worker has a part of a job only after it has connected.
ConnectedInv == \A w \in Workers, j \in Jobs : model[w][j] # "none" => current[w] # Null

TypeInv == TypeOK /\ ConnectedInv

LEMMA InitType == Init => TypeInv
<1>. SUFFICES ASSUME Init PROVE TypeInv
  OBVIOUS
<1>1. conn \in [Conns -> ConnStates]
  <2>1. [ws |-> "unused", cs |-> "unused", id |-> Null,
         asking |-> FALSE, up |-> <<>>, down |-> <<>>] \in ConnStates
    BY DEF ConnStates
  <2>. QED  BY <2>1 DEF Init
<1>2. row \in [Jobs -> [status : {"open", "completed", "failed"}, result : SUBSET Workers]]
  BY DEF Init
<1>3. plan \in [Jobs -> Seq(Workers)]
  BY DEF Init
<1>4. /\ current \in [Workers -> Conns \cup {Null}]
      /\ model \in [Workers -> [Jobs -> {"none", "loading", "ready", "processing"}]]
      /\ workers \in [Workers -> Entries \cup {Null}]
      /\ jobs \in [Jobs -> JobEntries \cup {Null}]
  BY DEF Init
<1>5. /\ stage \in [Jobs -> {"idle", "inserting", "marking", "started", "fed", "refused"}]
      /\ flows \subseteq FlowStates /\ faults \in 0..MaxFaults /\ computed \subseteq Workers \X Jobs
  BY BoundsAssumption DEF Init
<1>6. ConnectedInv
  BY DEF Init, ConnectedInv
<1>. QED  BY <1>1, <1>2, <1>3, <1>4, <1>5, <1>6 DEF TypeOK, TypeInv

LEMMA SendType ==
  ASSUME TypeOK, NEW m \in Messages, NEW ws
  PROVE  SendToWorkers(ws, m) \in [Conns -> ConnStates]
<1>. SUFFICES ASSUME NEW c \in Conns PROVE [conn[c] EXCEPT !.down = Append(@, m)] \in ConnStates
  BY DEF TypeOK, SendToWorkers
<1>1. conn[c] \in ConnStates /\ Append(conn[c].down, m) \in Seq(Messages)
  BY DEF TypeOK, ConnStates
<1>. QED  BY <1>1 DEF ConnStates

LEMMA ReplyType ==
  ASSUME NEW cs \in [Conns -> ConnStates], NEW m \in Messages, NEW w \in Workers, current[w] \in Conns
  PROVE  SendToCoordinator(cs, w, m) \in [Conns -> ConnStates]
<1>1. cs[current[w]] \in ConnStates /\ Append(cs[current[w]].up, m) \in Seq(Messages)
  BY DEF ConnStates
<1>2. [cs[current[w]] EXCEPT !.up = Append(@, m)] \in ConnStates
  BY <1>1 DEF ConnStates
<1>. QED  BY <1>2 DEF SendToCoordinator

LEMMA ReceivedType ==
  ASSUME TypeOK, NEW w \in Workers, NEW j \in Jobs, NEW t, Receives(w, t, j)
  PROVE  Received(w) \in [Conns -> ConnStates] /\ current[w] \in Conns
<1>1. current[w] \in Conns
  BY DEF TypeOK, Receives
<1>2. conn[current[w]] \in ConnStates /\ Tail(conn[current[w]].down) \in Seq(Messages)
  BY <1>1 DEF TypeOK, ConnStates, Receives
<1>3. [conn[current[w]] EXCEPT !.down = Tail(@)] \in ConnStates
  BY <1>2 DEF ConnStates
<1>. QED  BY <1>1, <1>3 DEF TypeOK, Received

LEMMA TakenType ==
  ASSUME TypeOK, NEW c \in Conns, NEW j \in Jobs, NEW t, Arrives(c, t, j)
  PROVE  Taken(c) \in [Conns -> ConnStates]
<1>1. conn[c] \in ConnStates /\ Tail(conn[c].up) \in Seq(Messages)
  BY DEF TypeOK, ConnStates, Arrives
<1>2. [conn[c] EXCEPT !.up = Tail(@)] \in ConnStates
  BY <1>1 DEF ConnStates
<1>. QED  BY <1>2 DEF TypeOK, Taken

LEMMA MsgType ==
  ASSUME NEW t \in {"init", "input", "result", "error"}, NEW j \in Jobs
  PROVE  Msg(t, j) \in Messages
BY DEF Msg, Messages

LEMMA ClosedType ==
  ASSUME NEW k \in ConnStates
  PROVE  [k EXCEPT !.ws = "closed", !.down = <<>>] \in ConnStates
<1>. DEFINE k1 == [k EXCEPT !.ws = "closed"]
<1>1. k1 \in ConnStates
  BY DEF ConnStates
<1>. HIDE DEF k1
<1>2. [k1 EXCEPT !.down = <<>>] \in ConnStates
  <2>1. <<>> \in Seq(Messages)
    OBVIOUS
  <2>2. ASSUME NEW q \in Seq(Messages) PROVE [k1 EXCEPT !.down = q] \in ConnStates
    BY <1>1 DEF ConnStates
  <2>. QED  BY <2>1, <2>2
<1>3. [k1 EXCEPT !.down = <<>>] = [k EXCEPT !.ws = "closed", !.down = <<>>]
  BY DEF k1
<1>. QED  BY <1>2, <1>3

LEMMA WorkerType ==
  ASSUME TypeInv, NEW w \in Workers, Worker(w)
  PROVE  TypeOK'
<1>. USE DEF TypeInv
<1>1. CASE Connect(w)
  <2>. DEFINE c == <<w, IF current[w] = Null THEN 1 ELSE current[w][2] + 1>>
              k == [ws |-> "open", cs |-> "open", id |-> Null,
                    asking |-> TRUE, up |-> <<>>, down |-> <<>>]
  <2>1. c \in Conns /\ conn' = [conn EXCEPT ![c] = k] /\ current' = [current EXCEPT ![w] = c]
    BY <1>1 DEF Connect
  <2>2. k \in ConnStates
    BY DEF ConnStates
  <2>3. conn' \in [Conns -> ConnStates] /\ current' \in [Workers -> Conns \cup {Null}]
    BY <2>1, <2>2 DEF TypeOK
  <2>. QED  BY <1>1, <2>3 DEF TypeOK, Connect, coordinatorVars
<1>2. CASE RestartWorker(w)
  <2>1. current[w] \in Conns /\ conn[current[w]] \in ConnStates
    BY <1>2 DEF TypeOK, RestartWorker
  <2>2. [conn[current[w]] EXCEPT !.ws = "closed", !.down = <<>>] \in ConnStates
    BY <2>1, ClosedType
  <2>3. conn' \in [Conns -> ConnStates]
    BY <1>2, <2>1, <2>2 DEF TypeOK, RestartWorker
  <2>4. model' \in [Workers -> [Jobs -> {"none", "loading", "ready", "processing"}]]
    BY <1>2 DEF TypeOK, RestartWorker
  <2>. QED  BY <1>2, <2>3, <2>4 DEF TypeOK, RestartWorker, coordinatorVars
<1>3. ASSUME NEW j \in Jobs, InitializeModel(w, j) PROVE TypeOK'
  <2>1. conn' \in [Conns -> ConnStates]
    BY <1>3, ReceivedType DEF InitializeModel
  <2>2. model' \in [Workers -> [Jobs -> {"none", "loading", "ready", "processing"}]]
    BY <1>3 DEF TypeOK, InitializeModel
  <2>. QED  BY <1>3, <2>1, <2>2 DEF TypeOK, InitializeModel, coordinatorVars
<1>4. ASSUME NEW j \in Jobs, ModelLoaded(w, j) PROVE TypeOK'
  <2>1. model' \in [Workers -> [Jobs -> {"none", "loading", "ready", "processing"}]]
    BY <1>4 DEF TypeOK, ModelLoaded
  <2>. QED  BY <1>4, <2>1 DEF TypeOK, ModelLoaded, coordinatorVars
<1>5. ASSUME NEW j \in Jobs, InputTooEarly(w, j) PROVE TypeOK'
  <2>1. conn' \in [Conns -> ConnStates]
    BY <1>5, ReceivedType, ReplyType, MsgType DEF InputTooEarly
  <2>. QED  BY <1>5, <2>1 DEF TypeOK, InputTooEarly, workerVars, coordinatorVars
<1>6. ASSUME NEW j \in Jobs, BeginProcessing(w, j) PROVE TypeOK'
  <2>1. conn' \in [Conns -> ConnStates]
    BY <1>6, ReceivedType DEF BeginProcessing
  <2>2. model' \in [Workers -> [Jobs -> {"none", "loading", "ready", "processing"}]]
    BY <1>6 DEF TypeOK, BeginProcessing
  <2>. QED  BY <1>6, <2>1, <2>2 DEF TypeOK, BeginProcessing, coordinatorVars
<1>7. ASSUME NEW j \in Jobs, SendResult(w, j) PROVE TypeOK'
  <2>1. current[w] \in Conns
    BY <1>7 DEF TypeOK, ConnectedInv, SendResult
  <2>2. conn' \in [Conns -> ConnStates]
    BY <1>7, <2>1, ReplyType, MsgType DEF TypeOK, SendResult
  <2>3. model' \in [Workers -> [Jobs -> {"none", "loading", "ready", "processing"}]]
    BY <1>7 DEF TypeOK, SendResult
  <2>4. computed' \subseteq Workers \X Jobs
    BY <1>7 DEF TypeOK, SendResult
  <2>. QED  BY <1>7, <2>2, <2>3, <2>4 DEF TypeOK, SendResult, coordinatorVars
<1>. QED  BY <1>1, <1>2, <1>3, <1>4, <1>5, <1>6, <1>7 DEF Worker

LEMMA FieldType ==
  ASSUME NEW k \in ConnStates, NEW s \in {"open", "closing", "closed"},
         NEW id \in Workers \cup {Null}
  PROVE  /\ [k EXCEPT !.cs = s] \in ConnStates
         /\ [k EXCEPT !.asking = FALSE] \in ConnStates
         /\ [k EXCEPT !.asking = FALSE, !.id = id] \in ConnStates
<1>1. [k EXCEPT !.cs = s] \in ConnStates
  BY DEF ConnStates
<1>. DEFINE k1 == [k EXCEPT !.asking = FALSE]
<1>2. k1 \in ConnStates
  BY DEF ConnStates
<1>. HIDE DEF k1
<1>3. [k1 EXCEPT !.id = id] \in ConnStates
  BY <1>2 DEF ConnStates
<1>4. [k1 EXCEPT !.id = id] = [k EXCEPT !.asking = FALSE, !.id = id]
  BY DEF k1
<1>. QED  BY <1>1, <1>2, <1>3, <1>4 DEF k1

LEMMA GoneType ==
  ASSUME NEW k \in ConnStates
  PROVE  [k EXCEPT !.cs = "closed", !.up = <<>>] \in ConnStates
<1>. DEFINE k1 == [k EXCEPT !.cs = "closed"]
<1>1. k1 \in ConnStates
  BY FieldType
<1>. HIDE DEF k1
<1>2. ASSUME NEW q \in Seq(Messages) PROVE [k1 EXCEPT !.up = q] \in ConnStates
  BY <1>1 DEF ConnStates
<1>3. [k1 EXCEPT !.up = <<>>] \in ConnStates
  <2>1. <<>> \in Seq(Messages)
    OBVIOUS
  <2>. QED  BY <1>2, <2>1
<1>4. [k1 EXCEPT !.up = <<>>] = [k EXCEPT !.cs = "closed", !.up = <<>>]
  BY DEF k1
<1>. QED  BY <1>3, <1>4

LEMMA EndingType ==
  ASSUME NEW j \in Jobs, NEW w \in Workers \cup {Null}, NEW out \in SUBSET Workers,
         NEW cause \in {"result", "timer", "left", "error"}
  PROVE  Ending(cause, j, w, out) \in FlowStates
BY DEF Ending, FlowStates

LEMMA CountedType ==
  ASSUME NEW e \in JobEntries, NEW w \in Workers
  PROVE  [e EXCEPT !.failures = Append(e.failures, w)] \in JobEntries
<1>1. Append(e.failures, w) \in Seq(Workers)
  BY DEF JobEntries
<1>. QED  BY <1>1 DEF JobEntries

LEMMA ConnectionType ==
  ASSUME TypeInv, NEW c \in Conns, Connection(c)
  PROVE  TypeOK'
<1>. USE DEF TypeInv
<1>0. conn[c] \in ConnStates /\ c[1] \in Workers
  BY PairType DEF TypeOK
<1>1. CASE LoseConnection(c)
  <2>1. conn' \in [Conns -> ConnStates]
    BY <1>0, <1>1, ClosedType DEF TypeOK, LoseConnection
  <2>. QED  BY <1>1, <2>1 DEF TypeOK, LoseConnection, workerVars, coordinatorVars
<1>2. CASE NodeFound(c)
  <2>1. conn' \in [Conns -> ConnStates]
    BY <1>0, <1>2, FieldType DEF TypeOK, NodeFound
  <2>2. workers' \in [Workers -> Entries \cup {Null}]
    <3>1. [conn |-> c, active |-> {}] \in Entries
      BY DEF Entries
    <3>. QED  BY <1>2, <3>1 DEF TypeOK, NodeFound
  <2>. QED  BY <1>2, <2>1, <2>2 DEF TypeOK, NodeFound, workerVars
<1>3. CASE NodeNotFound(c)
  <2>1. conn' \in [Conns -> ConnStates]
    BY <1>0, <1>3, FieldType DEF TypeOK, NodeNotFound
  <2>2. faults' \in 0..MaxFaults
    BY <1>3, BoundsAssumption DEF TypeOK, NodeNotFound, MayFail
  <2>. QED  BY <1>3, <2>1, <2>2 DEF TypeOK, NodeNotFound, workerVars, coordinatorVars
<1>4. CASE HandleWorkerDisconnect(c)
  <2>. DEFINE id == conn[c].id
              lost == IF id = Null \/ workers[id] = Null THEN {} ELSE workers[id].active \cap Tracked
  <2>1. conn' \in [Conns -> ConnStates]
    BY <1>0, <1>4, GoneType DEF TypeOK, HandleWorkerDisconnect
  <2>2. \A j \in lost : id \in Workers /\ jobs[j] \in JobEntries
    BY <1>0 DEF TypeOK, ConnStates, Entries, Tracked
  <2>3. jobs' = [j \in Jobs |-> IF j \in lost
                                THEN [jobs[j] EXCEPT !.failures = Append(jobs[j].failures, id)]
                                ELSE jobs[j]]
    BY <1>4 DEF HandleWorkerDisconnect
  <2>4. jobs' \in [Jobs -> JobEntries \cup {Null}]
    <3>. HIDE DEF lost, id
    <3>. SUFFICES ASSUME NEW j \in Jobs PROVE jobs'[j] \in JobEntries \cup {Null}
      BY <2>3
    <3>. QED  BY <2>2, <2>3, CountedType DEF TypeOK
  <2>5. flows' \subseteq FlowStates
    <3>1. \A f \in flows' : f \in flows \/ \E j \in lost : f = Ending("left", j, id, {})
      BY <1>4 DEF HandleWorkerDisconnect
    <3>2. \A j \in lost : Ending("left", j, id, {}) \in FlowStates
      BY <2>2, EndingType DEF Tracked
    <3>. QED  BY <3>1, <3>2 DEF TypeOK
  <2>6. workers' \in [Workers -> Entries \cup {Null}]
    BY <1>4 DEF TypeOK, HandleWorkerDisconnect
  <2>. QED  BY <1>4, <2>1, <2>4, <2>5, <2>6 DEF TypeOK, HandleWorkerDisconnect, workerVars
<1>5. ASSUME NEW j \in Jobs, ProcessLayerResult(c, j) PROVE TypeOK'
  <2>1. conn' \in [Conns -> ConnStates]
    BY <1>5, TakenType DEF ProcessLayerResult
  <2>2. /\ jobs' \in [Jobs -> JobEntries \cup {Null}]
        /\ flows' \subseteq FlowStates
    <3>1. CASE jobs[j] = Null
      BY <1>5, <3>1 DEF TypeOK, ProcessLayerResult
    <3>2. CASE jobs[j] # Null
      <4>. DEFINE r == jobs[j].results \cup {c[1]}
      <4>1. jobs[j] \in JobEntries /\ r \in SUBSET Workers
        BY <1>0, <3>2 DEF TypeOK, JobEntries
      <4>2. [jobs[j] EXCEPT !.results = r] \in JobEntries
        BY <4>1 DEF JobEntries
      <4>3. FinalResult(j, r) \in SUBSET Workers
        BY <4>1 DEF FinalResult
      <4>4. jobs' = [jobs EXCEPT ![j].results = r]
        BY <1>5, <3>2 DEF ProcessLayerResult
      <4>5. flows' \subseteq flows \cup {Ending("result", j, c[1], FinalResult(j, r))}
        BY <1>5, <3>2 DEF ProcessLayerResult
      <4>6. Ending("result", j, c[1], FinalResult(j, r)) \in FlowStates
        BY <1>0, <4>3, EndingType
      <4>. HIDE DEF r
      <4>7. jobs' \in [Jobs -> JobEntries \cup {Null}]
        BY <4>2, <4>4 DEF TypeOK
      <4>. QED  BY <4>5, <4>6, <4>7 DEF TypeOK
    <3>. QED  BY <3>1, <3>2
  <2>. QED  BY <1>5, <2>1, <2>2 DEF TypeOK, ProcessLayerResult, workerVars
<1>6. ASSUME NEW j \in Jobs, HandleWorkerError(c, j) PROVE TypeOK'
  <2>1. conn' \in [Conns -> ConnStates]
    BY <1>6, TakenType DEF HandleWorkerError
  <2>2. flows' \subseteq flows \cup {Ending("error", j, c[1], {})}
    BY <1>6 DEF HandleWorkerError
  <2>3. Ending("error", j, c[1], {}) \in FlowStates
    BY <1>0, EndingType
  <2>. QED  BY <1>6, <2>1, <2>2, <2>3 DEF TypeOK, HandleWorkerError, workerVars
<1>. QED  BY <1>1, <1>2, <1>3, <1>4, <1>5, <1>6 DEF Connection

LEMMA TimeOutType ==
  ASSUME TypeInv, NEW w \in Workers, TimeOutWorker(w)
  PROVE  TypeOK'
<1>. USE DEF TypeInv
<1>. DEFINE c == workers[w].conn
<1>1. c \in Conns /\ conn[c] \in ConnStates
  BY DEF TypeOK, Entries, TimeOutWorker
<1>. DEFINE s == IF conn[c].cs = "open" THEN "closing" ELSE conn[c].cs
<1>2. [conn[c] EXCEPT !.cs = s] \in ConnStates
  <2>1. s \in {"unused", "open", "closing", "closed"}
    BY <1>1 DEF ConnStates
  <2>. HIDE DEF s
  <2>. QED  BY <1>1, <2>1 DEF ConnStates
<1>3. conn' = [conn EXCEPT ![c] = [conn[c] EXCEPT !.cs = s]]
  BY <1>1 DEF TypeOK, TimeOutWorker
<1>. HIDE DEF c, s
<1>4. conn' \in [Conns -> ConnStates]
  BY <1>1, <1>2, <1>3 DEF TypeOK
<1>. QED  BY <1>4 DEF TypeOK, TimeOutWorker, workerVars

LEMMA StartType ==
  ASSUME TypeInv, NEW j \in Jobs, StartJob(j)
  PROVE  TypeOK'
<1>. USE DEF TypeInv
<1>1. CASE SelectWorkersForJob(j)
  <2>1. PICK s \in Selections : plan' = [plan EXCEPT ![j] = s]
    BY <1>1 DEF SelectWorkersForJob
  <2>2. s \in Seq(Workers)
    BY DEF Selections
  <2>. QED  BY <1>1, <2>1, <2>2 DEF TypeOK, SelectWorkersForJob, workerVars
<1>2. CASE InsertFails(j)
  <2>1. faults' \in 0..MaxFaults
    BY <1>2, BoundsAssumption DEF TypeOK, InsertFails, MayFail
  <2>2. plan' \in [Jobs -> Seq(Workers)]
    BY <1>2 DEF TypeOK, InsertFails
  <2>. QED  BY <1>2, <2>1, <2>2 DEF TypeOK, InsertFails, workerVars
<1>3. CASE TrackJob(j)
  <2>. DEFINE reached == IF Supported(j) THEN Reached(j) ELSE {}
  <2>1. conn' \in [Conns -> ConnStates]
    BY <1>3, SendType, MsgType DEF TrackJob
  <2>2. [failures |-> <<>>, results |-> {}, armed |-> TRUE] \in JobEntries
    BY DEF JobEntries
  <2>3. jobs' \in [Jobs -> JobEntries \cup {Null}]
    BY <1>3, <2>2 DEF TypeOK, TrackJob
  <2>4. \A w \in reached : w \in Workers /\ workers[w] \in Entries
    <3>1. plan[j] \in Seq(Workers)
      BY DEF TypeOK
    <3>2. \A w \in Reached(j) : w \in Workers /\ workers[w] # Null
      BY <3>1 DEF Reached
    <3>. QED  BY <3>2 DEF TypeOK
  <2>5. workers' = [w \in Workers |-> IF w \in reached THEN [workers[w] EXCEPT !.active = @ \cup {j}]
                                      ELSE workers[w]]
    BY <1>3 DEF TrackJob
  <2>. HIDE DEF reached
  <2>6. workers' \in [Workers -> Entries \cup {Null}]
    <3>. SUFFICES ASSUME NEW w \in Workers PROVE workers'[w] \in Entries \cup {Null}
      BY <2>5
    <3>. QED  BY <2>4, <2>5 DEF TypeOK, Entries
  <2>7. stage' \in [Jobs -> {"idle", "inserting", "marking", "started", "fed", "refused"}]
    BY <1>3 DEF TypeOK, TrackJob
  <2>. QED  BY <1>3, <2>1, <2>3, <2>6, <2>7 DEF TypeOK, TrackJob, workerVars
<1>4. CASE MarkRunning(j)
  BY <1>4 DEF TypeOK, MarkRunning, workerVars
<1>5. CASE MarkRunningFails(j)
  <2>1. faults' \in 0..MaxFaults
    BY <1>5, BoundsAssumption DEF TypeOK, MarkRunningFails, MayFail
  <2>. QED  BY <1>5, <2>1 DEF TypeOK, MarkRunningFails, workerVars
<1>6. CASE ProcessInput(j)
  <2>1. conn' \in [Conns -> ConnStates]
    BY <1>6, SendType, MsgType DEF TypeOK, ProcessInput
  <2>. QED  BY <1>6, <2>1 DEF TypeOK, ProcessInput, workerVars
<1>. QED  BY <1>1, <1>2, <1>3, <1>4, <1>5, <1>6 DEF StartJob

LEMMA TimerType ==
  ASSUME TypeInv, NEW j \in Jobs, HandleJobTimeout(j)
  PROVE  TypeOK'
<1>. USE DEF TypeInv
<1>1. jobs[j] \in JobEntries
  BY DEF TypeOK, HandleJobTimeout
<1>2. [jobs[j] EXCEPT !.armed = FALSE] \in JobEntries
  BY <1>1 DEF JobEntries
<1>3. jobs' \in [Jobs -> JobEntries \cup {Null}]
  BY <1>2 DEF TypeOK, HandleJobTimeout
<1>4. Ending("timer", j, Null, {}) \in FlowStates
  BY EndingType
<1>5. flows' \subseteq FlowStates
  BY <1>4 DEF TypeOK, HandleJobTimeout
<1>. QED  BY <1>3, <1>5 DEF TypeOK, HandleJobTimeout, workerVars

LEMMA GoesType ==
  ASSUME TypeInv, NEW f \in flows, NEW at \in {"fail", "clean"}, Goes(f, at)
  PROVE  flows' \subseteq FlowStates
<1>1. f \in FlowStates
  BY DEF TypeInv, TypeOK
<1>2. [f EXCEPT !.at = at] \in FlowStates
  BY <1>1 DEF FlowStates
<1>. QED  BY <1>2 DEF TypeInv, TypeOK, Goes

LEMMA WrittenType ==
  ASSUME TypeInv, NEW f \in flows
  PROVE  /\ f.job \in Jobs /\ f.out \in SUBSET Workers
         /\ Written(f) \in [Jobs -> [status : {"open", "completed", "failed"}, result : SUBSET Workers]]
<1>1. f.job \in Jobs /\ f.out \in SUBSET Workers
  BY DEF TypeInv, TypeOK, FlowStates
<1>. QED  BY <1>1, ZenonT(40) DEF TypeInv, TypeOK, Written

LEMMA EndType ==
  ASSUME TypeInv, NEW f \in flows, EndJob(f)
  PROVE  TypeOK'
<1>1. CASE WriteRow(f)
  <2>1. flows' \subseteq FlowStates
    BY <1>1, GoesType DEF WriteRow
  <2>2. row' = Written(f)
    BY <1>1 DEF WriteRow
  <2>. QED  BY <1>1, <2>1, <2>2, WrittenType DEF TypeInv, TypeOK, WriteRow, workerVars
<1>2. CASE WriteFails(f)
  <2>1. flows' \subseteq FlowStates
    BY <1>2, GoesType DEF WriteFails
  <2>2. row' \in {row, Written(f)}
    BY <1>2 DEF WriteFails
  <2>3. faults' \in 0..MaxFaults
    BY <1>2, BoundsAssumption DEF TypeInv, TypeOK, WriteFails, MayFail
  <2>. QED  BY <1>2, <2>1, <2>2, <2>3, WrittenType DEF TypeInv, TypeOK, WriteFails, workerVars
<1>3. CASE CleanupJob(f)
  <2>1. jobs' \in [Jobs -> JobEntries \cup {Null}]
    BY <1>3 DEF TypeInv, TypeOK, CleanupJob
  <2>2. workers' \in [Workers -> Entries \cup {Null}]
    BY <1>3 DEF TypeInv, TypeOK, Entries, CleanupJob
  <2>3. flows' \subseteq FlowStates
    BY <1>3 DEF TypeInv, TypeOK, CleanupJob
  <2>. QED  BY <1>3, <2>1, <2>2, <2>3 DEF TypeInv, TypeOK, CleanupJob, workerVars
<1>. QED  BY <1>1, <1>2, <1>3 DEF EndJob

LEMMA ConnectedNext == TypeInv /\ TypeOK' /\ Next => ConnectedInv'
<1>. SUFFICES ASSUME TypeInv, TypeOK', Next PROVE ConnectedInv'
  OBVIOUS
<1>. USE DEF TypeInv
<1>1. ASSUME NEW w \in Workers, Worker(w) PROVE ConnectedInv'
  <2>1. ASSUME NEW v \in Workers, NEW j \in Jobs, model'[v][j] # "none" PROVE current'[v] # Null
    <3>1. CASE Connect(w)
      <4>. DEFINE c == <<w, IF current[w] = Null THEN 1 ELSE current[w][2] + 1>>
      <4>1. c \in Conns /\ current' = [current EXCEPT ![w] = c] /\ model' = model
        BY <3>1 DEF Connect
      <4>. HIDE DEF c
      <4>2. c # Null
        BY <4>1, NullAssumption
      <4>. QED  BY <2>1, <4>1, <4>2 DEF ConnectedInv, TypeOK
    <3>2. CASE RestartWorker(w)
      BY <2>1, <3>2 DEF ConnectedInv, TypeOK, RestartWorker
    <3>3. ASSUME NEW k \in Jobs, InitializeModel(w, k) PROVE current'[v] # Null
      BY <2>1, <3>3 DEF ConnectedInv, TypeOK, InitializeModel, Receives
    <3>4. ASSUME NEW k \in Jobs, ModelLoaded(w, k) PROVE current'[v] # Null
      BY <2>1, <3>4 DEF ConnectedInv, TypeOK, ModelLoaded
    <3>5. ASSUME NEW k \in Jobs, InputTooEarly(w, k) PROVE current'[v] # Null
      BY <2>1, <3>5 DEF ConnectedInv, TypeOK, InputTooEarly, workerVars
    <3>6. ASSUME NEW k \in Jobs, BeginProcessing(w, k) PROVE current'[v] # Null
      BY <2>1, <3>6 DEF ConnectedInv, TypeOK, BeginProcessing, Receives
    <3>7. ASSUME NEW k \in Jobs, SendResult(w, k) PROVE current'[v] # Null
      BY <2>1, <3>7 DEF ConnectedInv, TypeOK, SendResult
    <3>. QED  BY <1>1, <3>1, <3>2, <3>3, <3>4, <3>5, <3>6, <3>7 DEF Worker
  <2>. QED  BY <2>1 DEF ConnectedInv
<1>2. ASSUME UNCHANGED workerVars PROVE ConnectedInv'
  BY <1>2 DEF ConnectedInv, workerVars
<1>3. ASSUME NEW w \in Workers, TimeOutWorker(w) PROVE UNCHANGED workerVars
  BY <1>3 DEF TimeOutWorker
<1>4. ASSUME NEW c \in Conns, Connection(c) PROVE UNCHANGED workerVars
  BY <1>4 DEF Connection, LoseConnection, NodeFound, NodeNotFound, HandleWorkerDisconnect,
              ProcessLayerResult, HandleWorkerError
<1>5. ASSUME NEW j \in Jobs, StartJob(j) \/ HandleJobTimeout(j) PROVE UNCHANGED workerVars
  BY <1>5 DEF StartJob, SelectWorkersForJob, InsertFails, TrackJob, MarkRunning, MarkRunningFails,
              ProcessInput, HandleJobTimeout
<1>6. ASSUME NEW f \in flows, EndJob(f) PROVE UNCHANGED workerVars
  BY <1>6 DEF EndJob, WriteRow, WriteFails, CleanupJob
<1>. QED  BY <1>1, <1>2, <1>3, <1>4, <1>5, <1>6 DEF Next

LEMMA TypeNext == TypeInv /\ [Next]_vars => TypeInv'
<1>. SUFFICES ASSUME TypeInv, [Next]_vars PROVE TypeInv'
  OBVIOUS
<1>1. CASE Next
  <2>1. TypeOK'
    BY <1>1, WorkerType, TimeOutType, ConnectionType, StartType, TimerType, EndType DEF Next
  <2>. QED  BY <1>1, <2>1, ConnectedNext DEF TypeInv
<1>2. CASE UNCHANGED vars
  BY <1>2 DEF TypeInv, TypeOK, ConnectedInv, vars
<1>. QED  BY <1>1, <1>2

\* Every table, connection and handler keeps its type, for any number of
\* workers, connections, jobs and faults.
THEOREM TypeCorrect == Spec => []TypeOK
<1>1. Spec => []TypeInv
  BY InitType, TypeNext, PTL DEF Spec
<1>2. TypeInv => TypeOK
  BY DEF TypeInv
<1>. QED  BY <1>1, <1>2, PTL

(***************************************************************************)
(* Safety                                                                  *)
(***************************************************************************)

\* startJob has not tracked the job yet.
Fresh(j) == stage[j] \in {"idle", "inserting"}

\* Nothing of a job exists before startJob tracks it.
FreshInv ==
    \A j \in Jobs : Fresh(j) =>
        /\ jobs[j] = Null
        /\ row[j].status = "open"
        /\ \A f \in flows : f.job # j

\* No worker is counted twice among the failures of a job, and a handler
\* that ends it for its failures found enough of them.
FailureInv ==
    /\ \A j \in Jobs : jobs[j] # Null => IsInjective(jobs[j].failures)
    /\ \A f \in flows : f.cause \in {"left", "error"} /\ jobs[f.job] # Null =>
            TooManyFailures(f.job, jobs[f.job].failures)

\* A connection belongs to the worker it is kept for, at both ends.
OwnInv ==
    \A w \in Workers : /\ current[w] # Null => current[w][1] = w
                       /\ workers[w] # Null => workers[w].conn[1] = w

\* A job has workers from the selection on.
PlanInv == \A j \in Jobs : stage[j] # "idle" => plan[j] # <<>>

PartOf(w, j) == ~Fresh(j) /\ w \in Range(plan[j])

\* A worker gets messages about, and computes, only jobs it is part of.
PartInv ==
    /\ \A c \in Conns : \A m \in Range(conn[c].down) : PartOf(c[1], m.job)
    /\ \A w \in Workers, j \in Jobs : model[w][j] # "none" \/ <<w, j>> \in computed => PartOf(w, j)

\* A result is on its way, or in the results of a job, only if computed.
ResultInv ==
    /\ \A c \in Conns : \A m \in Range(conn[c].up) :
            m.type = "result" => <<c[1], m.job>> \in computed
    /\ \A j \in Jobs : jobs[j] # Null => \A w \in jobs[j].results : <<w, j>> \in computed

\* What finalizeJob may save.
Final(j, out) ==
    /\ out # {}
    /\ \A w \in out : <<w, j>> \in computed
    /\ j \notin DataJobs => out = {Last(plan[j])}

\* What finalizeJob is about to save and what it has saved is final.
FinalInv ==
    /\ \A f \in flows : f.cause = "result" /\ f.at = "write" => Final(f.job, f.out)
    /\ \A j \in Jobs : row[j].status = "completed" => Final(j, row[j].result)

\* A handler reaches the clean-up with the row settled or after a failure.
SettledInv ==
    /\ UntrackedIsSettled
    /\ \A f \in flows : f.at = "clean" /\ faults = 0 => row[f.job].status # "open"

IInv ==
    /\ TypeInv /\ FreshInv /\ ActiveTracked /\ FailureInv /\ OwnInv
    /\ PlanInv /\ PartInv /\ ResultInv /\ FinalInv /\ SettledInv

LEMMA InitSafety == Init => IInv
<1>. SUFFICES ASSUME Init PROVE IInv
  OBVIOUS
<1>1. TypeInv
  BY InitType
<1>2. FreshInv /\ ActiveTracked /\ FailureInv /\ OwnInv /\ SettledInv
  BY DEF Init, FreshInv, ActiveTracked, FailureInv, OwnInv, SettledInv, UntrackedIsSettled
<1>3. PlanInv
  BY DEF Init, PlanInv
<1>4. \A c \in Conns : conn[c].down = <<>> /\ conn[c].up = <<>>
  BY DEF Init
<1>5. PartInv /\ ResultInv
  BY <1>4 DEF Init, PartInv, ResultInv, Range
<1>6. FinalInv
  BY DEF Init, FinalInv
<1>. QED  BY <1>1, <1>2, <1>3, <1>5, <1>6 DEF IInv

\* The variables each kind of step leaves alone.
LEMMA Frames ==
  /\ \A w \in Workers : Worker(w) => UNCHANGED <<coordinatorVars, faults>>
  /\ \A w \in Workers : TimeOutWorker(w) =>
        UNCHANGED <<workerVars, jobs, plan, stage, flows, row, faults>>
  /\ \A c \in Conns : Connection(c) => UNCHANGED <<workerVars, plan, stage, row>>
  /\ \A j \in Jobs : StartJob(j) => UNCHANGED <<workerVars, flows, row>>
  /\ \A j \in Jobs : HandleJobTimeout(j) =>
        UNCHANGED <<conn, workerVars, workers, plan, stage, row, faults>>
  /\ \A f \in flows : EndJob(f) => UNCHANGED <<conn, workerVars, plan, stage>>
<1>1. \A w \in Workers : Worker(w) => UNCHANGED <<coordinatorVars, faults>>
  BY DEF Worker, Connect, RestartWorker, InitializeModel, ModelLoaded, InputTooEarly,
         BeginProcessing, SendResult
<1>2. \A w \in Workers : TimeOutWorker(w) =>
        UNCHANGED <<workerVars, jobs, plan, stage, flows, row, faults>>
  BY DEF TimeOutWorker
<1>3. \A c \in Conns : Connection(c) => UNCHANGED <<workerVars, plan, stage, row>>
  BY DEF Connection, LoseConnection, NodeFound, NodeNotFound, HandleWorkerDisconnect,
         ProcessLayerResult, HandleWorkerError, coordinatorVars
<1>4. \A j \in Jobs : StartJob(j) => UNCHANGED <<workerVars, flows, row>>
  BY DEF StartJob, SelectWorkersForJob, InsertFails, TrackJob, MarkRunning, MarkRunningFails,
         ProcessInput
<1>5. \A j \in Jobs : HandleJobTimeout(j) =>
        UNCHANGED <<conn, workerVars, workers, plan, stage, row, faults>>
  BY DEF HandleJobTimeout
<1>6. \A f \in flows : EndJob(f) => UNCHANGED <<conn, workerVars, plan, stage>>
  BY DEF EndJob, WriteRow, WriteFails, CleanupJob
<1>. QED  BY <1>1, <1>2, <1>3, <1>4, <1>5, <1>6

\* Once tracked, a job keeps its plan; what is computed stays computed.
LEMMA StartedStays ==
  ASSUME TypeInv, Next
  PROVE  /\ computed \subseteq computed'
         /\ \A j \in Jobs : ~Fresh(j) => ~Fresh(j)' /\ plan'[j] = plan[j]
<1>1. ASSUME NEW w \in Workers, Worker(w)
      PROVE  computed \subseteq computed' /\ UNCHANGED <<stage, plan>>
  <2>1. computed \subseteq computed'
    BY <1>1 DEF Worker, Connect, RestartWorker, InitializeModel, ModelLoaded, InputTooEarly,
                BeginProcessing, SendResult, workerVars
  <2>. QED  BY <1>1, <2>1, Frames DEF coordinatorVars
<1>2. ASSUME NEW k \in Jobs, StartJob(k)
      PROVE  /\ UNCHANGED computed
             /\ \A j \in Jobs : ~Fresh(j) => ~Fresh(j)' /\ plan'[j] = plan[j]
  <2>1. UNCHANGED computed
    BY <1>2, Frames DEF workerVars
  <2>2. CASE SelectWorkersForJob(k) \/ InsertFails(k)
    BY <2>1, <2>2 DEF Fresh, TypeInv, TypeOK, SelectWorkersForJob, InsertFails
  <2>3. CASE TrackJob(k) \/ MarkRunning(k) \/ MarkRunningFails(k) \/ ProcessInput(k)
    BY <2>1, <2>3 DEF Fresh, TypeInv, TypeOK, TrackJob, MarkRunning, MarkRunningFails, ProcessInput
  <2>. QED  BY <1>2, <2>2, <2>3 DEF StartJob
<1>3. ASSUME \/ \E w \in Workers : TimeOutWorker(w)
             \/ \E c \in Conns : Connection(c)
             \/ \E j \in Jobs : HandleJobTimeout(j)
             \/ \E f \in flows : EndJob(f)
      PROVE  UNCHANGED <<computed, stage, plan>>
  BY <1>3, Frames DEF workerVars
<1>. QED  BY <1>1, <1>2, <1>3 DEF Next, Fresh

\* New handlers are about tracked jobs, and the other ones keep their job.
LEMMA FlowStep ==
  ASSUME TypeInv, Next
  PROVE  \A f \in flows' :
            \/ f \in flows
            \/ \E g \in flows : /\ f.job = g.job /\ f.cause = g.cause
                                /\ f.at \in {"fail", "clean"} /\ EndJob(g)
            \/ jobs[f.job] # Null /\ f.at = "write"
<1>. SUFFICES ASSUME NEW f \in flows', f \notin flows
              PROVE  \/ \E g \in flows : /\ f.job = g.job /\ f.cause = g.cause
                                         /\ f.at \in {"fail", "clean"} /\ EndJob(g)
                     \/ jobs[f.job] # Null /\ f.at = "write"
  OBVIOUS
<1>1. CASE (\E w \in Workers : Worker(w) \/ TimeOutWorker(w)) \/ (\E j \in Jobs : StartJob(j))
  BY <1>1, Frames DEF coordinatorVars
<1>2. ASSUME NEW c \in Conns, Connection(c) PROVE jobs[f.job] # Null /\ f.at = "write"
  <2>1. CASE HandleWorkerDisconnect(c)
    BY <2>1 DEF HandleWorkerDisconnect, Ending, Tracked
  <2>2. ASSUME NEW j \in Jobs, ProcessLayerResult(c, j) PROVE jobs[f.job] # Null /\ f.at = "write"
    BY <2>2 DEF ProcessLayerResult, Ending
  <2>3. ASSUME NEW j \in Jobs, HandleWorkerError(c, j) PROVE jobs[f.job] # Null /\ f.at = "write"
    BY <2>3 DEF HandleWorkerError, Ending
  <2>. QED
    BY <1>2, <2>1, <2>2, <2>3 DEF Connection, LoseConnection, NodeFound, NodeNotFound, coordinatorVars
<1>3. ASSUME NEW j \in Jobs, HandleJobTimeout(j) PROVE jobs[f.job] # Null /\ f.at = "write"
  BY <1>3 DEF HandleJobTimeout, Ending
<1>4. ASSUME NEW g \in flows, EndJob(g)
      PROVE  f.job = g.job /\ f.cause = g.cause /\ f.at \in {"fail", "clean"}
  <2>1. g \in FlowStates
    BY DEF TypeInv, TypeOK
  <2>2. ASSUME NEW at \in {"fail", "clean"}, Goes(g, at)
        PROVE  f.job = g.job /\ f.cause = g.cause /\ f.at \in {"fail", "clean"}
    BY <2>1, <2>2 DEF Goes, FlowStates
  <2>3. CASE WriteRow(g)
    BY <2>2, <2>3 DEF WriteRow
  <2>4. CASE WriteFails(g)
    BY <2>2, <2>4 DEF WriteFails
  <2>5. CASE CleanupJob(g)
    BY <2>5 DEF CleanupJob
  <2>. QED  BY <1>4, <2>3, <2>4, <2>5 DEF EndJob
<1>. QED  BY <1>1, <1>2, <1>3, <1>4 DEF Next

\* A job is tracked by startJob alone, with no failures or results.
LEMMA TrackStep ==
  ASSUME TypeInv, Next, NEW j \in Jobs, jobs[j] = Null, jobs'[j] # Null
  PROVE  /\ TrackJob(j)
         /\ jobs'[j] = [failures |-> <<>>, results |-> {}, armed |-> TRUE]
<1>1. ~\E w \in Workers : Worker(w) \/ TimeOutWorker(w)
  BY Frames DEF coordinatorVars
<1>2. ~\E c \in Conns : Connection(c)
  BY ZenonT(40) DEF TypeInv, TypeOK, Connection, LoseConnection, NodeFound, NodeNotFound, HandleWorkerDisconnect,
         ProcessLayerResult, HandleWorkerError, coordinatorVars, Tracked
<1>3. ~\E k \in Jobs : HandleJobTimeout(k)
  BY DEF TypeInv, TypeOK, HandleJobTimeout
<1>4. ~\E f \in flows : EndJob(f)
  BY DEF TypeInv, TypeOK, EndJob, WriteRow, WriteFails, CleanupJob
<1>5. ASSUME NEW k \in Jobs, StartJob(k)
      PROVE  TrackJob(k) /\ j = k
  BY <1>5 DEF TypeInv, TypeOK, StartJob, SelectWorkersForJob, InsertFails, TrackJob, MarkRunning,
              MarkRunningFails, ProcessInput
<1>6. TrackJob(j)
  BY <1>1, <1>2, <1>3, <1>4, <1>5 DEF Next
<1>. QED  BY <1>6 DEF TypeInv, TypeOK, TrackJob

\* The row of a job changes only by one of its handlers.
LEMMA RowStep ==
  ASSUME TypeInv, Next, NEW j \in Jobs, row'[j] # row[j]
  PROVE  \E f \in flows : f.job = j /\ (WriteRow(f) \/ WriteFails(f)) /\ row' = Written(f)
<1>1. \E f \in flows : EndJob(f)
  BY Frames DEF Next, coordinatorVars
<1>2. PICK f \in flows : EndJob(f)
  BY <1>1
<1>3. (WriteRow(f) \/ WriteFails(f)) /\ row' = Written(f)
  BY <1>2 DEF EndJob, WriteRow, WriteFails, CleanupJob
<1>4. f.job = j
  BY <1>3 DEF TypeInv, TypeOK, Written
<1>. QED  BY <1>3, <1>4

LEMMA FreshNext == TypeInv /\ FreshInv /\ Next => FreshInv'
<1>. SUFFICES ASSUME TypeInv, FreshInv, Next, NEW j \in Jobs, Fresh(j)'
              PROVE  /\ jobs'[j] = Null
                     /\ row'[j].status = "open"
                     /\ \A f \in flows' : f.job # j
  BY DEF FreshInv
<1>1. Fresh(j)
  BY StartedStays
<1>2. jobs[j] = Null /\ row[j].status = "open" /\ \A f \in flows : f.job # j
  BY <1>1 DEF FreshInv
<1>3. jobs'[j] = Null
  <2>1. ~TrackJob(j)
    BY DEF Fresh, TypeInv, TypeOK, TrackJob
  <2>. QED  BY <1>2, <2>1, TrackStep
<1>. QED  BY <1>2, <1>3, RowStep, FlowStep

\* An entry is replaced by a new connection, or gains or loses one job.
LEMMA EntryStep ==
  ASSUME TypeInv, Next, NEW w \in Workers, workers'[w] # Null, workers'[w] # workers[w]
  PROVE  \/ \E c \in Conns : c[1] = w /\ workers'[w] = [conn |-> c, active |-> {}]
         \/ /\ workers[w] # Null
            /\ \/ \E j \in Jobs : /\ TrackJob(j) /\ w \in Reached(j)
                                  /\ workers'[w] = [workers[w] EXCEPT !.active = @ \cup {j}]
               \/ \E f \in flows : /\ CleanupJob(f)
                                   /\ workers'[w] = [workers[w] EXCEPT !.active = @ \ {f.job}]
<1>1. (~\E v \in Workers : Worker(v)) /\ (~\E j \in Jobs : HandleJobTimeout(j))
  BY Frames DEF coordinatorVars
<1>2. ~\E v \in Workers : TimeOutWorker(v)
  BY DEF TypeInv, TypeOK, TimeOutWorker
<1>3. ASSUME NEW c \in Conns, Connection(c)
      PROVE  c[1] = w /\ workers'[w] = [conn |-> c, active |-> {}]
  <2>1. NodeFound(c)
    BY <1>3 DEF Connection, LoseConnection, NodeNotFound, HandleWorkerDisconnect, ProcessLayerResult,
                HandleWorkerError, coordinatorVars
  <2>. QED  BY <2>1, PairType DEF TypeInv, TypeOK, NodeFound
<1>4. ASSUME NEW j \in Jobs, StartJob(j)
      PROVE  /\ workers[w] # Null /\ TrackJob(j) /\ w \in Reached(j)
             /\ workers'[w] = [workers[w] EXCEPT !.active = @ \cup {j}]
  <2>1. TrackJob(j)
    BY <1>4 DEF StartJob, SelectWorkersForJob, InsertFails, MarkRunning, MarkRunningFails, ProcessInput
  <2>2. w \in Reached(j) /\ workers'[w] = [workers[w] EXCEPT !.active = @ \cup {j}]
    BY <2>1 DEF TrackJob
  <2>. QED  BY <2>1, <2>2 DEF Reached
<1>5. ASSUME NEW f \in flows, EndJob(f)
      PROVE  /\ workers[w] # Null /\ CleanupJob(f)
             /\ workers'[w] = [workers[w] EXCEPT !.active = @ \ {f.job}]
  <2>1. CleanupJob(f)
    BY <1>5 DEF EndJob, WriteRow, WriteFails
  <2>. QED  BY <2>1 DEF CleanupJob
<1>. QED  BY <1>1, <1>2, <1>3, <1>4, <1>5 DEF Next

\* A tracked job gains one failure by a 'close' event of a worker that has
\* it among its jobs, and one result by a message of a worker.
LEMMA JobStep ==
  ASSUME TypeInv, FreshInv, Next, NEW j \in Jobs, jobs[j] # Null, jobs'[j] # Null
  PROVE  /\ \/ jobs'[j].failures = jobs[j].failures
            \/ \E c \in Conns : /\ HandleWorkerDisconnect(c) /\ conn[c].id \in Workers
                                /\ workers[conn[c].id] # Null /\ j \in workers[conn[c].id].active
                                /\ jobs'[j].failures = Append(jobs[j].failures, conn[c].id)
         /\ \/ jobs'[j].results = jobs[j].results
            \/ \E c \in Conns : /\ ProcessLayerResult(c, j)
                                /\ jobs'[j].results = jobs[j].results \cup {c[1]}
<1>0. jobs[j] \in JobEntries
  BY DEF TypeInv, TypeOK
<1>1. (\E w \in Workers : Worker(w) \/ TimeOutWorker(w)) => jobs'[j] = jobs[j]
  BY Frames DEF coordinatorVars
<1>2. ASSUME NEW c \in Conns, HandleWorkerDisconnect(c), jobs'[j] # jobs[j]
      PROVE  /\ conn[c].id \in Workers
             /\ workers[conn[c].id] # Null /\ j \in workers[conn[c].id].active
             /\ jobs'[j].failures = Append(jobs[j].failures, conn[c].id)
             /\ jobs'[j].results = jobs[j].results
  <2>. DEFINE id == conn[c].id
  <2>1. id \in Workers \cup {Null}
    BY DEF TypeInv, TypeOK, ConnStates
  <2>. HIDE DEF id
  <2>2. /\ id # Null /\ workers[id] # Null /\ j \in workers[id].active
        /\ jobs'[j] = [jobs[j] EXCEPT !.failures = Append(jobs[j].failures, id)]
    BY <1>2 DEF HandleWorkerDisconnect, id
  <2>3. /\ jobs'[j].failures = Append(jobs[j].failures, id)
        /\ jobs'[j].results = jobs[j].results
    BY <1>0, <2>2 DEF JobEntries
  <2>. QED  BY <2>1, <2>2, <2>3 DEF id
<1>3. ASSUME NEW c \in Conns, NEW k \in Jobs, ProcessLayerResult(c, k), jobs'[j] # jobs[j]
      PROVE  /\ k = j
             /\ jobs'[j].failures = jobs[j].failures
             /\ jobs'[j].results = jobs[j].results \cup {c[1]}
  <2>1. jobs' = [jobs EXCEPT ![k].results = jobs[k].results \cup {c[1]}]
    BY <1>3 DEF ProcessLayerResult
  <2>2. k = j
    BY <1>3, <2>1 DEF TypeInv, TypeOK
  <2>3. jobs'[j] = [jobs[j] EXCEPT !.results = jobs[j].results \cup {c[1]}]
    BY <2>1, <2>2 DEF TypeInv, TypeOK
  <2>. QED  BY <1>0, <2>2, <2>3 DEF JobEntries
<1>4. ASSUME NEW c \in Conns, Connection(c), ~HandleWorkerDisconnect(c),
             ~\E k \in Jobs : ProcessLayerResult(c, k)
      PROVE  jobs'[j] = jobs[j]
  BY <1>4 DEF Connection, LoseConnection, NodeFound, NodeNotFound, HandleWorkerError, coordinatorVars
<1>5. ASSUME NEW k \in Jobs, StartJob(k)
      PROVE  jobs'[j] = jobs[j]
  <2>1. CASE TrackJob(k)
    <3>1. k # j
      BY <2>1 DEF FreshInv, Fresh, TrackJob
    <3>. QED  BY <2>1, <3>1 DEF TypeInv, TypeOK, TrackJob
  <2>. QED
    BY <1>5, <2>1 DEF StartJob, SelectWorkersForJob, InsertFails, MarkRunning, MarkRunningFails,
                      ProcessInput
<1>6. ASSUME NEW k \in Jobs, HandleJobTimeout(k)
      PROVE  jobs'[j].failures = jobs[j].failures /\ jobs'[j].results = jobs[j].results
  <2>1. jobs'[j] = jobs[j] \/ jobs'[j] = [jobs[j] EXCEPT !.armed = FALSE]
    BY <1>6 DEF HandleJobTimeout, TypeInv, TypeOK
  <2>. QED  BY <1>0, <2>1 DEF JobEntries
<1>7. ASSUME NEW f \in flows, EndJob(f)
      PROVE  jobs'[j] = jobs[j]
  BY <1>7 DEF TypeInv, TypeOK, EndJob, WriteRow, WriteFails, CleanupJob
<1>. QED  BY <1>1, <1>2, <1>3, <1>4, <1>5, <1>6, <1>7 DEF Next

\* A job is untracked by cleanupJob alone.
LEMMA UntrackStep ==
  ASSUME TypeInv, Next, NEW j \in Jobs, jobs[j] # Null, jobs'[j] = Null
  PROVE  \E f \in flows : CleanupJob(f) /\ f.job = j
<1>1. ~\E w \in Workers : Worker(w) \/ TimeOutWorker(w)
  BY Frames DEF coordinatorVars
<1>2. ASSUME NEW c \in Conns, Connection(c) PROVE FALSE
  <2>0. jobs[j] \in JobEntries
    BY DEF TypeInv, TypeOK
  <2>1. CASE HandleWorkerDisconnect(c)
    <3>1. jobs'[j] = [jobs[j] EXCEPT !.failures = Append(jobs[j].failures, conn[c].id)]
      BY <2>1 DEF HandleWorkerDisconnect
    <3>2. conn[c].id \in Workers
      BY <2>1 DEF HandleWorkerDisconnect, TypeInv, TypeOK, ConnStates
    <3>. QED  BY <2>0, <3>1, <3>2, CountedType, NullAssumption
  <2>2. ASSUME NEW k \in Jobs, ProcessLayerResult(c, k) PROVE FALSE
    <3>1. jobs' = [jobs EXCEPT ![k].results = jobs[k].results \cup {c[1]}]
      BY <2>2 DEF ProcessLayerResult
    <3>2. jobs'[j] = [jobs[j] EXCEPT !.results = jobs[j].results \cup {c[1]}]
      BY <3>1 DEF TypeInv, TypeOK
    <3>3. jobs'[j] \in JobEntries
      BY <2>0, <3>2, PairType DEF JobEntries
    <3>. QED  BY <3>3, NullAssumption
  <2>. QED
    BY <1>2, <2>1, <2>2 DEF Connection, LoseConnection, NodeFound, NodeNotFound, HandleWorkerError,
                            coordinatorVars
<1>3. ASSUME NEW k \in Jobs, StartJob(k) PROVE FALSE
  <2>1. [failures |-> <<>>, results |-> {}, armed |-> TRUE] \in JobEntries
    BY DEF JobEntries
  <2>. QED
    BY <1>3, <2>1, NullAssumption DEF TypeInv, TypeOK, StartJob, SelectWorkersForJob, InsertFails,
           TrackJob, MarkRunning, MarkRunningFails, ProcessInput
<1>4. ASSUME NEW k \in Jobs, HandleJobTimeout(k) PROVE FALSE
  <2>1. jobs[k] \in JobEntries
    BY <1>4 DEF TypeInv, TypeOK, HandleJobTimeout
  <2>2. [jobs[k] EXCEPT !.armed = FALSE] \in JobEntries
    BY <2>1 DEF JobEntries
  <2>. QED  BY <1>4, <2>2, NullAssumption DEF TypeInv, TypeOK, HandleJobTimeout
<1>5. ASSUME NEW f \in flows, EndJob(f) PROVE CleanupJob(f) /\ f.job = j
  BY <1>5 DEF TypeInv, TypeOK, EndJob, WriteRow, WriteFails, CleanupJob
<1>. QED  BY <1>1, <1>2, <1>3, <1>4, <1>5 DEF Next

LEMMA ActiveNext == TypeInv /\ FreshInv /\ ActiveTracked /\ Next => ActiveTracked'
<1>. SUFFICES ASSUME TypeInv, TypeInv', FreshInv, ActiveTracked, Next,
                     NEW w \in Workers, workers'[w] # Null, NEW j \in workers'[w].active
              PROVE  jobs'[j] # Null /\ w \in Range(plan'[j]) \ Range(jobs'[j].failures)
  BY TypeNext DEF ActiveTracked
<1>1. j \in Jobs
  BY DEF TypeInv, TypeOK, Entries
<1>2. ASSUME workers[w] # Null, j \in workers[w].active, jobs'[j] # Null
      PROVE  w \in Range(plan'[j]) \ Range(jobs'[j].failures)
  <2>1. jobs[j] # Null /\ w \in Range(plan[j]) \ Range(jobs[j].failures) /\ ~Fresh(j)
    BY <1>1, <1>2 DEF ActiveTracked, FreshInv
  <2>2. plan'[j] = plan[j]
    BY <1>1, <2>1, StartedStays
  <2>3. CASE jobs'[j].failures = jobs[j].failures
    BY <2>1, <2>2, <2>3
  <2>4. ASSUME NEW c \in Conns, HandleWorkerDisconnect(c),
               jobs'[j].failures = Append(jobs[j].failures, conn[c].id)
        PROVE  w \notin Range(jobs'[j].failures)
    <3>1. w # conn[c].id
      BY <2>4 DEF HandleWorkerDisconnect
    <3>2. jobs[j].failures \in Seq(Workers)
      BY <1>1, <2>1 DEF TypeInv, TypeOK, JobEntries
    <3>. QED  BY <2>1, <2>4, <3>1, <3>2 DEF Range
  <2>. QED  BY <1>1, <1>2, <2>1, <2>2, <2>3, <2>4, JobStep
<1>3. CASE workers'[w] = workers[w]
  <2>1. jobs[j] # Null /\ w \in Range(plan[j])
    BY <1>3 DEF ActiveTracked
  <2>2. ASSUME NEW f \in flows, CleanupJob(f), f.job = j PROVE FALSE
    <3>1. workers'[w] = [workers[w] EXCEPT !.active = @ \ {j}]
      BY <1>3, <2>1, <2>2 DEF CleanupJob
    <3>2. workers[w] \in Entries
      BY <1>3 DEF TypeInv, TypeOK
    <3>. QED  BY <3>1, <3>2 DEF Entries
  <2>3. jobs'[j] # Null
    BY <1>1, <2>1, <2>2, UntrackStep
  <2>. QED  BY <1>2, <1>3, <2>3
<1>4. ASSUME NEW k \in Jobs, workers[w] # Null, TrackJob(k), w \in Reached(k),
             workers'[w] = [workers[w] EXCEPT !.active = @ \cup {k}]
      PROVE  jobs'[j] # Null /\ w \in Range(plan'[j]) \ Range(jobs'[j].failures)
  <2>1. /\ jobs' = [jobs EXCEPT ![k] = [failures |-> <<>>, results |-> {}, armed |-> TRUE]]
        /\ plan' = plan
    BY <1>4 DEF TrackJob
  <2>2. CASE j = k
    <3>1. jobs'[j] = [failures |-> <<>>, results |-> {}, armed |-> TRUE]
      BY <2>1, <2>2 DEF TypeInv, TypeOK
    <3>2. jobs'[j] \in JobEntries /\ Range(jobs'[j].failures) = {}
      BY <3>1 DEF JobEntries, Range
    <3>3. w \in Range(plan[k])
      BY <1>4 DEF Reached, Range, TypeInv, TypeOK
    <3>. QED  BY <2>1, <2>2, <3>2, <3>3, NullAssumption
  <2>3. CASE j # k
    <3>1. j \in workers[w].active
      BY <1>4, <2>3 DEF TypeInv, TypeOK, Entries
    <3>2. jobs'[j] # Null
      BY <1>1, <1>4, <2>1, <2>3, <3>1 DEF ActiveTracked, TypeInv, TypeOK
    <3>. QED  BY <1>2, <1>4, <3>1, <3>2
  <2>. QED  BY <2>2, <2>3
<1>5. ASSUME NEW f \in flows, workers[w] # Null, CleanupJob(f),
             workers'[w] = [workers[w] EXCEPT !.active = @ \ {f.job}]
      PROVE  jobs'[j] # Null /\ w \in Range(plan'[j]) \ Range(jobs'[j].failures)
  <2>1. j \in workers[w].active /\ j # f.job
    BY <1>5 DEF TypeInv, TypeOK, Entries
  <2>2. jobs'[j] = jobs[j]
    BY <1>1, <1>5, <2>1 DEF CleanupJob, TypeInv, TypeOK
  <2>. QED  BY <1>2, <1>5, <2>1, <2>2 DEF ActiveTracked
<1>6. ASSUME NEW c \in Conns, workers'[w] = [conn |-> c, active |-> {}] PROVE FALSE
  BY <1>6
<1>. QED  BY <1>3, <1>4, <1>5, <1>6, EntryStep

LEMMA FailureNext == TypeInv /\ FreshInv /\ ActiveTracked /\ FailureInv /\ Next => FailureInv'
<1>. SUFFICES ASSUME TypeInv, TypeInv', FreshInv, ActiveTracked, FailureInv, Next
              PROVE  FailureInv'
  BY TypeNext
<1>0. ASSUME NEW j \in Jobs, jobs'[j] # Null
      PROVE  jobs'[j].failures \in Seq(Workers) /\ (jobs[j] # Null => jobs[j].failures \in Seq(Workers))
  BY <1>0 DEF TypeInv, TypeOK, JobEntries
<1>1. ASSUME NEW j \in Jobs, jobs'[j] # Null
      PROVE  IsInjective(jobs'[j].failures)
  <2>1. CASE jobs[j] = Null
    <3>1. jobs'[j].failures = <<>>
      BY <1>1, <2>1, TrackStep
    <3>. QED  BY <3>1 DEF IsInjective
  <2>2. CASE jobs[j] # Null
    <3>1. IsInjective(jobs[j].failures)
      BY <2>2 DEF FailureInv
    <3>2. ASSUME NEW w \in Workers, workers[w] # Null, j \in workers[w].active,
                 jobs'[j].failures = Append(jobs[j].failures, w)
          PROVE  IsInjective(jobs'[j].failures)
      <4>1. w \notin Range(jobs[j].failures)
        BY <3>2 DEF ActiveTracked
      <4>. QED  BY <1>0, <1>1, <2>2, <3>1, <3>2, <4>1 DEF IsInjective, Range
    <3>. QED  BY <1>1, <2>2, <3>1, <3>2, JobStep
  <2>. QED  BY <2>1, <2>2
<1>2. ASSUME NEW f \in flows', f.cause \in {"left", "error"}, jobs'[f.job] # Null
      PROVE  TooManyFailures(f.job, jobs[f.job].failures)' 
  <2>0. f.job \in Jobs
    BY DEF TypeInv, TypeOK, FlowStates
  <2>1. ASSUME NEW g \in flows, f.job = g.job, f.cause = g.cause
        PROVE  TooManyFailures(f.job, jobs[f.job].failures)'
    <3>1. ~Fresh(f.job) /\ plan'[f.job] = plan[f.job]
      BY <2>0, <2>1, StartedStays DEF FreshInv
    <3>2. jobs[f.job] # Null
      <4>1. ~TrackJob(f.job)
        BY <3>1 DEF TrackJob, Fresh
      <4>. QED  BY <1>2, <2>0, <4>1, TrackStep
    <3>3. Len(jobs[f.job].failures) >= (Len(plan[f.job]) + 1) \div 2
      BY <1>2, <2>1, <3>2 DEF FailureInv, TooManyFailures
    <3>4. Len(jobs'[f.job].failures) >= Len(jobs[f.job].failures)
      BY <1>0, <1>2, <2>0, <3>2, JobStep
    <3>5. Len(jobs[f.job].failures) \in Nat /\ Len(jobs'[f.job].failures) \in Nat
      BY <1>0, <1>2, <2>0, <3>2
    <3>6. (Len(plan[f.job]) + 1) \div 2 \in Int
      <4>1. Len(plan[f.job]) \in Nat
        BY <2>0 DEF TypeInv, TypeOK
      <4>. QED  BY <4>1
    <3>7. ASSUME NEW m \in Nat, NEW n \in Nat, NEW t \in Int, m >= t, n >= m PROVE n >= t
      BY <3>7
    <3>8. Len(jobs'[f.job].failures) >= (Len(plan[f.job]) + 1) \div 2
      BY <3>3, <3>4, <3>5, <3>6, <3>7
    <3>. QED  BY <3>1, <3>8 DEF TooManyFailures
  <2>2. CASE \A g \in flows : f.job # g.job \/ f.cause # g.cause
    <3>1. f \notin flows
      BY <2>2
    <3>2. ASSUME NEW c \in Conns, HandleWorkerDisconnect(c)
          PROVE  TooManyFailures(f.job, jobs[f.job].failures)'
      <4>. DEFINE id == conn[c].id
                  lost == IF id = Null \/ workers[id] = Null THEN {} ELSE workers[id].active \cap Tracked
                  late == {k \in lost : TooManyFailures(k, Append(jobs[k].failures, id))}
      <4>0. /\ flows' = flows \cup {Ending("left", j, id, {}) : j \in late}
            /\ jobs' = [j \in Jobs |-> IF j \in lost
                                       THEN [jobs[j] EXCEPT !.failures = Append(jobs[j].failures, id)]
                                       ELSE jobs[j]]
            /\ plan' = plan
        BY <3>2 DEF HandleWorkerDisconnect
      <4>1. /\ jobs'[f.job] = [jobs[f.job] EXCEPT !.failures = Append(jobs[f.job].failures, id)]
            /\ TooManyFailures(f.job, Append(jobs[f.job].failures, id))
            /\ jobs[f.job] # Null
        <5>1. f.job \in late
          <6>. HIDE DEF late
          <6>. QED  BY <3>1, <4>0 DEF Ending
        <5>. QED  BY <2>0, <4>0, <5>1 DEF Tracked
      <4>2. jobs'[f.job].failures = Append(jobs[f.job].failures, conn[c].id)
        BY <2>0, <4>1 DEF TypeInv, TypeOK, JobEntries
      <4>. QED  BY <4>0, <4>1, <4>2 DEF TooManyFailures
    <3>3. ASSUME NEW c \in Conns, NEW k \in Jobs, HandleWorkerError(c, k)
          PROVE  TooManyFailures(f.job, jobs[f.job].failures)'
      <4>1. /\ UNCHANGED <<jobs, plan>>
            /\ flows' = flows \cup IF jobs[k] # Null /\ TooManyFailures(k, jobs[k].failures)
                                   THEN {Ending("error", k, c[1], {})} ELSE {}
        BY <3>3 DEF HandleWorkerError
      <4>2. f.job = k /\ TooManyFailures(k, jobs[k].failures)
        BY <3>1, <4>1 DEF Ending
      <4>. QED  BY <4>1, <4>2 DEF TooManyFailures
    <3>4. ASSUME NEW c \in Conns, NEW k \in Jobs, ProcessLayerResult(c, k)
          PROVE  FALSE
      BY <1>2, <3>1, <3>4 DEF ProcessLayerResult, Ending
    <3>5. ASSUME NEW k \in Jobs, HandleJobTimeout(k) PROVE FALSE
      BY <1>2, <3>1, <3>5 DEF HandleJobTimeout, Ending
    <3>6. jobs[f.job] # Null /\ f.at = "write"
      BY <2>2, <3>1, FlowStep
    <3>7. ASSUME NEW g \in flows, EndJob(g) PROVE FALSE
      <4>1. g \in FlowStates
        BY DEF TypeInv, TypeOK
      <4>2. ASSUME NEW at \in {"fail", "clean"}, Goes(g, at) PROVE FALSE
        BY <2>2, <3>1, <4>1, <4>2 DEF Goes, FlowStates
      <4>. QED  BY <3>1, <3>7, <4>2 DEF EndJob, WriteRow, WriteFails, CleanupJob
    <3>. QED
      BY <3>1, <3>2, <3>3, <3>4, <3>5, <3>7, Frames
         DEF Next, coordinatorVars, Connection, LoseConnection, NodeFound, NodeNotFound
  <2>. QED  BY <2>1, <2>2
<1>. QED  BY <1>1, <1>2 DEF FailureInv

LEMMA OwnNext == TypeInv /\ OwnInv /\ Next => OwnInv'
<1>. SUFFICES ASSUME TypeInv, TypeInv', OwnInv, Next, NEW w \in Workers
              PROVE  /\ current'[w] # Null => current'[w][1] = w
                     /\ workers'[w] # Null => workers'[w].conn[1] = w
  BY TypeNext DEF OwnInv
<1>1. current'[w] # Null => current'[w][1] = w
  <2>1. ASSUME NEW v \in Workers, Connect(v) PROVE current'[w] # Null => current'[w][1] = w
    BY <2>1 DEF TypeInv, TypeOK, OwnInv, Connect
  <2>2. ASSUME NEW v \in Workers, Worker(v), ~Connect(v) PROVE current' = current
    BY <2>2 DEF Worker, RestartWorker, InitializeModel, ModelLoaded, InputTooEarly, BeginProcessing,
                SendResult, workerVars
  <2>3. (~\E v \in Workers : Worker(v)) => current' = current
    BY Frames DEF Next, workerVars
  <2>. QED  BY <2>1, <2>2, <2>3 DEF OwnInv
<1>2. ASSUME workers'[w] # Null, workers'[w] # workers[w] PROVE workers'[w].conn[1] = w
  <2>1. workers[w] # Null => workers[w] \in Entries /\ workers[w].conn[1] = w
    BY DEF OwnInv, TypeInv, TypeOK
  <2>2. ASSUME workers[w] # Null, NEW x, workers'[w] = [workers[w] EXCEPT !.active = x]
        PROVE  workers'[w].conn[1] = w
    BY <2>1, <2>2 DEF Entries
  <2>3. ASSUME NEW c \in Conns, c[1] = w, workers'[w] = [conn |-> c, active |-> {}]
        PROVE  workers'[w].conn[1] = w
    BY <2>3
  <2>. QED  BY <1>2, <2>2, <2>3, EntryStep
<1>. QED  BY <1>1, <1>2 DEF OwnInv

LEMMA PlanNext == TypeInv /\ PlanInv /\ Next => PlanInv'
<1>. SUFFICES ASSUME TypeInv, PlanInv, Next, NEW j \in Jobs, stage'[j] # "idle"
              PROVE  plan'[j] # <<>>
  BY DEF PlanInv
<1>1. ASSUME NEW k \in Jobs, SelectWorkersForJob(k) PROVE plan'[j] # <<>>
  <2>1. PICK s \in Selections : plan' = [plan EXCEPT ![k] = s]
    BY <1>1 DEF SelectWorkersForJob
  <2>2. PICK n \in 1..NumWorkers : DOMAIN s = 1..n
    BY DEF Selections
  <2>3. s # <<>>
    BY <2>2, BoundsAssumption
  <2>. QED  BY <1>1, <2>1, <2>3 DEF PlanInv, TypeInv, TypeOK, SelectWorkersForJob
<1>2. ASSUME NEW k \in Jobs, StartJob(k), ~SelectWorkersForJob(k) PROVE plan'[j] # <<>>
  BY <1>2 DEF PlanInv, TypeInv, TypeOK, StartJob, InsertFails, TrackJob, MarkRunning,
              MarkRunningFails, ProcessInput
<1>3. (~\E k \in Jobs : StartJob(k)) => UNCHANGED <<stage, plan>>
  BY Frames DEF Next, coordinatorVars
<1>. QED  BY <1>1, <1>2, <1>3 DEF PlanInv

\* Messages in flight

LEMMA SeqRange ==
  ASSUME NEW S, NEW s \in Seq(S)
  PROVE  /\ Range(s) \subseteq S
         /\ \A m \in S : Range(Append(s, m)) \subseteq Range(s) \cup {m}
         /\ s # <<>> => Range(Tail(s)) \subseteq Range(s) /\ Head(s) \in Range(s)
BY DEF Range

LEMMA Queues ==
  ASSUME TypeOK, NEW c \in Conns
  PROVE  /\ conn[c] \in ConnStates
         /\ conn[c].up \in Seq(Messages) /\ conn[c].down \in Seq(Messages)
         /\ Range(conn[c].up) \subseteq Messages /\ Range(conn[c].down) \subseteq Messages
<1>1. conn[c] \in ConnStates /\ conn[c].up \in Seq(Messages) /\ conn[c].down \in Seq(Messages)
  BY DEF TypeOK, ConnStates
<1>. QED  BY <1>1, SeqRange

\* What each way of sending and receiving does to the queues.
LEMMA SendQueues ==
  ASSUME TypeOK, NEW m \in Messages, NEW ws, NEW c \in Conns
  PROVE  /\ SendToWorkers(ws, m)[c].up = conn[c].up
         /\ \/ SendToWorkers(ws, m)[c].down = conn[c].down
            \/ /\ Range(SendToWorkers(ws, m)[c].down) \subseteq Range(conn[c].down) \cup {m}
               /\ \E w \in ws : workers[w] # Null /\ workers[w].conn = c
<1>1. /\ conn[c] \in ConnStates
      /\ Range(Append(conn[c].down, m)) \subseteq Range(conn[c].down) \cup {m}
  BY Queues, SeqRange
<1>. DEFINE k == [conn[c] EXCEPT !.down = Append(@, m)]
<1>2. k.up = conn[c].up /\ k.down = Append(conn[c].down, m)
  BY <1>1 DEF ConnStates
<1>3. \/ SendToWorkers(ws, m)[c] = conn[c]
      \/ /\ SendToWorkers(ws, m)[c] = k
         /\ \E w \in ws : workers[w] # Null /\ workers[w].conn = c
  BY DEF SendToWorkers
<1>. HIDE DEF k
<1>. QED  BY <1>1, <1>2, <1>3

LEMMA ReplyQueues ==
  ASSUME NEW cs \in [Conns -> ConnStates], NEW m \in Messages, NEW w \in Workers, current[w] \in Conns,
         NEW c \in Conns
  PROVE  /\ SendToCoordinator(cs, w, m)[c].down = cs[c].down
         /\ \/ SendToCoordinator(cs, w, m)[c].up = cs[c].up
            \/ /\ Range(SendToCoordinator(cs, w, m)[c].up) \subseteq Range(cs[c].up) \cup {m}
               /\ c = current[w]
<1>1. cs[c] \in ConnStates /\ cs[c].up \in Seq(Messages)
  BY DEF ConnStates
<1>2. Range(Append(cs[c].up, m)) \subseteq Range(cs[c].up) \cup {m}
  BY <1>1, SeqRange
<1>. DEFINE k == [cs[c] EXCEPT !.up = Append(@, m)]
<1>3. k.down = cs[c].down /\ k.up = Append(cs[c].up, m)
  BY <1>1 DEF ConnStates
<1>4. SendToCoordinator(cs, w, m)[c] = cs[c] \/ (SendToCoordinator(cs, w, m)[c] = k /\ c = current[w])
  BY DEF SendToCoordinator
<1>. HIDE DEF k
<1>. QED  BY <1>2, <1>3, <1>4

LEMMA ReceivedQueues ==
  ASSUME TypeOK, NEW w \in Workers, NEW j \in Jobs, NEW t, Receives(w, t, j), NEW c \in Conns
  PROVE  /\ Received(w)[c].up = conn[c].up
         /\ Range(Received(w)[c].down) \subseteq Range(conn[c].down)
         /\ \E m \in Range(conn[current[w]].down) : m.job = j
<1>1. current[w] \in Conns /\ conn[current[w]].down # <<>> /\ Head(conn[current[w]].down) = Msg(t, j)
  BY DEF TypeOK, Receives
<1>2. Head(conn[current[w]].down) \in Range(conn[current[w]].down)
  BY <1>1, Queues, SeqRange
<1>3. conn[c] \in ConnStates
  BY Queues
<1>4. CASE c = current[w]
  <2>. DEFINE k == [conn[c] EXCEPT !.down = Tail(@)]
  <2>1. k.up = conn[c].up /\ k.down = Tail(conn[c].down)
    BY <1>3 DEF ConnStates
  <2>2. Received(w)[c] = k
    BY <1>4 DEF Received, TypeOK
  <2>3. Range(Tail(conn[c].down)) \subseteq Range(conn[c].down)
    BY <1>1, <1>4, Queues, SeqRange
  <2>. HIDE DEF k
  <2>. QED  BY <1>1, <1>2, <2>1, <2>2, <2>3 DEF Msg
<1>5. CASE c # current[w]
  BY <1>1, <1>2, <1>5 DEF Received, TypeOK, Msg
<1>. QED  BY <1>4, <1>5

LEMMA TakenQueues ==
  ASSUME TypeOK, NEW d \in Conns, NEW j \in Jobs, NEW t, Arrives(d, t, j), NEW c \in Conns
  PROVE  /\ Range(Taken(d)[c].up) \subseteq Range(conn[c].up)
         /\ Taken(d)[c].down = conn[c].down
<1>1. conn[c] \in ConnStates
  BY Queues
<1>2. CASE c = d
  <2>. DEFINE k == [conn[c] EXCEPT !.up = Tail(@)]
  <2>1. k.down = conn[c].down /\ k.up = Tail(conn[c].up)
    BY <1>1 DEF ConnStates
  <2>2. Taken(d)[c] = k
    BY <1>2 DEF Taken, TypeOK
  <2>3. Range(Tail(conn[c].up)) \subseteq Range(conn[c].up)
    BY <1>2, Queues, SeqRange DEF Arrives
  <2>. HIDE DEF k
  <2>. QED  BY <2>1, <2>2, <2>3
<1>3. CASE c # d
  BY <1>3 DEF Taken, TypeOK
<1>. QED  BY <1>2, <1>3

\* A message that was not on its way to a worker before has been sent by
\* startJob or with the input; one from a worker is a result or an error.
LEMMA WorkerQueues ==
  ASSUME TypeInv, NEW w \in Workers, Worker(w), NEW c \in Conns
  PROVE  /\ Range(conn'[c].down) \subseteq Range(conn[c].down)
         /\ \A m \in Range(conn'[c].up) \ Range(conn[c].up) : m.type = "result" =>
                c = current[w] /\ SendResult(w, m.job)
<1>. USE DEF TypeInv
<1>0. conn[c] \in ConnStates /\ Range(<<>>) = {}
  BY Queues DEF Range
<1>1. CASE Connect(w)
  <2>. DEFINE d == <<w, IF current[w] = Null THEN 1 ELSE current[w][2] + 1>>
              k == [ws |-> "open", cs |-> "open", id |-> Null,
                    asking |-> TRUE, up |-> <<>>, down |-> <<>>]
  <2>1. conn' = [conn EXCEPT ![d] = k]
    BY <1>1 DEF Connect
  <2>2. conn'[c] = conn[c] \/ conn'[c] = k
    BY <2>1 DEF TypeOK
  <2>. QED  BY <1>0, <2>2
<1>2. CASE RestartWorker(w)
  <2>1. conn'[c] = conn[c] \/ conn'[c] = [conn[c] EXCEPT !.ws = "closed", !.down = <<>>]
    BY <1>2 DEF TypeOK, RestartWorker
  <2>2. /\ conn'[c].up = conn[c].up
        /\ conn'[c].down = conn[c].down \/ conn'[c].down = <<>>
    BY <1>0, <2>1 DEF ConnStates
  <2>. QED  BY <1>0, <2>2
<1>3. ASSUME NEW j \in Jobs, InitializeModel(w, j) \/ BeginProcessing(w, j)
      PROVE  conn'[c].up = conn[c].up /\ Range(conn'[c].down) \subseteq Range(conn[c].down)
  BY <1>3, ReceivedQueues DEF InitializeModel, BeginProcessing
<1>4. ASSUME NEW j \in Jobs, InputTooEarly(w, j)
      PROVE  /\ Range(conn'[c].down) \subseteq Range(conn[c].down)
             /\ \A m \in Range(conn'[c].up) \ Range(conn[c].up) : m.type = "error"
  <2>1. Receives(w, "input", j) /\ conn' = SendToCoordinator(Received(w), w, Msg("error", j))
    BY <1>4 DEF InputTooEarly
  <2>2. Received(w) \in [Conns -> ConnStates] /\ current[w] \in Conns /\ Msg("error", j) \in Messages
    BY <2>1, ReceivedType, MsgType
  <2>3. /\ conn'[c].down = Received(w)[c].down
        /\ \/ conn'[c].up = Received(w)[c].up
           \/ Range(conn'[c].up) \subseteq Range(Received(w)[c].up) \cup {Msg("error", j)}
    BY <2>1, <2>2, ReplyQueues, Z3T(40)
  <2>. QED  BY <2>1, <2>3, ReceivedQueues DEF Msg
<1>5. ASSUME NEW j \in Jobs, SendResult(w, j)
      PROVE  /\ Range(conn'[c].down) \subseteq Range(conn[c].down)
             /\ \A m \in Range(conn'[c].up) \ Range(conn[c].up) : m.job = j /\ c = current[w]
  <2>1. current[w] \in Conns /\ Msg("result", j) \in Messages
    BY <1>5, MsgType DEF TypeOK, ConnectedInv, SendResult
  <2>2. conn \in [Conns -> ConnStates] /\ conn' = SendToCoordinator(conn, w, Msg("result", j))
    BY <1>5 DEF TypeOK, SendResult
  <2>3. /\ conn'[c].down = conn[c].down
        /\ \/ conn'[c].up = conn[c].up
           \/ Range(conn'[c].up) \subseteq Range(conn[c].up) \cup {Msg("result", j)} /\ c = current[w]
    BY <2>1, <2>2, ReplyQueues, Z3
  <2>. QED  BY <2>3 DEF Msg
<1>6. ASSUME NEW j \in Jobs, ModelLoaded(w, j) PROVE conn' = conn
  BY <1>6 DEF ModelLoaded
<1>. QED  BY <1>1, <1>2, <1>3, <1>4, <1>5, <1>6, Queues DEF Worker, Messages

LEMMA CoordinatorQueues ==
  ASSUME TypeInv, Next, ~\E w \in Workers : Worker(w), NEW c \in Conns
  PROVE  /\ Range(conn'[c].up) \subseteq Range(conn[c].up)
         /\ \/ Range(conn'[c].down) \subseteq Range(conn[c].down)
            \/ \E j \in Jobs :
                /\ \A m \in Range(conn'[c].down) \ Range(conn[c].down) : m.job = j
                /\ \E w : /\ (TrackJob(j) /\ w \in Reached(j)) \/ (ProcessInput(j) /\ w \in InputTo(j))
                          /\ workers[w] # Null /\ workers[w].conn = c
<1>. USE DEF TypeInv
<1>0. conn[c] \in ConnStates /\ Range(<<>>) = {}
  BY Queues DEF Range
<1>1. ASSUME NEW d \in Conns, Connection(d)
      PROVE  Range(conn'[c].up) \subseteq Range(conn[c].up) /\ Range(conn'[c].down) \subseteq Range(conn[c].down)
  <2>1. CASE LoseConnection(d)
    <3>1. conn'[c] = conn[c] \/ conn'[c] = [conn[c] EXCEPT !.ws = "closed", !.down = <<>>]
      BY <2>1 DEF TypeOK, LoseConnection
    <3>2. /\ conn'[c].up = conn[c].up \/ conn'[c].up = <<>>
          /\ conn'[c].down = conn[c].down \/ conn'[c].down = <<>>
      BY <1>0, <3>1 DEF ConnStates
    <3>. QED  BY <1>0, <3>2
  <2>2. CASE NodeFound(d)
    <3>1. conn'[c] = conn[c] \/ conn'[c] = [conn[c] EXCEPT !.asking = FALSE, !.id = d[1]]
      BY <2>2 DEF TypeOK, NodeFound
    <3>2. /\ conn'[c].up = conn[c].up \/ conn'[c].up = <<>>
          /\ conn'[c].down = conn[c].down \/ conn'[c].down = <<>>
      BY <1>0, <3>1 DEF ConnStates
    <3>. QED  BY <1>0, <3>2
  <2>3. CASE NodeNotFound(d)
    <3>1. conn'[c] = conn[c] \/ conn'[c] = [conn[c] EXCEPT !.asking = FALSE]
      BY <2>3 DEF TypeOK, NodeNotFound
    <3>2. /\ conn'[c].up = conn[c].up \/ conn'[c].up = <<>>
          /\ conn'[c].down = conn[c].down \/ conn'[c].down = <<>>
      BY <1>0, <3>1 DEF ConnStates
    <3>. QED  BY <1>0, <3>2
  <2>4. CASE HandleWorkerDisconnect(d)
    <3>1. conn'[c] = conn[c] \/ conn'[c] = [conn[c] EXCEPT !.cs = "closed", !.up = <<>>]
      BY <2>4 DEF TypeOK, HandleWorkerDisconnect
    <3>2. /\ conn'[c].up = conn[c].up \/ conn'[c].up = <<>>
          /\ conn'[c].down = conn[c].down \/ conn'[c].down = <<>>
      BY <1>0, <3>1 DEF ConnStates
    <3>. QED  BY <1>0, <3>2
  <2>5. ASSUME NEW j \in Jobs, ProcessLayerResult(d, j) \/ HandleWorkerError(d, j)
        PROVE  Range(conn'[c].up) \subseteq Range(conn[c].up) /\ Range(conn'[c].down) \subseteq Range(conn[c].down)
    <3>1. conn' = Taken(d) /\ \E t : Arrives(d, t, j)
      BY <2>5 DEF ProcessLayerResult, HandleWorkerError
    <3>. QED  BY <3>1, TakenQueues
  <2>. QED  BY <1>1, <2>1, <2>2, <2>3, <2>4, <2>5 DEF Connection
<1>2. ASSUME NEW w \in Workers, TimeOutWorker(w)
      PROVE  conn'[c].up = conn[c].up /\ conn'[c].down = conn[c].down
  <2>1. conn'[c] = conn[c] \/ \E s : conn'[c] = [conn[c] EXCEPT !.cs = s]
    BY <1>2 DEF TypeOK, TimeOutWorker
  <2>. QED  BY <1>0, <2>1 DEF ConnStates
<1>3. ASSUME NEW j \in Jobs, StartJob(j), ~TrackJob(j), ~ProcessInput(j) PROVE conn' = conn
  BY <1>3 DEF StartJob, SelectWorkersForJob, InsertFails, MarkRunning, MarkRunningFails
<1>4. ASSUME NEW j \in Jobs, TrackJob(j)
      PROVE  /\ conn'[c].up = conn[c].up
             /\ \/ conn'[c].down = conn[c].down
                \/ /\ \A m \in Range(conn'[c].down) \ Range(conn[c].down) : m.job = j
                   /\ \E w \in Reached(j) : workers[w] # Null /\ workers[w].conn = c
  <2>. DEFINE ws == IF Supported(j) THEN Reached(j) ELSE {}
  <2>1. conn' = SendToWorkers(ws, Msg("init", j))
    BY <1>4 DEF TrackJob
  <2>2. ws \subseteq Reached(j) /\ Msg("init", j) \in Messages
    BY MsgType
  <2>. HIDE DEF ws
  <2>. QED  BY <2>1, <2>2, SendQueues DEF Msg
<1>5. ASSUME NEW j \in Jobs, ProcessInput(j)
      PROVE  /\ conn'[c].up = conn[c].up
             /\ \/ conn'[c].down = conn[c].down
                \/ /\ \A m \in Range(conn'[c].down) \ Range(conn[c].down) : m.job = j
                   /\ \E w \in InputTo(j) : workers[w] # Null /\ workers[w].conn = c
  <2>1. conn' = conn \/ conn' = SendToWorkers(InputTo(j), Msg("input", j))
    BY <1>5 DEF ProcessInput
  <2>2. Msg("input", j) \in Messages
    BY MsgType
  <2>. QED  BY <2>1, <2>2, SendQueues DEF Msg
<1>6. ASSUME \/ \E j \in Jobs : HandleJobTimeout(j)
             \/ \E f \in flows : EndJob(f)
      PROVE  conn' = conn
  BY <1>6, Frames
<1>7. (\E d \in Conns : Connection(d)) \/ (\E w \in Workers : TimeOutWorker(w))
        => Range(conn'[c].up) \subseteq Range(conn[c].up) /\ Range(conn'[c].down) \subseteq Range(conn[c].down)
  BY <1>1, <1>2
<1>8. ASSUME NEW j \in Jobs, StartJob(j)
      PROVE  /\ Range(conn'[c].up) \subseteq Range(conn[c].up)
             /\ \/ Range(conn'[c].down) \subseteq Range(conn[c].down)
                \/ /\ \A m \in Range(conn'[c].down) \ Range(conn[c].down) : m.job = j
                   /\ \E w : /\ (TrackJob(j) /\ w \in Reached(j)) \/ (ProcessInput(j) /\ w \in InputTo(j))
                             /\ workers[w] # Null /\ workers[w].conn = c
  <2>1. CASE TrackJob(j)
    BY <1>4, <2>1
  <2>2. CASE ProcessInput(j)
    BY <1>5, <2>2
  <2>. QED  BY <1>3, <1>8, <2>1, <2>2
<1>. QED  BY <1>6, <1>7, <1>8 DEF Next

LEMMA PartStays ==
  ASSUME TypeInv, Next, NEW w, NEW j \in Jobs, PartOf(w, j)
  PROVE  PartOf(w, j)'
BY StartedStays DEF PartOf

LEMMA PartNext ==
  TypeInv /\ OwnInv /\ PlanInv /\ PartInv /\ Next => PartInv'
<1>. SUFFICES ASSUME TypeInv, TypeInv', OwnInv, PlanInv, PartInv, Next PROVE PartInv'
  BY TypeNext
<1>1. ASSUME NEW c \in Conns, NEW m \in Range(conn'[c].down) PROVE PartOf(c[1], m.job)'
  <2>1. CASE m \in Range(conn[c].down)
    <3>1. PartOf(c[1], m.job) /\ m.job \in Jobs
      BY <2>1, Queues DEF PartInv, TypeInv, Messages
    <3>. QED  BY <3>1, PartStays
  <2>2. ASSUME NEW j \in Jobs, m.job = j, NEW w, workers[w] # Null, workers[w].conn = c,
               TrackJob(j) /\ w \in Reached(j)
        PROVE  PartOf(c[1], j)'
    <3>1. w \in Range(plan[j]) /\ w \in Workers
      BY <2>2 DEF Reached, Range, TypeInv, TypeOK
    <3>2. c[1] = w
      BY <2>2, <3>1 DEF OwnInv
    <3>3. ~Fresh(j)' /\ plan' = plan
      BY <2>2 DEF TrackJob, Fresh, TypeInv, TypeOK
    <3>. QED  BY <3>1, <3>2, <3>3 DEF PartOf
  <2>3. ASSUME NEW j \in Jobs, m.job = j, NEW w, workers[w] # Null, workers[w].conn = c,
               ProcessInput(j) /\ w \in InputTo(j)
        PROVE  PartOf(c[1], j)'
    <3>1. stage[j] = "started" /\ plan[j] # <<>> /\ plan[j] \in Seq(Workers)
      BY <2>3 DEF ProcessInput, PlanInv, TypeInv, TypeOK
    <3>2. Head(plan[j]) \in Range(plan[j]) /\ Range(plan[j]) \subseteq Workers
      BY <3>1, SeqRange
    <3>3. w \in Range(plan[j]) /\ w \in Workers
      BY <2>3, <3>2 DEF InputTo
    <3>4. c[1] = w
      BY <2>3, <3>3 DEF OwnInv
    <3>. QED  BY <3>1, <3>3, <3>4, PartStays DEF PartOf, Fresh
  <2>4. CASE m \notin Range(conn[c].down)
    <3>1. ~\E w \in Workers : Worker(w)
      BY <2>4, WorkerQueues
    <3>. QED  BY <2>2, <2>3, <2>4, <3>1, CoordinatorQueues
  <2>. QED  BY <2>1, <2>4
<1>2. ASSUME NEW w \in Workers, NEW j \in Jobs, model'[w][j] # "none" \/ <<w, j>> \in computed'
      PROVE  PartOf(w, j)'
  <2>1. CASE model[w][j] # "none" \/ <<w, j>> \in computed
    BY <2>1, PartStays DEF PartInv
  <2>2. CASE ~(model[w][j] # "none" \/ <<w, j>> \in computed)
    <3>1. \E v \in Workers : Worker(v)
      BY <1>2, <2>2, Frames DEF Next, workerVars
    <3>2. PICK v \in Workers : Worker(v)
      BY <3>1
    <3>3. ~(Connect(v) \/ RestartWorker(v) \/ \E k \in Jobs : ModelLoaded(v, k) \/ InputTooEarly(v, k))
      BY <1>2, <2>2, SMTT(40) DEF Connect, RestartWorker, ModelLoaded, InputTooEarly, workerVars, TypeInv, TypeOK
    <3>4. ~\E k \in Jobs : BeginProcessing(v, k) \/ SendResult(v, k)
      <4>1. ASSUME NEW k \in Jobs, BeginProcessing(v, k) PROVE FALSE
        <5>1. model[v][k] # "none" /\ model' = [model EXCEPT ![v][k] = "processing"] /\ computed' = computed
          BY <4>1 DEF BeginProcessing
        <5>. QED  BY <1>2, <2>2, <5>1 DEF TypeInv, TypeOK
      <4>2. ASSUME NEW k \in Jobs, SendResult(v, k) PROVE FALSE
        <5>1. model[v][k] # "none" /\ model' = [model EXCEPT ![v][k] = "ready"]
          BY <4>2 DEF SendResult
        <5>2. computed' = computed \cup {<<v, k>>}
          BY <4>2 DEF SendResult
        <5>3. CASE model'[w][j] # "none"
          BY <2>2, <5>1, <5>3 DEF TypeInv, TypeOK
        <5>4. CASE <<w, j>> \in computed'
          BY <2>2, <5>1, <5>2, <5>4
        <5>. QED  BY <1>2, <5>3, <5>4
      <4>. QED  BY <4>1, <4>2
    <3>5. PICK k \in Jobs : InitializeModel(v, k)
      BY <3>2, <3>3, <3>4 DEF Worker
    <3>6. v = w /\ k = j /\ Receives(w, "init", j)
      BY <1>2, <2>2, <3>5 DEF InitializeModel, TypeInv, TypeOK
    <3>7. current[w] \in Conns /\ current[w] # Null
      BY <3>6 DEF Receives, TypeInv, TypeOK
    <3>8. \E m \in Range(conn[current[w]].down) : m.job = j
      BY <3>6, <3>7, ReceivedQueues DEF TypeInv
    <3>9. PartOf(current[w][1], j)
      BY <3>7, <3>8 DEF PartInv
    <3>10. PartOf(w, j)
      BY <3>7, <3>9 DEF OwnInv
    <3>. QED  BY <3>10, PartStays
  <2>. QED  BY <2>1, <2>2
<1>. QED  BY <1>1, <1>2 DEF PartInv

LEMMA ResultNext ==
  TypeInv /\ FreshInv /\ OwnInv /\ ResultInv /\ Next => ResultInv'
<1>. SUFFICES ASSUME TypeInv, FreshInv, OwnInv, ResultInv, Next PROVE ResultInv'
  OBVIOUS
<1>0. computed \subseteq computed'
  BY StartedStays
<1>1. ASSUME NEW c \in Conns, NEW m \in Range(conn'[c].up), m.type = "result"
      PROVE  <<c[1], m.job>> \in computed'
  <2>1. CASE m \in Range(conn[c].up)
    BY <1>0, <1>1, <2>1 DEF ResultInv
  <2>2. CASE m \notin Range(conn[c].up)
    <3>1. \E w \in Workers : Worker(w)
      BY <2>2, CoordinatorQueues
    <3>2. PICK w \in Workers : c = current[w] /\ SendResult(w, m.job)
      BY <1>1, <2>2, <3>1, WorkerQueues
    <3>3. c # Null
      BY NullAssumption
    <3>4. c[1] = w
      BY <3>2, <3>3 DEF OwnInv
    <3>. QED  BY <3>2, <3>4 DEF SendResult
  <2>. QED  BY <2>1, <2>2
<1>2. ASSUME NEW j \in Jobs, jobs'[j] # Null, NEW w \in jobs'[j].results
      PROVE  <<w, j>> \in computed'
  <2>1. CASE jobs[j] = Null
    <3>1. jobs'[j].results = {}
      BY <1>2, <2>1, TrackStep
    <3>. QED  BY <1>2, <3>1
  <2>2. CASE jobs[j] # Null
    <3>1. CASE w \in jobs[j].results
      BY <1>0, <2>2, <3>1 DEF ResultInv
    <3>2. ASSUME NEW c \in Conns, ProcessLayerResult(c, j)
          PROVE  <<c[1], j>> \in computed
      <4>1. Head(conn[c].up) = Msg("result", j) /\ conn[c].up # <<>>
        BY <3>2 DEF ProcessLayerResult, Arrives
      <4>2. Msg("result", j) \in Range(conn[c].up)
        BY <4>1, Queues, SeqRange DEF TypeInv
      <4>. QED  BY <4>2 DEF ResultInv, Msg
    <3>. QED  BY <1>0, <1>2, <2>2, <3>1, <3>2, JobStep
  <2>. QED  BY <2>1, <2>2
<1>. QED  BY <1>1, <1>2 DEF ResultInv

LEMMA FinalNext ==
  TypeInv /\ FreshInv /\ ResultInv /\ FinalInv /\ Next => FinalInv'
<1>. SUFFICES ASSUME TypeInv, TypeInv', FreshInv, ResultInv, FinalInv, Next PROVE FinalInv'
  BY TypeNext
<1>0. ASSUME NEW j \in Jobs, ~Fresh(j), NEW out, Final(j, out) PROVE Final(j, out)'
  BY <1>0, StartedStays DEF Final
<1>1. ASSUME NEW f \in flows', f.cause = "result", f.at = "write"
      PROVE  Final(f.job, f.out)'
  <2>0. f.job \in Jobs
    BY DEF TypeInv, TypeOK, FlowStates
  <2>1. CASE f \in flows
    <3>1. ~Fresh(f.job) /\ Final(f.job, f.out)
      BY <1>1, <2>0, <2>1 DEF FreshInv, FinalInv
    <3>. QED  BY <1>0, <2>0, <3>1
  <2>2. ASSUME NEW c \in Conns, NEW j \in Jobs, ProcessLayerResult(c, j), f \notin flows
        PROVE  Final(f.job, f.out)'
    <3>. DEFINE r == jobs[j].results \cup {c[1]}
    <3>1. /\ jobs[j] # Null /\ IsComplete(c[1], j)
          /\ f = Ending("result", j, c[1], FinalResult(j, r))
      BY <2>2 DEF ProcessLayerResult
    <3>2. ~Fresh(j)
      BY <3>1 DEF FreshInv
    <3>3. Msg("result", j) \in Range(conn[c].up)
      <4>1. Head(conn[c].up) = Msg("result", j) /\ conn[c].up # <<>>
        BY <2>2 DEF ProcessLayerResult, Arrives
      <4>. QED  BY <4>1, Queues, SeqRange DEF TypeInv
    <3>4. <<c[1], j>> \in computed
      BY <3>3 DEF ResultInv, Msg
    <3>5. \A w \in r : <<w, j>> \in computed
      BY <3>1, <3>4 DEF ResultInv
    <3>6. Final(j, FinalResult(j, r))
      <4>1. c[1] \in r
        OBVIOUS
      <4>. HIDE DEF r
      <4>2. CASE j \in DataJobs
        BY <3>5, <4>1, <4>2 DEF Final, FinalResult
      <4>3. CASE j \notin DataJobs
        <5>1. FinalResult(j, r) = {Last(plan[j])} /\ Last(plan[j]) \in r
          BY <3>1, <4>1, <4>3 DEF IsComplete, FinalResult
        <5>. QED  BY <3>5, <4>3, <5>1 DEF Final
      <4>. QED  BY <4>2, <4>3
    <3>7. f.job = j /\ f.out = FinalResult(j, r)
      BY <3>1 DEF Ending
    <3>. HIDE DEF r
    <3>. QED  BY <1>0, <3>2, <3>6, <3>7
  <2>3. ASSUME NEW c \in Conns, Connection(c), ~\E j \in Jobs : ProcessLayerResult(c, j)
        PROVE  f \in flows
    <3>1. CASE HandleWorkerDisconnect(c)
      BY <1>1, <3>1 DEF HandleWorkerDisconnect, Ending
    <3>2. ASSUME NEW j \in Jobs, HandleWorkerError(c, j) PROVE f \in flows
      BY <1>1, <3>2 DEF HandleWorkerError, Ending
    <3>. QED
      BY <2>3, <3>1, <3>2 DEF Connection, LoseConnection, NodeFound, NodeNotFound, coordinatorVars
  <2>4. ASSUME NEW j \in Jobs, HandleJobTimeout(j) PROVE f \in flows
    BY <1>1, <2>4 DEF HandleJobTimeout, Ending
  <2>5. ASSUME NEW g \in flows, EndJob(g) PROVE f \in flows
    <3>1. g \in FlowStates
      BY DEF TypeInv, TypeOK
    <3>2. ASSUME NEW at \in {"fail", "clean"}, Goes(g, at) PROVE f \in flows
      BY <1>1, <3>1, <3>2 DEF Goes, FlowStates
    <3>. QED  BY <2>5, <3>2 DEF EndJob, WriteRow, WriteFails, CleanupJob
  <2>. QED  BY <2>1, <2>2, <2>3, <2>4, <2>5, Frames DEF Next, coordinatorVars
<1>2. ASSUME NEW j \in Jobs, row'[j].status = "completed"
      PROVE  Final(j, row[j].result)'
  <2>1. CASE row'[j] = row[j]
    <3>1. ~Fresh(j) /\ Final(j, row[j].result)
      BY <1>2, <2>1 DEF FreshInv, FinalInv
    <3>. QED  BY <1>0, <2>1, <3>1 DEF Final
  <2>2. CASE row'[j] # row[j]
    <3>1. PICK f \in flows : f.job = j /\ row' = Written(f)
      BY <2>2, RowStep
    <3>2. /\ f.cause = "result" /\ f.at = "write"
          /\ row'[j] = [status |-> "completed", result |-> f.out]
      BY <1>2, <3>1 DEF Written, TypeInv, TypeOK
    <3>3. ~Fresh(j) /\ Final(j, f.out)
      BY <3>1, <3>2 DEF FreshInv, FinalInv
    <3>. QED  BY <1>0, <3>2, <3>3 DEF Final
  <2>. QED  BY <2>1, <2>2
<1>. QED  BY <1>1, <1>2 DEF FinalInv

LEMMA SettledNext ==
  TypeInv /\ FreshInv /\ SettledInv /\ Next => SettledInv'
<1>. SUFFICES ASSUME TypeInv, FreshInv, SettledInv, Next, faults' = 0 PROVE SettledInv'
  BY DEF SettledInv, UntrackedIsSettled
<1>1. faults = 0
  <2>1. faults \in Nat
    BY BoundsAssumption DEF TypeInv, TypeOK
  <2>2. faults' = faults \/ faults' = faults + 1
    <3>1. \A c \in Conns : Connection(c) => faults' = faults \/ faults' = faults + 1
      BY DEF Connection, LoseConnection, NodeFound, NodeNotFound, HandleWorkerDisconnect,
             ProcessLayerResult, HandleWorkerError
    <3>2. \A j \in Jobs : StartJob(j) => faults' = faults \/ faults' = faults + 1
      BY DEF StartJob, SelectWorkersForJob, InsertFails, TrackJob, MarkRunning, MarkRunningFails,
             ProcessInput
    <3>3. \A f \in flows : EndJob(f) => faults' = faults \/ faults' = faults + 1
      BY DEF EndJob, WriteRow, WriteFails, CleanupJob
    <3>. QED  BY <3>1, <3>2, <3>3, Frames DEF Next
  <2>. QED  BY <2>1, <2>2
<1>2. ASSUME NEW f \in flows, NEW j \in Jobs, f.job = j, row' = Written(f)
      PROVE  row'[j].status # "open"
  BY <1>2 DEF Written, TypeInv, TypeOK
<1>3. ASSUME NEW j \in Jobs, row[j].status # "open" PROVE row'[j].status # "open"
  BY <1>2, <1>3, RowStep
<1>4. ASSUME NEW j \in Jobs, ~Fresh(j)', jobs'[j] = Null PROVE row'[j].status # "open"
  <2>1. CASE jobs[j] # Null
    <3>1. PICK f \in flows : CleanupJob(f) /\ f.job = j
      BY <1>4, <2>1, UntrackStep
    <3>2. row[j].status # "open"
      BY <1>1, <3>1 DEF SettledInv, CleanupJob
    <3>. QED  BY <1>3, <3>2
  <2>2. CASE jobs[j] = Null /\ ~Fresh(j)
    BY <1>1, <1>3, <2>2 DEF SettledInv, UntrackedIsSettled, Fresh
  <2>3. CASE jobs[j] = Null /\ Fresh(j)
    <3>1. PICK k \in Jobs : StartJob(k)
      BY <1>4, <2>3, Frames DEF Next, Fresh, coordinatorVars
    <3>2. CASE TrackJob(k)
      <4>1. k = j
        BY <1>4, <2>3, <3>2 DEF TrackJob, Fresh, TypeInv, TypeOK
      <4>2. jobs'[j] = [failures |-> <<>>, results |-> {}, armed |-> TRUE]
        BY <3>2, <4>1 DEF TrackJob, TypeInv, TypeOK
      <4>3. jobs'[j] \in JobEntries
        BY <4>2 DEF JobEntries
      <4>. QED  BY <1>4, <4>3, NullAssumption
    <3>3. CASE ~TrackJob(k)
      BY <1>4, <2>3, <3>1, <3>3 DEF StartJob, SelectWorkersForJob, InsertFails, MarkRunning,
             MarkRunningFails, ProcessInput, Fresh, TypeInv, TypeOK
    <3>. QED  BY <3>2, <3>3
  <2>. QED  BY <2>1, <2>2, <2>3
<1>5. ASSUME NEW f \in flows', f.at = "clean" PROVE row'[f.job].status # "open"
  <2>1. CASE f \in flows
    <3>1. row[f.job].status # "open" /\ f.job \in Jobs
      BY <1>1, <1>5, <2>1 DEF SettledInv, TypeInv, TypeOK, FlowStates
    <3>. QED  BY <1>3, <3>1
  <2>2. ASSUME NEW g \in flows, f.job = g.job, EndJob(g), f \notin flows PROVE row'[f.job].status # "open"
    <3>1. WriteRow(g)
      <4>1. ~WriteFails(g)
        <5>1. ASSUME WriteFails(g) PROVE faults' = 1
          BY <1>1, <5>1 DEF WriteFails
        <5>. QED  BY <5>1
      <4>2. ~CleanupJob(g)
        BY <2>2 DEF CleanupJob
      <4>. QED  BY <2>2, <4>1, <4>2 DEF EndJob
    <3>2. g.job \in Jobs
      BY DEF TypeInv, TypeOK, FlowStates
    <3>. QED  BY <1>2, <2>2, <3>1, <3>2 DEF WriteRow
  <2>. QED  BY <1>5, <2>1, <2>2, FlowStep
<1>. QED  BY <1>4, <1>5 DEF SettledInv, UntrackedIsSettled, Fresh

LEMMA SafetyNext == IInv /\ [Next]_vars => IInv'
<1>1. IInv /\ Next => IInv'
  BY TypeNext, FreshNext, ActiveNext, FailureNext, OwnNext, PlanNext, PartNext, ResultNext, FinalNext,
     SettledNext DEF IInv
<1>2. IInv /\ UNCHANGED vars => IInv'
  <2>. SUFFICES ASSUME IInv, UNCHANGED vars PROVE IInv'
    OBVIOUS
  <2>. USE DEF IInv, vars
  <2>1. TypeInv' /\ FreshInv'
    BY TypeNext DEF FreshInv, Fresh
  <2>2. ActiveTracked' /\ OwnInv' /\ PlanInv'
    BY DEF ActiveTracked, OwnInv, PlanInv
  <2>3. FailureInv'
    BY DEF FailureInv, TooManyFailures
  <2>4. PartInv'
    BY DEF PartInv, PartOf, Fresh
  <2>5. ResultInv'
    BY DEF ResultInv
  <2>6. FinalInv'
    BY DEF FinalInv, Final
  <2>7. SettledInv'
    BY DEF SettledInv, UntrackedIsSettled
  <2>. QED  BY <2>1, <2>2, <2>3, <2>4, <2>5, <2>6, <2>7
<1>. QED  BY <1>1, <1>2

LEMMA Safety == Spec => []IInv
BY InitSafety, SafetyNext, PTL DEF Spec

\* A worker's capacity is held only by tracked jobs it is part of and that
\* have not counted it as failed, however workers come and go.
THEOREM CapacityNotLeaked == Spec => []ActiveTracked
<1>1. IInv => ActiveTracked
  BY DEF IInv
<1>. QED  BY <1>1, Safety, PTL

\* A sequence without repetition has as many members as places.
LEMMA InjectiveCount ==
  ASSUME NEW S, NEW s \in Seq(S), IsInjective(s)
  PROVE  Cardinality(Range(s)) = Len(s)
<1>. DEFINE n == Len(s)
<1>1. n \in Nat /\ DOMAIN s = 1..n /\ s \in [1..n -> Range(s)]
  BY DEF Range
<1>2. s \in Bijection(1..n, Range(s))
  BY <1>1 DEF Bijection, Injection, Surjection, IsInjective, Range
<1>3. ExistsBijection(1..n, Range(s))
  BY <1>2 DEF ExistsBijection
<1>. QED  BY <1>1, <1>3, FS_CountingElements

\* handleJobFailure gives a job up only when at least half of its workers
\* are gone, each counted once.
THEOREM GivenUpByMajority == Spec => []FailedByMajority
<1>1. IInv => FailedByMajority
  <2>. SUFFICES ASSUME IInv, NEW f \in flows, f.cause \in {"left", "error"}, jobs[f.job] # Null
                PROVE  2 * Cardinality(Range(jobs[f.job].failures)) >= Len(plan[f.job])
    BY DEF FailedByMajority
  <2>. DEFINE s == jobs[f.job].failures
              p == plan[f.job]
  <2>1. f.job \in Jobs
    BY DEF IInv, TypeInv, TypeOK, FlowStates
  <2>2. s \in Seq(Workers) /\ p \in Seq(Workers)
    BY <2>1 DEF IInv, TypeInv, TypeOK, JobEntries
  <2>3. Cardinality(Range(s)) = Len(s)
    BY <2>1, <2>2, InjectiveCount DEF IInv, FailureInv
  <2>4. Len(s) >= (Len(p) + 1) \div 2
    BY DEF IInv, FailureInv, TooManyFailures
  <2>5. Len(s) \in Nat /\ Len(p) \in Nat
    BY <2>2
  <2>6. ASSUME NEW m \in Nat, NEW n \in Nat, m >= (n + 1) \div 2 PROVE 2 * m >= n
    BY <2>6
  <2>. HIDE DEF s, p
  <2>7. 2 * Len(s) >= Len(p)
    BY <2>4, <2>5, <2>6
  <2>. QED  BY <2>3, <2>7 DEF s, p
<1>. QED  BY <1>1, Safety, PTL

\* A completed job has a result computed by workers of its plan, of a
\* pipeline by its last stage.
THEOREM ResultIsComputed == Spec => []SavedWasComputed
<1>1. IInv => SavedWasComputed
  <2>. SUFFICES ASSUME IInv, NEW j \in Jobs, row[j].status = "completed"
                PROVE  /\ row[j].result # {}
                       /\ row[j].result \subseteq Range(plan[j])
                       /\ \A w \in row[j].result : <<w, j>> \in computed
                       /\ j \notin DataJobs => row[j].result = {Last(plan[j])}
    BY DEF SavedWasComputed
  <2>1. Final(j, row[j].result)
    BY DEF IInv, FinalInv
  <2>2. row[j].result \subseteq Workers
    BY DEF IInv, TypeInv, TypeOK
  <2>3. \A w \in row[j].result : w \in Range(plan[j])
    BY <2>1, <2>2 DEF Final, IInv, PartInv, PartOf
  <2>. QED  BY <2>1, <2>3 DEF Final
<1>. QED  BY <1>1, Safety, PTL

\* No job is dropped silently: without database failures a job is untracked
\* only after its row was completed or failed.
THEOREM NoneDropped == Spec => []UntrackedIsSettled
<1>1. IInv => UntrackedIsSettled
  BY DEF IInv, SettledInv
<1>. QED  BY <1>1, Safety, PTL

\* Jobs fail by majority only and complete with what was computed.
THEOREM OutcomesHold == Spec => []OutcomesEarned
BY GivenUpByMajority, ResultIsComputed, PTL DEF OutcomesEarned

\* Capacity and rows are settled with the jobs that are untracked.
THEOREM NothingLeaked == Spec => []NothingLeaks
BY CapacityNotLeaked, NoneDropped, PTL DEF NothingLeaks
=============================================================================
