------------------------------ MODULE DbModels ------------------------------
(***************************************************************************)
(* The models of packages/db: what processes with the service role do to   *)
(* the tables providers, aggregators, clients and jobs, and the example    *)
(* application over them (apps/cli/examples/app.js).                       *)
(*                                                                         *)
(* A method awaits each of its statements, and other processes come in     *)
(* between: `register` and `delete` look a row up and then write,          *)
(* `submitJob` of the example takes four statements.  A row has an id,     *)
(* which the database makes, and perhaps a node_id, which a node chooses;  *)
(* methods that are given a node_id also try it as an id.                  *)
(***************************************************************************)
EXTENDS Integers, FiniteSets

CONSTANTS
    Ids,        \* uuids of rows
    NodeNames,  \* node_ids that are no uuid
    JobIds,     \* uuids of jobs
    Callers,    \* processes
    No

VARIABLES
    connected,  \* processes whose Database is connected
    table,      \* per role: the rows, No where there is none
    everUsed,   \* ids the database has made, of rows and of jobs
    jobRow,     \* jobs
    calling     \* what a process is in the middle of

dbmVars == <<connected, table, everUsed, jobRow, calling>>

Tables == {"providers", "aggregators", "clients"}
\* Nodes may also call themselves by an id they were told.
Named == NodeNames \cup (Ids \cap everUsed)
Status == {"available", "busy"}

AnyRow == [node : NodeNames \cup Ids \cup {No}, status : Status]
AnyJob == [status : {"pending", "assigned", "assigned_to_aggregator", "running",
                     "completed", "failed"},
           provider : Ids \cup {No}, aggregator : Ids \cup {No},
           assignedAt : BOOLEAN, completedAt : BOOLEAN,
           result : BOOLEAN, error : BOOLEAN]
Resting == [op |-> "none", on |-> "clients", key |-> No, job |-> No]
AnyCall == [op : {"none", "update", "updateById", "insert", "delete", "deleteJob",
                  "find", "findAggregator", "assign", "assignAggregator", "mark",
                  "markLoad", "run", "runFirst"},
            on : Tables, key : NodeNames \cup Ids \cup {No}, job : JobIds \cup {No}]

DbmTypeOK ==
    /\ connected \subseteq Callers
    /\ table \in [Tables -> [Ids -> AnyRow \cup {No}]]
    /\ everUsed \subseteq Ids \cup JobIds
    /\ jobRow \in [JobIds -> AnyJob \cup {No}]
    /\ calling \in [Callers -> AnyCall]

DbmInit ==
    /\ connected = {} /\ everUsed = {}
    /\ table = [t \in Tables |-> [i \in Ids |-> No]]
    /\ jobRow = [j \in JobIds |-> No]
    /\ calling = [c \in Callers |-> Resting]

-----------------------------------------------------------------------------
(* Queries. *)

Present(t) == {i \in Ids : table[t][i] # No}
WithNode(t, k) == {i \in Present(t) : table[t][i].node = k}
IsUuid(k) == k \in Ids

\* findByNodeId: by node_id, then by id.  A string that is no uuid makes the
\* second query fail.
FindThrows(t, k) == WithNode(t, k) = {} /\ ~IsUuid(k)
FindByNodeId(t, k) == IF WithNode(t, k) # {} THEN WithNode(t, k) ELSE {k} \cap Present(t)

\* findAvailable; which row comes first is left open, as are reputation, load,
\* price and specs.
Available(t) == {i \in Present(t) : table[t][i].status = "available"}

\* What an update writes into the rows it hits: their status.
Written(t, hit, s) ==
    table' = [table EXCEPT ![t] =
                [i \in Ids |-> IF i \in hit THEN [@[i] EXCEPT !.status = s] ELSE @[i]]]

Doing(c, op) == c \in connected /\ calling[c].op = op
Ready(c) == Doing(c, "none")
Goes(c, op, t, k, j) == calling' = [calling EXCEPT ![c] =
    [op |-> op, on |-> t, key |-> k, job |-> j]]
Returns(c) == calling' = [calling EXCEPT ![c] = Resting]
Throws(c) == Returns(c)      \* what the caller hears is left out
KeepsTables == UNCHANGED <<table, everUsed>>
Keeps == UNCHANGED connected

\* The payload of register, with its default status.
Fresh(k) == [node |-> k, status |-> "available"]

-----------------------------------------------------------------------------
(* The connection. *)

Connect(c) ==
    /\ connected' = connected \cup {c}
    /\ UNCHANGED <<table, everUsed, jobRow, calling>>

\* disconnect drops the models; a method that has its client goes on.
Disconnect(c) ==
    /\ Ready(c) /\ connected' = connected \ {c}
    /\ UNCHANGED <<table, everUsed, jobRow, calling>>

-----------------------------------------------------------------------------
(* register. *)

\* The lookup: by node_id if there is one, else by the row id that was given.
Register(c, t) ==
    /\ Ready(c)
    /\ \E k \in Named \cup {No}, r \in (Ids \cap everUsed) \cup {No} :
         IF k # No
         THEN \/ FindThrows(t, k) /\ Throws(c)
              \/ ~FindThrows(t, k) /\ FindByNodeId(t, k) # {} /\ Goes(c, "update", t, k, No)
              \/ ~FindThrows(t, k) /\ FindByNodeId(t, k) = {} /\ Goes(c, "insert", t, k, No)
         ELSE IF r # No /\ r \in Present(t) THEN Goes(c, "updateById", t, r, No)
              ELSE Goes(c, "insert", t, No, No)
    /\ KeepsTables /\ Keeps /\ UNCHANGED jobRow

\* Mutation: the row that was found is written, by its id.
WriteFound(c, t) ==
    /\ Doing(c, "update") /\ calling[c].on = t
    /\ LET k == calling[c].key
           hit == FindByNodeId(t, k)
       IN  IF hit = {} THEN KeepsTables /\ Throws(c)
           ELSE /\ table' = [table EXCEPT ![t] =
                               [i \in Ids |-> IF i \in hit THEN Fresh(k) ELSE @[i]]]
                /\ Returns(c) /\ UNCHANGED everUsed
    /\ Keeps /\ UNCHANGED jobRow

\* update(...).eq('node_id', ...).single(), which throws when no row is hit.
UpdateFound(c, t) ==
    /\ Doing(c, "update") /\ calling[c].on = t
    /\ LET hit == WithNode(t, calling[c].key)
       IN  IF hit = {} THEN KeepsTables /\ Throws(c)
           ELSE Written(t, hit, "available") /\ Returns(c) /\ UNCHANGED everUsed
    /\ Keeps /\ UNCHANGED jobRow

UpdateById(c, t) ==
    /\ Doing(c, "updateById") /\ calling[c].on = t
    /\ LET hit == {calling[c].key} \cap Present(t)
       IN  IF hit = {} THEN KeepsTables /\ Throws(c)
           ELSE Written(t, hit, "available") /\ Returns(c) /\ UNCHANGED everUsed
    /\ Keeps /\ UNCHANGED jobRow

\* node_id is unique.
InsertRow(c, t) ==
    /\ Doing(c, "insert") /\ calling[c].on = t
    /\ LET k == calling[c].key IN
       IF k # No /\ WithNode(t, k) # {} THEN KeepsTables /\ Throws(c)
       ELSE \E i \in Ids \ everUsed :
              /\ table' = [table EXCEPT ![t][i] = Fresh(k)]
              /\ everUsed' = everUsed \cup {i} /\ Returns(c)
    /\ Keeps /\ UNCHANGED jobRow

ProviderRegisters(c) ==
    Register(c, "providers") \/ UpdateFound(c, "providers")
      \/ UpdateById(c, "providers") \/ InsertRow(c, "providers")
AggregatorRegisters(c) ==
    Register(c, "aggregators") \/ UpdateFound(c, "aggregators")
      \/ UpdateById(c, "aggregators") \/ InsertRow(c, "aggregators")
ClientRegisters(c) ==
    Register(c, "clients") \/ UpdateFound(c, "clients")
      \/ UpdateById(c, "clients") \/ InsertRow(c, "clients")

-----------------------------------------------------------------------------
(* The other methods on nodes: one statement each, by node_id, and delete. *)

\* updateStatus; the others change nothing that is kept here.
Patch(c, t) ==
    /\ Ready(c)
    /\ \E k \in Named, s \in Status :
         IF WithNode(t, k) = {} THEN KeepsTables /\ Throws(c)
         ELSE Written(t, WithNode(t, k), s) /\ Returns(c) /\ UNCHANGED everUsed
    /\ Keeps /\ UNCHANGED jobRow

PatchProvider(c) == Patch(c, "providers")
PatchAggregator(c) == Patch(c, "aggregators")

FindToDelete(c, t) ==
    /\ Ready(c)
    /\ \E k \in Named :
         IF FindThrows(t, k) THEN Throws(c)
         ELSE /\ FindByNodeId(t, k) # {}
              /\ \E i \in FindByNodeId(t, k) : Goes(c, "delete", t, i, No)
    /\ KeepsTables /\ Keeps /\ UNCHANGED jobRow

\* The jobs' references are set null.
DeleteFound(c, t) ==
    /\ Doing(c, "delete") /\ calling[c].on = t
    /\ LET i == calling[c].key
           Without(ref) == IF ref = i THEN No ELSE ref
       IN  /\ table' = [table EXCEPT ![t][i] = No]
           /\ jobRow' = [j \in JobIds |-> IF jobRow[j] = No THEN No
                           ELSE [jobRow[j] EXCEPT !.provider = Without(@),
                                                  !.aggregator = Without(@)]]
    /\ Returns(c) /\ Keeps /\ UNCHANGED everUsed

ProviderLeaves(c) == FindToDelete(c, "providers") \/ DeleteFound(c, "providers")
AggregatorLeaves(c) == FindToDelete(c, "aggregators") \/ DeleteFound(c, "aggregators")
ClientLeaves(c) == FindToDelete(c, "clients") \/ DeleteFound(c, "clients")

-----------------------------------------------------------------------------
(* Jobs. *)

NewJob == [status |-> "pending", provider |-> No, aggregator |-> No, assignedAt |-> FALSE,
           completedAt |-> FALSE, result |-> FALSE, error |-> FALSE]

\* What updates do: they hit the row or throw.
SetJob(c, j, new) ==
    IF jobRow[j] = No THEN UNCHANGED jobRow /\ Throws(c)
    ELSE jobRow' = [jobRow EXCEPT ![j] = new] /\ Returns(c)

\* assignToProvider and assignToAggregator.
Assigned(row, t, i) ==
    IF t = "providers"
    THEN [row EXCEPT !.provider = i, !.status = "assigned", !.assignedAt = TRUE]
    ELSE [row EXCEPT !.aggregator = i, !.status = "assigned_to_aggregator",
                     !.assignedAt = TRUE]

RecordResult(c) ==
    /\ Ready(c)
    /\ \E j \in JobIds \cap everUsed : SetJob(c, j, [jobRow[j] EXCEPT !.status = "completed",
                                                       !.result = TRUE, !.completedAt = TRUE])
    /\ KeepsTables /\ Keeps

RecordFailure(c) ==
    /\ Ready(c)
    /\ \E j \in JobIds \cap everUsed : SetJob(c, j, [jobRow[j] EXCEPT !.status = "failed",
                                                       !.error = TRUE, !.completedAt = TRUE])
    /\ KeepsTables /\ Keeps

\* updateStatus reads the job first when it is to run, and dates the assignment
\* if that job had none.
UpdateStatus(c) ==
    /\ Ready(c)
    /\ \E j \in JobIds \cap everUsed :
         \/ /\ Goes(c, IF jobRow[j] # No /\ ~jobRow[j].assignedAt THEN "runFirst" ELSE "run",
                    "clients", No, j)
            /\ UNCHANGED jobRow
         \/ \E s \in {"completed", "failed"} :
              SetJob(c, j, [jobRow[j] EXCEPT !.status = s, !.completedAt = TRUE])
    /\ KeepsTables /\ Keeps

SetRunning(c) ==
    /\ Doing(c, "run") \/ Doing(c, "runFirst")
    /\ LET j == calling[c].job
       IN  SetJob(c, j, [jobRow[j] EXCEPT !.status = "running",
                                          !.assignedAt = @ \/ Doing(c, "runFirst")])
    /\ KeepsTables /\ Keeps

FindJobToDelete(c) ==
    /\ Ready(c)
    /\ \E j \in JobIds : jobRow[j] # No /\ Goes(c, "deleteJob", "clients", No, j)
    /\ KeepsTables /\ Keeps /\ UNCHANGED jobRow

DeleteJob(c) ==
    /\ Doing(c, "deleteJob")
    /\ jobRow' = [jobRow EXCEPT ![calling[c].job] = No]
    /\ Returns(c) /\ KeepsTables /\ Keeps

-----------------------------------------------------------------------------
(* submitJob of the example application. *)

CreateJob(c) ==
    /\ Ready(c)
    /\ \E j \in JobIds :
         /\ j \notin everUsed
         /\ everUsed' = everUsed \cup {j}
         /\ jobRow' = [jobRow EXCEPT ![j] = NewJob]
         /\ \E op \in {"find", "findAggregator"} : Goes(c, op, "clients", No, j)
    /\ Keeps /\ UNCHANGED table

FindFor(c, op, t, next) ==
    /\ Doing(c, op)
    /\ \/ Available(t) = {} /\ Throws(c)
       \/ \E i \in Available(t) : Goes(c, next, t, i, calling[c].job)
    /\ KeepsTables /\ Keeps /\ UNCHANGED jobRow

AssignFor(c, op, t, next) ==
    /\ Doing(c, op)
    /\ LET j == calling[c].job
           i == calling[c].key
       IN  IF i \notin Present(t) \/ jobRow[j] = No
           THEN Throws(c) /\ UNCHANGED jobRow
           ELSE /\ Goes(c, next, t, i, j)
                /\ jobRow' = [jobRow EXCEPT ![j] = Assigned(@, t, i)]
    /\ KeepsTables /\ Keeps

\* updateStatus of a provider, updateLoad of an aggregator: the row's id is
\* given for its node_id.
MarkFor(c, op, t) ==
    /\ Doing(c, op)
    /\ LET hit == WithNode(t, calling[c].key)
       IN  IF hit = {} THEN Throws(c) /\ KeepsTables
           ELSE /\ IF t = "providers" THEN Written(t, hit, "busy") ELSE UNCHANGED table
                /\ Returns(c) /\ UNCHANGED everUsed
    /\ Keeps /\ UNCHANGED jobRow

AssignProvider(c) ==
    \/ FindFor(c, "find", "providers", "assign")
    \/ AssignFor(c, "assign", "providers", "mark")
    \/ MarkFor(c, "mark", "providers")

AssignAggregator(c) ==
    \/ FindFor(c, "findAggregator", "aggregators", "assignAggregator")
    \/ AssignFor(c, "assignAggregator", "aggregators", "markLoad")
    \/ MarkFor(c, "markLoad", "aggregators")

\* A statement fails, or the process dies with its connection.
StatementFails(c) ==
    /\ ~Ready(c) /\ c \in connected
    /\ Returns(c)
    /\ \E down \in BOOLEAN : connected' = IF down THEN connected \ {c} ELSE connected
    /\ KeepsTables /\ UNCHANGED jobRow

DbmNext == \E c \in Callers :
    \/ Connect(c) \/ Disconnect(c) \/ StatementFails(c)
    \/ ProviderRegisters(c) \/ AggregatorRegisters(c) \/ ClientRegisters(c)
    \/ PatchProvider(c) \/ PatchAggregator(c)
    \/ ProviderLeaves(c) \/ AggregatorLeaves(c) \/ ClientLeaves(c)
    \/ RecordResult(c) \/ RecordFailure(c) \/ UpdateStatus(c) \/ SetRunning(c)
    \/ FindJobToDelete(c) \/ DeleteJob(c)
    \/ CreateJob(c) \/ AssignProvider(c) \/ AssignAggregator(c)

DbmSpec == DbmInit /\ [][DbmNext]_dbmVars

-----------------------------------------------------------------------------
(* Properties. *)

\* A job that was handed out or that runs has the date of its assignment, though
\* updateStatus decides on a job it read before whether to write one.
RunningIsDated == \A j \in JobIds :
    jobRow[j] # No /\ jobRow[j].status \in {"assigned", "assigned_to_aggregator", "running"}
      => jobRow[j].assignedAt

\* A row keeps the node_id it was made with: register and the other methods may be
\* given a row's id for a node_id, by several processes at once, and never
\* rename the row.
NodeIdStays == [][\A t \in Tables : \A i \in Present(t) :
    table'[t][i] # No => table'[t][i].node = table[t][i].node]_dbmVars

\* What rows keep, whichever processes write them.
RowsKeep == []RunningIsDated /\ NodeIdStays
=============================================================================
