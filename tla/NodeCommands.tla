---------------------------- MODULE NodeCommands ----------------------------
(***************************************************************************)
(* Commands an owner issues to a node (model_install, model_remove).       *)
(*                                                                         *)
(* The owner inserts a row into `node_commands`.  A daemon that holds the  *)
(* node's key polls for pending rows, and the poll claims each of them     *)
(* with an update guarded by status = 'pending'; the daemon then runs the  *)
(* claimed commands one after the other and reports each                   *)
(* (apps/web/lib/data/node-commands.js, apps/cli/commands/start.js).       *)
(*                                                                         *)
(* pollNodeCommands() is started by a setInterval that does not wait for   *)
(* the previous call, and two daemons may hold the same key: PassIds names *)
(* the passes of one key that may be under way.                            *)
(***************************************************************************)
EXTENDS Integers, FiniteSets

CONSTANTS
    Commands,   \* ids of node_commands rows
    Nodes,      \* node keys
    PassIds,    \* concurrent pollNodeCommands() calls with one key
    Slots,      \* requests being served at once (bound)
    Limit,      \* commands returned by one poll (pollCommands(5))
    MaxFaults,  \* faults that may happen in a behaviour (bound)
    Null

ASSUME NodeCommandsAssumption ==
    /\ IsFiniteSet(Commands)
    /\ Limit \in Nat \ {0}
    /\ MaxFaults \in Nat
    /\ Null \notin Commands \cup Nodes \cup Slots

VARIABLES
    (* node_commands *)
    status,     \* status, "absent" before the insert
    target,     \* pubkey
    issued,     \* rank of issued_at
    (* requests *)
    call,       \* what the control plane does for each request slot
    (* daemons *)
    pc,         \* where a pass is
    todo,       \* claimed commands the pass has not run
    cur,        \* the command runNodeCommand() is busy with
    req,        \* the request the pass awaits
    (* history and bounds *)
    execs,      \* executions of a command that were started
    succeeded,  \* commands that were run to success
    faults

tableVars == <<status, target, issued>>
passVars == <<pc, todo, cur, req>>
vars == <<tableVars, call, passVars, execs, succeeded, faults>>

Passes == Nodes \X PassIds
Node(p) == p[1]

Finished == {"completed", "failed"}

FreeSlot == [at |-> "free", op |-> "none", by |-> Null, job |-> Null,
             body |-> "none", rows |-> {}, got |-> {}, ok |-> FALSE]

CallType ==
    [at : {"free", "sent", "claim", "replied"}, op : {"none", "poll", "complete"},
     by : Nodes \cup {Null}, job : Commands \cup {Null},
     body : Finished \cup {"none"}, rows : SUBSET Commands,
     got : SUBSET Commands, ok : BOOLEAN]

TypeOK ==
    /\ status \in [Commands -> {"absent", "pending", "running"} \cup Finished]
    /\ target \in [Commands -> Nodes \cup {Null}]
    /\ issued \in [Commands -> Nat]
    /\ call \in [Slots -> CallType]
    /\ pc \in [Passes -> {"idle", "polling", "next", "running",
                          "completing", "erring", "failing"}]
    /\ todo \in [Passes -> SUBSET Commands]
    /\ cur \in [Passes -> Commands \cup {Null}]
    /\ req \in [Passes -> Slots \cup {Null}]
    /\ execs \in [Commands -> Nat]
    /\ succeeded \subseteq Commands
    /\ faults \in 0..MaxFaults

Init ==
    /\ status = [c \in Commands |-> "absent"]
    /\ target = [c \in Commands |-> Null]
    /\ issued = [c \in Commands |-> 0]
    /\ call = [s \in Slots |-> FreeSlot]
    /\ pc = [p \in Passes |-> "idle"]
    /\ todo = [p \in Passes |-> {}]
    /\ cur = [p \in Passes |-> Null]
    /\ req = [p \in Passes |-> Null]
    /\ execs = [c \in Commands |-> 0]
    /\ succeeded = {}
    /\ faults = 0

-----------------------------------------------------------------------------
(* The owner. *)

\* issueCommand, after the route checked who owns the node.
IssueCommand(c, n) ==
    /\ status[c] = "absent"
    /\ status' = [status EXCEPT ![c] = "pending"]
    /\ target' = [target EXCEPT ![c] = n]
    /\ issued' = [issued EXCEPT
                    ![c] = 1 + Cardinality({d \in Commands : status[d] # "absent"})]
    /\ UNCHANGED <<call, passVars, execs, succeeded, faults>>

-----------------------------------------------------------------------------
(* Requests: signedFetch on the daemon's side, the handlers on the other. *)

Send(p, s, r) ==
    /\ call[s].at = "free"
    /\ call' = [call EXCEPT ![s] = r]
    /\ req' = [req EXCEPT ![p] = s]

PollRequest(n) == [FreeSlot EXCEPT !.at = "sent", !.op = "poll", !.by = n]

CompleteRequest(n, c, body) ==
    [FreeSlot EXCEPT !.at = "sent", !.op = "complete", !.by = n,
                     !.job = c, !.body = body]

Awaited(s) == \E p \in Passes : req[p] = s

\* The answer leaves the control plane; nobody reads it after a timeout.
Replied(s, ok) ==
    IF Awaited(s) THEN [call[s] EXCEPT !.at = "replied", !.ok = ok] ELSE FreeSlot

\* Mutation: no command while another one runs, to keep pulls from overlapping.
PendingWhenIdle(n) ==
    {c \in Commands : target[c] = n /\ status[c] = "pending"
                     /\ \A d \in Commands : target[d] = n => status[d] # "running"}

PendingOf(n) == {c \in Commands : target[c] = n /\ status[c] = "pending"}

Oldest(cs) == {c \in cs : \A d \in cs : issued[c] <= issued[d]}

\* pollCommandsForNode, the select: the `Limit` oldest pending rows.
PeekPending(s) ==
    /\ call[s].at = "sent"
    /\ call[s].op = "poll"
    /\ LET mine == PendingOf(call[s].by)
           rows == {c \in mine :
                      Cardinality({d \in mine : issued[d] < issued[c]}) < Limit}
       IN  call' = [call EXCEPT ![s].at = "claim", ![s].rows = rows]
    /\ UNCHANGED <<tableVars, passVars, execs, succeeded, faults>>

\* Mutation: the update of the claim loses its guard on the status.
ClaimUnguarded(s) ==
    /\ call[s].at = "claim"
    /\ \E c \in Oldest(call[s].rows) :
         /\ status' = [status EXCEPT ![c] = "running"]
         /\ call' = [call EXCEPT ![s].rows = @ \ {c}, ![s].got = @ \cup {c}]
    /\ UNCHANGED <<target, issued, passVars, execs, succeeded, faults>>

\* ... the update of each row in turn, guarded by its status ...
ClaimRow(s) ==
    /\ call[s].at = "claim"
    /\ \E c \in Oldest(call[s].rows) :
         IF status[c] = "pending"
         THEN /\ status' = [status EXCEPT ![c] = "running"]
              /\ call' = [call EXCEPT ![s].rows = @ \ {c}, ![s].got = @ \cup {c}]
         ELSE /\ call' = [call EXCEPT ![s].rows = @ \ {c}]
              /\ UNCHANGED status
    /\ UNCHANGED <<target, issued, passVars, execs, succeeded, faults>>

\* ... and the answer.
ReplyClaimed(s) ==
    /\ call[s].at = "claim"
    /\ call[s].rows = {}
    /\ call' = [call EXCEPT ![s] = Replied(s, TRUE)]
    /\ UNCHANGED <<tableVars, passVars, execs, succeeded, faults>>

\* completeCommandForNode: checks whose command it is, not the status it has.
CompleteCommand(s) ==
    /\ call[s].at = "sent"
    /\ call[s].op = "complete"
    /\ LET r == call[s] mine == target[r.job] = r.by IN
       /\ status' = IF mine THEN [status EXCEPT ![r.job] = r.body] ELSE status
       /\ call' = [call EXCEPT ![s] = Replied(s, mine)]
    /\ UNCHANGED <<target, issued, passVars, execs, succeeded, faults>>

-----------------------------------------------------------------------------
(* The daemon: pollNodeCommands() and runNodeCommand(). *)

Goto(p, from, to) ==
    /\ pc[p] = from
    /\ pc' = [pc EXCEPT ![p] = to]

\* The request p awaits is answered; its slot is free again.
Answer(p) ==
    /\ req[p] # Null
    /\ call[req[p]].at = "replied"
    /\ call' = [call EXCEPT ![req[p]] = FreeSlot]
    /\ req' = [req EXCEPT ![p] = Null]

StartPass(p) ==
    /\ Goto(p, "idle", "polling")
    /\ \E s \in Slots : Send(p, s, PollRequest(Node(p)))
    /\ UNCHANGED <<tableVars, todo, cur, execs, succeeded, faults>>

PollAnswered(p) ==
    /\ Answer(p)
    /\ Goto(p, "polling", IF call[req[p]].ok THEN "next" ELSE "idle")
    /\ todo' = [todo EXCEPT ![p] = IF call[req[p]].ok THEN call[req[p]].got ELSE {}]
    /\ UNCHANGED <<tableVars, cur, execs, succeeded, faults>>

\* runNodeCommand: the `ollama` child is started.
RunCommand(p) ==
    /\ \E c \in Oldest(todo[p]) :
         /\ todo' = [todo EXCEPT ![p] = @ \ {c}]
         /\ cur' = [cur EXCEPT ![p] = c]
         /\ execs' = [execs EXCEPT ![c] = @ + 1]
    /\ Goto(p, "next", "running")
    /\ UNCHANGED <<tableVars, call, req, succeeded, faults>>

EndPass(p) ==
    /\ todo[p] = {}
    /\ Goto(p, "next", "idle")
    /\ UNCHANGED <<tableVars, call, todo, cur, req, execs, succeeded, faults>>

\* The child exits with 0.
CommandSucceeds(p) ==
    /\ Goto(p, "running", "completing")
    /\ succeeded' = succeeded \cup {cur[p]}
    /\ \E s \in Slots : Send(p, s, CompleteRequest(Node(p), cur[p], "completed"))
    /\ UNCHANGED <<tableVars, todo, cur, execs, faults>>

\* The child fails; the catch block.
CommandFails(p) ==
    /\ Goto(p, "running", "erring")
    /\ UNCHANGED <<tableVars, call, todo, cur, req, execs, succeeded, faults>>

\* The catch block reports the failure.
ReportFailure(p) ==
    /\ Goto(p, "erring", "failing")
    /\ \E s \in Slots : Send(p, s, CompleteRequest(Node(p), cur[p], "failed"))
    /\ UNCHANGED <<tableVars, todo, cur, execs, succeeded, faults>>

\* An error of completeCommand goes to the same catch block.
CompletionAnswered(p) ==
    /\ Answer(p)
    /\ Goto(p, "completing", IF call[req[p]].ok THEN "next" ELSE "erring")
    /\ cur' = IF call[req[p]].ok THEN [cur EXCEPT ![p] = Null] ELSE cur
    /\ UNCHANGED <<tableVars, todo, execs, succeeded, faults>>

\* The outcome of the failure report is only logged.
FailureAnswered(p) ==
    /\ Answer(p)
    /\ Goto(p, "failing", "next")
    /\ cur' = [cur EXCEPT ![p] = Null]
    /\ UNCHANGED <<tableVars, todo, execs, succeeded, faults>>

-----------------------------------------------------------------------------
(* Faults, at most MaxFaults of them. *)

Fault ==
    /\ faults < MaxFaults
    /\ faults' = faults + 1

\* The request never arrives, or its handler throws or dies where it stands.
RequestDies(s) ==
    /\ Fault
    /\ call[s].at \in {"sent", "claim"}
    /\ call' = [call EXCEPT ![s] = Replied(s, FALSE)]
    /\ UNCHANGED <<tableVars, passVars, execs, succeeded>>

\* The update of one row fails and the poll goes on with the next.
ClaimFails(s) ==
    /\ Fault
    /\ call[s].at = "claim"
    /\ \E c \in Oldest(call[s].rows) : call' = [call EXCEPT ![s].rows = @ \ {c}]
    /\ UNCHANGED <<tableVars, passVars, execs, succeeded>>

\* The answer is lost or signedFetch gives up; the handler goes on unawaited.
Timeout(p) ==
    /\ Fault
    /\ req[p] # Null
    /\ req' = [req EXCEPT ![p] = Null]
    /\ call' = IF call[req[p]].at = "replied"
               THEN [call EXCEPT ![req[p]] = FreeSlot] ELSE call
    /\ pc' = [pc EXCEPT ![p] = CASE pc[p] = "polling"    -> "idle"
                                 [] pc[p] = "completing" -> "erring"
                                 [] OTHER                -> "next"]
    /\ cur' = IF pc[p] = "failing" THEN [cur EXCEPT ![p] = Null] ELSE cur
    /\ UNCHANGED <<tableVars, todo, execs, succeeded>>

\* A daemon exits with some passes of its key; the next timer tick of the
\* daemon that replaces it is StartPass.
DaemonStops(n) ==
    /\ Fault
    /\ \E ps \in SUBSET ({n} \X PassIds) :
         /\ pc' = [p \in Passes |-> IF p \in ps THEN "idle" ELSE pc[p]]
         /\ todo' = [p \in Passes |-> IF p \in ps THEN {} ELSE todo[p]]
         /\ cur' = [p \in Passes |-> IF p \in ps THEN Null ELSE cur[p]]
         /\ req' = [p \in Passes |-> IF p \in ps THEN Null ELSE req[p]]
         /\ call' = [s \in Slots |->
                       IF call[s].at = "replied" /\ \E p \in ps : req[p] = s
                       THEN FreeSlot ELSE call[s]]
    /\ UNCHANGED <<tableVars, execs, succeeded>>

-----------------------------------------------------------------------------

ServeStep(s) ==
    PeekPending(s) \/ ClaimRow(s) \/ ReplyClaimed(s) \/ CompleteCommand(s)

PassStep(p) ==
    \/ PollAnswered(p) \/ RunCommand(p) \/ EndPass(p)
    \/ CommandSucceeds(p) \/ CommandFails(p) \/ ReportFailure(p)
    \/ CompletionAnswered(p) \/ FailureAnswered(p)

Next ==
    \/ \E c \in Commands, n \in Nodes : IssueCommand(c, n)
    \/ \E s \in Slots : ServeStep(s) \/ RequestDies(s) \/ ClaimFails(s)
    \/ \E p \in Passes : StartPass(p) \/ PassStep(p) \/ Timeout(p)
    \/ \E n \in Nodes : DaemonStops(n)

Spec == Init /\ [][Next]_vars

\* Handlers run on, children exit, and the timer goes on starting passes.
Fairness ==
    /\ \A s \in Slots : WF_vars(ServeStep(s))
    /\ \A p \in Passes : WF_vars(PassStep(p)) /\ SF_vars(StartPass(p))

FairSpec == Spec /\ Fairness

-----------------------------------------------------------------------------
(* Properties. *)

\* The claim of pollCommandsForNode: however passes, daemons with the same key,
\* lost answers and restarts interleave, a command is run at most once.
RunsAtMostOnce == \A c \in Commands : execs[c] <= 1

\* A row says completed only after a child ended well, and failed only after
\* the command was run: no outcome is reported for a command nobody started.
ReportsAreTrue ==
    \A c \in Commands :
        /\ status[c] = "completed" => c \in succeeded
        /\ status[c] = "failed" => execs[c] > 0

\* A pending command is claimed in the end, whatever is lost on the way.
PendingIsClaimed ==
    \A c \in Commands : status[c] = "pending" ~> status[c] \notin {"pending", "absent"}

\* What was run, and what the rows say of it.
CommandsAreTrue == RunsAtMostOnce /\ ReportsAreTrue
=============================================================================
