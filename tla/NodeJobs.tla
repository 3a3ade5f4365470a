------------------------------ MODULE NodeJobs ------------------------------
(***************************************************************************)
(* The life of a job between the control plane and the provider daemons.   *)
(*                                                                         *)
(* The control plane (apps/web/lib/data/node-api.js, chat.js) keeps the    *)
(* `providers`, `jobs`, `payment_transactions` and `cpr_receipts_queue`    *)
(* tables.  A daemon (apps/cli/commands/start.js) polls for the jobs       *)
(* assigned to it, runs them one after the other and reports each one      *)
(* through signed HTTP requests (apps/cli/lib/node-client.js) that give    *)
(* up after a timeout while the handler may still be running.              *)
(*                                                                         *)
(* pollJobs() is started by a setInterval that does not wait for the       *)
(* previous call, so a daemon has several passes at once: PassIds names    *)
(* the passes one daemon may have under way.                               *)
(***************************************************************************)
EXTENDS Integers, FiniteSets

CONSTANTS
    Jobs,       \* ids of job rows
    Providers,  \* ids of providers rows, each with the daemon that holds its key
    PassIds,    \* concurrent pollJobs() calls of one daemon
    Slots,      \* requests being served at once (bound)
    Paid,       \* the jobs whose payment_offer is positive
    Limit,      \* jobs returned by one poll (pollJobs({ limit: 5 }))
    MaxFaults,  \* faults that may happen in a behaviour (bound)
    Null

ASSUME NodeJobsAssumption ==
    /\ IsFiniteSet(Jobs) /\ IsFiniteSet(Slots)
    /\ Paid \subseteq Jobs
    /\ Limit \in Nat \ {0}
    /\ MaxFaults \in Nat
    /\ Null \notin Jobs \cup Providers \cup Slots

VARIABLES
    (* control plane *)
    registered, \* the providers rows that exist
    status,     \* jobs.status, "absent" before the row is inserted
    assignee,   \* jobs.provider_id
    created,    \* rank of jobs.created_at
    payouts,    \* outbound payment_transactions rows of a job
    receipts,   \* cpr_receipts_queue rows of a job, per outcome
    (* requests *)
    call,       \* what the control plane does for each request slot
    (* daemons *)
    up,         \* the daemons that are running
    pc,         \* where a pass is
    todo,       \* jobs of the poll's answer the pass has not processed
    cur,        \* the job processJob() is busy with
    req,        \* the request the pass awaits
    active,     \* stats.activeJobIds
    (* history and bounds *)
    runs,       \* successful executions of a job that sent a completion
    faults

dbVars == <<registered, status, assignee, created, payouts, receipts>>
daemonVars == <<up, pc, todo, cur, req, active, runs>>
vars == <<dbVars, call, daemonVars, faults>>

Passes == Providers \X PassIds
Owner(p) == p[1]
PassesOf(pr) == {pr} \X PassIds

Finished == {"completed", "failed"}
Statuses == {"absent", "pending", "assigned", "running"} \cup Finished

FreeSlot == [at |-> "free", op |-> "none", by |-> Null, job |-> Null,
             body |-> "none", page |-> {}, ok |-> FALSE]

CallType ==
    [at : {"free", "sent", "mark", "pay", "receipt", "replied"},
     op : {"poll", "complete", "none"}, by : Providers \cup {Null},
     job : Jobs \cup {Null}, body : Finished \cup {"none"},
     page : SUBSET Jobs, ok : BOOLEAN]

TypeOK ==
    /\ registered \subseteq Providers
    /\ status \in [Jobs -> Statuses]
    /\ assignee \in [Jobs -> Providers \cup {Null}]
    /\ created \in [Jobs -> Nat]
    /\ payouts \in [Jobs -> Nat]
    /\ receipts \in [Jobs -> [Finished -> Nat]]
    /\ call \in [Slots -> CallType]
    /\ up \subseteq Providers
    /\ pc \in [Passes -> {"idle", "polling", "next", "running",
                          "completing", "erring", "failing"}]
    /\ todo \in [Passes -> SUBSET Jobs]
    /\ cur \in [Passes -> Jobs \cup {Null}]
    /\ req \in [Passes -> Slots \cup {Null}]
    /\ active \in [Providers -> SUBSET Jobs]
    /\ runs \in [Jobs -> Nat]
    /\ faults \in 0..MaxFaults

Init ==
    /\ registered = Providers
    /\ status = [j \in Jobs |-> "absent"]
    /\ assignee = [j \in Jobs |-> Null]
    /\ created = [j \in Jobs |-> 0]
    /\ payouts = [j \in Jobs |-> 0]
    /\ receipts = [j \in Jobs |-> [o \in Finished |-> 0]]
    /\ call = [s \in Slots |-> FreeSlot]
    /\ up = Providers
    /\ pc = [p \in Passes |-> "idle"]
    /\ todo = [p \in Passes |-> {}]
    /\ cur = [p \in Passes |-> Null]
    /\ req = [p \in Passes |-> Null]
    /\ active = [pr \in Providers |-> {}]
    /\ runs = [j \in Jobs |-> 0]
    /\ faults = 0

-----------------------------------------------------------------------------
(* Rows written by clients and by the node's owner. *)

InsertJob(j, st, pr) ==
    /\ status[j] = "absent"
    /\ status' = [status EXCEPT ![j] = st]
    /\ assignee' = [assignee EXCEPT ![j] = pr]
    /\ created' = [created EXCEPT
                     ![j] = 1 + Cardinality({k \in Jobs : status[k] # "absent"})]
    /\ UNCHANGED <<registered, payouts, receipts, call, daemonVars, faults>>

\* createChatJob: a picked provider, else the NIM fallback, else nobody.  The
\* payment offer of a chat job is 0.  A provider removed after it was picked
\* makes the insert fail on its foreign key.
CreateChatJob(j) ==
    /\ j \notin Paid
    /\ \/ \E pr \in registered : InsertJob(j, "assigned", pr)
       \/ InsertJob(j, "running", Null)
       \/ InsertJob(j, "pending", Null)

\* A client inserts a row with an offer, assigned to a provider.
SubmitJob(j) ==
    /\ j \in Paid
    /\ \E pr \in registered : InsertJob(j, "assigned", pr)

\* removeNode deletes the row; jobs.provider_id is "on delete set null".
RemoveNode(pr) ==
    /\ pr \in registered
    /\ registered' = registered \ {pr}
    /\ assignee' = [j \in Jobs |-> IF assignee[j] = pr THEN Null ELSE assignee[j]]
    /\ UNCHANGED <<status, created, payouts, receipts, call, daemonVars, faults>>

-----------------------------------------------------------------------------
(* Requests: signedFetch on the daemon's side, the handlers on the other. *)

\* signedFetch posts a request and awaits its answer.
Send(p, s, r) ==
    /\ call[s].at = "free"
    /\ call' = [call EXCEPT ![s] = r]
    /\ req' = [req EXCEPT ![p] = s]

PollRequest(pr) == [FreeSlot EXCEPT !.at = "sent", !.op = "poll", !.by = pr]

CompleteRequest(pr, j, body) ==
    [FreeSlot EXCEPT !.at = "sent", !.op = "complete", !.by = pr,
                     !.job = j, !.body = body]

Awaited(s) == \E p \in Passes : req[p] = s

\* The answer leaves the control plane; nobody reads it after a timeout.
Replied(s, page, ok) ==
    IF Awaited(s)
    THEN [call[s] EXCEPT !.at = "replied", !.page = page, !.ok = ok]
    ELSE FreeSlot

\* Mutation: the poll forgets its provider_id filter.
MineAnyProvider(pr) == {j \in Jobs : assignee[j] # Null /\ status[j] = "assigned"}

Mine(pr) == {j \in Jobs : assignee[j] = pr /\ status[j] = "assigned"}

\* Mutation: off by one in the page size.
PageOneShort(pr) ==
    {j \in Mine(pr) : Cardinality({k \in Mine(pr) : created[k] < created[j]}) < Limit - 1}

\* The `Limit` oldest assigned jobs of a provider.
Page(pr) ==
    {j \in Mine(pr) : Cardinality({k \in Mine(pr) : created[k] < created[j]}) < Limit}

\* pollJobsForNode: a read; it claims nothing.  404 without a providers row.
PollJobsForNode(s) ==
    /\ call[s].at = "sent"
    /\ call[s].op = "poll"
    /\ LET pr == call[s].by IN
       call' = [call EXCEPT ![s] =
                  Replied(s, IF pr \in registered THEN Page(pr) ELSE {},
                          pr \in registered)]
    /\ UNCHANGED <<dbVars, daemonVars, faults>>

\* completeJobForNode up to its update: who asks and whose job it is.  The
\* status the job has is read and not looked at.
CheckCompletion(s) ==
    /\ call[s].at = "sent"
    /\ call[s].op = "complete"
    /\ LET c == call[s] IN
       call' = [call EXCEPT ![s] =
                  IF c.by \in registered /\ assignee[c.job] = c.by
                  THEN [c EXCEPT !.at = "mark"]
                  ELSE Replied(s, {}, FALSE)]
    /\ UNCHANGED <<dbVars, daemonVars, faults>>

\* Mutation: a failed job is put back for another try.
MarkJobRequeues(s) ==
    /\ call[s].at = "mark"
    /\ status' = [status EXCEPT ![call[s].job] =
                    IF call[s].body = "failed" THEN "assigned" ELSE "completed"]
    /\ call' = [call EXCEPT ![s].at =
                  IF call[s].body = "completed" /\ call[s].job \in Paid
                  THEN "pay" ELSE "receipt"]
    /\ UNCHANGED <<registered, assignee, created, payouts, receipts, daemonVars, faults>>

\* ... the update of the jobs row ...
MarkJob(s) ==
    /\ call[s].at = "mark"
    /\ LET c == call[s] IN
       /\ status' = [status EXCEPT ![c.job] = c.body]
       /\ call' = [call EXCEPT ![s].at =
                     IF c.body = "completed" /\ c.job \in Paid
                     THEN "pay" ELSE "receipt"]
    /\ UNCHANGED <<registered, assignee, created, payouts, receipts, daemonVars, faults>>

\* ... the insert of the outbound payment; an error of it is only logged (the
\* foreign key fails once the provider's row is gone) ...
InsertPayout(s) ==
    /\ call[s].at = "pay"
    /\ payouts' = IF call[s].by \in registered
                  THEN [payouts EXCEPT ![call[s].job] = @ + 1]
                  ELSE payouts
    /\ call' = [call EXCEPT ![s].at = "receipt"]
    /\ UNCHANGED <<registered, status, assignee, created, receipts, daemonVars, faults>>

\* ... and the CPR receipt with a fresh receipt_id, then the answer.
EnqueueReceipt(s) ==
    /\ call[s].at = "receipt"
    /\ receipts' = [receipts EXCEPT ![call[s].job][call[s].body] = @ + 1]
    /\ call' = [call EXCEPT ![s] = Replied(s, {}, TRUE)]
    /\ UNCHANGED <<registered, status, assignee, created, payouts, daemonVars, faults>>

-----------------------------------------------------------------------------
(* The daemon: pollJobs() and processJob(). *)

Goto(p, from, to) ==
    /\ pc[p] = from
    /\ pc' = [pc EXCEPT ![p] = to]

StartPass(p) ==
    /\ Owner(p) \in up
    /\ Goto(p, "idle", "polling")
    /\ \E s \in Slots : Send(p, s, PollRequest(Owner(p)))
    /\ UNCHANGED <<dbVars, up, todo, cur, active, runs, faults>>

\* The request p awaits is answered; its slot is free again.
Answer(p) ==
    /\ req[p] # Null
    /\ call[req[p]].at = "replied"
    /\ call' = [call EXCEPT ![req[p]] = FreeSlot]
    /\ req' = [req EXCEPT ![p] = Null]

PollAnswered(p) ==
    /\ Answer(p)
    /\ Goto(p, "polling", IF call[req[p]].ok THEN "next" ELSE "idle")
    /\ todo' = [todo EXCEPT ![p] = call[req[p]].page]
    /\ UNCHANGED <<dbVars, up, cur, active, runs, faults>>

\* The next job of the list, oldest first.
PickJob(p) ==
    /\ \E j \in todo[p] :
         /\ \A k \in todo[p] : created[j] <= created[k]
         /\ todo' = [todo EXCEPT ![p] = @ \ {j}]
         /\ cur' = [cur EXCEPT ![p] = j]
         /\ active' = [active EXCEPT ![Owner(p)] = @ \cup {j}]
    /\ Goto(p, "next", "running")
    /\ UNCHANGED <<dbVars, call, up, req, runs, faults>>

EndPass(p) ==
    /\ todo[p] = {}
    /\ Goto(p, "next", "idle")
    /\ UNCHANGED <<dbVars, call, up, todo, cur, req, active, runs, faults>>

\* The job ran; client.completeJob(...).
RunSucceeds(p) ==
    /\ Goto(p, "running", "completing")
    /\ runs' = [runs EXCEPT ![cur[p]] = @ + 1]
    /\ \E s \in Slots : Send(p, s, CompleteRequest(Owner(p), cur[p], "completed"))
    /\ UNCHANGED <<dbVars, up, todo, cur, active, faults>>

\* Mutation: the catch block leaves the id in activeJobIds.
RunFailsLeaksId(p) ==
    /\ Goto(p, "running", "erring")
    /\ UNCHANGED <<dbVars, call, up, todo, cur, req, active, runs, faults>>

\* Mutation: an error of the engine is reported as a completion.
RunFailsCompletes(p) ==
    /\ Goto(p, "running", "completing")
    /\ \E s \in Slots : Send(p, s, CompleteRequest(Owner(p), cur[p], "completed"))
    /\ UNCHANGED <<dbVars, up, todo, cur, active, runs, faults>>

\* The catch block takes the job out of activeJobIds before it reports it.
RunFails(p) ==
    /\ Goto(p, "running", "erring")
    /\ active' = [active EXCEPT ![Owner(p)] = @ \ {cur[p]}]
    /\ UNCHANGED <<dbVars, call, up, todo, cur, req, runs, faults>>

\* client.failJob(...).
SendFailure(p) ==
    /\ Goto(p, "erring", "failing")
    /\ \E s \in Slots : Send(p, s, CompleteRequest(Owner(p), cur[p], "failed"))
    /\ UNCHANGED <<dbVars, up, todo, cur, active, runs, faults>>

\* Any answer of completeJob other than a 2xx goes to the same catch block.
CompletionAnswered(p) ==
    /\ Answer(p)
    /\ Goto(p, "completing", IF call[req[p]].ok THEN "next" ELSE "erring")
    /\ active' = [active EXCEPT ![Owner(p)] = @ \ {cur[p]}]
    /\ cur' = IF call[req[p]].ok THEN [cur EXCEPT ![p] = Null] ELSE cur
    /\ UNCHANGED <<dbVars, up, todo, runs, faults>>

\* The outcome of failJob is only logged.
FailureAnswered(p) ==
    /\ Answer(p)
    /\ Goto(p, "failing", "next")
    /\ cur' = [cur EXCEPT ![p] = Null]
    /\ UNCHANGED <<dbVars, up, todo, active, runs, faults>>

-----------------------------------------------------------------------------
(* Faults, at most MaxFaults of them. *)

Fault ==
    /\ faults < MaxFaults
    /\ faults' = faults + 1

\* The request never arrives, or its handler throws or dies where it stands:
\* the client sees an error and what was done stays done.
RequestDies(s) ==
    /\ Fault
    /\ call[s].at \notin {"free", "replied"}
    /\ call' = [call EXCEPT ![s] = Replied(s, {}, FALSE)]
    /\ UNCHANGED <<dbVars, daemonVars>>

\* The insert of the payment fails and the handler goes on.
PayoutFails(s) ==
    /\ Fault
    /\ call[s].at = "pay"
    /\ call' = [call EXCEPT ![s].at = "receipt"]
    /\ UNCHANGED <<dbVars, daemonVars>>

\* The abort timer of signedFetch fires, or the answer is lost: the handler
\* goes on unawaited.
Timeout(p) ==
    /\ Fault
    /\ req[p] # Null
    /\ req' = [req EXCEPT ![p] = Null]
    /\ call' = IF call[req[p]].at = "replied"
               THEN [call EXCEPT ![req[p]] = FreeSlot] ELSE call
    /\ pc' = [pc EXCEPT ![p] = CASE pc[p] = "polling"    -> "idle"
                                 [] pc[p] = "completing" -> "erring"
                                 [] OTHER                -> "next"]
    /\ active' = IF pc[p] = "completing"
                 THEN [active EXCEPT ![Owner(p)] = @ \ {cur[p]}] ELSE active
    /\ cur' = IF pc[p] = "failing" THEN [cur EXCEPT ![p] = Null] ELSE cur
    /\ UNCHANGED <<dbVars, up, todo, runs>>

\* The insert into cpr_receipts_queue fails: enqueueAndFlush rejects and the
\* rejection is only logged.
ReceiptFails(s) ==
    /\ Fault
    /\ call[s].at = "receipt"
    /\ call' = [call EXCEPT ![s] = Replied(s, {}, TRUE)]
    /\ UNCHANGED <<dbVars, daemonVars>>

\* The process exits (a crash, or shutdown()'s process.exit) with passes under
\* way; the requests it had sent are still served.
DaemonStops(pr) ==
    /\ Fault
    /\ pr \in up
    /\ up' = up \ {pr}
    /\ pc' = [p \in Passes |-> IF Owner(p) = pr THEN "idle" ELSE pc[p]]
    /\ todo' = [p \in Passes |-> IF Owner(p) = pr THEN {} ELSE todo[p]]
    /\ cur' = [p \in Passes |-> IF Owner(p) = pr THEN Null ELSE cur[p]]
    /\ req' = [p \in Passes |-> IF Owner(p) = pr THEN Null ELSE req[p]]
    /\ call' = [s \in Slots |->
                  IF call[s].at = "replied" /\ \E p \in PassesOf(pr) : req[p] = s
                  THEN FreeSlot ELSE call[s]]
    /\ active' = [active EXCEPT ![pr] = {}]
    /\ UNCHANGED <<dbVars, runs>>

\* systemd starts the service again (Restart=on-failure).
DaemonStarts(pr) ==
    /\ pr \notin up
    /\ up' = up \cup {pr}
    /\ UNCHANGED <<dbVars, call, pc, todo, cur, req, active, runs, faults>>

-----------------------------------------------------------------------------
Serve(s) ==
    \/ PollJobsForNode(s) \/ CheckCompletion(s) \/ MarkJob(s)
    \/ InsertPayout(s) \/ EnqueueReceipt(s)

RunPass(p) ==
    \/ PollAnswered(p) \/ PickJob(p) \/ EndPass(p)
    \/ RunSucceeds(p) \/ RunFails(p) \/ SendFailure(p)
    \/ CompletionAnswered(p) \/ FailureAnswered(p)

Next ==
    \/ \E j \in Jobs : CreateChatJob(j) \/ SubmitJob(j)
    \/ \E pr \in Providers : RemoveNode(pr) \/ DaemonStops(pr) \/ DaemonStarts(pr)
    \/ \E s \in Slots : Serve(s) \/ RequestDies(s) \/ PayoutFails(s) \/ ReceiptFails(s)
    \/ \E p \in Passes : StartPass(p) \/ RunPass(p) \/ Timeout(p)

\* The event loop runs what is ready, the poll timer keeps firing, the control
\* plane serves what it receives and systemd restarts the daemon.
Fairness ==
    /\ \A s \in Slots : WF_vars(Serve(s))
    /\ \A p \in Passes : WF_vars(StartPass(p)) /\ WF_vars(RunPass(p))
    /\ \A pr \in Providers : WF_vars(DaemonStarts(pr))

Spec == Init /\ [][Next]_vars
FairSpec == Spec /\ Fairness

-----------------------------------------------------------------------------
(* Properties. *)

\* The jobs a daemon may have been given.
Given(j) == status[j] \in {"assigned"} \cup Finished

(***************************************************************************)
(* A daemon only ever runs, or has on its list, a job that was assigned to *)
(* it (or whose provider row is gone since): the list is a page read some  *)
(* time ago, and no later answer of a poll may mix the providers up.       *)
(***************************************************************************)
RunsOwnJobs ==
    \A p \in Passes : \A j \in (todo[p] \cup {cur[p]}) \ {Null} :
        Given(j) /\ assignee[j] \in {Owner(p), Null}

(***************************************************************************)
(* No job is 'completed' in the jobs table unless its provider really ran  *)
(* it to the end, whatever requests were lost, late or repeated.           *)
(***************************************************************************)
CompletedWasRun == \A j \in Jobs : status[j] = "completed" => runs[j] > 0

(***************************************************************************)
(* stats.activeJobIds feeds the heartbeat's load and with it the picker's  *)
(* saturation filter.  An id left behind would shrink the node's capacity  *)
(* for good: every id in it is a job some pass is busy with.               *)
(***************************************************************************)
ActiveIsBusy ==
    \A pr \in Providers : \A j \in active[pr] :
        \E p \in PassesOf(pr) : cur[p] = j /\ pc[p] \in {"running", "completing"}

\* No completion of j is between its first write and its last one.
Quiet(j) == \A s \in Slots : call[s].job = j => call[s].at \notin {"pay", "receipt"}

(***************************************************************************)
(* The books agree once nothing is under way and nothing failed: the       *)
(* status of a finished job has its CPR receipt, and a paid job that is    *)
(* completed has its outbound payment, although the three rows are written *)
(* one after the other and other completions of the job may interleave.    *)
(***************************************************************************)
BooksAgree ==
    \A j \in Jobs :
        status[j] \in Finished /\ Quiet(j) /\ faults = 0 =>
            /\ receipts[j][status[j]] > 0
            /\ status[j] = "completed" /\ j \in Paid /\ assignee[j] # Null
                 => payouts[j] > 0

\* What the three tables owe each other, in good times and in bad.
BooksHold == ActiveIsBusy /\ BooksAgree

Contract ==
    INSTANCE JobContract
        WITH status <- status, assignee <- assignee, runs <- runs, payouts <- payouts

(***************************************************************************)
(* completeJobForNode, with all its awaits, implements JobContract: only a *)
(* job given to a provider is ever finished, it stays finished, and it is  *)
(* paid at most once per execution.                                        *)
(***************************************************************************)
ImplementsContract == Contract!Spec

(***************************************************************************)
(* A job assigned to a provider is finished in the end, or its provider's  *)
(* row is removed: the daemon polls again after every failure.             *)
(***************************************************************************)
AssignedFinishes ==
    \A j \in Jobs :
        status[j] = "assigned" ~> (status[j] \in Finished \/ assignee[j] = Null)

(***************************************************************************)
(* What ipips/ipip-0014.md asks of POST /jobs/{id}/complete: its payment   *)
(* settlement is exactly-once.  The code does not keep it.                 *)
(***************************************************************************)
AtMostOnePayout == \A j \in Jobs : payouts[j] <= 1
=============================================================================
