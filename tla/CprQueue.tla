------------------------------ MODULE CprQueue ------------------------------
(***************************************************************************)
(* The outbox of CPR receipts (apps/web/lib/cpr).                          *)
(*                                                                         *)
(* A completion handler inserts a receipt into `cpr_receipts_queue` and    *)
(* posts it at once; a scheduler calls /api/cron/cpr, which posts the      *)
(* pending rows whose back-off is over.  No worker claims a row, so the    *)
(* flush of a handler and any number of drains may post one row at the     *)
(* same time and then each write its own verdict.                          *)
(*                                                                         *)
(* CPR is an outside service; it is modelled from the statuses the code    *)
(* tells apart, and from "a duplicate POST gets 409 Conflict".             *)
(***************************************************************************)
EXTENDS Integers, FiniteSets

CONSTANTS
    Receipts,     \* receipt ids
    Drains,       \* drainPendingReceipts() calls that may overlap
    Limit,        \* batchSize
    MaxAttempts,  \* MAX_ATTEMPTS
    MaxFaults,    \* faults that may happen in a behaviour (bound)
    NoReceipt

ASSUME CprQueueAssumption ==
    /\ Limit \in Nat \ {0}
    /\ MaxAttempts \in Nat \ {0}
    /\ MaxFaults \in Nat
    /\ NoReceipt \notin Receipts \cup Drains
    /\ Receipts \cap Drains = {}

VARIABLES
    (* cpr_receipts_queue *)
    status,     \* status, "absent" before the insert
    attempts,   \* attempts
    ready,      \* next_attempt_at <= now
    (* the outside world *)
    configured, \* CPR_ISSUER_API_KEY is set
    accepted,   \* receipts CPR holds
    refused,    \* receipts CPR answered with a 4xx that is no duplicate
    late,       \* posts given up by their sender that may still arrive
    (* workers: the completion handler of each receipt, and the drains *)
    pc,
    page,       \* rows the worker has not processed
    cur,        \* the row tryFlushReceipt() is busy with
    read,       \* attempts as markRetry() read it
    (* history and bounds *)
    tries,      \* posts of a receipt that ended with a retry verdict
    faults

queueVars == <<status, attempts, ready>>
cprVars == <<accepted, refused, late>>
workerVars == <<pc, page, cur, read>>
vars == <<queueVars, configured, cprVars, workerVars, tries, faults>>

Workers == Receipts \cup Drains
EndStates == {"sent", "failed", "permanent_fail"}

TypeOK ==
    /\ status \in [Receipts -> {"absent", "pending"} \cup EndStates]
    /\ attempts \in [Receipts -> Nat]
    /\ ready \in [Receipts -> BOOLEAN]
    /\ configured \in BOOLEAN
    /\ accepted \subseteq Receipts
    /\ refused \subseteq Receipts
    /\ late \subseteq Receipts
    /\ pc \in [Workers -> {"idle", "loop", "posting", "sent", "retry",
                           "retrying", "permanent_fail"}]
    /\ page \in [Workers -> SUBSET Receipts]
    /\ cur \in [Workers -> Receipts \cup {NoReceipt}]
    /\ read \in [Workers -> Nat]
    /\ tries \in [Receipts -> Nat]
    /\ faults \in 0..MaxFaults

Init ==
    /\ status = [r \in Receipts |-> "absent"]
    /\ attempts = [r \in Receipts |-> 0]
    /\ ready = [r \in Receipts |-> FALSE]
    /\ configured \in BOOLEAN
    /\ accepted = {} /\ refused = {} /\ late = {}
    /\ pc = [w \in Workers |-> "idle"]
    /\ page = [w \in Workers |-> {}]
    /\ cur = [w \in Workers |-> NoReceipt]
    /\ read = [w \in Workers |-> 0]
    /\ tries = [r \in Receipts |-> 0]
    /\ faults = 0

Goto(w, from, to) ==
    /\ pc[w] = from
    /\ pc' = [pc EXCEPT ![w] = to]

-----------------------------------------------------------------------------
(* Choosing rows. *)

\* enqueueAndFlush: the insert.  A fresh receipt_id, so at most once per receipt.
EnqueueReceipt(r) ==
    /\ status[r] = "absent"
    /\ Goto(r, "idle", "loop")
    /\ status' = [status EXCEPT ![r] = "pending"]
    /\ ready' = [ready EXCEPT ![r] = TRUE]
    /\ page' = [page EXCEPT ![r] = {r}]
    /\ UNCHANGED <<attempts, configured, cprVars, cur, read, tries, faults>>

Drainable == {r \in Receipts : status[r] = "pending" /\ ready[r]}

\* The select of drainPendingReceipts.  Which due rows come first is left open.
SelectPage(d) ==
    /\ Goto(d, "idle", "loop")
    /\ \E rs \in SUBSET Drainable \ {{}} :
         /\ Cardinality(rs) <= Limit
         /\ rs = Drainable \/ Cardinality(rs) = Limit
         /\ page' = [page EXCEPT ![d] = rs]
    /\ UNCHANGED <<queueVars, configured, cprVars, cur, read, tries, faults>>

\* The next row: tryFlushReceipt leaves it alone when CPR is not configured.
TakeRow(w) ==
    /\ pc[w] = "loop"
    /\ \E r \in page[w] :
         /\ page' = [page EXCEPT ![w] = @ \ {r}]
         /\ IF configured
            THEN /\ cur' = [cur EXCEPT ![w] = r]
                 /\ pc' = [pc EXCEPT ![w] = "posting"]
            ELSE UNCHANGED <<cur, pc>>
    /\ UNCHANGED <<queueVars, configured, cprVars, read, tries, faults>>

Finish(w) ==
    /\ page[w] = {}
    /\ Goto(w, "loop", "idle")
    /\ UNCHANGED <<queueVars, configured, cprVars, page, cur, read, tries, faults>>

-----------------------------------------------------------------------------
(* submitReceipt and classifyResult.  Every HTTP answer maps to a verdict,   *)
(* a network error or the 10 s abort to "retry".                             *)

\* CPR takes the receipt in, once.
CprHolds(r) ==
    /\ accepted' = accepted \cup {r}

\* 2xx for a new receipt.
Accepts(w) ==
    /\ cur[w] \notin accepted
    /\ CprHolds(cur[w])
    /\ Goto(w, "posting", "sent")
    /\ UNCHANGED <<queueVars, configured, refused, late, page, cur, read, tries, faults>>

\* 409 Conflict for a receipt CPR holds already.
Conflicts(w) ==
    /\ cur[w] \in accepted
    /\ CprHolds(cur[w])
    /\ Goto(w, "posting", "permanent_fail")
    /\ UNCHANGED <<queueVars, configured, refused, late, page, cur, read, tries, faults>>

\* Any other 4xx, except 408 and 429.
Refuses(w) ==
    /\ Goto(w, "posting", "permanent_fail")
    /\ refused' = refused \cup {cur[w]}
    /\ UNCHANGED <<queueVars, configured, accepted, late, page, cur, read, tries, faults>>

\* 408, 429 or 5xx.
Busy(w) ==
    /\ Goto(w, "posting", "retry")
    /\ UNCHANGED <<queueVars, configured, cprVars, page, cur, read, tries, faults>>

Fault ==
    /\ faults < MaxFaults
    /\ faults' = faults + 1

\* The answer does not come: the post is lost, is late, or arrived before.
NoAnswer(w) ==
    /\ Fault
    /\ Goto(w, "posting", "retry")
    /\ late' \in {late, late \cup {cur[w]}}
    /\ UNCHANGED <<queueVars, configured, accepted, refused, page, cur, read, tries>>

LateArrival(r) ==
    /\ r \in late
    /\ late' = late \ {r}
    /\ CprHolds(r)
    /\ UNCHANGED <<queueVars, configured, refused, workerVars, tries, faults>>

-----------------------------------------------------------------------------
(* Writing the verdict.  Errors of these updates are not looked at.          *)

LeavesRow(w, from) ==
    /\ Goto(w, from, "loop")
    /\ cur' = [cur EXCEPT ![w] = NoReceipt]
    /\ read' = [read EXCEPT ![w] = 0]

\* markSent, markPermanentFail
MarkFinal(w) ==
    /\ pc[w] \in {"sent", "permanent_fail"}
    /\ status' = [status EXCEPT ![cur[w]] = pc[w]]
    /\ LeavesRow(w, pc[w])
    /\ UNCHANGED <<attempts, ready, configured, cprVars, page, tries, faults>>

\* markRetry reads the counter; a failed read counts as 0.
ReadAttempts(w) ==
    /\ Goto(w, "retry", "retrying")
    /\ \/ read' = [read EXCEPT ![w] = attempts[cur[w]]] /\ UNCHANGED faults
       \/ Fault /\ UNCHANGED read
    /\ UNCHANGED <<queueVars, configured, cprVars, page, cur, tries>>

\* Mutation: the row is given up one attempt early.
MarkRetryEarly(w) ==
    LET r == cur[w] IN
    /\ pc[w] = "retrying"
    /\ attempts' = [attempts EXCEPT ![r] = read[w] + 1]
    /\ status' = [status EXCEPT
                   ![r] = IF read[w] + 2 >= MaxAttempts THEN "failed" ELSE "pending"]
    /\ ready' = [ready EXCEPT ![r] = FALSE]
    /\ tries' = [tries EXCEPT ![r] = @ + 1]
    /\ LeavesRow(w, "retrying")
    /\ UNCHANGED <<configured, cprVars, page, faults>>

\* Mutation: the value read before the post is written back without the increment.
MarkRetryStuck(w) ==
    LET r == cur[w] IN
    /\ pc[w] = "retrying"
    /\ ready' = [ready EXCEPT ![r] = FALSE]
    /\ status' = [status EXCEPT ![r] = "pending"]
    /\ LeavesRow(w, "retrying")
    /\ UNCHANGED <<attempts, tries, configured, cprVars, page, faults>>

\* ... and writes it back, one higher, with the status and the next date.
MarkRetry(w) ==
    LET r == cur[w] IN
    /\ pc[w] = "retrying"
    /\ attempts' = [attempts EXCEPT ![r] = read[w] + 1]
    /\ status' = [status EXCEPT
                   ![r] = IF read[w] + 1 >= MaxAttempts THEN "failed" ELSE "pending"]
    /\ ready' = [ready EXCEPT ![r] = FALSE]
    /\ tries' = [tries EXCEPT ![r] = @ + 1]
    /\ LeavesRow(w, "retrying")
    /\ UNCHANGED <<configured, cprVars, page, faults>>

-----------------------------------------------------------------------------
(* Time, the operator and the remaining faults. *)

\* The update fails and nobody notices.
MarkFails(w) ==
    /\ Fault
    /\ \/ pc[w] \in {"sent", "permanent_fail"} /\ LeavesRow(w, pc[w]) /\ UNCHANGED tries
       \/ LeavesRow(w, "retrying") /\ tries' = [tries EXCEPT ![cur[w]] = @ + 1]
    /\ UNCHANGED <<queueVars, configured, cprVars, page>>

\* The worker's process dies; a post under way may still arrive.
WorkerDies(w) ==
    /\ Fault
    /\ pc[w] # "idle"
    /\ late' \in {late, late \cup (IF pc[w] = "posting" THEN {cur[w]} ELSE {})}
    /\ pc' = [pc EXCEPT ![w] = "idle"]
    /\ page' = [page EXCEPT ![w] = {}]
    /\ cur' = [cur EXCEPT ![w] = NoReceipt]
    /\ read' = [read EXCEPT ![w] = 0]
    /\ UNCHANGED <<queueVars, configured, accepted, refused, tries>>

BackoffEnds(r) ==
    /\ status[r] = "pending" /\ ~ready[r]
    /\ ready' = [ready EXCEPT ![r] = TRUE]
    /\ UNCHANGED <<status, attempts, configured, cprVars, workerVars, tries, faults>>

\* The operator deploys with the issuer key.
Configure ==
    /\ ~configured
    /\ configured' = TRUE
    /\ UNCHANGED <<queueVars, cprVars, workerVars, tries, faults>>

-----------------------------------------------------------------------------

\* What a worker does of itself, once it has rows to process.
WorkerStep(w) ==
    \/ TakeRow(w) \/ Finish(w)
    \/ Accepts(w) \/ Conflicts(w) \/ Refuses(w) \/ Busy(w)
    \/ MarkFinal(w) \/ ReadAttempts(w) \/ MarkRetry(w)

Next ==
    \/ \E r \in Receipts : EnqueueReceipt(r) \/ BackoffEnds(r) \/ LateArrival(r)
    \/ \E d \in Drains : SelectPage(d)
    \/ \E w \in Workers : WorkerStep(w) \/ NoAnswer(w) \/ MarkFails(w) \/ WorkerDies(w)
    \/ Configure

Spec == Init /\ [][Next]_vars

\* The scheduler goes on calling the drain, functions run on, time passes.
Fairness ==
    /\ \A w \in Workers : WF_vars(WorkerStep(w))
    /\ \A d \in Drains : WF_vars(SelectPage(d))
    /\ \A r \in Receipts : WF_vars(BackoffEnds(r))

FairSpec == Spec /\ Fairness

-----------------------------------------------------------------------------
(* Properties. *)

\* Workers that overlap, lost updates and failed reads make markRetry lose
\* attempts, but the counter never runs ahead of the posts that were retried.
AttemptsWithinTries == \A r \in Receipts : attempts[r] <= tries[r]

\* No receipt leaves the queue for nothing: a sent row is in CPR, a failed row
\* was tried MaxAttempts times, and a permanent failure is an answer of CPR.
NotAbandoned ==
    \A r \in Receipts :
        /\ status[r] = "sent" => r \in accepted
        /\ status[r] = "failed" => tries[r] >= MaxAttempts
        /\ status[r] = "permanent_fail" => r \in refused \cup accepted

\* Once CPR is configured, every queued receipt is settled for good, although
\* workers that overlap may reopen a row and lose attempts of it.
Settles ==
    \A r \in Receipts :
        (status[r] # "absent" /\ configured) ~> [](status[r] \in EndStates)

=============================================================================
