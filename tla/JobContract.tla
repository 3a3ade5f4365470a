----------------------------- MODULE JobContract -----------------------------
(***************************************************************************)
(* What the control plane promises about one job at a time, without        *)
(* requests, passes or faults: who may have the job, when it may be        *)
(* finished, and what may be paid for it.  NodeJobs implements it.         *)
(*                                                                         *)
(* The contract is weaker than one would first write: a finished job may   *)
(* be finished again, with the other outcome, because completeJobForNode   *)
(* reads jobs.status and does not look at it.                              *)
(***************************************************************************)
EXTENDS Integers

CONSTANTS Jobs, Providers, Paid, Null

VARIABLES
    status,    \* jobs.status
    assignee,  \* the provider a job was assigned to and that still exists
    runs,      \* executions of the job that its provider ended
    payouts    \* outbound payments recorded for the job

vars == <<status, assignee, runs, payouts>>

Finished == {"completed", "failed"}
Given(j) == status[j] \in {"assigned"} \cup Finished

Init ==
    /\ status = [j \in Jobs |-> "absent"]
    /\ assignee = [j \in Jobs |-> Null]
    /\ runs = [j \in Jobs |-> 0]
    /\ payouts = [j \in Jobs |-> 0]

Submit(j) ==
    /\ status[j] = "absent"
    /\ \/ \E pr \in Providers :
            /\ status' = [status EXCEPT ![j] = "assigned"]
            /\ assignee' = [assignee EXCEPT ![j] = pr]
       \/ /\ \E st \in {"pending", "running"} : status' = [status EXCEPT ![j] = st]
          /\ assignee' = [assignee EXCEPT ![j] = Null]
    /\ UNCHANGED <<runs, payouts>>

\* A provider leaves: its jobs stay where they are, with nobody to run them.
Leave(pr) ==
    /\ assignee' = [j \in Jobs |-> IF assignee[j] = pr THEN Null ELSE assignee[j]]
    /\ UNCHANGED <<status, runs, payouts>>

Work(j) ==
    /\ Given(j)
    /\ runs' = [runs EXCEPT ![j] = @ + 1]
    /\ UNCHANGED <<status, assignee, payouts>>

Finish(j, outcome) ==
    /\ Given(j)
    /\ outcome = "completed" => runs[j] > 0
    /\ status' = [status EXCEPT ![j] = outcome]
    /\ UNCHANGED <<assignee, runs, payouts>>

\* At most one payment per execution, and only while the provider exists.
Pay(j) ==
    /\ j \in Paid
    /\ status[j] \in Finished
    /\ payouts[j] < runs[j]
    /\ payouts' = [payouts EXCEPT ![j] = @ + 1]
    /\ UNCHANGED <<status, assignee, runs>>

Next ==
    \/ \E j \in Jobs :
         Submit(j) \/ Work(j) \/ Pay(j) \/ \E o \in Finished : Finish(j, o)
    \/ \E pr \in Providers : Leave(pr)

Spec == Init /\ [][Next]_vars
=============================================================================
