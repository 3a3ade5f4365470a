--------------------------- MODULE PaymentContract ---------------------------
(***************************************************************************)
(* What a client may rely on about the payment of its job: the job has one *)
(* current invoice, it says 'confirmed' only of money the gateway has, and *)
(* it takes that back only for a new invoice or after reports that crossed *)
(* each other.  Payments implements it.                                    *)
(*                                                                         *)
(* The contract is weaker than one would first write.  A job that is paid  *)
(* may get another invoice, which makes it unpaid again, and a payment of  *)
(* an invoice that is no longer current does not count for the job.        *)
(***************************************************************************)
CONSTANTS Jobs, Invoices, Null

VARIABLES
    current,   \* the invoice a job names
    standing,  \* what the job says of its payment
    paid,      \* the invoices the gateway has the money of
    crossed    \* the invoices whose reports were handled out of turn

vars == <<current, standing, paid, crossed>>

Init ==
    /\ current = [j \in Jobs |-> Null]
    /\ standing = [j \in Jobs |-> "unpaid"]
    /\ paid = {}
    /\ crossed = {}

Issue(j, i) ==
    /\ \A k \in Jobs : current[k] # i
    /\ current' = [current EXCEPT ![j] = i]
    /\ standing' = [standing EXCEPT ![j] = "invoiced"]
    /\ UNCHANGED <<paid, crossed>>

Pay(i) ==
    /\ paid' = paid \cup {i}
    /\ UNCHANGED <<current, standing, crossed>>

Cross(i) ==
    /\ crossed' = crossed \cup {i}
    /\ UNCHANGED <<current, standing, paid>>

Say(j, st) ==
    /\ current[j] # Null
    /\ st = "confirmed" => current[j] \in paid
    /\ standing[j] = "confirmed" /\ st # "confirmed" => current[j] \in crossed
    /\ standing' = [standing EXCEPT ![j] = st]
    /\ UNCHANGED <<current, paid, crossed>>

Next ==
    \/ \E i \in Invoices : Pay(i) \/ Cross(i) \/ \E j \in Jobs : Issue(j, i)
    \/ \E j \in Jobs : \E st \in {"pending", "confirmed", "failed"} : Say(j, st)

Spec == Init /\ [][Next]_vars
=============================================================================
