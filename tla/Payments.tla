------------------------------ MODULE Payments ------------------------------
(***************************************************************************)
(* Inbound payments: invoices and the gateway's webhooks.                  *)
(*                                                                         *)
(* POST /api/payments/invoice reads the job, asks CoinPayPortal for an     *)
(* invoice, writes it into the job and inserts a payment_transactions row. *)
(* POST /api/payments/webhook writes what the gateway reports into that    *)
(* row and mirrors it on the job.  These are four writes without a         *)
(* transaction, by handlers that overlap; none of them looks at the status *)
(* it replaces.                                                            *)
(*                                                                         *)
(* The gateway is outside the repository.  It is modelled from what the    *)
(* code expects of it (packages/payments): it reports every change of an   *)
(* invoice to the callback URL, in any order, until it gets a 2xx.         *)
(***************************************************************************)
EXTENDS Integers, FiniteSets

CONSTANTS
    Jobs,      \* rows of `jobs`
    MaxInvoices, \* invoices the gateway issues, numbered (bound)
    MaxAsks,   \* calls of the invoice route, numbered as they arrive (bound)
    MaxHooks,  \* webhook requests handled at the same time (bound)
    MaxUpsets, \* faults that may happen in a behaviour (bound)
    Null

ASSUME PaymentsAssumption ==
    /\ {MaxAsks, MaxHooks, MaxInvoices} \subseteq Nat
    /\ MaxUpsets \in Nat
    /\ Null \notin Jobs \cup Nat

VARIABLES
    pay,      \* the payment columns of a job
    ledger,   \* the inbound payment_transactions row of an invoice
    ask,      \* a call of the invoice route
    hook,     \* a webhook request
    gateway,  \* an invoice at CoinPayPortal
    due,      \* reports the gateway has to deliver
    setup,    \* which of the environment variables are set
    raced,    \* history: the invoices whose reports were handled out of turn
    upsets

payVars == <<pay, ledger, ask, hook, gateway, due, setup, raced, upsets>>

Asks == 1..MaxAsks
Hooks == 1..MaxHooks
Invoices == 1..MaxInvoices
Verdicts == {"pending", "confirmed", "failed"}

\* What the gateway calls the state of an invoice.
Words == [pending |-> {"waiting"}, confirmed |-> {"paid"}, failed |-> {"expired"}]

\* parseWebhookPayload looks for words in the status.  Anything else is pending.
ParseWebhookPayload(raw) ==
    IF raw \in {"confirmed", "completed", "paid", "success"} THEN "confirmed"
    ELSE IF raw \in {"failed", "expired", "cancelled", "canceled"} THEN "failed"
    ELSE "pending"

Variables == {"url", "key", "secret"}
Reports == [invoice : Invoices, raw : UNION {Words[v] : v \in Verdicts}]

NoHook == [at |-> "free", report |-> Null]

PayTypeOK ==
    /\ pay \in [Jobs -> [status : {"unpaid", "invoiced"} \cup Verdicts,
                         invoice : Invoices \cup {Null}]]
    /\ ledger \in [Invoices -> [status : {"absent"} \cup Verdicts, confirmed : BOOLEAN]]
    /\ ask \in [Asks -> [at : {"idle", "created", "updated", "done"},
                         job : Jobs \cup {Null}, invoice : Invoices \cup {Null}]]
    /\ hook \in [Hooks -> [at : {"free", "mirror"}, report : Reports \cup {Null}]]
    /\ gateway \in [Invoices -> [state : {"none", "open", "seen", "paid", "void"},
                                 order : Jobs \cup {Null}, calls : BOOLEAN]]
    /\ due \subseteq Reports
    /\ setup \subseteq Variables
    /\ raced \subseteq Invoices
    /\ upsets \in 0..MaxUpsets

PayInit ==
    /\ pay = [j \in Jobs |-> [status |-> "unpaid", invoice |-> Null]]
    /\ ledger = [i \in Invoices |-> [status |-> "absent", confirmed |-> FALSE]]
    /\ ask = [r \in Asks |-> [at |-> "idle", job |-> Null, invoice |-> Null]]
    /\ hook = [h \in Hooks |-> NoHook]
    /\ gateway = [i \in Invoices |-> [state |-> "none", order |-> Null, calls |-> FALSE]]
    /\ due = {}
    /\ setup \in {Variables} \cup {Variables \ {v} : v \in Variables}
    /\ raced = {}
    /\ upsets = 0

-----------------------------------------------------------------------------
(* The invoice route. *)

\* A new call; calls are numbered as they arrive.
Arrives(r) == \A q \in Asks : ask[q].at = "idle" <=> q >= r

\* createInvoice of the payments package needs the API key, and the gateway a
\* callback URL if it is to report anything.
Issue(i, j) ==
    /\ "key" \in setup
    /\ \A k \in Invoices : gateway[k].state = "none" <=> k >= i
    /\ gateway' = [gateway EXCEPT ![i] = [state |-> "open", order |-> j,
                                          calls |-> "url" \in setup]]

\* The job is found and has an offer; its payment_status is read and not used.
CreateInvoice(r) ==
    /\ Arrives(r)
    /\ \E i \in Invoices : \E j \in Jobs :
         /\ Issue(i, j)
         /\ ask' = [ask EXCEPT ![r] = [at |-> "created", job |-> j, invoice |-> i]]
    /\ UNCHANGED <<pay, ledger, hook, due, setup, raced, upsets>>

\* Without a key, or when the gateway refuses, the route answers 502.
InvoiceRefused(r) ==
    /\ Arrives(r)
    /\ ask' = [ask EXCEPT ![r].at = "done"]
    /\ UNCHANGED <<pay, ledger, hook, gateway, due, setup, raced, upsets>>

\* Mutation: a confirmed status survives the new invoice.
InvoiceJobKeepsStatus(r) ==
    /\ ask[r].at = "created"
    /\ LET j == ask[r].job IN
       pay' = [pay EXCEPT ![j].invoice = ask[r].invoice,
                          ![j].status = IF @ = "confirmed" THEN @ ELSE "invoiced"]
    /\ ask' = [ask EXCEPT ![r].at = "updated"]
    /\ UNCHANGED <<ledger, hook, gateway, due, setup, raced, upsets>>

\* The invoice replaces whatever the job had.
InvoiceJob(r) ==
    /\ ask[r].at = "created"
    /\ pay' = [pay EXCEPT ![ask[r].job] =
                 [status |-> "invoiced", invoice |-> ask[r].invoice]]
    /\ ask' = [ask EXCEPT ![r].at = "updated"]
    /\ UNCHANGED <<ledger, hook, gateway, due, setup, raced, upsets>>

InsertTransaction(r) ==
    /\ ask[r].at = "updated"
    /\ ledger' = [ledger EXCEPT ![ask[r].invoice].status = "pending"]
    /\ ask' = [ask EXCEPT ![r].at = "done"]
    /\ UNCHANGED <<pay, hook, gateway, due, setup, raced, upsets>>

-----------------------------------------------------------------------------
(* The gateway. *)

\* A report goes out only for an invoice that was given a callback.
Announce(i, raw) ==
    IF gateway[i].calls
    THEN due' = due \cup {[invoice |-> i, raw |-> raw]}
    ELSE UNCHANGED due

CustomerSends(i) ==
    /\ gateway[i].state = "open"
    /\ gateway' = [gateway EXCEPT ![i].state = "seen"]
    /\ \E raw \in Words.pending : Announce(i, raw)
    /\ UNCHANGED <<pay, ledger, ask, hook, setup, raced, upsets>>

PaymentSettles(i) ==
    /\ gateway[i].state \in {"open", "seen"}
    /\ gateway' = [gateway EXCEPT ![i].state = "paid"]
    /\ \E raw \in Words.confirmed : Announce(i, raw)
    /\ UNCHANGED <<pay, ledger, ask, hook, setup, raced, upsets>>

InvoiceLapses(i) ==
    /\ gateway[i].state \in {"open", "seen"}
    /\ gateway' = [gateway EXCEPT ![i].state = "void"]
    /\ \E raw \in Words.failed : Announce(i, raw)
    /\ UNCHANGED <<pay, ledger, ask, hook, setup, raced, upsets>>

-----------------------------------------------------------------------------
(* The webhook route. *)

\* The invoice is in the job and in the ledger, and no route is at it.
Recorded(i) ==
    /\ ledger[i].status # "absent"
    /\ \E r \in Asks : ask[r].at = "done" /\ ask[r].invoice = i

\* The report comes too early, while another one is handled, or after a verdict
\* that it contradicts.
OutOfTurn(i, verdict) ==
    \/ ~Recorded(i)
    \/ \E h \in Hooks : hook[h].at # "free" /\ hook[h].report.invoice = i
    \/ ledger[i].status \in {"confirmed", "failed"} \ {verdict}

\* Without the secret the verification of a signature throws.
Verifiable == "secret" \in setup

\* A report is taken up, if its signature can be verified; else a 500.
Verified(h, d) ==
    /\ hook[h].at = "free"
    /\ \A g \in 1..h - 1 : hook[g].at # "free"
    /\ Verifiable
    /\ d \in due
    /\ hook' = [hook EXCEPT ![h] = [at |-> "mirror", report |-> d]]
    /\ raced' = IF OutOfTurn(d.invoice, ParseWebhookPayload(d.raw))
                THEN raced \cup {d.invoice} ELSE raced
    /\ UNCHANGED <<pay, ask, gateway, due, setup, upsets>>

\* The signature is verified, the status parsed, and the row with the invoice_id
\* updated: without a row that changes nothing and is no error.
UpdateTransaction(h) ==
    \E d \in due :
        /\ Verified(h, d)
        /\ LET verdict == ParseWebhookPayload(d.raw) IN
           ledger' = IF ledger[d.invoice].status = "absent" THEN ledger
                     ELSE [ledger EXCEPT ![d.invoice] =
                             [status |-> verdict,
                              confirmed |-> @.confirmed \/ verdict = "confirmed"]]

\* Mutation: the job is found by the order, whatever invoice it names.
MirrorByOrder(h) ==
    /\ hook[h].at = "mirror"
    /\ LET d == hook[h].report
           verdict == ParseWebhookPayload(d.raw) IN
       pay' = [j \in Jobs |->
                 IF gateway[d.invoice].order # j THEN pay[j]
                 ELSE [pay[j] EXCEPT !.status = verdict]]
    /\ due' = due \ {hook[h].report}
    /\ hook' = [hook EXCEPT ![h] = NoHook]
    /\ UNCHANGED <<ledger, ask, gateway, setup, raced, upsets>>

\* Mutation: only the first report of an invoice reaches the job.
MirrorFresh(h) ==
    /\ hook[h].at = "mirror"
    /\ LET d == hook[h].report IN
       pay' = [j \in Jobs |->
                 IF pay[j].invoice # d.invoice \/ pay[j].status # "invoiced" THEN pay[j]
                 ELSE [pay[j] EXCEPT !.status = ParseWebhookPayload(d.raw)]]
    /\ due' = due \ {hook[h].report}
    /\ hook' = [hook EXCEPT ![h] = NoHook]
    /\ UNCHANGED <<ledger, ask, gateway, setup, raced, upsets>>

\* The jobs that name the invoice, if any, take over the status; a 200.
MirrorOnJob(h) ==
    /\ hook[h].at = "mirror"
    /\ LET d == hook[h].report
           verdict == ParseWebhookPayload(d.raw) IN
       pay' = [j \in Jobs |->
                 IF pay[j].invoice # d.invoice THEN pay[j]
                 ELSE [pay[j] EXCEPT !.status = verdict]]
    /\ due' = due \ {hook[h].report}
    /\ hook' = [hook EXCEPT ![h] = NoHook]
    /\ UNCHANGED <<ledger, ask, gateway, setup, raced, upsets>>

-----------------------------------------------------------------------------
(* Faults. *)

Upset ==
    /\ upsets < MaxUpsets
    /\ upsets' = upsets + 1

\* The invoice exists at the gateway and its answer is lost: a 502.
InvoiceAnswerLost(r) ==
    /\ Upset
    /\ ask[r].at = "created"
    /\ ask' = [ask EXCEPT ![r].at = "done"]
    /\ UNCHANGED <<pay, ledger, hook, gateway, due, setup, raced>>

\* A write of the invoice route fails: a 500, what was written stays.
AskFails(r) ==
    /\ Upset
    /\ ask[r].at = "updated"
    /\ ask' = [ask EXCEPT ![r].at = "done"]
    /\ UNCHANGED <<pay, ledger, hook, gateway, due, setup, raced>>

\* The write on the job fails, or the handler dies before it: the report stays due.
HookFails(h) ==
    /\ Upset
    /\ hook[h].at = "mirror"
    /\ hook' = [hook EXCEPT ![h] = NoHook]
    /\ UNCHANGED <<pay, ledger, ask, gateway, due, setup, raced>>

\* The verdicts the gateway may have reported of an invoice.
Said(i) == CASE gateway[i].state = "seen" -> {"pending"}
             [] gateway[i].state = "paid" -> {"pending", "confirmed"}
             [] gateway[i].state = "void" -> {"pending", "failed"}
             [] OTHER -> {}

\* The 200 does not reach the gateway, which delivers the report again.
ReportAgain(i) ==
    /\ Upset
    /\ \E verdict \in Said(i) : \E raw \in Words[verdict] :
         /\ [invoice |-> i, raw |-> raw] \notin due
         /\ Announce(i, raw)
    /\ UNCHANGED <<pay, ledger, ask, hook, gateway, setup, raced>>

-----------------------------------------------------------------------------
ServeAsk(r) == InvoiceJob(r) \/ InsertTransaction(r)
ServeHook(h) == UpdateTransaction(h) \/ MirrorOnJob(h)

PayNext ==
    \/ \E r \in Asks :
         \/ CreateInvoice(r) \/ InvoiceRefused(r) \/ ServeAsk(r)
         \/ InvoiceAnswerLost(r) \/ AskFails(r)
    \/ \E i \in Invoices :
         CustomerSends(i) \/ PaymentSettles(i) \/ InvoiceLapses(i) \/ ReportAgain(i)
    \/ \E h \in Hooks : ServeHook(h) \/ HookFails(h)

PaySpec == PayInit /\ [][PayNext]_payVars

\* Handlers run to their end; the gateway delivers until it is answered.
PayFairness ==
    /\ \A r \in Asks : WF_payVars(ServeAsk(r))
    /\ \A h \in Hooks : WF_payVars(ServeHook(h))

PayFairSpec == PaySpec /\ PayFairness

-----------------------------------------------------------------------------
(* Properties. *)

Paid(i) == gateway[i].state = "paid"

(***************************************************************************)
(* A job whose payment_status is 'confirmed' names an invoice that was     *)
(* made for it and that was paid, and a confirmed row of the ledger is of  *)
(* a paid invoice: neither an old invoice's webhook nor one for another    *)
(* job confirms it, in whatever order invoices and webhooks interleave.    *)
(***************************************************************************)
ConfirmedWasPaid ==
    /\ \A j \in Jobs : pay[j].status = "confirmed" =>
         /\ pay[j].invoice # Null
         /\ Paid(pay[j].invoice)
         /\ gateway[pay[j].invoice].order = j
    /\ \A i \in Invoices : ledger[i].confirmed => Paid(i)

PaymentPromise ==
    INSTANCE PaymentContract
        WITH current  <- [j \in Jobs |-> pay[j].invoice],
             standing <- [j \in Jobs |-> pay[j].status],
             paid     <- {i \in Invoices : Paid(i)},
             crossed  <- raced

(***************************************************************************)
(* The four writes implement PaymentContract: a job leaves 'confirmed'     *)
(* only for a new invoice or through reports that were handled out of      *)
(* turn, and what it says is of its current invoice.                       *)
(***************************************************************************)
KeepsPaymentContract == PaymentPromise!Spec

\* Paid for, named by the job, and not in the books.
Unrecorded(i, j) ==
    /\ Paid(i) /\ pay[j].invoice = i /\ {"url", "secret"} \subseteq setup
    /\ ledger[i].status # "confirmed" \/ pay[j].status # "confirmed"
    /\ i \notin raced /\ upsets = 0

(***************************************************************************)
(* Money that arrives for the invoice a job names is recorded in the end,  *)
(* in the ledger and in the job.  Excepted are what the model shows to be  *)
(* lost: a job that was given another invoice, reports out of turn, a      *)
(* failed write, and a control plane without URL or secret.                *)
(***************************************************************************)
PaidIsRecorded == []<>(\A i \in Invoices, j \in Jobs : ~Unrecorded(i, j))
=============================================================================
