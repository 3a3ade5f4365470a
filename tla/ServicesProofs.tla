--------------------------- MODULE ServicesProofs ---------------------------
(***************************************************************************)
(* What holds of paying, of signed requests, of setting a machine up and   *)
(* of the text of answers, for every number of users, calls, faults and    *)
(* steps and for every text.  Each section has the inductive invariant of  *)
(* one component: Init implies it, every step keeps it, and it implies the *)
(* properties.                                                             *)
(***************************************************************************)
EXTENDS Payments, SignedLinks, Onboarding, Sanitizer, FiniteSetTheorems, WellFoundedInduction, TLAPS

-----------------------------------------------------------------------------
(* Payments: a job says 'confirmed' only of an invoice of its own that was *)
(* paid, and the routes keep to PaymentContract.                           *)
(*                                                                         *)
(* The argument follows an invoice.  One call of the invoice route holds   *)
(* it and names it in one job (Issued, NamedOnce); what the gateway still  *)
(* has to report, or a webhook is handling, is what happened to it         *)
(* (Honest); and as long as its reports were handled in turn, job and      *)
(* ledger agree on it but for the webhook that is between its two writes   *)
(* (InTurn).                                                               *)

Verdict(d) == ParseWebhookPayload(d.raw)
Mirrors(h, i) == hook[h].at = "mirror" /\ hook[h].report.invoice = i

\* An invoice is held by one call, for the job the gateway has it for.
Issued ==
    /\ \A r \in Asks : ask[r].at \in {"created", "updated"} =>
         ask[r].invoice # Null /\ ask[r].job # Null
    /\ \A r \in Asks : ask[r].at = "idle" => ask[r].invoice = Null
    /\ \A r \in Asks : ask[r].invoice # Null =>
         /\ gateway[ask[r].invoice].state # "none"
         /\ gateway[ask[r].invoice].order = ask[r].job
    /\ \A r, q \in Asks : ask[r].invoice # Null /\ ask[r].invoice = ask[q].invoice => r = q

\* A job names an invoice that was issued for it, and none before its call wrote it.
NamedOnce ==
    /\ \A j \in Jobs : pay[j].invoice # Null =>
         /\ gateway[pay[j].invoice].state # "none"
         /\ gateway[pay[j].invoice].order = j
    /\ \A j \in Jobs : \A r \in Asks :
         ask[r].at = "created" => pay[j].invoice # ask[r].invoice
    /\ \A j \in Jobs : pay[j].invoice = Null => pay[j].status = "unpaid"

\* A confirmation is only under way for an invoice that was paid.
Honest ==
    /\ \A d \in due : Verdict(d) = "confirmed" => Paid(d.invoice)
    /\ \A h \in Hooks : hook[h].at = "mirror" =>
         /\ hook[h].report \in Reports
         /\ Verdict(hook[h].report) = "confirmed" => Paid(hook[h].report.invoice)

\* Job and ledger are of one mind about an invoice, but for one webhook that is
\* between its two writes; none was handled before the invoice was recorded.
Agree(i) ==
    /\ \A h \in Hooks : Mirrors(h, i) => ledger[i].status = Verdict(hook[h].report)
    /\ \A g, h \in Hooks : Mirrors(g, i) /\ Mirrors(h, i) => g = h
    /\ \A j \in Jobs : pay[j].invoice = i /\ pay[j].status = "confirmed" =>
         ledger[i].status = "confirmed"
    /\ (ledger[i].status \in {"confirmed", "failed"} \/ \E h \in Hooks : Mirrors(h, i)) =>
         \E r \in Asks : ask[r].at = "done" /\ ask[r].invoice = i

InTurn == \A i \in Invoices : i \notin raced => Agree(i)

PayInv == PayTypeOK /\ Issued /\ NamedOnce /\ Honest /\ InTurn /\ ConfirmedWasPaid

-----------------------------------------------------------------------------
(* Types. *)

LEMMA ParseType == \A raw : ParseWebhookPayload(raw) \in Verdicts
BY DEF ParseWebhookPayload, Verdicts

\* The gateway's words are read as what they mean.
LEMMA ParseSays ==
    ASSUME NEW v \in Verdicts, NEW raw \in Words[v]
    PROVE  ParseWebhookPayload(raw) = v /\ raw \in UNION {Words[u] : u \in Verdicts}
BY DEF ParseWebhookPayload, Verdicts, Words

LEMMA PayTypeInit == PayInit => PayTypeOK
BY PaymentsAssumption DEF PayInit, PayTypeOK, NoHook, Verdicts, Variables

\* What is announced is a report.
LEMMA AnnounceType ==
    ASSUME PayTypeOK, NEW i \in Invoices, NEW v \in Verdicts, NEW raw \in Words[v],
           Announce(i, raw)
    PROVE  /\ due' \subseteq Reports
           /\ \A d \in due' : d \in due \/ (d.invoice = i /\ Verdict(d) = v)
<1>1. [invoice |-> i, raw |-> raw] \in Reports
  BY ParseSays DEF Reports
<1>2. ParseWebhookPayload(raw) = v
  BY ParseSays
<1>. QED  BY <1>1, <1>2 DEF Announce, PayTypeOK, Verdict

LEMMA PayTypeStep == PayTypeOK /\ [PayNext]_payVars => PayTypeOK'
<1>. SUFFICES ASSUME PayTypeOK, [PayNext]_payVars PROVE PayTypeOK'
  OBVIOUS
<1>v. {"pending", "confirmed", "failed"} = Verdicts
  BY DEF Verdicts
<1>1. ASSUME NEW r \in Asks, CreateInvoice(r) PROVE PayTypeOK'
  BY <1>1 DEF CreateInvoice, Issue, PayTypeOK
<1>u. Upset => upsets' \in 0..MaxUpsets
  BY PaymentsAssumption DEF Upset, PayTypeOK
<1>2. ASSUME NEW r \in Asks, InvoiceRefused(r) \/ InvoiceAnswerLost(r) \/ AskFails(r)
      PROVE  PayTypeOK'
  <2>1. upsets' \in 0..MaxUpsets
    BY <1>2, <1>u DEF InvoiceRefused, InvoiceAnswerLost, AskFails, PayTypeOK
  <2>2. /\ ask' = [ask EXCEPT ![r].at = "done"]
        /\ UNCHANGED <<pay, ledger, hook, gateway, due, setup, raced>>
    BY <1>2 DEF InvoiceRefused, InvoiceAnswerLost, AskFails
  <2>. QED  BY <2>1, <2>2 DEF PayTypeOK
<1>3. ASSUME NEW r \in Asks, InvoiceJob(r) PROVE PayTypeOK'
  <2>1. ask' \in [Asks -> [at : {"idle", "created", "updated", "done"},
                          job : Jobs \cup {Null}, invoice : Invoices \cup {Null}]]
    BY <1>3 DEF InvoiceJob, PayTypeOK
  <2>2. pay' \in [Jobs -> [status : {"unpaid", "invoiced"} \cup Verdicts,
                          invoice : Invoices \cup {Null}]]
    BY <1>3 DEF InvoiceJob, PayTypeOK
  <2>. QED  BY <1>3, <2>1, <2>2 DEF InvoiceJob, PayTypeOK
<1>4. ASSUME NEW r \in Asks, InsertTransaction(r) PROVE PayTypeOK'
  <2>1. "pending" \in Verdicts
    BY DEF Verdicts
  <2>2. ledger' \in [Invoices -> [status : {"absent"} \cup Verdicts, confirmed : BOOLEAN]]
    <3>1. ledger' = [ledger EXCEPT ![ask[r].invoice] = [@ EXCEPT !.status = "pending"]]
      BY <1>4 DEF InsertTransaction
    <3>2. ledger \in [Invoices -> [status : {"absent"} \cup Verdicts, confirmed : BOOLEAN]]
      BY DEF PayTypeOK
    <3>3. ASSUME NEW i \in Invoices
          PROVE  [ledger[i] EXCEPT !.status = "pending"]
                   \in [status : {"absent"} \cup Verdicts, confirmed : BOOLEAN]
      BY <2>1, <3>2
    <3>. QED  BY <3>1, <3>2, <3>3
  <2>3. ask' \in [Asks -> [at : {"idle", "created", "updated", "done"},
                          job : Jobs \cup {Null}, invoice : Invoices \cup {Null}]]
    <3>1. ask' = [ask EXCEPT ![r].at = "done"]
      BY <1>4 DEF InsertTransaction
    <3>. QED  BY <3>1 DEF PayTypeOK
  <2>. QED  BY <1>4, <2>2, <2>3 DEF InsertTransaction, PayTypeOK
<1>5. ASSUME NEW i \in Invoices, CustomerSends(i) \/ PaymentSettles(i) \/ InvoiceLapses(i)
      PROVE  PayTypeOK'
  <2>1. \E v \in Verdicts : \E raw \in Words[v] : Announce(i, raw)
    BY <1>5, <1>v DEF CustomerSends, PaymentSettles, InvoiceLapses, Words
  <2>2. due' \subseteq Reports
    BY <2>1, AnnounceType
  <2>3. \E st \in {"seen", "paid", "void"} : gateway' = [gateway EXCEPT ![i].state = st]
    BY <1>5 DEF CustomerSends, PaymentSettles, InvoiceLapses
  <2>4. UNCHANGED <<pay, ledger, ask, hook, setup, raced, upsets>>
    BY <1>5 DEF CustomerSends, PaymentSettles, InvoiceLapses
  <2>5. gateway' \in [Invoices -> [state : {"none", "open", "seen", "paid", "void"},
                                  order : Jobs \cup {Null}, calls : BOOLEAN]]
    <3>1. PICK st \in {"seen", "paid", "void"} : gateway' = [gateway EXCEPT ![i].state = st]
      BY <2>3
    <3>. QED  BY <3>1 DEF PayTypeOK
  <2>. QED  BY <2>2, <2>4, <2>5 DEF PayTypeOK
<1>6. ASSUME NEW i \in Invoices, ReportAgain(i) PROVE PayTypeOK'
  <2>1. \E v \in Verdicts : \E raw \in Words[v] : Announce(i, raw)
    BY <1>6, <1>v DEF ReportAgain, Said
  <2>2. due' \subseteq Reports
    BY <2>1, AnnounceType
  <2>3. upsets' \in 0..MaxUpsets
    BY <1>6, <1>u DEF ReportAgain
  <2>. QED  BY <1>6, <2>2, <2>3 DEF ReportAgain, PayTypeOK
<1>7. ASSUME NEW h \in Hooks, UpdateTransaction(h) PROVE PayTypeOK'
  <2>1. PICK d \in due :
          /\ Verified(h, d)
          /\ ledger' = IF ledger[d.invoice].status = "absent" THEN ledger
                       ELSE [ledger EXCEPT ![d.invoice] =
                               [status |-> Verdict(d),
                                confirmed |-> @.confirmed \/ Verdict(d) = "confirmed"]]
    BY <1>7 DEF UpdateTransaction, Verdict
  <2>2. d \in Reports /\ d.invoice \in Invoices
    BY DEF PayTypeOK, Reports
  <2>3. Verdict(d) \in Verdicts
    BY ParseType DEF Verdict
  <2>4. ledger' \in [Invoices -> [status : {"absent"} \cup Verdicts, confirmed : BOOLEAN]]
    BY <2>1, <2>2, <2>3 DEF PayTypeOK
  <2>. QED  BY <2>1, <2>2, <2>4 DEF Verified, PayTypeOK
<1>8. ASSUME NEW h \in Hooks, MirrorOnJob(h) PROVE PayTypeOK'
  <2>1. Verdict(hook[h].report) \in Verdicts
    BY ParseType DEF Verdict
  <2>2. pay' = [j \in Jobs |-> IF pay[j].invoice # hook[h].report.invoice THEN pay[j]
                               ELSE [pay[j] EXCEPT !.status = Verdict(hook[h].report)]]
    BY <1>8 DEF MirrorOnJob, Verdict
  <2>3. pay' \in [Jobs -> [status : {"unpaid", "invoiced"} \cup Verdicts,
                          invoice : Invoices \cup {Null}]]
    BY <2>1, <2>2 DEF PayTypeOK
  <2>. QED  BY <1>8, <2>3 DEF MirrorOnJob, NoHook, PayTypeOK
<1>9. ASSUME NEW h \in Hooks, HookFails(h) PROVE PayTypeOK'
  BY <1>9, <1>u DEF HookFails, NoHook, PayTypeOK
<1>10. CASE UNCHANGED payVars
  BY <1>10 DEF payVars, PayTypeOK
<1>. QED
  BY <1>1, <1>2, <1>3, <1>4, <1>5, <1>6, <1>7, <1>8, <1>9, <1>10 DEF PayNext, ServeAsk, ServeHook

\* Jobs, ledger, calls and webhooks keep their types.
THEOREM PaymentsTyped == PaySpec => []PayTypeOK
BY PayTypeInit, PayTypeStep, PTL DEF PaySpec

-----------------------------------------------------------------------------
(* What the steps do, as far as the invariant is concerned. *)

\* A call that goes on keeps its job and its invoice.
AskGoes(r, from, to) ==
    /\ ask[r].at = from
    /\ ask' = [ask EXCEPT ![r].at = to]
    /\ UNCHANGED <<hook, gateway, due, raced>>

\* An invoice at the gateway changes its state, which is reported.
Advances(i, st, v) ==
    /\ gateway[i].state \in {"open", "seen"}
    /\ gateway' = [gateway EXCEPT ![i].state = st]
    /\ \E raw \in Words[v] : Announce(i, raw)
    /\ UNCHANGED <<pay, ledger, ask, hook, raced>>

\* A webhook takes up a report and writes it into the ledger.
TakesUp(h, d) ==
    /\ hook[h].at = "free" /\ d \in due
    /\ hook' = [hook EXCEPT ![h] = [at |-> "mirror", report |-> d]]
    /\ raced' = IF OutOfTurn(d.invoice, Verdict(d)) THEN raced \cup {d.invoice} ELSE raced
    /\ ledger' = IF ledger[d.invoice].status = "absent" THEN ledger
                 ELSE [ledger EXCEPT ![d.invoice] =
                         [status |-> Verdict(d),
                          confirmed |-> @.confirmed \/ Verdict(d) = "confirmed"]]
    /\ UNCHANGED <<pay, ask, gateway, due>>

LEMMA Steps ==
    ASSUME [PayNext]_payVars
    PROVE  \/ \E r \in Asks : \/ CreateInvoice(r) \/ InvoiceJob(r)
                              \/ InsertTransaction(r) /\ AskGoes(r, "updated", "done")
                              \/ /\ \E from \in {"idle", "created", "updated"} : AskGoes(r, from, "done")
                                 /\ UNCHANGED <<pay, ledger>>
           \/ \E i \in Invoices : \/ Advances(i, "seen", "pending")
                                  \/ Advances(i, "paid", "confirmed")
                                  \/ Advances(i, "void", "failed")
                                  \/ ReportAgain(i)
           \/ \E h \in Hooks : \/ \E d \in due : TakesUp(h, d)
                               \/ MirrorOnJob(h) \/ HookFails(h)
           \/ UNCHANGED payVars
<1>1. ASSUME NEW r \in Asks, InsertTransaction(r) PROVE AskGoes(r, "updated", "done")
  BY <1>1 DEF InsertTransaction, AskGoes
<1>2. ASSUME NEW r \in Asks, InvoiceRefused(r) PROVE AskGoes(r, "idle", "done")
  BY <1>2 DEF InvoiceRefused, AskGoes, Arrives, Asks
<1>3. ASSUME NEW r \in Asks, InvoiceAnswerLost(r) PROVE AskGoes(r, "created", "done")
  BY <1>3 DEF InvoiceAnswerLost, AskGoes
<1>4. ASSUME NEW r \in Asks, AskFails(r) PROVE AskGoes(r, "updated", "done")
  BY <1>4 DEF AskFails, AskGoes
<1>5. ASSUME NEW r \in Asks, InvoiceRefused(r) \/ InvoiceAnswerLost(r) \/ AskFails(r)
      PROVE  UNCHANGED <<pay, ledger>>
  BY <1>5 DEF InvoiceRefused, InvoiceAnswerLost, AskFails
<1>6. ASSUME NEW i \in Invoices, CustomerSends(i) PROVE Advances(i, "seen", "pending")
  BY <1>6 DEF CustomerSends, Advances
<1>7. ASSUME NEW i \in Invoices, PaymentSettles(i) PROVE Advances(i, "paid", "confirmed")
  BY <1>7 DEF PaymentSettles, Advances, Words
<1>8. ASSUME NEW i \in Invoices, InvoiceLapses(i) PROVE Advances(i, "void", "failed")
  BY <1>8 DEF InvoiceLapses, Advances, Words
<1>9. ASSUME NEW h \in Hooks, UpdateTransaction(h) PROVE \E d \in due : TakesUp(h, d)
  BY <1>9 DEF UpdateTransaction, Verified, TakesUp, Verdict
<1>. QED
  BY <1>1, <1>2, <1>3, <1>4, <1>5, <1>6, <1>7, <1>8, <1>9
  DEF PayNext, ServeAsk, ServeHook

\* A new invoice, and the call that has it.
LEMMA Created ==
    ASSUME PayTypeOK, NEW r \in Asks, CreateInvoice(r)
    PROVE  \E i \in Invoices, j \in Jobs :
             /\ ask[r].at = "idle" /\ gateway[i].state = "none"
             /\ ask' = [ask EXCEPT ![r] = [at |-> "created", job |-> j, invoice |-> i]]
             /\ gateway'[i].state = "open" /\ gateway'[i].order = j
             /\ \A k \in Invoices \ {i} : gateway'[k] = gateway[k]
             /\ UNCHANGED <<pay, ledger, hook, due, raced>>
<1>1. PICK i \in Invoices, j \in Jobs :
        Issue(i, j) /\ ask' = [ask EXCEPT ![r] = [at |-> "created", job |-> j, invoice |-> i]]
  BY DEF CreateInvoice
<1>2. ask[r].at = "idle"
  BY DEF CreateInvoice, Arrives, Asks
<1>3. gateway[i].state = "none"
  BY <1>1 DEF Issue, Invoices
<1>4. /\ gateway'[i].state = "open" /\ gateway'[i].order = j
      /\ \A k \in Invoices \ {i} : gateway'[k] = gateway[k]
  BY <1>1 DEF Issue, PayTypeOK
<1>. QED  BY <1>1, <1>2, <1>3, <1>4 DEF CreateInvoice

\* What stays of a call that goes on, and of an invoice that advances.
LEMMA AskKept ==
    ASSUME PayTypeOK, NEW r \in Asks, NEW to \in {"updated", "done"},
           ask' = [ask EXCEPT ![r].at = to]
    PROVE  \A q \in Asks : /\ ask'[q].job = ask[q].job /\ ask'[q].invoice = ask[q].invoice
                           /\ ask'[q].at = IF q = r THEN to ELSE ask[q].at
BY DEF PayTypeOK

LEMMA GatewayKept ==
    ASSUME PayTypeOK, NEW i \in Invoices, NEW st \in {"seen", "paid", "void"},
           gateway' = [gateway EXCEPT ![i].state = st]
    PROVE  \A k \in Invoices : /\ gateway'[k].order = gateway[k].order
                               /\ gateway'[k].state = IF k = i THEN st ELSE gateway[k].state
BY DEF PayTypeOK

LEMMA MirrorKept ==
    ASSUME PayTypeOK, NEW h \in Hooks, MirrorOnJob(h)
    PROVE  /\ hook[h].at = "mirror"
           /\ \A j \in Jobs :
                /\ pay'[j].invoice = pay[j].invoice
                /\ pay'[j].status = IF pay[j].invoice = hook[h].report.invoice
                                   THEN Verdict(hook[h].report) ELSE pay[j].status
           /\ hook' = [hook EXCEPT ![h] = NoHook]
           /\ due' \subseteq due
           /\ UNCHANGED <<ledger, ask, gateway, raced>>
BY DEF MirrorOnJob, PayTypeOK, Verdict

-----------------------------------------------------------------------------
(* The parts of the invariant. *)

LEMMA IssuedStep == PayTypeOK /\ Issued /\ [PayNext]_payVars => Issued'
<1>. SUFFICES ASSUME PayTypeOK, Issued, [PayNext]_payVars PROVE Issued'
  OBVIOUS
<1>n. Null \notin Invoices
  BY PaymentsAssumption DEF Invoices
<1>1. ASSUME NEW r \in Asks, CreateInvoice(r) PROVE Issued'
  <2>1. PICK i \in Invoices, j \in Jobs :
          /\ ask[r].at = "idle" /\ gateway[i].state = "none"
          /\ ask' = [ask EXCEPT ![r] = [at |-> "created", job |-> j, invoice |-> i]]
          /\ gateway'[i].state = "open" /\ gateway'[i].order = j
          /\ \A k \in Invoices \ {i} : gateway'[k] = gateway[k]
    BY <1>1, Created
  <2>2. i # Null /\ j # Null
    BY <1>n, PaymentsAssumption
  <2>3. \A q \in Asks : ask'[q] = IF q = r THEN [at |-> "created", job |-> j, invoice |-> i]
                                  ELSE ask[q]
    BY <2>1 DEF PayTypeOK
  <2>4. \A q \in Asks : ask[q].invoice # Null => ask[q].invoice \in Invoices \ {i}
    BY <2>1 DEF Issued, PayTypeOK
  <2>. QED  BY <2>1, <2>2, <2>3, <2>4 DEF Issued
<1>2. ASSUME NEW r \in Asks, NEW from \in {"idle", "created", "updated"}, NEW to \in {"updated", "done"},
             ask[r].at = from, ask' = [ask EXCEPT ![r].at = to], UNCHANGED gateway,
             to = "updated" => from = "created"
      PROVE  Issued'
  <2>1. \A q \in Asks : /\ ask'[q].job = ask[q].job /\ ask'[q].invoice = ask[q].invoice
                        /\ ask'[q].at = IF q = r THEN to ELSE ask[q].at
    BY <1>2, AskKept
  <2>. QED  BY <1>2, <2>1 DEF Issued
<1>3. ASSUME NEW i \in Invoices, NEW st \in {"seen", "paid", "void"},
             gateway' = [gateway EXCEPT ![i].state = st], UNCHANGED ask
      PROVE  Issued'
  <2>1. \A k \in Invoices : /\ gateway'[k].order = gateway[k].order
                            /\ gateway'[k].state = IF k = i THEN st ELSE gateway[k].state
    BY <1>3, GatewayKept
  <2>2. \A q \in Asks : ask[q].invoice # Null => ask[q].invoice \in Invoices
    BY DEF PayTypeOK
  <2>. QED  BY <1>3, <2>1, <2>2 DEF Issued
<1>4. ASSUME UNCHANGED <<ask, gateway>> PROVE Issued'
  BY <1>4 DEF Issued
<1>5. ASSUME NEW r \in Asks, InvoiceJob(r) PROVE Issued'
  BY <1>5, <1>2 DEF InvoiceJob
<1>. QED
  BY Steps, <1>1, <1>2, <1>3, <1>4, <1>5
  DEF AskGoes, Advances, TakesUp, MirrorOnJob, HookFails, ReportAgain, payVars

LEMMA NamedStep == PayTypeOK /\ Issued /\ NamedOnce /\ Honest /\ [PayNext]_payVars => NamedOnce'
<1>. SUFFICES ASSUME PayTypeOK, Issued, NamedOnce, Honest, [PayNext]_payVars PROVE NamedOnce'
  OBVIOUS
<1>n. Null \notin Invoices
  BY PaymentsAssumption DEF Invoices
<1>i. \A j \in Jobs : pay[j].invoice # Null => pay[j].invoice \in Invoices
  BY DEF PayTypeOK
<1>1. ASSUME NEW r \in Asks, CreateInvoice(r) PROVE NamedOnce'
  <2>1. PICK i \in Invoices, k \in Jobs :
          /\ ask[r].at = "idle" /\ gateway[i].state = "none"
          /\ ask' = [ask EXCEPT ![r] = [at |-> "created", job |-> k, invoice |-> i]]
          /\ gateway'[i].state = "open" /\ gateway'[i].order = k
          /\ \A l \in Invoices \ {i} : gateway'[l] = gateway[l]
          /\ UNCHANGED pay
    BY <1>1, Created
  <2>2. \A q \in Asks : ask'[q] = IF q = r THEN [at |-> "created", job |-> k, invoice |-> i]
                                  ELSE ask[q]
    BY <2>1 DEF PayTypeOK
  <2>3. \A j \in Jobs : pay[j].invoice # i
    BY <1>n, <2>1 DEF NamedOnce
  <2>. QED  BY <1>i, <2>1, <2>2, <2>3 DEF NamedOnce
<1>2. ASSUME NEW r \in Asks, NEW to \in {"updated", "done"}, ask' = [ask EXCEPT ![r].at = to],
             UNCHANGED <<pay, gateway>>
      PROVE  NamedOnce'
  <2>1. \A q \in Asks : /\ ask'[q].invoice = ask[q].invoice
                        /\ ask'[q].at = IF q = r THEN to ELSE ask[q].at
    BY <1>2, AskKept
  <2>. QED  BY <1>2, <2>1 DEF NamedOnce
<1>3. ASSUME NEW r \in Asks, InvoiceJob(r) PROVE NamedOnce'
  <2>1. \A q \in Asks : /\ ask'[q].invoice = ask[q].invoice
                        /\ ask'[q].at = IF q = r THEN "updated" ELSE ask[q].at
    BY <1>3, AskKept DEF InvoiceJob
  <2>2. \A j \in Jobs : pay'[j] = IF j = ask[r].job
                                  THEN [status |-> "invoiced", invoice |-> ask[r].invoice]
                                  ELSE pay[j]
    BY <1>3 DEF InvoiceJob, PayTypeOK
  <2>3. /\ ask[r].at = "created" /\ ask[r].invoice # Null
        /\ gateway[ask[r].invoice].state # "none" /\ gateway[ask[r].invoice].order = ask[r].job
    BY <1>3 DEF InvoiceJob, Issued
  <2>4. \A q \in Asks : q # r => ask[q].invoice # ask[r].invoice
    BY <2>3 DEF Issued
  <2>5. UNCHANGED gateway
    BY <1>3 DEF InvoiceJob
  <2>. QED  BY <2>1, <2>2, <2>3, <2>4, <2>5 DEF NamedOnce
<1>4. ASSUME NEW i \in Invoices, NEW st \in {"seen", "paid", "void"},
             gateway' = [gateway EXCEPT ![i].state = st], UNCHANGED <<pay, ask>>
      PROVE  NamedOnce'
  <2>1. \A k \in Invoices : /\ gateway'[k].order = gateway[k].order
                            /\ gateway'[k].state = IF k = i THEN st ELSE gateway[k].state
    BY <1>4, GatewayKept
  <2>. QED  BY <1>4, <1>i, <2>1 DEF NamedOnce
<1>5. ASSUME NEW h \in Hooks, MirrorOnJob(h) PROVE NamedOnce'
  <2>1. /\ hook[h].at = "mirror"
        /\ \A j \in Jobs :
             /\ pay'[j].invoice = pay[j].invoice
             /\ pay'[j].status = IF pay[j].invoice = hook[h].report.invoice
                                THEN Verdict(hook[h].report) ELSE pay[j].status
        /\ UNCHANGED <<ask, gateway>>
    BY <1>5, MirrorKept
  <2>2. hook[h].report \in Reports
    BY <2>1 DEF Honest
  <2>3. hook[h].report.invoice # Null
    BY <1>n, <2>2 DEF Reports
  <2>. QED  BY <2>1, <2>3 DEF NamedOnce
<1>6. ASSUME UNCHANGED <<pay, ask, gateway>> PROVE NamedOnce'
  BY <1>6 DEF NamedOnce
<1>. QED
  BY Steps, <1>1, <1>2, <1>3, <1>4, <1>5, <1>6
  DEF AskGoes, Advances, TakesUp, HookFails, ReportAgain, InsertTransaction, payVars

\* What was paid stays paid.
LEMMA PaidStays ==
    ASSUME PayTypeOK, [PayNext]_payVars, NEW k \in Invoices, Paid(k)
    PROVE  Paid(k)'
<1>1. ASSUME NEW r \in Asks, CreateInvoice(r) PROVE Paid(k)'
  BY <1>1, Created DEF Paid
<1>2. ASSUME NEW i \in Invoices, NEW st \in {"seen", "paid", "void"}, NEW v, Advances(i, st, v)
      PROVE  Paid(k)'
  BY <1>2, GatewayKept DEF Advances, Paid
<1>3. ASSUME UNCHANGED gateway PROVE Paid(k)'
  BY <1>3 DEF Paid
<1>. QED
  BY Steps, <1>1, <1>2, <1>3
  DEF AskGoes, InvoiceJob, TakesUp, MirrorOnJob, HookFails, ReportAgain, payVars

LEMMA HonestStep == PayTypeOK /\ Honest /\ [PayNext]_payVars => Honest'
<1>. SUFFICES ASSUME PayTypeOK, Honest, [PayNext]_payVars PROVE Honest'
  OBVIOUS
<1>d. \A d \in due : d \in Reports /\ d.invoice \in Invoices
  BY DEF PayTypeOK, Reports
<1>h. \A h \in Hooks : hook[h].at = "mirror" => hook[h].report.invoice \in Invoices
  BY DEF PayTypeOK, Reports, Honest
<1>v. {"pending", "confirmed", "failed"} \subseteq Verdicts
  BY DEF Verdicts
<1>1. ASSUME \A d \in due' : d \in due \/ Verdict(d) # "confirmed" \/ Paid(d.invoice)',
             UNCHANGED hook
      PROVE  Honest'
  <2>1. \A d \in due' : Verdict(d) = "confirmed" => Paid(d.invoice)'
    BY <1>1, <1>d, PaidStays DEF Honest
  <2>2. \A h \in Hooks : hook[h].at = "mirror" =>
          /\ hook[h].report \in Reports
          /\ Verdict(hook[h].report) = "confirmed" =>
               gateway'[hook[h].report.invoice].state = "paid"
    BY <1>h, PaidStays DEF Honest, Paid
  <2>. QED  BY <1>1, <2>1, <2>2 DEF Honest, Verdict, Paid
<1>2. ASSUME NEW h \in Hooks, due' \subseteq due,
             \/ hook' = [hook EXCEPT ![h] = NoHook]
             \/ \E d \in due : hook' = [hook EXCEPT ![h] = [at |-> "mirror", report |-> d]]
      PROVE  Honest'
  <2>1. \A d \in due : Verdict(d) = "confirmed" => Paid(d.invoice)'
    BY <1>d, PaidStays DEF Honest
  <2>2. \A g \in Hooks : hook[g].at = "mirror" =>
          /\ hook[g].report \in Reports
          /\ Verdict(hook[g].report) = "confirmed" =>
               gateway'[hook[g].report.invoice].state = "paid"
    BY <1>h, PaidStays DEF Honest, Paid
  <2>3. ASSUME NEW g \in Hooks
        PROVE  \/ hook'[g] = hook[g]
               \/ hook'[g].at = "free"
               \/ hook'[g].at = "mirror" /\ hook'[g].report \in due
    <3>1. CASE hook' = [hook EXCEPT ![h] = NoHook]
      BY <3>1 DEF PayTypeOK, NoHook
    <3>2. CASE \E d \in due : hook' = [hook EXCEPT ![h] = [at |-> "mirror", report |-> d]]
      <4>1. PICK d \in due : hook' = [hook EXCEPT ![h] = [at |-> "mirror", report |-> d]]
        BY <3>2
      <4>. QED  BY <4>1 DEF PayTypeOK
    <3>. QED  BY <1>2, <3>1, <3>2
  <2>. QED  BY <1>2, <1>d, <2>1, <2>2, <2>3 DEF Honest, Verdict, Paid
<1>3. ASSUME NEW i \in Invoices, NEW st \in {"seen", "paid", "void"}, NEW v \in Verdicts,
             Advances(i, st, v), v = "confirmed" => st = "paid"
      PROVE  Honest'
  <2>1. \A d \in due' : d \in due \/ (d.invoice = i /\ Verdict(d) = v)
    BY <1>3, AnnounceType DEF Advances
  <2>2. st = "paid" => Paid(i)'
    <3>1. gateway' = [gateway EXCEPT ![i].state = st]
      BY <1>3 DEF Advances
    <3>2. gateway'[i].state = st
      BY <3>1 DEF PayTypeOK
    <3>. QED  BY <3>2 DEF Paid
  <2>. QED  BY <1>1, <1>3, <2>1, <2>2 DEF Advances
<1>4. ASSUME NEW i \in Invoices, ReportAgain(i) PROVE Honest'
  <2>1. PICK v \in Said(i) : \E raw \in Words[v] : Announce(i, raw)
    BY <1>4 DEF ReportAgain
  <2>2. v \in Verdicts /\ (v = "confirmed" => Paid(i))
    BY <2>1, <1>v DEF Said, Paid
  <2>3. \A d \in due' : d \in due \/ (d.invoice = i /\ Verdict(d) = v)
    BY <2>1, <2>2, AnnounceType
  <2>4. v = "confirmed" => Paid(i)'
    BY <2>2, PaidStays
  <2>. QED  BY <1>1, <1>4, <2>3, <2>4 DEF ReportAgain
<1>5. ASSUME UNCHANGED <<hook, due>> PROVE Honest'
  BY <1>1, <1>5
<1>. QED
  BY Steps, <1>2, <1>3, <1>4, <1>5, <1>v
  DEF AskGoes, CreateInvoice, InvoiceJob, TakesUp, MirrorOnJob, HookFails, Advances, payVars

LEMMA InTurnStep ==
    PayTypeOK /\ Issued /\ Honest /\ InTurn /\ [PayNext]_payVars => InTurn'
<1>. SUFFICES ASSUME PayTypeOK, Issued, Honest, [PayNext]_payVars,
                     NEW i \in Invoices, i \in raced \/ Agree(i), i \notin raced'
              PROVE  Agree(i)'
  BY DEF InTurn
<1>1. ASSUME NEW r \in Asks, CreateInvoice(r) PROVE Agree(i)'
  <2>1. ask[r].at = "idle" /\ UNCHANGED <<pay, ledger, hook, raced>>
    BY <1>1, Created
  <2>2. \A q \in Asks : ask[q].at = "done" => ask'[q] = ask[q]
    BY <1>1, <2>1 DEF CreateInvoice, PayTypeOK
  <2>. QED  BY <2>1, <2>2 DEF Agree, Mirrors
<1>2. ASSUME NEW r \in Asks, NEW to \in {"updated", "done"}, ask' = [ask EXCEPT ![r].at = to],
             ask[r].at # "done", UNCHANGED <<ledger, hook, raced>>,
             \A j \in Jobs : pay'[j] = pay[j] \/ pay'[j].status # "confirmed"
      PROVE  Agree(i)'
  <2>1. \A q \in Asks : ask[q].at = "done" => ask'[q].at = "done" /\ ask'[q].invoice = ask[q].invoice
    BY <1>2, AskKept
  <2>. QED  BY <1>2, <2>1 DEF Agree, Mirrors
<1>3. ASSUME NEW r \in Asks, InvoiceJob(r) PROVE Agree(i)'
  <2>1. \A j \in Jobs : pay'[j] = pay[j] \/ pay'[j].status # "confirmed"
    BY <1>3 DEF InvoiceJob, PayTypeOK
  <2>. QED  BY <1>2, <1>3, <2>1 DEF InvoiceJob
<1>4. ASSUME NEW r \in Asks, InsertTransaction(r) PROVE Agree(i)'
  <2>1. \A q \in Asks : /\ ask'[q].invoice = ask[q].invoice
                        /\ ask'[q].at = IF q = r THEN "done" ELSE ask[q].at
    BY <1>4, AskKept DEF InsertTransaction
  <2>2. ask[r].at = "updated" /\ ask[r].invoice # Null /\ UNCHANGED <<pay, hook, raced>>
    BY <1>4 DEF InsertTransaction, Issued
  <2>3. CASE ask[r].invoice # i
    <3>1. ledger'[i] = ledger[i]
      BY <1>4, <2>3 DEF InsertTransaction, PayTypeOK
    <3>. QED  BY <2>1, <2>2, <3>1 DEF Agree, Mirrors
  <2>4. CASE ask[r].invoice = i
    <3>1. \A q \in Asks : ask[q].invoice = i => ask[q].at # "done"
      BY <2>2, <2>4 DEF Issued
    <3>2. /\ ledger[i].status \notin {"confirmed", "failed"}
          /\ \A h \in Hooks : ~Mirrors(h, i)
      BY <2>2, <3>1 DEF Agree
    <3>3. ledger'[i].status = "pending"
      BY <1>4, <2>4 DEF InsertTransaction, PayTypeOK
    <3>4. \A j \in Jobs : pay[j].invoice = i => pay[j].status # "confirmed"
      BY <2>2, <3>2 DEF Agree
    <3>. QED  BY <2>2, <3>2, <3>3, <3>4 DEF Agree, Mirrors
  <2>. QED  BY <2>3, <2>4
<1>5. ASSUME NEW h \in Hooks, NEW d \in due, TakesUp(h, d) PROVE Agree(i)'
  <2>1. \A g \in Hooks : hook'[g] = IF g = h THEN [at |-> "mirror", report |-> d] ELSE hook[g]
    BY <1>5 DEF TakesUp, PayTypeOK
  <2>2. hook[h].at = "free" /\ UNCHANGED <<pay, ask>> /\ i \notin raced
    BY <1>5 DEF TakesUp
  <2>3. d.invoice \in Invoices
    BY DEF PayTypeOK, Reports
  <2>4. CASE d.invoice # i
    <3>1. ledger'[i] = ledger[i]
      BY <1>5, <2>4 DEF TakesUp, PayTypeOK
    <3>2. \A g \in Hooks : Mirrors(g, i)' => Mirrors(g, i) /\ hook'[g] = hook[g]
      BY <2>1, <2>4 DEF Mirrors
    <3>. QED  BY <2>2, <3>1, <3>2 DEF Agree
  <2>5. CASE d.invoice = i
    <3>1. ~OutOfTurn(i, Verdict(d))
      BY <1>5, <2>5 DEF TakesUp
    <3>2. /\ ledger[i].status # "absent"
          /\ \E r \in Asks : ask[r].at = "done" /\ ask[r].invoice = i
          /\ \A g \in Hooks : hook[g].at = "free" \/ hook[g].report.invoice # i
          /\ ledger[i].status = "confirmed" => Verdict(d) = "confirmed"
      BY <3>1 DEF OutOfTurn, Recorded
    <3>3. ledger'[i].status = Verdict(d)
      BY <1>5, <2>5, <3>2 DEF TakesUp, PayTypeOK
    <3>4. \A g \in Hooks : Mirrors(g, i)' => g = h
      BY <2>1, <3>2 DEF Mirrors
    <3>5. \A j \in Jobs : pay[j].invoice = i /\ pay[j].status = "confirmed" =>
            Verdict(d) = "confirmed"
      BY <2>2, <3>2 DEF Agree
    <3>6. Verdict(hook'[h].report) = Verdict(d)
      BY <2>1
    <3>. QED  BY <2>2, <3>2, <3>3, <3>4, <3>5, <3>6 DEF Agree, Verdict
  <2>. QED  BY <2>4, <2>5
<1>6. ASSUME NEW h \in Hooks, hook' = [hook EXCEPT ![h] = NoHook], UNCHANGED <<ledger, ask, raced>>,
             \A j \in Jobs : pay'[j].invoice = i /\ pay'[j].status = "confirmed" =>
                 ledger[i].status = "confirmed"
      PROVE  Agree(i)'
  <2>1. \A g \in Hooks : Mirrors(g, i)' => Mirrors(g, i) /\ hook'[g] = hook[g]
    BY <1>6 DEF Mirrors, NoHook, PayTypeOK
  <2>. QED  BY <1>6, <2>1 DEF Agree, Verdict
<1>7. ASSUME NEW h \in Hooks, MirrorOnJob(h) PROVE Agree(i)'
  <2>1. /\ hook[h].at = "mirror"
        /\ \A j \in Jobs :
             /\ pay'[j].invoice = pay[j].invoice
             /\ pay'[j].status = IF pay[j].invoice = hook[h].report.invoice
                                THEN Verdict(hook[h].report) ELSE pay[j].status
        /\ hook' = [hook EXCEPT ![h] = NoHook]
        /\ UNCHANGED <<ledger, ask, raced>>
    BY <1>7, MirrorKept
  <2>2. \A j \in Jobs : pay'[j].invoice = i /\ pay'[j].status = "confirmed" =>
          ledger[i].status = "confirmed"
    BY <2>1 DEF Agree, Mirrors
  <2>. QED  BY <1>6, <2>1, <2>2
<1>8. ASSUME NEW h \in Hooks, HookFails(h) PROVE Agree(i)'
  BY <1>6, <1>8 DEF HookFails, Agree
<1>9. ASSUME UNCHANGED <<pay, ledger, ask, hook, raced>> PROVE Agree(i)'
  BY <1>9 DEF Agree, Mirrors
<1>10. ASSUME NEW r \in Asks, NEW from \in {"idle", "created", "updated"}, AskGoes(r, from, "done"),
              UNCHANGED <<pay, ledger>>
       PROVE  Agree(i)'
  BY <1>2, <1>10 DEF AskGoes
<1>. QED
  BY Steps, <1>1, <1>3, <1>4, <1>5, <1>7, <1>8, <1>9, <1>10
  DEF Advances, ReportAgain, payVars

LEMMA ConfirmedStep ==
    PayTypeOK /\ Issued /\ NamedOnce /\ Honest /\ ConfirmedWasPaid /\ [PayNext]_payVars
      => ConfirmedWasPaid'
<1>. SUFFICES ASSUME PayTypeOK, Issued, NamedOnce, Honest, ConfirmedWasPaid, [PayNext]_payVars,
                     NamedOnce'
              PROVE  ConfirmedWasPaid'
  BY NamedStep
<1>i. \A j \in Jobs : pay[j].invoice # Null => pay[j].invoice \in Invoices
  BY DEF PayTypeOK
<1>p. \A j \in Jobs : pay[j].status = "confirmed" =>
        pay[j].invoice # Null /\ gateway'[pay[j].invoice].state = "paid"
  BY <1>i, PaidStays DEF ConfirmedWasPaid, Paid
<1>l. \A i \in Invoices : ledger[i].confirmed => Paid(i)'
  BY PaidStays DEF ConfirmedWasPaid
<1>1. ASSUME \A j \in Jobs :
               \/ pay'[j].status # "confirmed"
               \/ /\ pay'[j].invoice # Null
                  /\ gateway'[pay'[j].invoice].state = "paid",
             \A i \in Invoices : ledger'[i].confirmed => Paid(i)'
      PROVE  ConfirmedWasPaid'
  BY <1>1 DEF ConfirmedWasPaid, Paid, NamedOnce
<1>2. ASSUME UNCHANGED <<pay, ledger>> PROVE ConfirmedWasPaid'
  BY <1>1, <1>2, <1>p, <1>l
<1>3. ASSUME NEW r \in Asks, InvoiceJob(r) PROVE ConfirmedWasPaid'
  <2>1. \A j \in Jobs : pay'[j] = pay[j] \/ pay'[j].status = "invoiced"
    BY <1>3 DEF InvoiceJob, PayTypeOK
  <2>. QED  BY <1>1, <1>3, <1>p, <1>l, <2>1 DEF InvoiceJob
<1>4. ASSUME NEW r \in Asks, InsertTransaction(r) PROVE ConfirmedWasPaid'
  <2>1. \A i \in Invoices : ledger'[i].confirmed = ledger[i].confirmed
    BY <1>4 DEF InsertTransaction, PayTypeOK
  <2>. QED  BY <1>1, <1>4, <1>p, <1>l, <2>1 DEF InsertTransaction
<1>5. ASSUME NEW h \in Hooks, NEW d \in due, TakesUp(h, d) PROVE ConfirmedWasPaid'
  <2>1. d.invoice \in Invoices
    BY DEF PayTypeOK, Reports
  <2>2. Verdict(d) = "confirmed" => Paid(d.invoice)'
    BY <2>1, PaidStays DEF Honest
  <2>3. \A i \in Invoices : ledger'[i].confirmed =>
          ledger[i].confirmed \/ (i = d.invoice /\ Verdict(d) = "confirmed")
    BY <1>5, <2>1 DEF TakesUp, PayTypeOK
  <2>. QED  BY <1>1, <1>5, <1>p, <1>l, <2>2, <2>3 DEF TakesUp
<1>6. ASSUME NEW h \in Hooks, MirrorOnJob(h) PROVE ConfirmedWasPaid'
  <2>1. /\ hook[h].at = "mirror"
        /\ \A j \in Jobs :
             /\ pay'[j].invoice = pay[j].invoice
             /\ pay'[j].status = IF pay[j].invoice = hook[h].report.invoice
                                THEN Verdict(hook[h].report) ELSE pay[j].status
        /\ UNCHANGED <<ledger, gateway>>
    BY <1>6, MirrorKept
  <2>2. /\ hook[h].report \in Reports
        /\ Verdict(hook[h].report) = "confirmed" =>
             gateway[hook[h].report.invoice].state = "paid"
    BY <2>1 DEF Honest, Paid
  <2>3. hook[h].report.invoice # Null
    BY <2>2, PaymentsAssumption DEF Reports, Invoices
  <2>. QED  BY <1>1, <1>p, <1>l, <2>1, <2>2, <2>3
<1>. QED
  BY Steps, <1>2, <1>3, <1>4, <1>5, <1>6
  DEF AskGoes, CreateInvoice, Advances, HookFails, ReportAgain, payVars

LEMMA PayInvInit == PayInit => PayInv
BY PayTypeInit, PaymentsAssumption
DEF PayInit, PayInv, Issued, NamedOnce, Honest, InTurn, Agree, Mirrors, ConfirmedWasPaid, NoHook

LEMMA PayInvStep == PayInv /\ [PayNext]_payVars => PayInv'
BY PayTypeStep, IssuedStep, NamedStep, HonestStep, InTurnStep, ConfirmedStep DEF PayInv

LEMMA PayInvHolds == PaySpec => []PayInv
BY PayInvInit, PayInvStep, PTL DEF PaySpec

\* A confirmed job names an invoice of its own that was paid.
THEOREM ConfirmedJobsWerePaid == PaySpec => []ConfirmedWasPaid
BY PayInvHolds, PTL DEF PayInv

-----------------------------------------------------------------------------
(* Refinement. *)

LEMMA ContractInit == PayInit => PaymentPromise!Init
BY DEF PayInit, PaymentPromise!Init, Paid

LEMMA ContractStep ==
    PayInv /\ PayInv' /\ [PayNext]_payVars => [PaymentPromise!Next]_PaymentPromise!vars
<1>. SUFFICES ASSUME PayInv, PayInv', [PayNext]_payVars
              PROVE  PaymentPromise!Next \/ UNCHANGED PaymentPromise!vars
  OBVIOUS
<1>. USE DEF PayInv
<1>1. ASSUME UNCHANGED <<pay, raced>>, \A i \in Invoices : Paid(i)' = Paid(i)
      PROVE  UNCHANGED PaymentPromise!vars
  BY <1>1 DEF PaymentPromise!vars
<1>2. ASSUME NEW r \in Asks, CreateInvoice(r) PROVE UNCHANGED PaymentPromise!vars
  <2>1. \A i \in Invoices : Paid(i)' = Paid(i)
    BY <1>2, Created DEF Paid
  <2>. QED  BY <1>1, <1>2, <2>1 DEF CreateInvoice
<1>3. ASSUME NEW r \in Asks, InvoiceJob(r) PROVE PaymentPromise!Next
  <2>1. /\ ask[r].job \in Jobs /\ ask[r].invoice \in Invoices
        /\ \A k \in Jobs : pay[k].invoice # ask[r].invoice
    BY <1>3 DEF InvoiceJob, Issued, NamedOnce, PayTypeOK
  <2>2. PICK j \in Jobs, i \in Invoices : j = ask[r].job /\ i = ask[r].invoice
    BY <2>1
  <2>3. \A k \in Jobs : pay'[k] = IF k = j THEN [status |-> "invoiced", invoice |-> i]
                                  ELSE pay[k]
    BY <1>3, <2>2 DEF InvoiceJob, PayTypeOK
  <2>4. /\ [k \in Jobs |-> pay'[k].invoice] = [[k \in Jobs |-> pay[k].invoice] EXCEPT ![j] = i]
        /\ [k \in Jobs |-> pay'[k].status] =
              [[k \in Jobs |-> pay[k].status] EXCEPT ![j] = "invoiced"]
    <3>1. \A k \in Jobs : /\ pay'[k].invoice = IF k = j THEN i ELSE pay[k].invoice
                         /\ pay'[k].status = IF k = j THEN "invoiced" ELSE pay[k].status
      BY <2>3
    <3>2. [k \in Jobs |-> pay'[k].invoice] = [[k \in Jobs |-> pay[k].invoice] EXCEPT ![j] = i]
      BY <3>1
    <3>3. [k \in Jobs |-> pay'[k].status] =
            [[k \in Jobs |-> pay[k].status] EXCEPT ![j] = "invoiced"]
      BY <3>1
    <3>. QED  BY <3>2, <3>3
  <2>5. UNCHANGED <<gateway, raced>>
    BY <1>3 DEF InvoiceJob
  <2>6. PaymentPromise!Issue(j, i)
    BY <2>1, <2>2, <2>4, <2>5 DEF PaymentPromise!Issue, Paid
  <2>. QED  BY <2>6 DEF PaymentPromise!Next
<1>4. ASSUME NEW i \in Invoices, NEW st \in {"seen", "paid", "void"}, NEW v, Advances(i, st, v)
      PROVE  PaymentPromise!Next \/ UNCHANGED PaymentPromise!vars
  <2>1. \A k \in Invoices : gateway'[k].state = IF k = i THEN st ELSE gateway[k].state
    BY <1>4, GatewayKept DEF Advances
  <2>2. ~Paid(i)
    BY <1>4 DEF Advances, Paid
  <2>3. CASE st = "paid"
    <3>1. {k \in Invoices : Paid(k)'} = {k \in Invoices : Paid(k)} \cup {i}
      BY <2>1, <2>3 DEF Paid
    <3>2. PaymentPromise!Pay(i)
      BY <1>4, <3>1 DEF Advances, PaymentPromise!Pay
    <3>. QED  BY <3>2 DEF PaymentPromise!Next
  <2>4. CASE st # "paid"
    BY <1>1, <1>4, <2>1, <2>2, <2>4 DEF Advances, Paid
  <2>. QED  BY <2>3, <2>4
<1>5. ASSUME NEW h \in Hooks, NEW d \in due, TakesUp(h, d)
      PROVE  PaymentPromise!Next \/ UNCHANGED PaymentPromise!vars
  <2>1. d.invoice \in Invoices
    BY DEF PayTypeOK, Reports
  <2>2. CASE raced' = raced
    BY <1>1, <1>5, <2>2 DEF TakesUp, Paid
  <2>3. CASE raced' = raced \cup {d.invoice}
    <3>1. PaymentPromise!Cross(d.invoice)
      BY <1>5, <2>3 DEF TakesUp, PaymentPromise!Cross, Paid
    <3>. QED  BY <2>1, <3>1 DEF PaymentPromise!Next
  <2>. QED  BY <1>5, <2>2, <2>3 DEF TakesUp
<1>6. ASSUME NEW h \in Hooks, MirrorOnJob(h)
      PROVE  PaymentPromise!Next \/ UNCHANGED PaymentPromise!vars
  <2>. DEFINE i == hook[h].report.invoice
              v == Verdict(hook[h].report)
  <2>1. /\ hook[h].at = "mirror"
        /\ \A j \in Jobs : /\ pay'[j].invoice = pay[j].invoice
                           /\ pay'[j].status = IF pay[j].invoice = i THEN v ELSE pay[j].status
        /\ UNCHANGED <<ledger, ask, gateway, raced>>
    BY <1>6, MirrorKept
  <2>2. i \in Invoices /\ i # Null /\ v \in Verdicts /\ (v = "confirmed" => Paid(i))
    BY <2>1, ParseType, PaymentsAssumption DEF Honest, Reports, Invoices, Verdict
  <2>3. CASE \A j \in Jobs : pay[j].invoice # i
    <3>1. \A j \in Jobs : pay'[j].invoice = pay[j].invoice /\ pay'[j].status = pay[j].status
      BY <2>1, <2>3
    <3>. QED  BY <2>1, <3>1 DEF PaymentPromise!vars, Paid
  <2>4. ASSUME NEW j \in Jobs, pay[j].invoice = i PROVE PaymentPromise!Next
    <3>1. \A k \in Jobs : pay[k].invoice = i => k = j
      BY <2>2, <2>4 DEF NamedOnce
    <3>2. pay[j].status = "confirmed" /\ v # "confirmed" => i \in raced
      BY <2>1, <2>2, <2>4 DEF InTurn, Agree, Mirrors
    <3>3. [k \in Jobs |-> pay'[k].invoice] = [k \in Jobs |-> pay[k].invoice]
      BY <2>1
    <3>4. [k \in Jobs |-> pay'[k].status] = [[k \in Jobs |-> pay[k].status] EXCEPT ![j] = v]
      BY <2>1, <2>4, <3>1
    <3>5. PICK st \in Verdicts : st = v
      BY <2>2
    <3>6. PaymentPromise!Say(j, st)
      BY <2>1, <2>2, <2>4, <3>2, <3>3, <3>4, <3>5 DEF PaymentPromise!Say, Paid
    <3>. QED  BY <3>6 DEF PaymentPromise!Next, Verdicts
  <2>. QED  BY <2>3, <2>4
<1>7. ASSUME UNCHANGED <<pay, gateway, raced>> PROVE UNCHANGED PaymentPromise!vars
  BY <1>1, <1>7 DEF Paid
<1>. QED
  BY Steps, <1>2, <1>3, <1>4, <1>5, <1>6, <1>7
  DEF AskGoes, InsertTransaction, HookFails, ReportAgain, payVars

\* The invoice and the webhook route keep what PaymentContract promises.
THEOREM PaymentsImplementContract == PaySpec => KeepsPaymentContract
BY ContractInit, ContractStep, PayInvHolds, PTL
DEF PaySpec, KeepsPaymentContract, PaymentPromise!Spec

-----------------------------------------------------------------------------
(* Signed requests: a process takes a request once, and what is linked     *)
(* stays linked.                                                           *)
(*                                                                         *)
(* A process that took a request remembers it for the whole time to live,  *)
(* unless the cache was full (Remembered), and the request cannot have     *)
(* been made more than a window ahead of that (TakenInWindow): when the    *)
(* entry has ended so has the window, but for half a second.               *)

RequestRec == [account : Accounts, key : NodeKeys, created : 0..Second(MaxTime),
               secret : Secrets]
EntryRec == [nonce : Requests, until : Nat]

\* A call that is about to insert holds a request; a request that was taken was
\* not made more than a window ahead of the first time.
TakenInWindow ==
    /\ Len(request) <= MaxRequests
    /\ \A c \in Calls : call[c].at = "insert" => call[c].req \in DOMAIN request
    /\ \A p \in Servers : \A q \in Requests : taken[p][q] # << >> =>
         /\ q \in DOMAIN request
         /\ taken[p][q][1] <= now
         /\ request[q].created - Second(taken[p][q][1]) <= Window

\* A process that took a request once remembers it, for the whole time to live,
\* unless the cache was full.
Remembered ==
    \A p \in Servers : \A q \in Requests : Len(taken[p][q]) = 1 =>
        \/ <<p, q>> \in evicted
        \/ \E e \in seen[p] : e.nonce = q /\ e.until = taken[p][q][1] + Ttl

LinksInv == LinksTypeOK /\ TakenInWindow /\ Remembered /\ LinksAreTrue

LEMMA LinksInvInit == LinksInit => LinksInv
<1>. SUFFICES ASSUME LinksInit PROVE LinksInv
  OBVIOUS
<1>1. LinksTypeOK
  BY LinksAssumption DEF LinksInit, LinksTypeOK, Secrets
<1>2. TakenInWindow /\ Remembered /\ TakenOnce
  BY LinksAssumption DEF LinksInit, TakenInWindow, Remembered, TakenOnce
<1>3. LinkedAsTold
  BY DEF LinksInit, LinkedAsTold
<1>. QED  BY <1>1, <1>2, <1>3 DEF LinksInv, LinksAreTrue

\* The window is open after the entry has ended only for a request that came a
\* whole window before its own time, to the second.
LEMMA WindowArithmetic ==
    ASSUME NEW t \in Nat, NEW n \in Nat, NEW created \in Nat, NEW W \in Nat,
           created - t \div 2 <= W, n \div 2 - created <= W, t + 4 * W < n
    PROVE  t = 2 * (created - W)
OBVIOUS

\* The times at which one request was taken.
LEMMA TimesOfOne ==
    ASSUME NEW T, NEW times \in Seq(T)
    PROVE  /\ \A t \in T : Len(Append(times, t)) = 1 => times = << >>
           /\ times # << >> => Len(times) = 1 \/ Len(times) > 1
<1>. DEFINE n == Len(times)
<1>1. n \in Nat /\ (n = 0 <=> times = << >>)
  OBVIOUS
<1>2. \A t \in T : Len(Append(times, t)) = n + 1
  OBVIOUS
<1>. HIDE DEF n
<1>4. n + 1 = 1 => n = 0
  BY <1>1
<1>5. n # 0 => n = 1 \/ n > 1
  BY <1>1
<1>6. \A t \in T : Len(Append(times, t)) = 1 => times = << >>
  BY <1>1, <1>2, <1>4
<1>7. n = 1 \/ n > 1 => Len(times) = 1 \/ Len(times) > 1
  BY DEF n
<1>. QED  BY <1>1, <1>5, <1>6, <1>7

LEMMA LinksFacts ==
    ASSUME LinksInv
    PROVE  /\ now \in 0..MaxTime /\ MaxTime \in Nat
           /\ request \in Seq(RequestRec) /\ Len(request) \in Nat
           /\ DOMAIN request = 1..Len(request) /\ DOMAIN request \subseteq Requests
           /\ \A q \in DOMAIN request : request[q] \in RequestRec
           /\ seen \in [Servers -> SUBSET EntryRec]
           /\ taken \in [Servers -> [Requests -> Seq(0..MaxTime)]]
<1>1. request \in Seq(RequestRec) /\ Len(request) \in Nat /\ DOMAIN request = 1..Len(request)
  BY DEF LinksInv, LinksTypeOK, RequestRec
<1>2. DOMAIN request \subseteq Requests
  BY <1>1, LinksAssumption DEF LinksInv, TakenInWindow, Requests
<1>3. \A q \in DOMAIN request : request[q] \in RequestRec
  BY <1>1
<1>. QED  BY <1>1, <1>2, <1>3, LinksAssumption DEF LinksInv, LinksTypeOK, EntryRec

LEMMA FirstTime ==
    ASSUME LinksInv, NEW p \in Servers, NEW q \in Requests, taken[p][q] # << >>
    PROVE  taken[p][q][1] \in 0..MaxTime /\ taken[p][q][1] \in Nat /\ taken[p][q][1] <= now
<1>1. taken[p][q][1] \in 0..MaxTime /\ taken[p][q][1] <= now
  BY LinksFacts DEF LinksInv, TakenInWindow
<1>. QED  BY <1>1, LinksFacts

\* A request more, a new secret, time.
LEMMA SignKeeps == ASSUME LinksInv, Sign PROVE LinksInv'
<1>1. PICK r \in RequestRec : request' = Append(request, r)
  BY DEF Sign, Signed, RequestRec, LinksInv, LinksTypeOK
<1>2. /\ Len(request) < MaxRequests
      /\ UNCHANGED <<now, seen, call, link, secret, told, taken, evicted>>
  BY DEF Sign
<1>3. /\ request' \in Seq(RequestRec) /\ Len(request') = Len(request) + 1
      /\ DOMAIN request \subseteq DOMAIN request'
      /\ \A q \in DOMAIN request : request'[q] = request[q]
  BY <1>1, LinksFacts
<1>4. LinksTypeOK'
  BY <1>2, <1>3 DEF LinksInv, LinksTypeOK, RequestRec
<1>5. TakenInWindow'
  <2>1. Len(request') <= MaxRequests
    BY <1>2, <1>3, LinksFacts, LinksAssumption
  <2>. QED  BY <1>2, <1>3, <2>1 DEF LinksInv, TakenInWindow
<1>6. Remembered' /\ LinkedAsTold'
  BY <1>2 DEF LinksInv, Remembered, LinksAreTrue, LinkedAsTold
<1>7. TakenOnce'
  <2>. SUFFICES ASSUME NEW p \in Servers, NEW q \in Requests, Len(taken[p][q]) > 1
       PROVE  \/ <<p, q>> \in evicted
              \/ taken[p][q][1] = 2 * (request'[q].created - Window)
    BY <1>2 DEF TakenOnce
  <2>1. taken[p][q] # << >>
    OBVIOUS
  <2>2. request'[q] = request[q]
    BY <1>3, <2>1 DEF LinksInv, TakenInWindow
  <2>. QED  BY <2>2 DEF LinksInv, LinksAreTrue, TakenOnce
<1>. QED  BY <1>4, <1>5, <1>6, <1>7 DEF LinksInv, LinksAreTrue

LEMMA ClockKeeps == ASSUME LinksInv, RotateSecret \/ Tick PROVE LinksInv'
<1>1. /\ UNCHANGED <<request, seen, call, link, told, taken, evicted>>
      /\ now' \in 0..MaxTime /\ now <= now' /\ secret' \in Secrets
  BY LinksFacts DEF RotateSecret, Tick, Secrets, LinksInv, LinksTypeOK
<1>2. LinksTypeOK'
  BY <1>1 DEF LinksInv, LinksTypeOK
<1>3. TakenInWindow'
  <2>. SUFFICES ASSUME NEW p \in Servers, NEW q \in Requests, taken[p][q] # << >>
       PROVE  taken[p][q][1] <= now'
    BY <1>1 DEF LinksInv, TakenInWindow
  <2>1. taken[p][q][1] \in 0..MaxTime /\ taken[p][q][1] <= now
    BY LinksFacts DEF LinksInv, TakenInWindow
  <2>. QED  BY <1>1, <2>1, LinksFacts
<1>4. Remembered' /\ LinksAreTrue'
  BY <1>1 DEF LinksInv, Remembered, LinksAreTrue, TakenOnce, LinkedAsTold
<1>. QED  BY <1>2, <1>3, <1>4 DEF LinksInv

\* What a process that takes a request remembers and forgets.
LEMMA TakeKeeps ==
    ASSUME LinksInv, NEW p \in Servers, NEW q \in DOMAIN request,
           Admits(p, q), Take(p, q), UNCHANGED <<now, request>>
    PROVE  /\ seen' \in [Servers -> SUBSET EntryRec]
           /\ evicted' \subseteq Servers \X Requests
           /\ taken' \in [Servers -> [Requests -> Seq(0..MaxTime)]]
           /\ \A r \in Servers : \A x \in Requests : taken'[r][x] # << >> =>
                /\ x \in DOMAIN request
                /\ taken'[r][x][1] <= now
                /\ request[x].created - Second(taken'[r][x][1]) <= Window
           /\ Remembered' /\ TakenOnce'
<1>. DEFINE left == Remaining(p, q)
<1>0. q \in Requests
  BY LinksFacts
<1>1. PICK aged \in PushedOut(left) :
         /\ seen' = [seen EXCEPT ![p] = (left \ aged) \cup {Entry(q)}]
         /\ evicted' = evicted \cup {<<p, e.nonce>> : e \in aged}
         /\ taken' = [taken EXCEPT ![p][q] = Append(@, now)]
  BY DEF Take
<1>2. left \subseteq EntryRec /\ left \subseteq seen[p] /\ aged \subseteq left
  BY LinksFacts DEF Remaining, PushedOut
<1>3. Entry(q) \in EntryRec /\ Entry(q).nonce = q /\ Entry(q).until = now + Ttl
  BY <1>0, LinksFacts, LinksAssumption DEF Entry, EntryRec, Ttl
<1>4. /\ seen'[p] = (left \ aged) \cup {Entry(q)}
      /\ \A r \in Servers \ {p} : seen'[r] = seen[r]
      /\ seen' \in [Servers -> SUBSET EntryRec]
  BY <1>1, <1>2, <1>3, LinksFacts
<1>5. /\ evicted' \subseteq Servers \X Requests /\ evicted \subseteq evicted'
      /\ \A e \in aged : <<p, e.nonce>> \in evicted'
  <2>1. \A e \in aged : e.nonce \in Requests
    BY <1>2 DEF EntryRec
  <2>. QED  BY <1>1, <2>1 DEF LinksInv, LinksTypeOK
<1>6. /\ taken'[p][q] = Append(taken[p][q], now)
      /\ \A x \in Requests \ {q} : taken'[p][x] = taken[p][x]
      /\ \A r \in Servers \ {p} : taken'[r] = taken[r]
  BY <1>0, <1>1, LinksFacts
<1>7. taken' \in [Servers -> [Requests -> Seq(0..MaxTime)]]
  <2>1. Append(taken[p][q], now) \in Seq(0..MaxTime)
    BY <1>0, LinksFacts
  <2>. QED  BY <1>0, <1>1, <2>1, LinksFacts
<1>8. /\ taken[p][q] \in Seq(0..MaxTime) /\ Len(taken[p][q]) \in Nat
      /\ Len(taken'[p][q]) = Len(taken[p][q]) + 1
      /\ taken[p][q] = << >> <=> Len(taken[p][q]) = 0
      /\ taken[p][q] # << >> => taken'[p][q][1] = taken[p][q][1]
      /\ taken[p][q] = << >> => taken'[p][q][1] = now
  BY <1>0, <1>6, LinksFacts
<1>9. \A r \in Servers : \A x \in Requests : r # p \/ x # q => taken'[r][x] = taken[r][x]
  BY <1>6
<1>10. /\ request[q].created \in Nat /\ now \in Nat /\ Window \in Nat
       /\ request[q].created - Second(now) <= Window
       /\ Second(now) - request[q].created <= Window
  BY LinksFacts, LinksAssumption DEF RequestRec, Admits, InWindow
<1>11. \A r \in Servers : \A x \in Requests : taken'[r][x] # << >> =>
                /\ x \in DOMAIN request
                /\ taken'[r][x][1] <= now
                /\ request[x].created - Second(taken'[r][x][1]) <= Window
  <2>. SUFFICES ASSUME NEW r \in Servers, NEW x \in Requests, taken'[r][x] # << >>
       PROVE  /\ x \in DOMAIN request
              /\ taken'[r][x][1] <= now
              /\ request[x].created - Second(taken'[r][x][1]) <= Window
    OBVIOUS
  <2>1. CASE r # p \/ x # q
    BY <1>9, <2>1 DEF LinksInv, TakenInWindow
  <2>2. CASE r = p /\ x = q /\ taken[p][q] = << >>
    BY <1>8, <1>10, <2>2
  <2>3. CASE r = p /\ x = q /\ taken[p][q] # << >>
    BY <1>0, <1>8, <2>3 DEF LinksInv, TakenInWindow
  <2>. QED  BY <2>1, <2>2, <2>3
<1>12. Remembered'
  <2>. SUFFICES ASSUME NEW r \in Servers, NEW x \in Requests, Len(taken'[r][x]) = 1
       PROVE  \/ <<r, x>> \in evicted'
              \/ \E e \in seen'[r] : e.nonce = x /\ e.until = taken'[r][x][1] + Ttl
    BY DEF Remembered
  <2>1. CASE r # p
    BY <1>4, <1>5, <1>9, <2>1 DEF LinksInv, Remembered
  <2>2. CASE r = p /\ x # q
    <3>1. taken'[p][x] = taken[p][x]
      BY <1>9, <2>2
    <3>2. CASE <<p, x>> \in evicted
      BY <1>5, <2>2, <3>2
    <3>3. CASE <<p, x>> \notin evicted
      <4>1. PICK e \in seen[p] : e.nonce = x /\ e.until = taken[p][x][1] + Ttl
        BY <2>2, <3>1, <3>3 DEF LinksInv, Remembered
      <4>2. e \in left
        BY <2>2, <4>1 DEF Remaining
      <4>3. e \in aged => <<p, x>> \in evicted'
        BY <1>5, <4>1
      <4>. QED  BY <1>4, <2>2, <3>1, <4>1, <4>2, <4>3
    <3>. QED  BY <3>2, <3>3
  <2>3. CASE r = p /\ x = q
    <3>1. taken[p][q] = << >>
      <4>1. Len(Append(taken[p][q], now)) = 1
        BY <1>6, <2>3
      <4>2. taken[p][q] \in Seq(0..MaxTime) /\ now \in 0..MaxTime
        BY <1>8, LinksFacts
      <4>. QED  BY <4>1, <4>2, TimesOfOne
    <3>. QED  BY <1>3, <1>4, <1>8, <2>3, <3>1
  <2>. QED  BY <2>1, <2>2, <2>3
<1>13. TakenOnce'
  <2>. SUFFICES ASSUME NEW r \in Servers, NEW x \in Requests, Len(taken'[r][x]) > 1
       PROVE  \/ <<r, x>> \in evicted'
              \/ taken'[r][x][1] = 2 * (request[x].created - Window)
    BY DEF TakenOnce
  <2>1. CASE r # p \/ x # q
    BY <1>5, <1>9, <2>1 DEF LinksInv, LinksAreTrue, TakenOnce
  <2>2. CASE r = p /\ x = q
    <3>1. taken[p][q] # << >> /\ taken'[p][q][1] = taken[p][q][1]
      BY <1>8, <2>2
    <3>2. CASE Len(taken[p][q]) > 1
      BY <1>0, <1>5, <2>2, <3>1, <3>2 DEF LinksInv, LinksAreTrue, TakenOnce
    <3>3. CASE Len(taken[p][q]) = 1
      <4>1. CASE <<p, q>> \in evicted
        BY <1>5, <2>2, <4>1
      <4>2. CASE <<p, q>> \notin evicted
        <5>1. PICK e \in seen[p] : e.nonce = q /\ e.until = taken[p][q][1] + Ttl
          BY <1>0, <3>3, <4>2 DEF LinksInv, Remembered
        <5>2. PICK t \in Nat : /\ t = taken[p][q][1]
                              /\ request[q].created - Second(t) <= Window
          <6>1. taken[p][q][1] \in Nat
            BY <1>0, <3>1, FirstTime
          <6>2. request[q].created - Second(taken[p][q][1]) <= Window
            BY <1>0, <3>1 DEF LinksInv, TakenInWindow
          <6>. QED  BY <6>1, <6>2
        <5>3. t + 4 * Window < now
          <6>1. ~(e.until >= now)
            BY <5>1 DEF Admits, Has
          <6>. QED  BY <5>1, <5>2, <6>1, <1>10 DEF Ttl
        <5>4. t = 2 * (request[q].created - Window)
          <6>1. PICK made \in Nat : made = request[q].created
            BY <1>10
          <6>2. /\ made - t \div 2 <= Window /\ now \div 2 - made <= Window
            BY <5>2, <1>10, <6>1 DEF Second
          <6>3. t = 2 * (made - Window)
            BY <5>3, <6>2, <1>10, WindowArithmetic
          <6>. QED  BY <6>1, <6>3
        <5>. QED  BY <2>2, <3>1, <5>2, <5>4
      <4>. QED  BY <4>1, <4>2
    <3>4. Len(taken[p][q]) = 1 \/ Len(taken[p][q]) > 1
      BY <1>8, <3>1, TimesOfOne
    <3>. QED  BY <3>2, <3>3, <3>4
  <2>. QED  BY <2>1, <2>2
<1>. QED  BY <1>4, <1>5, <1>7, <1>11, <1>12, <1>13

LEMMA DeliverKeeps == ASSUME LinksInv, NEW c \in Calls, Deliver(c) PROVE LinksInv'
<1>1. PICK p \in Servers, q \in DOMAIN request :
        /\ Admits(p, q) /\ Take(p, q)
        /\ LinkedAlready(c, q) \/ LinkedElsewhere(c, q) \/ NotLinked(c, q)
  BY DEF Deliver
<1>2. UNCHANGED <<now, request, link, secret>>
  BY DEF Deliver
<1>3. q \in Requests /\ request[q] \in RequestRec
  BY LinksFacts
<1>4. PICK at \in {"insert", "done"} : call' = [call EXCEPT ![c] = [at |-> at, req |-> q]]
  BY <1>1 DEF LinkedAlready, LinkedElsewhere, NotLinked
<1>5. /\ told' \subseteq Accounts \X NodeKeys
      /\ \A t \in told' : link[t[2]] = t[1]
  <2>1. told \subseteq Accounts \X NodeKeys /\ \A t \in told : link[t[2]] = t[1]
    BY DEF LinksInv, LinksTypeOK, LinksAreTrue, LinkedAsTold
  <2>2. CASE UNCHANGED told
    BY <2>1, <2>2
  <2>3. CASE LinkedAlready(c, q)
    BY <1>3, <2>1, <2>3 DEF LinkedAlready, RequestRec
  <2>. QED  BY <1>1, <2>2, <2>3 DEF LinkedElsewhere, NotLinked
<1>6. LinksTypeOK'
  <2>1. call' \in [Calls -> [at : {"idle", "insert", "done"}, req : Requests \cup {0}]]
    BY <1>3, <1>4 DEF LinksInv, LinksTypeOK
  <2>2. /\ seen' \in [Servers -> SUBSET EntryRec]
        /\ evicted' \subseteq Servers \X Requests
        /\ taken' \in [Servers -> [Requests -> Seq(0..MaxTime)]]
    BY <1>1, <1>2, TakeKeeps
  <2>. QED  BY <1>2, <1>5, <2>1, <2>2 DEF LinksInv, LinksTypeOK, EntryRec
<1>7. TakenInWindow'
  <2>1. \A d \in Calls : call'[d].at = "insert" => call'[d].req \in DOMAIN request
    BY <1>4 DEF LinksInv, LinksTypeOK, TakenInWindow
  <2>2. \A r \in Servers : \A x \in Requests : taken'[r][x] # << >> =>
                /\ x \in DOMAIN request
                /\ taken'[r][x][1] <= now
                /\ request[x].created - Second(taken'[r][x][1]) <= Window
    BY <1>1, <1>2, TakeKeeps
  <2>. QED  BY <1>2, <2>1, <2>2 DEF LinksInv, TakenInWindow
<1>8. Remembered' /\ TakenOnce'
  BY <1>1, <1>2, TakeKeeps
<1>. QED  BY <1>2, <1>5, <1>6, <1>7, <1>8 DEF LinksInv, LinksAreTrue, LinkedAsTold

LEMMA InsertLinkKeeps == ASSUME LinksInv, NEW c \in Calls, InsertLink(c) PROVE LinksInv'
<1>1. PICK r \in RequestRec : r = request[call[c].req]
  BY LinksFacts DEF InsertLink, LinksInv, TakenInWindow
<1>2. /\ call' = [call EXCEPT ![c].at = "done"]
      /\ IF link[r.key] = Nobody
         THEN /\ link' = [link EXCEPT ![r.key] = r.account]
              /\ told' = told \cup {<<r.account, r.key>>}
         ELSE UNCHANGED <<link, told>>
      /\ UNCHANGED <<now, request, seen, secret, taken, evicted>>
  BY <1>1 DEF InsertLink
<1>3. /\ call' \in [Calls -> [at : {"idle", "insert", "done"}, req : Requests \cup {0}]]
      /\ \A d \in Calls : call'[d].at = "insert" => call'[d] = call[d]
  BY <1>2 DEF LinksInv, LinksTypeOK
<1>4. /\ link \in [NodeKeys -> Accounts \cup {Nobody}] /\ told \subseteq Accounts \X NodeKeys
      /\ \A t \in told : link[t[2]] = t[1]
      /\ r.account \in Accounts /\ r.key \in NodeKeys
  BY DEF LinksInv, LinksTypeOK, LinksAreTrue, LinkedAsTold, RequestRec
<1>5. /\ link' \in [NodeKeys -> Accounts \cup {Nobody}] /\ told' \subseteq Accounts \X NodeKeys
      /\ LinkedAsTold'
  <2>1. CASE link[r.key] = Nobody
    <3>1. \A t \in told : t[2] # r.key /\ t[2] \in NodeKeys
      BY <1>4, <2>1, LinksAssumption
    <3>2. link'[r.key] = r.account /\ \A k \in NodeKeys \ {r.key} : link'[k] = link[k]
      BY <1>2, <1>4, <2>1
    <3>3. \A t \in told' : link'[t[2]] = t[1]
      BY <1>2, <1>4, <2>1, <3>1, <3>2
    <3>. QED  BY <1>2, <1>4, <2>1, <3>3 DEF LinkedAsTold
  <2>2. CASE link[r.key] # Nobody
    BY <1>2, <1>4, <2>2 DEF LinkedAsTold
  <2>. QED  BY <2>1, <2>2
<1>6. LinksTypeOK'
  BY <1>2, <1>3, <1>5 DEF LinksInv, LinksTypeOK
<1>7. TakenInWindow' /\ Remembered' /\ TakenOnce'
  BY <1>2, <1>3 DEF LinksInv, TakenInWindow, Remembered, LinksAreTrue, TakenOnce
<1>. QED  BY <1>5, <1>6, <1>7 DEF LinksInv, LinksAreTrue

LEMMA LinksInvNext == LinksInv /\ [LinksNext]_linkVars => LinksInv'
<1>. SUFFICES ASSUME LinksInv, [LinksNext]_linkVars PROVE LinksInv'
  OBVIOUS
<1>1. CASE UNCHANGED linkVars
  BY <1>1 DEF linkVars, LinksInv, LinksTypeOK, TakenInWindow, Remembered, LinksAreTrue,
              TakenOnce, LinkedAsTold
<1>. QED  BY <1>1, SignKeeps, ClockKeeps, DeliverKeeps, InsertLinkKeeps DEF LinksNext

LEMMA LinksInvHolds == LinksSpec => []LinksInv
BY LinksInvInit, LinksInvNext, PTL DEF LinksSpec

\* Requests, caches and links keep their types.
THEOREM LinksTyped == LinksSpec => []LinksTypeOK
<1>1. LinksInv => LinksTypeOK
  BY DEF LinksInv
<1>. QED  BY LinksInvHolds, <1>1, PTL

\* For any window and cache: a process takes a request once, but for an entry that
\* was pushed aged and the half second; and what an answer said is linked stays so.
THEOREM LinksHold == LinksSpec => []LinksAreTrue
<1>1. LinksInv => LinksAreTrue
  BY DEF LinksInv
<1>. QED  BY LinksInvHolds, <1>1, PTL

-----------------------------------------------------------------------------
(* Onboarding: what of the config survives the commands that write it.     *)

Complete(c) == c.key # 0 => c.url # Absent

\* Nothing writes a key without a URL or takes the URL away, and a complete
\* config is only initialised again by someone who asked for it.
ConfigsAreComplete ==
    /\ Complete(config)
    /\ \A p \in Runs : /\ Complete(run[p].seen)
                       /\ run[p].at = "saveinit" /\ HasIdentity(run[p].seen) =>
                            run[p].yes \/ run[p].force

OnboardInv == OnboardTypeOK /\ ConfigsAreComplete

\* The step of SettingsSurvive.
Survives ==
    /\ config.key # 0 /\ config'.key # config.key =>
         Unread("key") \/ \E p \in Runs : Writes(p) /\ run[p].force
    /\ \A p \in Runs : Writes(p) =>
         /\ config'.auth # config.auth => Unread("auth")
         /\ config'.model # config.model => Unread("model") \/ run[p].at = "save"
         /\ config'.url # config.url => Unread("url") \/ run[p].at = "saveinit"

LEMMA IdleTyped == /\ Idle \in Run /\ NoConfig \in Config /\ Complete(NoConfig)
                   /\ Idle.at = "idle" /\ Idle.seen = NoConfig
<1>1. NoConfig \in Config /\ Complete(NoConfig)
  BY DEF NoConfig, Config, Complete
<1>2. Idle \in Run /\ Idle.at = "idle" /\ Idle.seen = NoConfig
  BY <1>1 DEF Idle, Run, Places
<1>. QED  BY <1>1, <1>2

LEMMA OnboardInvInit == OnboardInit => OnboardInv
<1>. SUFFICES ASSUME OnboardInit PROVE OnboardInv
  OBVIOUS
<1>1. run \in [Runs -> Run] /\ \A p \in Runs : run[p] = Idle
  BY IdleTyped DEF OnboardInit
<1>2. OnboardTypeOK
  BY <1>1, IdleTyped, OnboardingAssumption DEF OnboardInit, OnboardTypeOK
<1>3. ConfigsAreComplete
  BY <1>1, IdleTyped DEF OnboardInit, ConfigsAreComplete
<1>. QED  BY <1>2, <1>3 DEF OnboardInv

LEMMA OnboardFacts ==
    ASSUME OnboardInv
    PROVE  /\ host \in Hosts /\ ollama \in {"absent", "stopped", "running"}
           /\ pulled \subseteq Suggested /\ config \in Config
           /\ daemon \in [key : KeyPairs, url : Urls, by : {"cli", "systemd"}] \cup {Absent}
           /\ service \in {"none", "written", "enabled"}
           /\ rows \subseteq Urls \X KeyPairs /\ owned \subseteq Urls \X KeyPairs \X Owners
           /\ run \in [Runs -> Run] /\ keys \in 0..MaxKeys
           /\ report \in [row : {"none", "ok", "skip"}, passed : BOOLEAN]
           /\ turns \in 0..MaxTurns /\ MaxKeys \in Nat /\ MaxTurns \in Nat
BY OnboardingAssumption DEF OnboardInv, OnboardTypeOK

\* The parts of a step.
MachineTyped ==
    /\ host' \in Hosts /\ ollama' \in {"absent", "stopped", "running"}
    /\ pulled' \subseteq Suggested
    /\ daemon' \in [key : KeyPairs, url : Urls, by : {"cli", "systemd"}] \cup {Absent}
    /\ service' \in {"none", "written", "enabled"}
PlaneTyped == rows' \subseteq Urls \X KeyPairs /\ owned' \subseteq Urls \X KeyPairs \X Owners
CountsTyped == turns' \in 0..MaxTurns /\ keys' \in 0..MaxKeys
ReportTyped == report' \in [row : {"none", "ok", "skip"}, passed : BOOLEAN]
ConfigKept == config' \in Config /\ Complete(config')
RunsKept ==
    /\ run' \in [Runs -> Run]
    /\ \A p \in Runs :
         /\ Complete(run'[p].seen)
         /\ run'[p].at = "saveinit" /\ HasIdentity(run'[p].seen) => run'[p].yes \/ run'[p].force

LEMMA OnboardCombines ==
    ASSUME MachineTyped, PlaneTyped, CountsTyped, ReportTyped, ConfigKept, RunsKept
    PROVE  OnboardInv'
<1>1. OnboardTypeOK'
  BY DEF MachineTyped, PlaneTyped, CountsTyped, ReportTyped, ConfigKept, RunsKept, OnboardTypeOK
<1>2. ConfigsAreComplete'
  BY DEF ConfigKept, RunsKept, ConfigsAreComplete, Complete, HasIdentity
<1>. QED  BY <1>1, <1>2 DEF OnboardInv

LEMMA MachineRests == ASSUME OnboardInv, UNCHANGED machineState PROVE MachineTyped
BY OnboardFacts DEF machineState, MachineTyped

LEMMA PlaneRests == ASSUME OnboardInv, UNCHANGED Plane PROVE PlaneTyped
BY OnboardFacts DEF Plane, PlaneTyped

LEMMA ReportRests == ASSUME OnboardInv, UNCHANGED report PROVE ReportTyped
BY OnboardFacts DEF ReportTyped

LEMMA CountsRest ==
    ASSUME OnboardInv, UNCHANGED keys, UNCHANGED turns \/ KeepsTurns \/ Turns
    PROVE  CountsTyped
BY OnboardFacts DEF CountsTyped, KeepsTurns, Turns

LEMMA ConfigRests == ASSUME OnboardInv, UNCHANGED config PROVE ConfigKept /\ Survives
BY OnboardFacts DEF OnboardInv, ConfigsAreComplete, ConfigKept, Survives

LEMMA RunsRest == ASSUME OnboardInv, UNCHANGED run PROVE RunsKept
BY OnboardFacts DEF OnboardInv, ConfigsAreComplete, RunsKept

\* One command gets on.
LEMMA OneRun ==
    ASSUME OnboardInv, NEW p \in Runs, NEW r \in Run, run' = [run EXCEPT ![p] = r],
           Complete(r.seen), r.at = "saveinit" /\ HasIdentity(r.seen) => r.yes \/ r.force
    PROVE  /\ RunsKept
           /\ run'[p] = r /\ \A q \in Runs \ {p} : run'[q] = run[q]
<1>1. /\ run' \in [Runs -> Run] /\ run'[p] = r
      /\ \A q \in Runs \ {p} : run'[q] = run[q]
  BY OnboardFacts
<1>. QED  BY <1>1 DEF OnboardInv, ConfigsAreComplete, RunsKept

LEMMA EndsKeeps == ASSUME OnboardInv, NEW p \in Runs, CommandEnds(p)
                   PROVE  RunsKept /\ run'[p].at = "idle" /\ \A q \in Runs \ {p} : run'[q] = run[q]
BY IdleTyped, OneRun DEF CommandEnds

LEMMA GoesKeeps ==
    ASSUME OnboardInv, NEW p \in Runs, NEW place \in Places \ {"saveinit"}, GoesTo(p, place)
    PROVE  RunsKept /\ run'[p].at = place /\ \A q \in Runs \ {p} : run'[q] = run[q]
<1>1. PICK old \in Run : old = run[p] /\ Complete(old.seen)
  BY OnboardFacts DEF OnboardInv, ConfigsAreComplete
<1>2. PICK r : r = [old EXCEPT !.at = place]
  OBVIOUS
<1>3. r \in Run /\ r.at = place /\ r.seen = old.seen
  BY <1>1, <1>2 DEF Run
<1>4. run' = [run EXCEPT ![p] = r]
  BY <1>1, <1>2, OnboardFacts DEF GoesTo
<1>. QED  BY <1>1, <1>3, <1>4, OneRun

LEMMA GoesWithKeeps ==
    ASSUME OnboardInv, NEW p \in Runs, NEW place \in Places, GoesWith(p, place, config),
           place = "saveinit" /\ HasIdentity(config) => run[p].yes \/ run[p].force
    PROVE  RunsKept
<1>1. PICK old \in Run : old = run[p]
  BY OnboardFacts
<1>2. PICK c \in Config : c = config /\ Complete(c)
  BY OnboardFacts DEF OnboardInv, ConfigsAreComplete
<1>3. PICK r : r = [old EXCEPT !.at = place, !.seen = c]
  OBVIOUS
<1>4. r \in Run /\ r.at = place /\ r.seen = c /\ r.yes = old.yes /\ r.force = old.force
  BY <1>3 DEF Run
<1>5. run' = [run EXCEPT ![p] = r]
  BY <1>1, <1>2, <1>3, OnboardFacts DEF GoesWith
<1>. QED  BY <1>1, <1>2, <1>4, <1>5, OneRun

\* A command of a terminal that had none.
LEMMA FreshRun ==
    ASSUME OnboardInv, NEW p \in Runs, NEW r \in Run, r.at \in {"ollama", "init", "register"},
           Complete(r.seen), run' = [run EXCEPT ![p] = r]
    PROVE  RunsKept
BY OneRun

-----------------------------------------------------------------------------
(* setup, up to the config. *)

LEMMA SixSuggestions == Suggested = 1..6
BY DEF Suggested, Suggestions

LEMMA BeginKeepsAll ==
    ASSUME OnboardInv, BeginSetup \/ BeginInit \/ BeginRegister
    PROVE  OnboardInv' /\ Survives
<1>1. UNCHANGED <<config, keys, report, machineState, Plane>> /\ (UNCHANGED turns \/ Turns)
  BY DEF BeginSetup, BeginInit, BeginRegister
<1>2. RunsKept
  <2>1. CASE BeginSetup
    <3>1. PICK yes \in BOOLEAN, m \in {0, 1} :
            run' = [run EXCEPT !["setup"] = [Idle EXCEPT !.cmd = "setup", !.at = "ollama", !.yes = yes,
                                                 !.model = m, !.seen = config]]
      BY <2>1 DEF BeginSetup
    <3>2. PICK c \in Config, idle \in Run : c = config /\ Complete(c) /\ idle = Idle
      BY IdleTyped, OnboardFacts DEF OnboardInv, ConfigsAreComplete
    <3>3. PICK r : r = [idle EXCEPT !.cmd = "setup", !.at = "ollama", !.yes = yes,
                                    !.model = m, !.seen = c]
      OBVIOUS
    <3>4. m \in Suggested \cup {0}
      BY SixSuggestions
    <3>5. r \in Run /\ r.at = "ollama" /\ r.seen = c
      BY <3>3, <3>4 DEF Run, Places
    <3>6. run' = [run EXCEPT !["setup"] = r]
      BY <3>1, <3>2, <3>3
    <3>. QED  BY <3>2, <3>5, <3>6, FreshRun DEF Runs
  <2>2. CASE BeginInit
    <3>1. PICK yes \in BOOLEAN, force \in BOOLEAN, u \in Urls \cup {Absent} :
            run' = [run EXCEPT !["beside"] = [Idle EXCEPT !.cmd = "init", !.at = "init", !.yes = yes,
                                                    !.force = force, !.url = u]]
      BY <2>2 DEF BeginInit
    <3>2. PICK idle \in Run : idle = Idle /\ Complete(idle.seen)
      BY IdleTyped
    <3>3. PICK r : r = [idle EXCEPT !.cmd = "init", !.at = "init", !.yes = yes, !.force = force,
                                    !.url = u]
      OBVIOUS
    <3>4. r \in Run /\ r.at = "init" /\ r.seen = idle.seen
      BY <3>3 DEF Run, Places
    <3>5. run' = [run EXCEPT !["beside"] = r]
      BY <3>1, <3>2, <3>3
    <3>. QED  BY <3>2, <3>4, <3>5, FreshRun DEF Runs
  <2>3. CASE BeginRegister
    <3>1. run' = [run EXCEPT !["beside"] = [Idle EXCEPT !.cmd = "register", !.at = "register"]]
      BY <2>3 DEF BeginRegister
    <3>2. PICK idle \in Run : idle = Idle /\ Complete(idle.seen)
      BY IdleTyped
    <3>3. PICK r : r = [idle EXCEPT !.cmd = "register", !.at = "register"]
      OBVIOUS
    <3>4. r \in Run /\ r.at = "register" /\ r.seen = idle.seen
      BY <3>3 DEF Run, Places
    <3>5. run' = [run EXCEPT !["beside"] = r]
      BY <3>1, <3>2, <3>3
    <3>. QED  BY <3>2, <3>4, <3>5, FreshRun DEF Runs
  <2>. QED  BY <2>1, <2>2, <2>3
<1>. QED
  BY <1>1, <1>2, MachineRests, PlaneRests, CountsRest, ReportRests, ConfigRests, OnboardCombines

LEMMA BringUpKeeps ==
    ASSUME OnboardInv, NEW p \in Runs, BringUpOllama(p)
    PROVE  OnboardInv' /\ Survives
<1>1. /\ UNCHANGED <<host, pulled, config, daemon, service, keys, report, Plane>>
      /\ KeepsTurns \/ Turns
      /\ GoesTo(p, "model") \/ CommandEnds(p)
  BY DEF BringUpOllama
<1>2. ollama' \in {"absent", "stopped", "running"}
  BY OnboardFacts DEF BringUpOllama, Installed, Served
<1>3. MachineTyped
  BY <1>1, <1>2, OnboardFacts DEF MachineTyped
<1>4. RunsKept
  BY <1>1, GoesKeeps, EndsKeeps DEF Places
<1>. QED  BY <1>1, <1>3, <1>4, PlaneRests, CountsRest, ReportRests, ConfigRests, OnboardCombines

\* The suggestions have a largest one among any of them.
LEMMA LargestFits ==
    ASSUME NEW S \in SUBSET (1..6), S # {}
    PROVE  \E m \in S : \A n \in S : n <= m
<1>1. CASE 6 \in S
  BY <1>1
<1>2. CASE 6 \notin S /\ 5 \in S
  BY <1>2
<1>3. CASE S \subseteq 1..4 /\ 4 \in S
  BY <1>3
<1>4. CASE S \subseteq 1..3 /\ 3 \in S
  BY <1>4
<1>5. CASE S \subseteq 1..2 /\ 2 \in S
  BY <1>5
<1>6. CASE S \subseteq {1}
  <2>1. 1 \in S /\ \A n \in S : n = 1
    BY <1>6
  <2>. QED  BY <2>1
<1>. QED  BY <1>1, <1>2, <1>3, <1>4, <1>5, <1>6

LEMMA DefaultSuggested == DefaultModel \in Suggested
<1>. DEFINE fitting == {m \in Suggested : Fits(m)}
<1>1. CASE fitting = {}
  BY <1>1, SixSuggestions DEF DefaultModel
<1>2. CASE fitting # {}
  <2>1. fitting \in SUBSET (1..6)
    BY SixSuggestions
  <2>2. \E m \in fitting : \A n \in fitting : n <= m
    BY <1>2, <2>1, LargestFits
  <2>3. DefaultModel \in fitting
    BY <1>2, <2>2 DEF DefaultModel
  <2>. QED  BY <2>3
<1>. QED  BY <1>1, <1>2

LEMMA PullKeeps ==
    ASSUME OnboardInv, NEW p \in Runs, PullModel(p)
    PROVE  OnboardInv' /\ Survives
<1>1. /\ UNCHANGED <<host, ollama, config, daemon, service, keys, report, Plane>>
      /\ KeepsTurns \/ Turns
  BY DEF PullModel
<1>2. /\ Choices(run[p]) \subseteq Suggested /\ 0 \notin Suggested
  BY DefaultSuggested, SixSuggestions, OnboardFacts DEF Choices, Run
<1>3. CASE CommandEnds(p) /\ UNCHANGED pulled
  <2>1. MachineTyped
    BY <1>1, <1>3, OnboardFacts DEF MachineTyped
  <2>. QED  BY <1>1, <1>3, <2>1, EndsKeeps, PlaneRests, CountsRest, ReportRests, ConfigRests,
               OnboardCombines
<1>4. CASE \E m \in Choices(run[p]) :
             /\ pulled' = pulled \cup {m}
             /\ run' = [run EXCEPT ![p].at = "save", ![p].model = m]
  <2>1. PICK m \in Suggested : /\ pulled' = pulled \cup {m}
                             /\ run' = [run EXCEPT ![p].at = "save", ![p].model = m]
    BY <1>2, <1>4
  <2>2. MachineTyped
    BY <1>1, <2>1, OnboardFacts DEF MachineTyped
  <2>3. PICK old \in Run : old = run[p] /\ Complete(old.seen)
    BY OnboardFacts DEF OnboardInv, ConfigsAreComplete
  <2>4. PICK r : r = [old EXCEPT !.at = "save", !.model = m]
    OBVIOUS
  <2>5. r \in Run /\ r.at = "save" /\ r.seen = old.seen
    BY <2>4 DEF Run, Places
  <2>6. run' = [run EXCEPT ![p] = r]
    BY <2>1, <2>3, <2>4, OnboardFacts
  <2>7. RunsKept
    BY <2>3, <2>5, <2>6, OneRun
  <2>. QED  BY <1>1, <2>2, <2>7, PlaneRests, CountsRest, ReportRests, ConfigRests, OnboardCombines
<1>. QED  BY <1>3, <1>4 DEF PullModel

-----------------------------------------------------------------------------
(* The steps that write the config. *)

\* A command that writes: what it changes besides its own it had not read.
LEMMA WriteSurvives ==
    ASSUME OnboardInv, NEW p \in Runs,
           run[p].at \in {"save", "saveinit", "saverow"}, run'[p] # run[p],
           \A q \in Runs \ {p} : run'[q] = run[q],
           config'.key # config.key /\ config.key # 0 =>
             run[p].seen.key # config.key \/ run[p].force,
           config'.auth = run[p].seen.auth,
           config'.model = run[p].seen.model \/ run[p].at = "save",
           config'.url = run[p].seen.url \/ run[p].at = "saveinit"
    PROVE  Survives
<1>1. Writes(p) /\ \A q \in Runs : Writes(q) => q = p
  BY DEF Writes
<1>2. config'.key # config.key /\ config.key # 0 =>
        Unread("key") \/ (Writes(p) /\ run[p].force)
  <2>1. CASE run[p].seen.key # config.key
    BY <1>1, <2>1 DEF Unread
  <2>2. CASE run[p].force
    BY <1>1, <2>2
  <2>. QED  BY <2>1, <2>2
<1>3. /\ config'.auth # config.auth => Unread("auth")
      /\ config'.model # config.model => Unread("model") \/ run[p].at = "save"
      /\ config'.url # config.url => Unread("url") \/ run[p].at = "saveinit"
  BY <1>1 DEF Unread
<1>. QED  BY <1>1, <1>2, <1>3 DEF Survives

LEMMA SavedConfigKeeps ==
    ASSUME OnboardInv, NEW p \in Runs, SaveSettings(p)
    PROVE  OnboardInv' /\ Survives
<1>1. /\ run[p].at = "save" /\ UNCHANGED <<keys, report, turns, machineState, Plane>>
      /\ config' = Merged(run[p].seen, run[p].model)
      /\ run' = [run EXCEPT ![p].at = IF NeedsInit(config') THEN "init" ELSE "register",
                            ![p].signedIn = config'.auth # Absent]
  BY DEF SaveSettings
<1>2. PICK old \in Run : old = run[p] /\ Complete(old.seen)
  BY OnboardFacts DEF OnboardInv, ConfigsAreComplete
<1>3. PICK was \in Config : was = old.seen /\ old.model \in Suggested \cup {0}
  BY DEF Run
<1>4. PICK c : c = [was EXCEPT !.model = old.model]
  OBVIOUS
<1>5. c \in Config /\ c.key = was.key /\ c.auth = was.auth /\ c.url = was.url
  BY <1>3, <1>4 DEF Config
<1>6. config' = c
  BY <1>1, <1>2, <1>3, <1>4 DEF Merged
<1>7. ConfigKept
  BY <1>2, <1>3, <1>5, <1>6 DEF ConfigKept, Complete
<1>8. PICK next \in {"init", "register"}, signed \in BOOLEAN :
        run' = [run EXCEPT ![p].at = next, ![p].signedIn = signed]
  BY <1>1
<1>9. PICK r : r = [old EXCEPT !.at = next, !.signedIn = signed]
  OBVIOUS
<1>10. r \in Run /\ r.at = next /\ r.seen = old.seen
  BY <1>9 DEF Run, Places
<1>11. run' = [run EXCEPT ![p] = r]
  BY <1>2, <1>8, <1>9, OnboardFacts
<1>12. RunsKept /\ run'[p] = r /\ \A q \in Runs \ {p} : run'[q] = run[q]
  BY <1>2, <1>10, <1>11, OneRun
<1>13. run'[p] # run[p]
  BY <1>1, <1>10, <1>12
<1>14. Survives
  BY <1>1, <1>2, <1>3, <1>5, <1>6, <1>12, <1>13, WriteSurvives
<1>. QED  BY <1>1, <1>7, <1>12, <1>14, MachineRests, PlaneRests, CountsRest, ReportRests,
             OnboardCombines

LEMMA InitReadsKeeps ==
    ASSUME OnboardInv, NEW p \in Runs, InitReads(p)
    PROVE  OnboardInv' /\ Survives
<1>1. UNCHANGED <<config, keys, report, turns, machineState, Plane>>
  BY DEF InitReads
<1>2. RunsKept
  <2>1. CASE CommandEnds(p)
    BY <2>1, EndsKeeps
  <2>2. CASE /\ GoesWith(p, "saveinit", config)
             /\ ~(HasIdentity(config) /\ ~run[p].yes /\ ~run[p].force)
    BY <2>2, GoesWithKeeps DEF Places
  <2>. QED  BY <2>1, <2>2 DEF InitReads
<1>. QED
  BY <1>1, <1>2, MachineRests, PlaneRests, CountsRest, ReportRests, ConfigRests, OnboardCombines

LEMMA InitSavesKeeps ==
    ASSUME OnboardInv, NEW p \in Runs, InitSaves(p)
    PROVE  OnboardInv' /\ Survives
<1>1. /\ run[p].at = "saveinit" /\ UNCHANGED <<report, turns, machineState, Plane>>
      /\ config'.key <= MaxKeys
      /\ keys' = IF config'.key > keys THEN config'.key ELSE keys
      /\ IF run[p].cmd = "init" THEN CommandEnds(p)
         ELSE run' = [run EXCEPT ![p].at = "register", ![p].signedIn = config'.auth # Absent]
  BY DEF InitSaves
<1>2. PICK old \in Run : old = run[p]
  BY OnboardFacts
<1>3. PICK was \in Config : was = old.seen
  BY DEF Run
<1>4. PICK u \in Urls : config' = Identity(old, u)
  <2>1. old.url \in Urls \cup {Absent} /\ DefaultUrl \in Urls
    BY OnboardingAssumption DEF Run
  <2>. QED  BY <1>2, <2>1 DEF InitSaves
<1>11. Identity(old, u) =
         IF Upgrades(old, was)
         THEN [was EXCEPT !.url = IF old.url # Absent THEN old.url ELSE was.url]
         ELSE [was EXCEPT !.key = keys + 1, !.url = u]
  BY <1>3 DEF Identity
<1>12. Complete(was) /\ (HasIdentity(was) => old.yes \/ old.force)
  BY <1>1, <1>2, <1>3 DEF OnboardInv, ConfigsAreComplete
<1>5. /\ config' \in Config /\ config'.url \in Urls /\ config'.auth = was.auth
      /\ config'.model = was.model
      /\ config'.key = was.key \/ old.force \/ was.key = 0
  <2>1. CASE Upgrades(old, was)
    <3>1. PICK url \in Urls : config' = [was EXCEPT !.url = url]
      <4>1. was.url \in Urls
        BY <2>1 DEF Upgrades, HasIdentity, Config
      <4>2. old.url \in Urls \cup {Absent}
        BY DEF Run
      <4>3. \/ config' = [was EXCEPT !.url = old.url] /\ old.url # Absent
            \/ config' = [was EXCEPT !.url = was.url]
        BY <1>4, <1>11, <2>1
      <4>. QED  BY <4>1, <4>2, <4>3
    <3>2. PICK c : c = [was EXCEPT !.url = url]
      OBVIOUS
    <3>3. /\ c \in Config /\ c.url = url /\ c.key = was.key /\ c.auth = was.auth
          /\ c.model = was.model
      BY <3>2 DEF Config
    <3>. QED  BY <3>1, <3>2, <3>3
  <2>2. CASE ~Upgrades(old, was)
    <3>1. PICK c : c = [was EXCEPT !.key = keys + 1, !.url = u]
      OBVIOUS
    <3>2. config' = c
      BY <1>4, <1>11, <2>2, <3>1
    <3>3. /\ c.key = keys + 1 /\ c.url = u /\ c.auth = was.auth /\ c.model = was.model
      BY <3>1 DEF Config
    <3>4. keys + 1 \in KeyPairs
      BY <1>1, <3>2, <3>3, OnboardFacts DEF KeyPairs
    <3>5. c \in Config
      BY <3>1, <3>4 DEF Config
    <3>6. old.force \/ was.key = 0
      <4>1. CASE HasIdentity(was)
        BY <1>12, <2>2, <4>1 DEF Upgrades
      <4>2. CASE ~HasIdentity(was)
        BY <1>12, <4>2 DEF HasIdentity, Complete
      <4>. QED  BY <4>1, <4>2
    <3>. QED  BY <3>2, <3>3, <3>5, <3>6
  <2>. QED  BY <2>1, <2>2
<1>6. ConfigKept
  BY <1>5, OnboardingAssumption DEF ConfigKept, Complete
<1>7. CountsTyped
  <2>1. config'.key \in 0..MaxKeys
    BY <1>5, OnboardFacts DEF Config, KeyPairs
  <2>. QED  BY <1>1, <2>1, OnboardFacts DEF CountsTyped
<1>8. RunsKept /\ run'[p].at \in {"idle", "register"} /\ \A q \in Runs \ {p} : run'[q] = run[q]
  <2>1. CASE CommandEnds(p)
    BY <2>1, EndsKeeps
  <2>2. CASE run' = [run EXCEPT ![p].at = "register", ![p].signedIn = config'.auth # Absent]
    <3>1. PICK signed \in BOOLEAN : run' = [run EXCEPT ![p].at = "register", ![p].signedIn = signed]
      BY <2>2
    <3>2. PICK r : r = [old EXCEPT !.at = "register", !.signedIn = signed]
      OBVIOUS
    <3>3. r \in Run /\ r.at = "register" /\ r.seen = old.seen
      BY <3>2 DEF Run, Places
    <3>4. run' = [run EXCEPT ![p] = r]
      BY <1>2, <3>1, <3>2, OnboardFacts
    <3>. QED  BY <1>3, <1>12, <3>3, <3>4, OneRun
  <2>. QED  BY <1>1, <2>1, <2>2
<1>9. run'[p] # run[p]
  BY <1>1, <1>8
<1>10. Survives
  <2>1. config.key # 0 => run[p].seen.key # config.key \/ run[p].force \/ config'.key = was.key
    BY <1>2, <1>3, <1>5
  <2>2. config'.key # config.key /\ config.key # 0 =>
          run[p].seen.key # config.key \/ run[p].force
    BY <1>2, <1>3, <2>1
  <2>. QED  BY <1>1, <1>2, <1>3, <1>5, <1>8, <1>9, <2>2, WriteSurvives
<1>. QED  BY <1>1, <1>6, <1>7, <1>8, <1>10, MachineRests, PlaneRests, ReportRests, OnboardCombines

-----------------------------------------------------------------------------
(* register, the daemon and the link. *)

LEMMA AfterRegisterKeeps ==
    ASSUME OnboardInv, NEW p \in Runs, AfterRegister(p)
    PROVE  /\ RunsKept /\ run'[p].at \in {"idle", "daemon"}
           /\ \A q \in Runs \ {p} : run'[q] = run[q]
BY GoesKeeps, EndsKeeps DEF AfterRegister, Places

\* Keys, URLs and accounts that a config has.
LEMMA IdentityTyped ==
    ASSUME NEW c \in Config
    PROVE  /\ HasIdentity(c) => c.url \in Urls /\ c.key \in KeyPairs
           /\ c.auth # Absent => c.auth \in Owners
BY DEF Config, HasIdentity

LEMMA RegisterSendsKeeps ==
    ASSUME OnboardInv, NEW p \in Runs, RegisterSends(p)
    PROVE  OnboardInv' /\ Survives
<1>1. /\ UNCHANGED <<config, owned, keys, report, machineState>>
      /\ KeepsTurns \/ Turns
  BY DEF RegisterSends
<1>2. PlaneTyped
  BY <1>1, IdentityTyped, OnboardFacts DEF RegisterSends, PlaneTyped
<1>3. RunsKept
  BY AfterRegisterKeeps, GoesWithKeeps DEF RegisterSends, Places
<1>. QED
  BY <1>1, <1>2, <1>3, MachineRests, CountsRest, ReportRests, ConfigRests, OnboardCombines

LEMMA RegisterSavesKeeps ==
    ASSUME OnboardInv, NEW p \in Runs, RegisterSaves(p)
    PROVE  OnboardInv' /\ Survives
<1>1. /\ run[p].at = "saverow" /\ UNCHANGED <<keys, report, turns, machineState, Plane>>
      /\ config' = [run[p].seen EXCEPT !.id = TRUE] /\ AfterRegister(p)
  BY DEF RegisterSaves
<1>2. PICK was \in Config : was = run[p].seen /\ Complete(was)
  BY OnboardFacts DEF OnboardInv, ConfigsAreComplete, Run
<1>3. PICK c : c = [was EXCEPT !.id = TRUE]
  OBVIOUS
<1>4. /\ c \in Config /\ c.key = was.key /\ c.auth = was.auth /\ c.url = was.url
      /\ c.model = was.model
  BY <1>3 DEF Config
<1>5. config' = c
  BY <1>1, <1>2, <1>3
<1>6. ConfigKept
  BY <1>2, <1>4, <1>5 DEF ConfigKept, Complete
<1>7. RunsKept /\ run'[p] # run[p] /\ \A q \in Runs \ {p} : run'[q] = run[q]
  BY <1>1, AfterRegisterKeeps
<1>8. Survives
  BY <1>1, <1>2, <1>4, <1>5, <1>7, WriteSurvives
<1>. QED  BY <1>1, <1>6, <1>7, <1>8, MachineRests, PlaneRests, CountsRest, ReportRests,
             OnboardCombines

LEMMA StartedTyped ==
    ASSUME OnboardInv, NEW who \in {"cli", "systemd"}
    PROVE  Started(config, who) \in [key : KeyPairs, url : Urls, by : {"cli", "systemd"}] \cup {Absent}
BY IdentityTyped, OnboardFacts DEF Started

LEMMA RestartKeeps ==
    ASSUME OnboardInv, NEW p \in Runs, RestartDaemon(p)
    PROVE  OnboardInv' /\ Survives
<1>1. /\ UNCHANGED <<host, ollama, pulled, service, config, keys, report, Plane>>
      /\ KeepsTurns \/ Turns
      /\ daemon' \in {Started(config, "cli"), Absent}
      /\ GoesTo(p, "link") \/ CommandEnds(p)
  BY DEF RestartDaemon
<1>2. MachineTyped
  BY <1>1, StartedTyped, OnboardFacts DEF MachineTyped
<1>3. RunsKept
  BY <1>1, GoesKeeps, EndsKeeps DEF Places
<1>. QED  BY <1>1, <1>2, <1>3, PlaneRests, CountsRest, ReportRests, ConfigRests, OnboardCombines

LEMMA LinkedTyped ==
    ASSUME OnboardInv, NEW c \in Config
    PROVE  Linked(c) \subseteq Urls \X KeyPairs \X Owners
<1>1. CASE Linked(c) = owned
  BY <1>1, OnboardFacts
<1>2. CASE /\ c.key # 0 /\ c.url # Absent /\ c.auth # Absent
           /\ Linked(c) = owned \cup {<<c.url, c.key, c.auth>>}
  BY <1>2, IdentityTyped, OnboardFacts DEF HasIdentity
<1>. QED  BY <1>1, <1>2 DEF Linked

LEMMA LinkKeeps ==
    ASSUME OnboardInv, NEW p \in Runs, LinkKey(p)
    PROVE  OnboardInv' /\ Survives
<1>1. /\ UNCHANGED <<config, rows, keys, report, machineState>>
      /\ KeepsTurns \/ Turns
      /\ CommandEnds(p) /\ owned' \in {owned, Linked(config)}
  BY DEF LinkKey
<1>2. PlaneTyped
  BY <1>1, LinkedTyped, OnboardFacts DEF PlaneTyped
<1>. QED
  BY <1>1, <1>2, EndsKeeps, MachineRests, CountsRest, ReportRests, ConfigRests, OnboardCombines

LEMMA InterruptKeeps ==
    ASSUME OnboardInv, NEW p \in Runs, Interrupt(p)
    PROVE  OnboardInv' /\ Survives
<1>1. UNCHANGED <<config, keys, report, machineState, Plane>> /\ Turns /\ CommandEnds(p)
  BY DEF Interrupt
<1>. QED  BY <1>1, EndsKeeps, MachineRests, PlaneRests, CountsRest, ReportRests, ConfigRests,
             OnboardCombines

-----------------------------------------------------------------------------
(* The commands beside it. *)

\* Nobody is in the middle of writing: only the key may not change.
LEMMA QuietSurvives ==
    ASSUME UNCHANGED run, config'.key = config.key
    PROVE  Survives
BY DEF Survives, Writes

LEMMA LoginKeepsAll ==
    ASSUME OnboardInv, Login \/ EditConfig
    PROVE  OnboardInv' /\ Survives
<1>1. UNCHANGED <<run, rows, keys, report, machineState>> /\ Turns
  BY DEF Login, EditConfig, Plane
<1>2. PICK old \in Config : old = config /\ Complete(old)
  BY OnboardFacts DEF OnboardInv, ConfigsAreComplete
<1>3. config' \in Config /\ config'.key = old.key /\ Complete(config')
  <2>1. CASE \E u \in Owners \cup {Absent} : config' = [config EXCEPT !.auth = u]
    <3>1. PICK u \in Owners \cup {Absent} : config' = [old EXCEPT !.auth = u]
      BY <1>2, <2>1
    <3>2. config' \in Config /\ config'.key = old.key /\ config'.url = old.url
      BY <3>1 DEF Config
    <3>. QED  BY <1>2, <3>1, <3>2 DEF Complete
  <2>2. CASE \E u \in Urls : config' = [config EXCEPT !.url = u]
    <3>1. PICK u \in Urls : config' = [old EXCEPT !.url = u]
      BY <1>2, <2>2
    <3>2. config' \in Config /\ config'.key = old.key /\ config'.url = u
      BY <3>1 DEF Config
    <3>. QED  BY <3>1, <3>2, OnboardingAssumption DEF Complete
  <2>. QED  BY <2>1, <2>2 DEF Login, EditConfig
<1>4. PlaneTyped
  BY <1>1, <1>3, LinkedTyped, OnboardFacts DEF Login, EditConfig, Plane, PlaneTyped
<1>5. ConfigKept /\ Survives
  BY <1>1, <1>2, <1>3, QuietSurvives DEF ConfigKept
<1>. QED  BY <1>1, <1>4, <1>5, MachineRests, CountsRest, ReportRests, RunsRest, OnboardCombines

LEMMA ModelKeeps ==
    ASSUME OnboardInv, ModelPull \/ ModelRemove \/ ModelUse
    PROVE  OnboardInv' /\ Survives
<1>1. UNCHANGED <<host, ollama, daemon, service, run, keys, report, Plane>> /\ Turns
  BY DEF ModelPull, ModelRemove, ModelUse, machineState
<1>2. pulled' \subseteq Suggested
  BY OnboardFacts, SixSuggestions DEF ModelPull, ModelRemove, ModelUse, machineState
<1>3. MachineTyped
  BY <1>1, <1>2, OnboardFacts DEF MachineTyped
<1>4. PICK old \in Config : old = config /\ Complete(old)
  BY OnboardFacts DEF OnboardInv, ConfigsAreComplete
<1>5. ConfigKept /\ Survives
  <2>1. CASE UNCHANGED config
    BY <2>1, ConfigRests
  <2>2. CASE \E m \in Suggested \cup {0} : config' = [config EXCEPT !.model = m]
    <3>1. PICK m \in Suggested \cup {0} : config' = [old EXCEPT !.model = m]
      BY <1>4, <2>2
    <3>2. config' \in Config /\ config'.key = old.key /\ config'.url = old.url
      BY <3>1 DEF Config
    <3>. QED  BY <1>1, <1>4, <3>1, <3>2, QuietSurvives DEF ConfigKept, Complete
  <2>3. CASE \E m \in pulled : config' = [config EXCEPT !.model = IF @ = m THEN 0 ELSE @]
    <3>1. PICK m \in pulled : config' = [old EXCEPT !.model = IF old.model = m THEN 0 ELSE old.model]
      BY <1>4, <2>3
    <3>2. PICK n \in Suggested \cup {0} : n = IF old.model = m THEN 0 ELSE old.model
      BY DEF Config
    <3>3. config' = [config EXCEPT !.model = n]
      BY <1>4, <3>1, <3>2
    <3>. QED  BY <2>2, <3>3
  <2>4. CASE \E m \in pulled : config' = [config EXCEPT !.model = m]
    BY <2>2, <2>4, OnboardFacts
  <2>. QED  BY <2>1, <2>3, <2>4 DEF ModelPull, ModelRemove, ModelUse
<1>. QED  BY <1>1, <1>3, <1>5, PlaneRests, CountsRest, ReportRests, RunsRest, OnboardCombines

LEMMA ServiceKeeps ==
    ASSUME OnboardInv, ServiceInstall \/ ServiceEnable \/ ServiceUninstall \/ Crash
    PROVE  OnboardInv' /\ Survives
<1>1. UNCHANGED <<host, pulled, config, run, keys, report, Plane>> /\ Turns
  BY DEF ServiceInstall, ServiceEnable, ServiceUninstall, Crash
<1>2. /\ service' \in {"none", "written", "enabled"}
      /\ ollama' \in {"absent", "stopped", "running"}
  BY OnboardFacts DEF ServiceInstall, ServiceEnable, ServiceUninstall, Crash
<1>3. daemon' \in {daemon, Absent, Started(config, "systemd")}
  BY DEF ServiceInstall, ServiceEnable, ServiceUninstall, Crash, Enabled
<1>4. MachineTyped
  BY <1>1, <1>2, <1>3, StartedTyped, OnboardFacts DEF MachineTyped
<1>. QED  BY <1>1, <1>4, PlaneRests, CountsRest, ReportRests, ConfigRests, RunsRest, OnboardCombines

LEMMA DoctorKeeps == ASSUME OnboardInv, Doctor PROVE OnboardInv' /\ Survives
<1>1. UNCHANGED <<config, run, keys, machineState, Plane>> /\ Turns
  BY DEF Doctor
<1>2. ReportTyped
  BY DEF Doctor, CheckProviderRow, ReportTyped
<1>. QED  BY <1>1, <1>2, MachineRests, PlaneRests, CountsRest, ConfigRests, RunsRest, OnboardCombines

LEMMA OnboardStep == ASSUME OnboardInv, [OnboardNext]_onboardVars PROVE OnboardInv' /\ Survives
<1>1. CASE UNCHANGED onboardVars
  <2>1. UNCHANGED <<config, run, keys, report, turns, machineState, Plane>>
    BY <1>1 DEF onboardVars, machineState, Plane
  <2>. QED  BY <2>1, MachineRests, PlaneRests, CountsRest, ReportRests, ConfigRests, RunsRest,
               OnboardCombines
<1>2. CASE OnboardNext
  BY <1>2, BeginKeepsAll, BringUpKeeps, PullKeeps, SavedConfigKeeps, InitReadsKeeps, InitSavesKeeps,
     RegisterSendsKeeps, RegisterSavesKeeps, RestartKeeps, LinkKeeps, InterruptKeeps,
     LoginKeepsAll, ModelKeeps, ServiceKeeps, DoctorKeeps
     DEF OnboardNext
<1>. QED  BY <1>1, <1>2

\* Each variable has its type.
THEOREM OnboardingTyped == OnboardSpec => []OnboardTypeOK
<1>1. OnboardInv => OnboardTypeOK
  BY DEF OnboardInv
<1>. QED  BY <1>1, OnboardInvInit, OnboardStep, PTL DEF OnboardSpec

\* What a command did not read before it writes the config is all that is lost,
\* and the key of the node goes only where init is told --force.
THEOREM SettingsHold == OnboardSpec => SettingsSurvive
<1>1. OnboardInv /\ [OnboardNext]_onboardVars => [Survives]_onboardVars
  BY OnboardStep
<1>. QED  BY <1>1, OnboardInvInit, OnboardStep, PTL DEF OnboardSpec, SettingsSurvive, Survives

-----------------------------------------------------------------------------
(* Recursion.  The provers have no induction that can be instantiated, but *)
(* numbers are well founded: what holds of x whenever it holds of all that *)
(* is smaller holds everywhere (Descent), and a function that a recursive  *)
(* equation defines from smaller arguments exists (Recursion).             *)

LEMMA LeastOf == ASSUME NEW T, T \subseteq Nat, T # {} PROVE \E x \in T : \A y \in T : x <= y
<1>1. PICK R : R = OpToRel(<, Nat)
  OBVIOUS
<1>2. IsWellFoundedOn(R, Nat) /\ \A i, j \in Nat : i < j => <<i, j>> \in R
  <2>1. IsWellFoundedOn(OpToRel(<, Nat), Nat)
    BY NatLessThanWellFounded
  <2>2. \A i, j \in Nat : i < j => <<i, j>> \in OpToRel(<, Nat)
    BY DEF OpToRel
  <2>. QED  BY <1>1, <2>1, <2>2
<1>3. PICK x \in T : \A y \in T : ~(<<y, x>> \in R)
  <2>1. IsWellFoundedOn(R, Nat)
    BY <1>2
  <2>. QED  BY <2>1, WFMin, Zenon
<1>4. ASSUME NEW y \in T PROVE x <= y
  <2>1. x \in Nat /\ y \in Nat
    OBVIOUS
  <2>2. ~(y < x)
    BY <1>2, <1>3, <2>1
  <2>. QED BY <2>1, <2>2
<1>. QED BY <1>4

LEMMA Induct ==
    ASSUME NEW S, 0 \in S, \A n \in Nat : n \in S => n + 1 \in S
    PROVE  Nat \subseteq S
<1>1. SUFFICES ASSUME NEW k \in Nat, k \notin S PROVE FALSE
  OBVIOUS
<1>2. PICK T : T = Nat \ S
  OBVIOUS
<1>3. PICK x \in T : \A y \in T : x <= y
  BY <1>1, <1>2, LeastOf
<1>4. x \in Nat /\ x # 0 /\ x - 1 \in Nat
  BY <1>2
<1>5. x - 1 \in S
  <2>1. x - 1 \notin T
    BY <1>3, <1>4
  <2>. QED BY <1>2, <1>4, <2>1
<1>6. x \in S
  BY <1>4, <1>5
<1>. QED BY <1>2, <1>6

\* What holds of x when it holds wherever a measure is smaller holds everywhere.
LEMMA Descent ==
    ASSUME NEW S, NEW m \in [S -> Nat], NEW G,
           \A x \in S : (\A y \in S : m[y] < m[x] => y \in G) => x \in G
    PROVE  S \subseteq G
<1>1. PICK T : T = {m[x] : x \in S \ G}
  OBVIOUS
<1>2. SUFFICES ASSUME T # {} PROVE FALSE
  BY <1>1
<1>3. \A x \in S : m[x] \in Nat
  OBVIOUS
<1>4. PICK k \in T : \A l \in T : k <= l
  <2>1. T \subseteq Nat
    BY <1>1, <1>3
  <2>. QED  BY <1>2, <2>1, LeastOf
<1>5. PICK x \in S \ G : m[x] = k
  BY <1>1
<1>6. ASSUME NEW y \in S, m[y] < m[x] PROVE y \in G
  <2>1. y \notin G => m[y] \in T
    BY <1>1
  <2>2. m[y] \notin T
    BY <1>3, <1>4, <1>5, <1>6
  <2>. QED  BY <2>1, <2>2
<1>. QED  BY <1>5, <1>6

\* A function can be defined by recursion when the recursion descends in a
\* measure: B gives the value at x from the function's values where the
\* measure is smaller.
Descends(S, V, m, B) ==
    /\ V # {} /\ m \in [S -> Nat] /\ B \in [S \X [S -> V] -> V]
    /\ \A x \in S : \A f, g \in [S -> V] :
          (\A y \in S : m[y] < m[x] => f[y] = g[y]) => B[<<x, f>>] = B[<<x, g>>]
Solution(S, V, B) == \E f \in [S -> V] : \A x \in S : f[x] = B[<<x, f>>]

LEMMA Recursion ==
    ASSUME NEW S, NEW V, NEW m, NEW B, Descends(S, V, m, B)
    PROVE  Solution(S, V, B)
<1>a. PICK v : v \in V
  BY DEF Descends
<1>b. m \in [S -> Nat] /\ B \in [S \X [S -> V] -> V]
  BY DEF Descends
<1>c. \A x \in S : \A f, g \in [S -> V] :
          (\A y \in S : m[y] < m[x] => f[y] = g[y]) => B[<<x, f>>] = B[<<x, g>>]
  BY DEF Descends
<1>d. SUFFICES \E f \in [S -> V] : \A x \in S : f[x] = B[<<x, f>>]
  BY DEF Solution
<1>0. \A x \in S : m[x] \in Nat
  BY <1>b
\* A[n]: the functions that obey B where the measure is below n.
<1>1. PICK A : A = [n \in Nat |-> {f \in [S -> V] :
                        \A x \in S : m[x] < n => f[x] = B[<<x, f>>]}]
  OBVIOUS
<1>2. \A n \in Nat : \A f : f \in A[n] <=>
          f \in [S -> V] /\ \A x \in S : m[x] < n => f[x] = B[<<x, f>>]
  BY <1>1
<1>3. ASSUME NEW n \in Nat, NEW f \in A[n], NEW g \in A[n]
      PROVE  \A x \in S : m[x] < n => f[x] = g[x]
  <2>1. PICK T : T = {m[x] : x \in {y \in S : m[y] < n /\ f[y] # g[y]}}
    OBVIOUS
  <2>2. SUFFICES ASSUME T # {} PROVE FALSE
    BY <2>1
  <2>3. T \subseteq Nat
    BY <1>0, <2>1
  <2>4. PICK k \in T : \A l \in T : k <= l
    BY <2>2, <2>3, LeastOf
  <2>5. PICK x \in S : m[x] = k /\ m[x] < n /\ f[x] # g[x]
    BY <2>1
  <2>6. ASSUME NEW y \in S, m[y] < m[x] PROVE f[y] = g[y]
    <3>1. m[y] < n
      BY <1>0, <2>5, <2>6
    <3>2. f[y] # g[y] => m[y] \in T
      BY <2>1, <3>1
    <3>3. m[y] \notin T
      BY <1>0, <2>4, <2>5, <2>6
    <3>. QED  BY <3>2, <3>3
  <2>7. f \in [S -> V] /\ g \in [S -> V] /\ f[x] = B[<<x, f>>] /\ g[x] = B[<<x, g>>]
    BY <1>2, <2>5
  <2>8. B[<<x, f>>] = B[<<x, g>>]
    BY <1>c, <2>6, <2>7
  <2>. QED  BY <2>5, <2>7, <2>8
<1>4. \A n \in Nat : A[n] # {}
  <2>1. PICK T : T = {n \in Nat : A[n] # {}}
    OBVIOUS
  <2>2. 0 \in T
    <3>1. PICK f : f = [x \in S |-> v]
      OBVIOUS
    <3>2. f \in A[0]
      BY <1>0, <1>2, <1>a, <3>1
    <3>. QED  BY <2>1, <3>2
  <2>3. ASSUME NEW k \in Nat, k \in T PROVE k + 1 \in T
    <3>1. PICK f : f \in A[k]
      BY <2>1, <2>3
    <3>2. f \in [S -> V] /\ \A x \in S : m[x] < k => f[x] = B[<<x, f>>]
      BY <1>2, <3>1
    <3>3. PICK g : g = [x \in S |-> IF m[x] = k THEN B[<<x, f>>] ELSE f[x]]
      OBVIOUS
    <3>4. g \in [S -> V]
      BY <1>b, <3>2, <3>3
    <3>5. \A x \in S : (m[x] = k => g[x] = B[<<x, f>>]) /\ (m[x] # k => g[x] = f[x])
      BY <3>3
    <3>6. ASSUME NEW x \in S, m[x] < k + 1 PROVE g[x] = B[<<x, g>>]
      <4>1. ASSUME NEW y \in S, m[y] < m[x] PROVE f[y] = g[y]
        <5>1. m[y] # k
          BY <1>0, <3>6, <4>1
        <5>. QED  BY <3>5, <5>1
      <4>2. B[<<x, f>>] = B[<<x, g>>]
        BY <1>c, <3>2, <3>4, <4>1
      <4>3. m[x] # k => m[x] < k
        <5>1. m[x] \in Nat
          BY <1>0
        <5>. QED  BY <3>6, <5>1
      <4>4. g[x] = B[<<x, f>>]
        BY <3>2, <3>5, <4>3
      <4>. QED  BY <4>2, <4>4
    <3>7. g \in A[k + 1]
      BY <1>2, <3>4, <3>6
    <3>. QED  BY <2>1, <3>7
  <2>4. Nat \subseteq T
    BY <2>2, <2>3, Induct
  <2>. QED  BY <2>1, <2>4
<1>5. PICK G : G = [n \in Nat |-> CHOOSE g : g \in A[n]]
  OBVIOUS
<1>6. \A n \in Nat : G[n] \in A[n]
  BY <1>4, <1>5, Zenon
<1>7. PICK f : f = [x \in S |-> G[m[x] + 1][x]]
  OBVIOUS
<1>8. \A x \in S : /\ G[m[x] + 1] \in A[m[x] + 1]
                   /\ G[m[x] + 1] \in [S -> V]
                   /\ f[x] = G[m[x] + 1][x]
  BY <1>0, <1>2, <1>6, <1>7
<1>9. f \in [S -> V]
  BY <1>7, <1>8
<1>10. ASSUME NEW x \in S PROVE f[x] = B[<<x, f>>]
  <2>1. PICK g : g = G[m[x] + 1]
    OBVIOUS
  <2>2. g \in A[m[x] + 1] /\ g \in [S -> V] /\ f[x] = g[x]
    BY <1>8, <2>1
  <2>6. \A z \in S : m[z] < m[x] + 1 => g[z] = B[<<z, g>>]
    <3>1. PICK n \in Nat : n = m[x] + 1
      BY <1>0
    <3>2. g \in A[n]
      BY <2>2, <3>1
    <3>3. \A z \in S : m[z] < n => g[z] = B[<<z, g>>]
      BY <1>2, <3>2
    <3>. QED  BY <3>1, <3>3
  <2>3. ASSUME NEW y \in S, m[y] < m[x] PROVE f[y] = g[y]
    <3>1. PICK h : h = G[m[y] + 1]
      OBVIOUS
    <3>2. h \in A[m[y] + 1] /\ f[y] = h[y]
      BY <1>8, <3>1
    <3>3. m[y] + 1 \in Nat /\ m[x] + 1 \in Nat
      BY <1>0
    <3>4. \A z \in S : m[z] < m[y] + 1 => m[z] < m[x] + 1
      BY <1>0, <2>3
    <3>5. g \in A[m[y] + 1]
      <4>1. PICK n \in Nat : n = m[y] + 1
        BY <3>3
      <4>2. \A z \in S : m[z] < n => g[z] = B[<<z, g>>]
        BY <2>6, <3>4, <4>1
      <4>3. g \in A[n]
        BY <1>2, <2>2, <4>2
      <4>. QED  BY <4>1, <4>3
    <3>6. h[y] = g[y]
      BY <1>0, <1>3, <3>2, <3>3, <3>5
    <3>. QED  BY <3>2, <3>6
  <2>4. B[<<x, f>>] = B[<<x, g>>]
    BY <1>9, <1>c, <2>2, <2>3
  <2>5. g[x] = B[<<x, g>>]
    <3>1. m[x] < m[x] + 1
      BY <1>0
    <3>. QED  BY <2>6, <3>1
  <2>. QED  BY <2>2, <2>4, <2>5
<1>. QED  BY <1>9, <1>10

-----------------------------------------------------------------------------
(* Sequences: concatenations and their parts.                              *)

LEMMA Cat == ASSUME NEW X, NEW a \in Seq(X), NEW b \in Seq(X)
  PROVE /\ a \o b \in Seq(X) /\ Len(a \o b) = Len(a) + Len(b)
        /\ \A i \in 1..Len(a) : (a \o b)[i] = a[i]
        /\ \A i \in 1..Len(b) : (a \o b)[Len(a) + i] = b[i]
OBVIOUS

LEMMA Sub == ASSUME NEW X, NEW a \in Seq(X), NEW i \in 1..(Len(a) + 1), NEW j \in (i-1)..Len(a)
  PROVE /\ SubSeq(a, i, j) \in Seq(X) /\ Len(SubSeq(a, i, j)) = j - i + 1
        /\ \A k \in 1..(j - i + 1) : SubSeq(a, i, j)[k] = a[i + k - 1]
OBVIOUS

LEMMA Same == ASSUME NEW X, NEW a \in Seq(X), NEW b \in Seq(X), Len(a) = Len(b),
                     \A i \in 1..Len(a) : a[i] = b[i]
              PROVE a = b
OBVIOUS

LEMMA Assoc == ASSUME NEW X, NEW a \in Seq(X), NEW b \in Seq(X), NEW c \in Seq(X)
   PROVE (a \o b) \o c = a \o (b \o c)
OBVIOUS

LEMMA CatEmpty == ASSUME NEW X, NEW a \in Seq(X)
   PROVE a \o << >> = a /\ << >> \o a = a
OBVIOUS

LEMMA CutCat == ASSUME NEW X, NEW a \in Seq(X), NEW b \in Seq(X), NEW i \in 1..(Len(a) + 1)
   PROVE SubSeq(a \o b, i, Len(a \o b)) = SubSeq(a, i, Len(a)) \o b
OBVIOUS

LEMMA HeadCat == ASSUME NEW X, NEW a \in Seq(X), NEW b \in Seq(X), NEW i \in 0..Len(a)
   PROVE SubSeq(a \o b, 1, i) = SubSeq(a, 1, i)
OBVIOUS

LEMMA CutPast == ASSUME NEW X, NEW a \in Seq(X), NEW b \in Seq(X), NEW i \in 1..(Len(b) + 1)
   PROVE SubSeq(a \o b, Len(a) + i, Len(a \o b)) = SubSeq(b, i, Len(b))
OBVIOUS

LEMMA HeadPast == ASSUME NEW X, NEW a \in Seq(X), NEW b \in Seq(X), NEW i \in 0..Len(b)
   PROVE SubSeq(a \o b, 1, Len(a) + i) = a \o SubSeq(b, 1, i)
OBVIOUS

LEMMA Halves == ASSUME NEW X, NEW a \in Seq(X), NEW i \in 0..Len(a)
   PROVE SubSeq(a, 1, i) \o SubSeq(a, i + 1, Len(a)) = a
<1>1. PICK b, c : b = SubSeq(a, 1, i) /\ c = SubSeq(a, i + 1, Len(a))
  OBVIOUS
<1>2. /\ b \in Seq(X) /\ Len(b) = i /\ \A k \in 1..i : b[k] = a[k]
      /\ c \in Seq(X) /\ Len(c) = Len(a) - i /\ \A k \in 1..(Len(a) - i) : c[k] = a[i + k]
  BY <1>1
<1>3. \A k \in 1..Len(a) : k > i => k - i \in 1..(Len(a) - i) /\ a[k] = c[k - i]
  BY <1>2
<1>4. /\ b \o c \in Seq(X) /\ Len(b \o c) = Len(a)
      /\ \A k \in 1..i : (b \o c)[k] = b[k]
      /\ \A k \in 1..(Len(a) - i) : (b \o c)[i + k] = c[k]
  BY <1>2
<1>5. \A k \in 1..Len(a) : (b \o c)[k] = a[k]
  <2>1. SUFFICES ASSUME NEW k \in 1..Len(a) PROVE (b \o c)[k] = a[k]
    OBVIOUS
  <2>4. k <= i \/ k > i
    <3>1. k \in Int /\ i \in Int
      OBVIOUS
    <3>. QED  BY <3>1
  <2>2. CASE k <= i
    BY <1>2, <1>4, <2>2
  <2>3. CASE k > i
    <3>1. PICK l \in 1..(Len(a) - i) : l = k - i /\ k = i + l
      BY <2>3
    <3>2. (b \o c)[i + l] = c[l] /\ c[l] = a[i + l]
      BY <1>2, <1>4
    <3>. QED  BY <3>1, <3>2
  <2>. QED  BY <2>2, <2>3, <2>4, Zenon
<1>. QED  BY <1>1, <1>4, <1>5, Same

-----------------------------------------------------------------------------
(* The sanitizer: what has been sent is the clean text but for a tail that *)
(* may begin a tag.                                                        *)
(*                                                                         *)
(* What is sent, followed by what would become of the text that is held    *)
(* back and of any text that still comes, is the clean text of all of it   *)
(* (ComesClean).                                                           *)

\* An opening tag begins at i in s; the closing tag of w does.
OpensAt(s, i) == i + 2 <= Len(s) /\ s[i] = "<" /\ s[i + 1] \in Names /\ s[i + 2] = ">"
ClosesAt(s, i, w) == /\ i + 3 <= Len(s) /\ s[i] = "<" /\ s[i + 1] = "/"
                     /\ s[i + 2] = w /\ s[i + 3] = ">"

LEMMA TagPlaces ==
    ASSUME NEW s \in Texts, NEW i \in 1..Len(s)
    PROVE  /\ (\E tag \in Openings : At(s, i, tag)) <=> OpensAt(s, i)
           /\ \A w : (\E tag \in {Closing(w)} : At(s, i, tag)) <=> ClosesAt(s, i, w)
<1>1. ASSUME NEW n, Opening(n) = SubSeq(s, i, i + 2), i + 2 <= Len(s)
      PROVE  s[i] = "<" /\ s[i + 1] = n /\ s[i + 2] = ">"
  BY <1>1 DEF Opening, Texts
<1>2. ASSUME NEW n, i + 2 <= Len(s), s[i] = "<", s[i + 1] = n, s[i + 2] = ">"
      PROVE  Opening(n) = SubSeq(s, i, i + 2)
  BY <1>2 DEF Opening, Texts
<1>3. \A n : At(s, i, Opening(n)) <=> i + 2 <= Len(s) /\ Opening(n) = SubSeq(s, i, i + 2)
  <2>1. \A n : Len(Opening(n)) = 3
    BY DEF Opening
  <2>2. i + 3 - 1 = i + 2 /\ Len(s) \in Nat
    BY DEF Texts
  <2>. QED  BY <2>1, <2>2 DEF At
<1>4. (\E tag \in Openings : At(s, i, tag)) <=> OpensAt(s, i)
  <2>1. ASSUME NEW tag \in Openings, At(s, i, tag) PROVE OpensAt(s, i)
    <3>1. PICK n \in Names : tag = Opening(n)
      BY DEF Openings
    <3>2. i + 2 <= Len(s) /\ Opening(n) = SubSeq(s, i, i + 2)
      BY <1>3, <2>1, <3>1
    <3>. QED  BY <1>1, <3>2 DEF OpensAt
  <2>2. ASSUME OpensAt(s, i) PROVE \E tag \in Openings : At(s, i, tag)
    <3>1. PICK n \in Names : n = s[i + 1]
      BY <2>2 DEF OpensAt
    <3>2. i + 2 <= Len(s) /\ s[i] = "<" /\ s[i + 1] = n /\ s[i + 2] = ">"
      BY <2>2, <3>1 DEF OpensAt
    <3>3. Opening(n) = SubSeq(s, i, i + 2)
      BY <1>2, <3>2
    <3>4. At(s, i, Opening(n)) /\ Opening(n) \in Openings
      BY <1>3, <3>2, <3>3 DEF Openings
    <3>. QED  BY <3>4
  <2>. QED  BY <2>1, <2>2
<1>5. ASSUME NEW w
      PROVE  (\E tag \in {Closing(w)} : At(s, i, tag)) <=> ClosesAt(s, i, w)
  <2>1. Len(Closing(w)) = 4
    BY DEF Closing
  <2>2. At(s, i, Closing(w)) <=> i + 3 <= Len(s) /\ SubSeq(s, i, i + 3) = Closing(w)
    BY <2>1 DEF At, Texts
  <2>3. ASSUME i + 3 <= Len(s)
        PROVE  SubSeq(s, i, i + 3) = Closing(w) <=>
                   s[i] = "<" /\ s[i + 1] = "/" /\ s[i + 2] = w /\ s[i + 3] = ">"
    <3>1. PICK t : t = SubSeq(s, i, i + 3)
      OBVIOUS
    <3>2. /\ t \in Seq(Symbols) /\ Len(t) = 4
          /\ t[1] = s[i] /\ t[2] = s[i + 1] /\ t[3] = s[i + 2] /\ t[4] = s[i + 3]
      <4>1. i \in 1..(Len(s) + 1) /\ i + 3 \in (i - 1)..Len(s) /\ i + 3 - i + 1 = 4
        BY <2>3 DEF Texts
      <4>2. /\ t \in Seq(Symbols) /\ Len(t) = i + 3 - i + 1
            /\ \A k \in 1..(i + 3 - i + 1) : t[k] = s[i + k - 1]
        BY <3>1, <4>1, Sub DEF Texts
      <4>3. \A k \in 1..4 : t[k] = s[i + k - 1]
        BY <4>1, <4>2
      <4>4. i + 1 - 1 = i /\ i + 2 - 1 = i + 1 /\ i + 3 - 1 = i + 2 /\ i + 4 - 1 = i + 3
        OBVIOUS
      <4>. QED  BY <4>1, <4>2, <4>3, <4>4
    <3>3. t = <<t[1], t[2], t[3], t[4]>>
      BY <3>2
    <3>4. Closing(w) = <<"<", "/", w, ">">>
      BY DEF Closing
    <3>5. t = Closing(w) <=> t[1] = "<" /\ t[2] = "/" /\ t[3] = w /\ t[4] = ">"
      <4>1. ASSUME t = Closing(w) PROVE t[1] = "<" /\ t[2] = "/" /\ t[3] = w /\ t[4] = ">"
        BY <3>4, <4>1
      <4>2. ASSUME t[1] = "<" /\ t[2] = "/" /\ t[3] = w /\ t[4] = ">" PROVE t = Closing(w)
        BY <3>3, <3>4, <4>2, Zenon
      <4>. QED  BY <4>1, <4>2
    <3>. QED  BY <3>1, <3>2, <3>5
  <2>. QED  BY <2>2, <2>3 DEF ClosesAt
<1>. QED  BY <1>4, <1>5

\* First is the first place, or 0 when there is none.
LEMMA FirstIsLeast ==
    ASSUME NEW s \in Texts, NEW tags, NEW o, o = First(s, tags)
    PROVE  /\ o \in 0..Len(s)
           /\ o = 0 => \A i \in 1..Len(s) : ~\E tag \in tags : At(s, i, tag)
           /\ o # 0 => /\ \E tag \in tags : At(s, o, tag)
                       /\ \A i \in 1..(o - 1) : ~\E tag \in tags : At(s, i, tag)
<1>1. PICK P : P = {i \in DOMAIN s : \E tag \in tags : At(s, i, tag)}
  OBVIOUS
<1>2. DOMAIN s = 1..Len(s) /\ P \subseteq Nat
  BY <1>1 DEF Texts
<1>3. o = IF P = {} THEN 0 ELSE CHOOSE i \in P : \A j \in P : i <= j
  BY <1>1 DEF First
<1>4. CASE P = {}
  BY <1>1, <1>2, <1>3, <1>4 DEF Texts
<1>5. CASE P # {}
  <2>1. \E i \in P : \A j \in P : i <= j
    BY <1>2, <1>5, LeastOf
  <2>2. o \in P /\ \A j \in P : o <= j
    <3>1. o = CHOOSE i \in P : \A j \in P : i <= j
      BY <1>3, <1>5
    <3>. QED  BY <2>1, <3>1, Zenon
  <2>3. o \in 1..Len(s) /\ \E tag \in tags : At(s, o, tag)
    BY <1>1, <1>2, <2>2
  <2>4. ASSUME NEW i \in 1..(o - 1) PROVE ~\E tag \in tags : At(s, i, tag)
    <3>1. i \in DOMAIN s /\ i \notin P
      BY <1>2, <2>2, <2>3
    <3>. QED  BY <1>1, <3>1
  <2>. QED  BY <2>3, <2>4 DEF Texts
<1>. QED  BY <1>4, <1>5

LEMMA FirstOpening ==
    ASSUME NEW s \in Texts, NEW o, o = First(s, Openings)
    PROVE  /\ o \in 0..Len(s)
           /\ o = 0 => \A i \in 1..Len(s) : ~OpensAt(s, i)
           /\ o # 0 => OpensAt(s, o) /\ \A i \in 1..(o - 1) : ~OpensAt(s, i)
<1>1. /\ o \in 0..Len(s)
      /\ o = 0 => \A i \in 1..Len(s) : ~\E tag \in Openings : At(s, i, tag)
      /\ o # 0 => /\ \E tag \in Openings : At(s, o, tag)
                  /\ \A i \in 1..(o - 1) : ~\E tag \in Openings : At(s, i, tag)
  BY FirstIsLeast
<1>2. \A i \in 1..Len(s) : (\E tag \in Openings : At(s, i, tag)) <=> OpensAt(s, i)
  BY TagPlaces
<1>3. Len(s) \in Nat
  BY DEF Texts
<1>. QED  BY <1>1, <1>2, <1>3

LEMMA FirstClosing ==
    ASSUME NEW s \in Texts, NEW w, NEW c, c = First(s, {Closing(w)})
    PROVE  /\ c \in 0..Len(s)
           /\ c = 0 => \A i \in 1..Len(s) : ~ClosesAt(s, i, w)
           /\ c # 0 => ClosesAt(s, c, w) /\ \A i \in 1..(c - 1) : ~ClosesAt(s, i, w)
<1>1. /\ c \in 0..Len(s)
      /\ c = 0 => \A i \in 1..Len(s) : ~\E tag \in {Closing(w)} : At(s, i, tag)
      /\ c # 0 => /\ \E tag \in {Closing(w)} : At(s, c, tag)
                  /\ \A i \in 1..(c - 1) : ~\E tag \in {Closing(w)} : At(s, i, tag)
  BY FirstIsLeast
<1>2. \A i \in 1..Len(s) : (\E tag \in {Closing(w)} : At(s, i, tag)) <=> ClosesAt(s, i, w)
  BY TagPlaces
<1>3. Len(s) \in Nat
  BY DEF Texts
<1>4. CASE c = 0
  BY <1>1, <1>2, <1>4
<1>5. CASE c # 0
  <2>1. c \in 1..Len(s) /\ \A i \in 1..(c - 1) : i \in 1..Len(s)
    <3>1. c \in 0..Len(s)
      BY <1>1
    <3>2. c \in Nat /\ c # 0 /\ c <= Len(s)
      BY <1>3, <1>5, <3>1
    <3>3. PICK l \in Nat : l = Len(s)
      BY <1>3
    <3>4. c \in 1..l /\ \A i \in 1..(c - 1) : i \in 1..l
      BY <3>2, <3>3
    <3>. QED  BY <3>3, <3>4
  <2>. QED  BY <1>1, <1>2, <1>5, <2>1
<1>. QED  BY <1>1, <1>4, <1>5

LEMMA TextCat ==
    ASSUME NEW a \in Texts, NEW b \in Texts
    PROVE  /\ a \o b \in Texts /\ Len(a \o b) = Len(a) + Len(b)
           /\ a \o << >> = a /\ << >> \o a = a
  BY Cat, CatEmpty DEF Texts

LEMMA TextAssoc ==
    ASSUME NEW a \in Texts, NEW b \in Texts, NEW c \in Texts
    PROVE  (a \o b) \o c = a \o (b \o c)
  BY Assoc DEF Texts

LEMMA TextCut ==
    ASSUME NEW a \in Texts, NEW b \in Texts, NEW i \in 1..(Len(a) + 1)
    PROVE  After(a \o b, i) = After(a, i) \o b
  BY CutCat DEF Texts, After

LEMMA TextCutPast ==
    ASSUME NEW a \in Texts, NEW b \in Texts, NEW i \in 1..(Len(b) + 1)
    PROVE  After(a \o b, Len(a) + i) = After(b, i)
  BY CutPast DEF Texts, After

LEMMA TextHead ==
    ASSUME NEW a \in Texts, NEW b \in Texts, NEW i \in 0..Len(a)
    PROVE  SubSeq(a \o b, 1, i) = SubSeq(a, 1, i)
  BY HeadCat DEF Texts

LEMMA TextHeadPast ==
    ASSUME NEW a \in Texts, NEW b \in Texts, NEW i \in 0..Len(b)
    PROVE  SubSeq(a \o b, 1, Len(a) + i) = a \o SubSeq(b, 1, i)
  BY HeadPast DEF Texts

LEMMA TextHalves ==
    ASSUME NEW a \in Texts, NEW i \in 0..Len(a)
    PROVE  SubSeq(a, 1, i) \o After(a, i + 1) = a
  BY Halves DEF Texts, After

\* The places of tags in a text that goes on, or that is the end of one.
LEMMA TagsOfLonger ==
    ASSUME NEW p \in Texts, NEW q \in Texts
    PROVE  /\ \A i \in 1..Len(p) : OpensAt(p, i) => OpensAt(p \o q, i)
           /\ \A i \in 1..Len(p) : i + 2 <= Len(p) /\ OpensAt(p \o q, i) => OpensAt(p, i)
           /\ \A i \in 1..Len(q) : OpensAt(p \o q, Len(p) + i) <=> OpensAt(q, i)
           /\ \A w : \A i \in 1..Len(p) : ClosesAt(p, i, w) => ClosesAt(p \o q, i, w)
           /\ \A w : \A i \in 1..Len(p) :
                  i + 3 <= Len(p) /\ ClosesAt(p \o q, i, w) => ClosesAt(p, i, w)
<1>1. PICK a, b \in Nat : a = Len(p) /\ b = Len(q)
  BY DEF Texts
<1>2. PICK s \in Texts : /\ s = p \o q /\ Len(s) = a + b
                         /\ \A i \in 1..a : s[i] = p[i]
                         /\ \A i \in 1..b : s[a + i] = q[i]
  <2>1. p \in Seq(Symbols) /\ q \in Seq(Symbols)
    BY DEF Texts
  <2>2. /\ p \o q \in Seq(Symbols) /\ Len(p \o q) = Len(p) + Len(q)
        /\ \A i \in 1..Len(p) : (p \o q)[i] = p[i]
        /\ \A i \in 1..Len(q) : (p \o q)[Len(p) + i] = q[i]
    BY <2>1, Cat
  <2>. QED  BY <1>1, <2>2 DEF Texts
<1>3. ASSUME NEW i \in 1..a, i + 2 <= a
      PROVE  OpensAt(s, i) <=> OpensAt(p, i)
  <2>1. s[i] = p[i] /\ s[i + 1] = p[i + 1] /\ s[i + 2] = p[i + 2] /\ i + 2 <= a + b
    BY <1>1, <1>2, <1>3
  <2>. QED  BY <1>1, <1>2, <1>3, <2>1 DEF OpensAt
<1>4. ASSUME NEW i \in 1..b
      PROVE  OpensAt(s, a + i) <=> OpensAt(q, i)
  <2>1. CASE i + 2 <= b
    <3>1. s[a + i] = q[i] /\ s[a + i + 1] = q[i + 1] /\ s[a + i + 2] = q[i + 2]
      <4>1. i \in 1..b /\ i + 1 \in 1..b /\ i + 2 \in 1..b
        BY <1>1, <2>1
      <4>2. s[a + i] = q[i] /\ s[a + (i + 1)] = q[i + 1] /\ s[a + (i + 2)] = q[i + 2]
        BY <1>2, <4>1
      <4>3. a + (i + 1) = a + i + 1 /\ a + (i + 2) = a + i + 2
        BY <1>1, <4>1
      <4>. QED  BY <4>2, <4>3
    <3>2. a + i + 2 <= a + b
      BY <1>1, <2>1
    <3>. QED  BY <1>1, <1>2, <2>1, <3>1, <3>2 DEF OpensAt
  <2>2. CASE ~(i + 2 <= b)
    <3>1. ~(a + i + 2 <= a + b)
      BY <1>1, <2>2
    <3>. QED  BY <1>1, <1>2, <2>2, <3>1 DEF OpensAt
  <2>. QED  BY <2>1, <2>2
<1>5. ASSUME NEW w, NEW i \in 1..a, i + 3 <= a
      PROVE  ClosesAt(s, i, w) <=> ClosesAt(p, i, w)
  <2>1. /\ s[i] = p[i] /\ s[i + 1] = p[i + 1] /\ s[i + 2] = p[i + 2] /\ s[i + 3] = p[i + 3]
        /\ i + 3 <= a + b
    BY <1>1, <1>2, <1>5
  <2>. QED  BY <1>1, <1>2, <1>5, <2>1 DEF ClosesAt
<1>6. \A i \in 1..Len(p) : OpensAt(p, i) => i + 2 <= a
  BY <1>1 DEF OpensAt
<1>7. \A w : \A i \in 1..Len(p) : ClosesAt(p, i, w) => i + 3 <= a
  BY <1>1 DEF ClosesAt
<1>. QED  BY <1>1, <1>2, <1>3, <1>4, <1>5, <1>6, <1>7

LEMMA CutsAreTexts ==
    ASSUME NEW s \in Texts
    PROVE  /\ Len(s) \in Nat
           /\ \A i \in 1..(Len(s) + 1) : After(s, i) \in Texts /\ Len(After(s, i)) = Len(s) + 1 - i
           /\ \A i \in 0..Len(s) : SubSeq(s, 1, i) \in Texts /\ Len(SubSeq(s, 1, i)) = i
  BY Sub DEF Texts, After

-----------------------------------------------------------------------------
\* What is left of b when the closing tag of w is waited for ("no": none is).
CleanFrom(b, w) ==
    IF w = "no" THEN Clean[b]
    ELSE LET c == First(b, {Closing(w)}) IN IF c = 0 THEN << >> ELSE Clean[After(b, c + 4)]

\* The bounds of what follows a tag.
LEMMA CutsDescend ==
    ASSUME NEW s \in Texts
    PROVE  /\ \A o : o = First(s, Openings) /\ o # 0 =>
                  /\ After(s, o + 3) \in Texts /\ Len(After(s, o + 3)) < Len(s)
                  /\ s[o + 1] \in Names /\ SubSeq(s, 1, o - 1) \in Texts
           /\ \A w, c : c = First(s, {Closing(w)}) /\ c # 0 =>
                  /\ After(s, c + 4) \in Texts /\ Len(After(s, c + 4)) < Len(s)
<1>1. PICK l \in Nat : l = Len(s)
  BY DEF Texts
<1>2. ASSUME NEW o, o = First(s, Openings), o # 0
      PROVE  /\ After(s, o + 3) \in Texts /\ Len(After(s, o + 3)) < Len(s)
             /\ s[o + 1] \in Names /\ SubSeq(s, 1, o - 1) \in Texts
  <2>1. o \in 0..Len(s) /\ OpensAt(s, o)
    BY <1>2, FirstOpening
  <2>2. o \in 1..l /\ o + 2 <= l /\ s[o + 1] \in Names
    BY <1>1, <1>2, <2>1 DEF OpensAt
  <2>3. o + 3 \in 1..(Len(s) + 1) /\ o - 1 \in 0..Len(s) /\ l + 1 - (o + 3) < l
    BY <1>1, <2>2
  <2>. QED  BY <1>1, <2>2, <2>3, CutsAreTexts
<1>3. ASSUME NEW w, NEW c, c = First(s, {Closing(w)}), c # 0
      PROVE  After(s, c + 4) \in Texts /\ Len(After(s, c + 4)) < Len(s)
  <2>1. c \in 0..Len(s) /\ ClosesAt(s, c, w)
    BY <1>3, FirstClosing
  <2>2. c \in 1..l /\ c + 3 <= l
    BY <1>1, <1>3, <2>1 DEF ClosesAt
  <2>3. c + 4 \in 1..(Len(s) + 1) /\ l + 1 - (c + 4) < l
    BY <1>1, <2>2
  <2>. QED  BY <1>1, <2>2, <2>3, CutsAreTexts
<1>. QED  BY <1>2, <1>3

CleanBody(s, f) ==
    LET o == First(s, Openings)
        rest == After(s, o + 3)
        c == First(rest, {Closing(s[o + 1])})
    IN  IF o = 0 THEN s
        ELSE SubSeq(s, 1, o - 1) \o (IF c = 0 THEN << >> ELSE f[After(rest, c + 4)])

LEMMA CleanBodyType ==
    ASSUME NEW s \in Texts, NEW f, \A t \in Texts : Len(t) < Len(s) => f[t] \in Texts
    PROVE  /\ CleanBody(s, f) \in Texts
           /\ \A g :
                 (\A t \in Texts : Len(t) < Len(s) => f[t] = g[t])
                    => CleanBody(s, f) = CleanBody(s, g)
<1>1. PICK o : o = First(s, Openings)
  OBVIOUS
<1>2. PICK rest : rest = After(s, o + 3)
  OBVIOUS
<1>3. PICK c : c = First(rest, {Closing(s[o + 1])})
  OBVIOUS
<1>4. \A h : CleanBody(s, h) =
        IF o = 0 THEN s
        ELSE SubSeq(s, 1, o - 1) \o (IF c = 0 THEN << >> ELSE h[After(rest, c + 4)])
  BY <1>1, <1>2, <1>3 DEF CleanBody
<1>5. CASE o = 0
  BY <1>4, <1>5
<1>6. CASE o # 0
  <2>1. /\ rest \in Texts /\ Len(rest) < Len(s) /\ SubSeq(s, 1, o - 1) \in Texts
    BY <1>1, <1>2, <1>6, CutsDescend
  <2>2. CASE c = 0
    <3>1. \A h : CleanBody(s, h) = SubSeq(s, 1, o - 1) \o << >>
      BY <1>4, <1>6, <2>2
    <3>2. SubSeq(s, 1, o - 1) \o << >> \in Texts
      BY <2>1 DEF Texts
    <3>. QED  BY <3>1, <3>2
  <2>3. CASE c # 0
    <3>1. After(rest, c + 4) \in Texts /\ Len(After(rest, c + 4)) < Len(rest)
      BY <1>3, <2>1, <2>3, CutsDescend
    <3>2. Len(After(rest, c + 4)) < Len(s)
      <4>1. Len(s) \in Nat /\ Len(rest) \in Nat /\ Len(After(rest, c + 4)) \in Nat
        BY <2>1, <3>1 DEF Texts
      <4>. QED  BY <2>1, <3>1, <4>1
    <3>3. \A h : CleanBody(s, h) = SubSeq(s, 1, o - 1) \o h[After(rest, c + 4)]
      BY <1>4, <1>6, <2>3
    <3>4. f[After(rest, c + 4)] \in Texts
      BY <3>1, <3>2
    <3>5. SubSeq(s, 1, o - 1) \o f[After(rest, c + 4)] \in Texts
      BY <2>1, <3>4 DEF Texts
    <3>. QED  BY <3>1, <3>2, <3>3, <3>5
  <2>. QED  BY <2>2, <2>3
<1>. QED  BY <1>5, <1>6

\* Clean is defined: its equation has a solution, since it descends.
LEMMA CleanDef ==
    /\ Clean \in [Texts -> Texts]
    /\ \A s \in Texts : Clean[s] = CleanBody(s, Clean)
<1>1. PICK B : B = [p \in Texts \X [Texts -> Texts] |-> CleanBody(p[1], p[2])]
  OBVIOUS
<1>2. \A s \in Texts : \A f \in [Texts -> Texts] :
          B[<<s, f>>] = CleanBody(s, f) /\ CleanBody(s, f) \in Texts
  <2>1. \A s \in Texts : \A f \in [Texts -> Texts] : B[<<s, f>>] = CleanBody(s, f)
    BY <1>1
  <2>. QED  BY <2>1, CleanBodyType
<1>3. B \in [Texts \X [Texts -> Texts] -> Texts]
  BY <1>1, <1>2
<1>4. PICK m \in [Texts -> Nat] : \A s \in Texts : m[s] = Len(s)
  <2>1. [s \in Texts |-> Len(s)] \in [Texts -> Nat]
    BY DEF Texts
  <2>. QED  BY <2>1
<1>5. ASSUME NEW s \in Texts, NEW f \in [Texts -> Texts], NEW g \in [Texts -> Texts],
             \A t \in Texts : m[t] < m[s] => f[t] = g[t]
      PROVE  B[<<s, f>>] = B[<<s, g>>]
  <2>1. \A t \in Texts : Len(t) < Len(s) => f[t] = g[t] /\ f[t] \in Texts
    BY <1>4, <1>5
  <2>2. CleanBody(s, f) = CleanBody(s, g)
    BY <2>1, CleanBodyType
  <2>. QED  BY <1>2, <2>2
<1>6. << >> \in Texts
  BY DEF Texts
<1>7. PICK f \in [Texts -> Texts] : \A s \in Texts : f[s] = B[<<s, f>>]
  <2>1. \A s \in Texts : \A f, g \in [Texts -> Texts] :
          (\A t \in Texts : m[t] < m[s] => f[t] = g[t]) => B[<<s, f>>] = B[<<s, g>>]
    BY <1>5
  <2>2. Descends(Texts, Texts, m, B)
    BY <1>3, <1>4, <1>6, <2>1, Zenon DEF Descends
  <2>. QED  BY <2>2, Recursion DEF Solution
<1>8. f = [s \in Texts |-> CleanBody(s, f)]
  BY <1>2, <1>7
<1>9. Clean = CHOOSE C : C = [s \in Texts |-> CleanBody(s, C)]
  BY Zenon DEF Clean, CleanBody
<1>10. Clean = [s \in Texts |-> CleanBody(s, Clean)]
  BY <1>8, <1>9, Zenon
<1>11. \A s \in Texts : Clean[s] = CleanBody(s, Clean)
  BY <1>10, Zenon
<1>12. PICK G : G = {s \in Texts : Clean[s] \in Texts}
  OBVIOUS
<1>13. ASSUME NEW s \in Texts, \A t \in Texts : m[t] < m[s] => t \in G
       PROVE  s \in G
  <2>1. \A t \in Texts : Len(t) < Len(s) => Clean[t] \in Texts
    BY <1>4, <1>12, <1>13
  <2>2. Clean[s] \in Texts
    BY <1>11, <2>1, CleanBodyType
  <2>. QED  BY <1>12, <2>2
<1>14. Texts \subseteq G
  BY <1>13, Descent
<1>15. Clean \in [Texts -> Texts]
  <2>1. Clean = [s \in Texts |-> Clean[s]]
    BY <1>10
  <2>. QED  BY <1>12, <1>14, <2>1
<1>. QED  BY <1>11, <1>15

-----------------------------------------------------------------------------
\* The loop of process.
Rec(b, w, e) == [buffer |-> b, suppressing |-> w, out |-> e]

ProcessBody(p, f) ==
    LET b == p.buffer
        c == First(b, {Closing(p.suppressing)})
        o == First(b, Openings)
        h == HeldFrom(b)
    IN  IF p.suppressing # "no" /\ c = 0 THEN p
        ELSE IF p.suppressing # "no"
        THEN f[[buffer |-> After(b, c + 4), suppressing |-> "no", out |-> p.out]]
        ELSE IF o # 0
        THEN f[[buffer |-> After(b, o + 3), suppressing |-> b[o + 1],
                      out |-> p.out \o SubSeq(b, 1, o - 1)]]
        ELSE IF h # 0
        THEN [buffer |-> After(b, h), suppressing |-> "no", out |-> p.out \o SubSeq(b, 1, h - 1)]
        ELSE [buffer |-> << >>, suppressing |-> "no", out |-> p.out \o b]

\* HeldFrom is the last "<" when that is close to the end.
LEMMA HeldIsLast ==
    ASSUME NEW b \in Texts, NEW h, h = HeldFrom(b)
    PROVE  /\ h \in 0..Len(b)
           /\ h # 0 => /\ b[h] = "<" /\ Len(b) - (h - 1) < HoldBack
                       /\ \A i \in (h + 1)..Len(b) : b[i] # "<"
           /\ h = 0 => \A i \in 1..Len(b) : b[i] = "<" => Len(b) - (i - 1) >= HoldBack
<1>1. PICK P : P = {i \in DOMAIN b : b[i] = "<"}
  OBVIOUS
<1>2. PICK l \in Nat : l = Len(b) /\ DOMAIN b = 1..l
  BY DEF Texts
<1>3. PICK last : last = CHOOSE i \in P : \A j \in P : j <= i
  OBVIOUS
<1>4. h = IF P = {} THEN 0 ELSE IF Len(b) - (last - 1) < HoldBack THEN last ELSE 0
  BY <1>1, <1>3 DEF HeldFrom
<1>5. CASE P = {}
  BY <1>1, <1>2, <1>4, <1>5
<1>6. CASE P # {}
  <2>1. \E i \in P : \A j \in P : j <= i
    <3>1. PICK T : T = {l - i : i \in P}
      OBVIOUS
    <3>2. T \subseteq Nat /\ T # {}
      BY <1>1, <1>2, <1>6, <3>1
    <3>3. PICK k \in T : \A n \in T : k <= n
      BY <3>2, LeastOf
    <3>4. PICK i \in P : k = l - i
      BY <3>1, <3>3
    <3>5. \A j \in P : l - i <= l - j
      BY <3>1, <3>3, <3>4
    <3>6. \A j \in P : j <= i
      BY <1>1, <1>2, <3>5
    <3>. QED  BY <3>6
  <2>2. last \in P /\ \A j \in P : j <= last
    BY <1>3, <2>1, Zenon
  <2>3. last \in 1..l /\ b[last] = "<"
    BY <1>1, <1>2, <2>2
  <2>4. \A i \in 1..l : b[i] = "<" => i <= last
    BY <1>1, <1>2, <2>2
  <2>5. CASE l - (last - 1) < HoldBack
    <3>1. h = last
      BY <1>2, <1>4, <1>6, <2>5
    <3>2. \A i \in (h + 1)..l : b[i] # "<"
      BY <1>2, <2>3, <2>4, <3>1
    <3>. QED  BY <1>2, <2>3, <2>5, <3>1, <3>2
  <2>6. CASE ~(l - (last - 1) < HoldBack)
    <3>1. h = 0
      BY <1>2, <1>4, <1>6, <2>6
    <3>2. \A i \in 1..l : b[i] = "<" => l - (i - 1) >= HoldBack
      BY <1>2, <2>3, <2>4, <2>6, SanitizerAssumption
    <3>. QED  BY <1>2, <3>1, <3>2
  <2>. QED  BY <2>5, <2>6
<1>. QED  BY <1>5, <1>6

LEMMA ProcessBodyType ==
    ASSUME NEW p \in Loop, NEW f,
           \A q \in Loop : Len(q.buffer) < Len(p.buffer) => f[q] \in Loop
    PROVE  /\ ProcessBody(p, f) \in Loop
           /\ \A g :
                 (\A q \in Loop : Len(q.buffer) < Len(p.buffer) => f[q] = g[q])
                    => ProcessBody(p, f) = ProcessBody(p, g)
<1>1. PICK b \in Texts, e \in Texts, w \in Names \cup {"no"} :
          p = Rec(b, w, e) /\ b = p.buffer /\ w = p.suppressing /\ e = p.out
  BY DEF Loop, Rec
<1>2. PICK c : c = First(b, {Closing(w)})
  OBVIOUS
<1>3. PICK o : o = First(b, Openings)
  OBVIOUS
<1>4. PICK h : h = HeldFrom(b)
  OBVIOUS
<1>5. \A g : ProcessBody(p, g) =
        IF w # "no" /\ c = 0 THEN p
        ELSE IF w # "no" THEN g[Rec(After(b, c + 4), "no", e)]
        ELSE IF o # 0 THEN g[Rec(After(b, o + 3), b[o + 1], e \o SubSeq(b, 1, o - 1))]
        ELSE IF h # 0 THEN Rec(After(b, h), "no", e \o SubSeq(b, 1, h - 1))
        ELSE Rec(<< >>, "no", e \o b)
  BY <1>1, <1>2, <1>3, <1>4, Zenon DEF ProcessBody, Rec
<1>6. \A x \in Texts, y \in Texts : x \o y \in Texts
  BY DEF Texts
<1>7. \A x \in Texts, v \in Names \cup {"no"}, y \in Texts : Rec(x, v, y) \in Loop /\ Rec(x, v, y).buffer = x
  BY DEF Loop, Rec
<1>8. CASE w # "no" /\ c = 0
  <2>1. \A g : ProcessBody(p, g) = p
    BY <1>5, <1>8
  <2>. QED  BY <2>1
<1>9. CASE w # "no" /\ c # 0
  <2>1. After(b, c + 4) \in Texts /\ Len(After(b, c + 4)) < Len(b)
    BY <1>2, <1>9, CutsDescend
  <2>4. PICK q : q = Rec(After(b, c + 4), "no", e)
    OBVIOUS
  <2>5. q \in Loop /\ q.buffer = After(b, c + 4)
    BY <1>7, <2>1, <2>4
  <2>2. q \in Loop /\ q = Rec(After(b, c + 4), "no", e) /\ Len(q.buffer) < Len(p.buffer)
    BY <1>1, <2>1, <2>4, <2>5
  <2>3. \A g : ProcessBody(p, g) = g[q]
    BY <1>5, <1>9, <2>2
  <2>. QED  BY <2>2, <2>3
<1>10. CASE w = "no" /\ o # 0
  <2>1. /\ After(b, o + 3) \in Texts /\ Len(After(b, o + 3)) < Len(b)
        /\ b[o + 1] \in Names /\ SubSeq(b, 1, o - 1) \in Texts
    BY <1>3, <1>10, CutsDescend
  <2>2. PICK q \in Loop : /\ q = Rec(After(b, o + 3), b[o + 1], e \o SubSeq(b, 1, o - 1))
                          /\ Len(q.buffer) < Len(p.buffer)
    <3>1. PICK x \in Texts : x = e \o SubSeq(b, 1, o - 1)
      BY <1>6, <2>1
    <3>2. PICK q : q = Rec(After(b, o + 3), b[o + 1], x)
      OBVIOUS
    <3>3. q \in Loop /\ q.buffer = After(b, o + 3)
      BY <1>7, <2>1, <3>2
    <3>. QED  BY <1>1, <2>1, <3>1, <3>2, <3>3
  <2>3. \A g : ProcessBody(p, g) = g[q]
    BY <1>5, <1>10, <2>2
  <2>. QED  BY <2>2, <2>3
<1>11. CASE w = "no" /\ o = 0
  <2>1. PICK r \in Loop : r = IF h # 0 THEN Rec(After(b, h), "no", e \o SubSeq(b, 1, h - 1))
                              ELSE Rec(<< >>, "no", e \o b)
    <3>1. CASE h # 0
      <4>1. h \in 0..Len(b) /\ Len(b) \in Nat
        BY <1>4, HeldIsLast DEF Texts
      <4>2. h \in 1..(Len(b) + 1) /\ h - 1 \in 0..Len(b)
        BY <3>1, <4>1
      <4>3. After(b, h) \in Texts /\ SubSeq(b, 1, h - 1) \in Texts
        BY <4>2, CutsAreTexts
      <4>. QED  BY <1>6, <1>7, <3>1, <4>3
    <3>2. CASE h = 0
      <4>1. << >> \in Texts /\ e \o b \in Texts
        BY <1>6 DEF Texts
      <4>. QED  BY <1>7, <3>2, <4>1
    <3>. QED  BY <3>1, <3>2
  <2>2. \A g : ProcessBody(p, g) = r
    BY <1>5, <1>11, <2>1
  <2>. QED  BY <2>2
<1>. QED  BY <1>8, <1>9, <1>10, <1>11

LEMMA ProcessDef ==
    /\ Process \in [Loop -> Loop]
    /\ \A p \in Loop : Process[p] = ProcessBody(p, Process)
<1>1. PICK B : B = [x \in Loop \X [Loop -> Loop] |-> ProcessBody(x[1], x[2])]
  OBVIOUS
<1>2. PICK m \in [Loop -> Nat] : \A p \in Loop : m[p] = Len(p.buffer)
  <2>1. [p \in Loop |-> Len(p.buffer)] \in [Loop -> Nat]
    BY DEF Loop, Texts
  <2>. QED  BY <2>1
<1>3. \A p \in Loop : \A f \in [Loop -> Loop] :
          B[<<p, f>>] = ProcessBody(p, f) /\ ProcessBody(p, f) \in Loop
  <2>1. \A p \in Loop : \A f \in [Loop -> Loop] : B[<<p, f>>] = ProcessBody(p, f)
    BY <1>1
  <2>. QED  BY <2>1, ProcessBodyType
<1>4. B \in [Loop \X [Loop -> Loop] -> Loop]
  BY <1>1, <1>3
<1>5. ASSUME NEW p \in Loop, NEW f \in [Loop -> Loop], NEW g \in [Loop -> Loop],
             \A q \in Loop : m[q] < m[p] => f[q] = g[q]
      PROVE  B[<<p, f>>] = B[<<p, g>>]
  <2>1. \A q \in Loop : Len(q.buffer) < Len(p.buffer) => f[q] = g[q] /\ f[q] \in Loop
    BY <1>2, <1>5
  <2>2. ProcessBody(p, f) = ProcessBody(p, g)
    BY <2>1, ProcessBodyType
  <2>. QED  BY <1>3, <2>2
<1>6. Loop # {}
  <2>1. Rec(<< >>, "no", << >>) \in Loop
    BY DEF Rec, Loop, Texts
  <2>. QED  BY <2>1
<1>7. PICK f \in [Loop -> Loop] : \A p \in Loop : f[p] = B[<<p, f>>]
  <2>1. \A p \in Loop : \A f, g \in [Loop -> Loop] :
          (\A q \in Loop : m[q] < m[p] => f[q] = g[q]) => B[<<p, f>>] = B[<<p, g>>]
    BY <1>5
  <2>2. Descends(Loop, Loop, m, B)
    BY <1>2, <1>4, <1>6, <2>1, Zenon DEF Descends
  <2>. QED  BY <2>2, Recursion DEF Solution
<1>8. f = [p \in Loop |-> ProcessBody(p, f)]
  BY <1>3, <1>7
<1>9. Process = CHOOSE C : C = [p \in Loop |-> ProcessBody(p, C)]
  BY Zenon DEF Process, ProcessBody
<1>10. Process = [p \in Loop |-> ProcessBody(p, Process)]
  BY <1>8, <1>9, Zenon
<1>11. \A p \in Loop : Process[p] = ProcessBody(p, Process)
  BY <1>10, Zenon
<1>12. PICK G : G = {p \in Loop : Process[p] \in Loop}
  OBVIOUS
<1>13. ASSUME NEW p \in Loop, \A q \in Loop : m[q] < m[p] => q \in G
       PROVE  p \in G
  <2>1. \A q \in Loop : Len(q.buffer) < Len(p.buffer) => Process[q] \in Loop
    BY <1>2, <1>12, <1>13
  <2>2. Process[p] \in Loop
    BY <1>11, <2>1, ProcessBodyType
  <2>. QED  BY <1>12, <2>2
<1>14. Loop \subseteq G
  BY <1>13, Descent
<1>15. Process \in [Loop -> Loop]
  <2>1. Process = [p \in Loop |-> Process[p]]
    BY <1>10
  <2>. QED  BY <1>12, <1>14, <2>1
<1>. QED  BY <1>11, <1>15

-----------------------------------------------------------------------------
\* Clean, said with CleanFrom.
LEMMA CleanSteps ==
    ASSUME NEW s \in Texts
    PROVE  /\ \A w \in Names \cup {"no"} : CleanFrom(s, w) \in Texts
           /\ CleanFrom(s, "no") = Clean[s]
           /\ First(s, Openings) = 0 => Clean[s] = s
           /\ \A o : o = First(s, Openings) /\ o # 0 =>
                  Clean[s] = SubSeq(s, 1, o - 1) \o CleanFrom(After(s, o + 3), s[o + 1])
<1>1. \A t \in Texts : Clean[t] \in Texts /\ Clean[t] = CleanBody(t, Clean)
  BY CleanDef
<1>2. ASSUME NEW w \in Names \cup {"no"} PROVE CleanFrom(s, w) \in Texts
  <2>1. CASE w = "no"
    BY <1>1, <2>1 DEF CleanFrom
  <2>2. CASE w # "no"
    <3>1. PICK c : c = First(s, {Closing(w)})
      OBVIOUS
    <3>2. CleanFrom(s, w) = IF c = 0 THEN << >> ELSE Clean[After(s, c + 4)]
      BY <2>2, <3>1 DEF CleanFrom
    <3>3. c # 0 => After(s, c + 4) \in Texts
      BY <3>1, CutsDescend
    <3>4. << >> \in Texts
      BY DEF Texts
    <3>. QED  BY <1>1, <3>2, <3>3, <3>4
  <2>. QED  BY <2>1, <2>2
<1>3. CleanFrom(s, "no") = Clean[s]
  BY DEF CleanFrom
<1>4. First(s, Openings) = 0 => Clean[s] = s
  BY <1>1 DEF CleanBody
<1>5. ASSUME NEW o, o = First(s, Openings), o # 0
      PROVE  Clean[s] = SubSeq(s, 1, o - 1) \o CleanFrom(After(s, o + 3), s[o + 1])
  <2>1. s[o + 1] # "no"
    BY <1>5, CutsDescend, SanitizerAssumption
  <2>2. PICK rest, n : rest = After(s, o + 3) /\ n = s[o + 1]
    OBVIOUS
  <2>3. PICK c : c = First(rest, {Closing(n)})
    OBVIOUS
  <2>4. CleanFrom(rest, n) = IF c = 0 THEN << >> ELSE Clean[After(rest, c + 4)]
    BY <2>1, <2>2, <2>3 DEF CleanFrom
  <2>5. CleanBody(s, Clean) = SubSeq(s, 1, o - 1) \o
            (IF c = 0 THEN << >> ELSE Clean[After(rest, c + 4)])
    BY <1>5, <2>2, <2>3 DEF CleanBody
  <2>. QED  BY <1>1, <2>2, <2>4, <2>5
<1>. QED  BY <1>2, <1>3, <1>4, <1>5

\* Text before which no tag opens is kept as it is.
LEMMA KeptBefore ==
    ASSUME NEW p \in Texts, NEW q \in Texts, \A i \in 1..Len(p) : ~OpensAt(p \o q, i)
    PROVE  Clean[p \o q] = p \o Clean[q]
<1>1. PICK s \in Texts : s = p \o q
  BY TextCat
<1>2. PICK a, b \in Nat : a = Len(p) /\ b = Len(q) /\ Len(s) = a + b
  BY <1>1 DEF Texts
<1>3. PICK o, k : o = First(s, Openings) /\ k = First(q, Openings)
  OBVIOUS
<1>4. /\ o \in 0..(a + b)
      /\ o = 0 => \A i \in 1..(a + b) : ~OpensAt(s, i)
      /\ o # 0 => OpensAt(s, o) /\ \A i \in 1..(o - 1) : ~OpensAt(s, i)
  BY <1>2, <1>3, FirstOpening
<1>5. /\ k \in 0..b
      /\ k = 0 => \A i \in 1..b : ~OpensAt(q, i)
      /\ k # 0 => OpensAt(q, k) /\ \A i \in 1..(k - 1) : ~OpensAt(q, i)
  BY <1>2, <1>3, FirstOpening
<1>6. \A i \in 1..b : OpensAt(s, a + i) <=> OpensAt(q, i)
  BY <1>1, <1>2, TagsOfLonger
<1>7. \A i \in 1..a : ~OpensAt(s, i)
  BY <1>1, <1>2
<1>8. o # 0 => o - a \in 1..b /\ OpensAt(q, o - a)
  <2>1. SUFFICES ASSUME o # 0 PROVE o - a \in 1..b /\ OpensAt(q, o - a)
    OBVIOUS
  <2>2. o \in 1..(a + b) /\ OpensAt(s, o)
    BY <1>2, <1>4, <2>1
  <2>3. ~(o \in 1..a)
    BY <1>7, <2>2
  <2>4. o - a \in 1..b /\ a + (o - a) = o
    BY <1>2, <2>2, <2>3
  <2>. QED  BY <1>6, <2>2, <2>4
<1>9. CASE k = 0
  <2>1. o = 0
    BY <1>5, <1>8, <1>9
  <2>. QED  BY <1>1, <1>3, <1>9, <2>1, CleanSteps
<1>10. CASE k # 0
  <2>1. k \in 1..b /\ OpensAt(s, a + k) /\ a + k \in 1..(a + b)
    BY <1>2, <1>5, <1>6, <1>10
  <2>2. o # 0
    BY <1>4, <2>1
  <2>3. ~(a + k \in 1..(o - 1)) /\ ~(o - a \in 1..(k - 1))
    BY <1>4, <1>5, <1>8, <1>10, <2>1, <2>2
  <2>4. o = a + k
    BY <1>2, <1>4, <1>8, <2>1, <2>2, <2>3
  <2>5. /\ After(s, o + 3) = After(q, k + 3) /\ s[o + 1] = q[k + 1]
        /\ SubSeq(s, 1, o - 1) = p \o SubSeq(q, 1, k - 1)
    <3>1. k + 2 <= b
      BY <1>2, <1>5, <1>10 DEF OpensAt
    <3>2. k + 3 \in 1..(Len(q) + 1) /\ o + 3 = Len(p) + (k + 3)
      BY <1>2, <2>1, <2>4, <3>1
    <3>3. After(s, o + 3) = After(q, k + 3)
      BY <1>1, <3>2, TextCutPast
    <3>4. k + 1 \in 1..Len(q) /\ o + 1 = Len(p) + (k + 1)
      BY <1>2, <2>1, <2>4, <3>1
    <3>5. s[o + 1] = q[k + 1]
      BY <1>1, <3>4, Cat DEF Texts
    <3>6. k - 1 \in 0..Len(q) /\ o - 1 = Len(p) + (k - 1)
      BY <1>2, <2>1, <2>4
    <3>7. SubSeq(s, 1, o - 1) = p \o SubSeq(q, 1, k - 1)
      <4>1. \A i \in 0..Len(q) : SubSeq(p \o q, 1, Len(p) + i) = p \o SubSeq(q, 1, i)
        BY TextHeadPast
      <4>2. PICK i \in 0..Len(q) : i = k - 1
        BY <3>6
      <4>. QED  BY <1>1, <3>6, <4>1, <4>2
    <3>. QED  BY <3>3, <3>5, <3>7
  <2>6. PICK x : x = CleanFrom(After(q, k + 3), q[k + 1])
    OBVIOUS
  <2>7. x \in Texts /\ SubSeq(q, 1, k - 1) \in Texts
    BY <1>3, <1>10, <2>6, CutsDescend, CleanSteps
  <2>8. Clean[s] = (p \o SubSeq(q, 1, k - 1)) \o x
    <3>1. Clean[s] = SubSeq(s, 1, o - 1) \o CleanFrom(After(s, o + 3), s[o + 1])
      BY <1>3, <2>2, CleanSteps
    <3>. QED  BY <2>5, <2>6, <3>1
  <2>9. Clean[q] = SubSeq(q, 1, k - 1) \o x
    BY <1>3, <1>10, <2>6, CleanSteps
  <2>10. (p \o SubSeq(q, 1, k - 1)) \o x = p \o (SubSeq(q, 1, k - 1) \o x)
    <3>1. PICK y \in Texts : y = SubSeq(q, 1, k - 1)
      BY <2>7
    <3>2. \A z \in Texts : (p \o y) \o z = p \o (y \o z)
      BY TextAssoc
    <3>. QED  BY <2>7, <3>1, <3>2
  <2>. QED  BY <1>1, <2>8, <2>9, <2>10
<1>. QED  BY <1>9, <1>10

\* An opening tag that is there stays the first when the text goes on.
LEMMA OpensThere ==
    ASSUME NEW b \in Texts, NEW t \in Texts, NEW o, o = First(b, Openings), o # 0
    PROVE  Clean[b \o t] = SubSeq(b, 1, o - 1) \o CleanFrom(After(b, o + 3) \o t, b[o + 1])
<1>1. PICK s \in Texts : s = b \o t
  BY TextCat
<1>2. PICK l, n \in Nat : l = Len(b) /\ n = Len(s) /\ n >= l
  BY <1>1, TextCat DEF Texts
<1>3. /\ o \in 1..l /\ OpensAt(b, o) /\ \A i \in 1..(o - 1) : ~OpensAt(b, i)
  BY <1>2, FirstOpening
<1>4. o + 2 <= l
  BY <1>2, <1>3 DEF OpensAt
<1>5. OpensAt(s, o)
  BY <1>1, <1>2, <1>3, TagsOfLonger
<1>6. ASSUME NEW i \in 1..(o - 1) PROVE ~OpensAt(s, i)
  <2>1. i \in 1..l /\ i + 2 <= l
    BY <1>2, <1>3, <1>4
  <2>. QED  BY <1>1, <1>2, <1>3, <2>1, TagsOfLonger
<1>7. PICK k : k = First(s, Openings)
  OBVIOUS
<1>8. /\ k \in 0..n
      /\ k = 0 => \A i \in 1..n : ~OpensAt(s, i)
      /\ k # 0 => OpensAt(s, k) /\ \A i \in 1..(k - 1) : ~OpensAt(s, i)
  BY <1>2, <1>7, FirstOpening
<1>9. k = o
  <2>1. k # 0
    BY <1>2, <1>3, <1>5, <1>8
  <2>2. ~(k \in 1..(o - 1)) /\ ~(o \in 1..(k - 1))
    BY <1>5, <1>6, <1>8, <2>1
  <2>. QED  BY <1>2, <1>3, <1>8, <2>1, <2>2
<1>10. Clean[s] = SubSeq(s, 1, o - 1) \o CleanFrom(After(s, o + 3), s[o + 1])
  BY <1>3, <1>7, <1>9, CleanSteps
<1>11. /\ o - 1 \in 0..Len(b) /\ o + 3 \in 1..(Len(b) + 1) /\ o + 1 \in 1..Len(b)
  BY <1>2, <1>3, <1>4
<1>12. SubSeq(s, 1, o - 1) = SubSeq(b, 1, o - 1)
  BY <1>1, <1>11, TextHead
<1>13. After(s, o + 3) = After(b, o + 3) \o t
  BY <1>1, <1>11, TextCut
<1>14. s[o + 1] = b[o + 1]
  BY <1>1, <1>11, Cat DEF Texts
<1>. QED  BY <1>1, <1>10, <1>12, <1>13, <1>14

\* So does a closing tag.
LEMMA ClosesThere ==
    ASSUME NEW b \in Texts, NEW t \in Texts, NEW w \in Names,
           NEW c, c = First(b, {Closing(w)}), c # 0
    PROVE  CleanFrom(b \o t, w) = Clean[After(b, c + 4) \o t]
<1>1. PICK s \in Texts : s = b \o t
  BY TextCat
<1>2. PICK l, n \in Nat : l = Len(b) /\ n = Len(s) /\ n >= l
  BY <1>1, TextCat DEF Texts
<1>3. /\ c \in 1..l /\ ClosesAt(b, c, w) /\ \A i \in 1..(c - 1) : ~ClosesAt(b, i, w)
  <2>1. /\ c \in 0..Len(b) /\ ClosesAt(b, c, w) /\ \A i \in 1..(c - 1) : ~ClosesAt(b, i, w)
    BY FirstClosing
  <2>2. c \in 1..l
    BY <1>2, <2>1
  <2>. QED  BY <2>1, <2>2
<1>4. c + 3 <= l
  BY <1>2, <1>3 DEF ClosesAt
<1>5. ClosesAt(s, c, w)
  BY <1>1, <1>2, <1>3, TagsOfLonger
<1>6. ASSUME NEW i \in 1..(c - 1) PROVE ~ClosesAt(s, i, w)
  <2>1. i \in 1..Len(b) /\ i + 3 <= Len(b)
    BY <1>2, <1>3, <1>4
  <2>2. ClosesAt(s, i, w) => ClosesAt(b, i, w)
    BY <1>1, <2>1, TagsOfLonger
  <2>. QED  BY <1>3, <2>2
<1>7. PICK k : k = First(s, {Closing(w)})
  OBVIOUS
<1>8. /\ k \in 0..n
      /\ k = 0 => \A i \in 1..n : ~ClosesAt(s, i, w)
      /\ k # 0 => ClosesAt(s, k, w) /\ \A i \in 1..(k - 1) : ~ClosesAt(s, i, w)
  BY <1>2, <1>7, FirstClosing
<1>9. k = c
  <2>1. k # 0
    BY <1>2, <1>3, <1>5, <1>8
  <2>2. ~(k \in 1..(c - 1)) /\ ~(c \in 1..(k - 1))
    BY <1>5, <1>6, <1>8, <2>1
  <2>. QED  BY <1>2, <1>3, <1>8, <2>1, <2>2
<1>10. w # "no"
  BY SanitizerAssumption
<1>11. CleanFrom(s, w) = Clean[After(s, c + 4)]
  BY <1>3, <1>7, <1>9, <1>10 DEF CleanFrom
<1>12. c + 4 \in 1..(Len(b) + 1)
  BY <1>2, <1>3, <1>4
<1>13. After(s, c + 4) = After(b, c + 4) \o t
  BY <1>1, <1>12, TextCut
<1>. QED  BY <1>1, <1>11, <1>13

\* What HeldFrom does not hold back cannot become part of a tag.
LEMMA NoTagAcross ==
    ASSUME NEW b \in Texts, NEW t \in Texts, First(b, Openings) = 0,
           NEW h, h = HeldFrom(b), NEW i \in 1..Len(b), h = 0 \/ i < h
    PROVE  ~OpensAt(b \o t, i)
<1>1. SUFFICES ASSUME OpensAt(b \o t, i) PROVE FALSE
  OBVIOUS
<1>2. PICK l \in Nat : l = Len(b)
  BY DEF Texts
<1>3. \A j \in 1..l : (b \o t)[j] = b[j]
  BY <1>2, Cat DEF Texts
<1>4. (b \o t)[i] = "<" /\ (b \o t)[i + 1] \in Names
  BY <1>1 DEF OpensAt
<1>5. ~(i + 2 <= l)
  <2>1. \A j \in 1..Len(b) : ~OpensAt(b, j)
    BY FirstOpening
  <2>. QED  BY <1>1, <1>2, <2>1, TagsOfLonger
<1>6. /\ h \in 0..l
      /\ h # 0 => b[h] = "<"
      /\ h = 0 => \A j \in 1..l : b[j] = "<" => l - (j - 1) >= HoldBack
  BY <1>2, HeldIsLast
<1>7. CASE h = 0
  BY <1>2, <1>3, <1>4, <1>5, <1>6, <1>7, SanitizerAssumption
<1>8. CASE h # 0
  <2>1. h = i + 1
    BY <1>2, <1>5, <1>6, <1>8
  <2>2. (b \o t)[i + 1] = "<"
    BY <1>2, <1>3, <1>6, <1>8, <2>1
  <2>. QED  BY <1>4, <2>2, SanitizerAssumption
<1>. QED  BY <1>7, <1>8

\* When nothing is held, all of it is sent.
LEMMA AllIsSent ==
    ASSUME NEW b \in Texts, NEW t \in Texts, First(b, Openings) = 0, HeldFrom(b) = 0
    PROVE  Clean[b \o t] = b \o Clean[t]
<1>1. \A i \in 1..Len(b) : ~OpensAt(b \o t, i)
  BY NoTagAcross
<1>. QED  BY <1>1, KeptBefore

\* Otherwise what is left is the tail from the last "<".
LEMMA TailIsHeld ==
    ASSUME NEW b \in Texts, First(b, Openings) = 0, NEW h, h = HeldFrom(b), h # 0
    PROVE  /\ \A t \in Texts : Clean[b \o t] = SubSeq(b, 1, h - 1) \o Clean[After(b, h) \o t]
           /\ First(After(b, h), Openings) = 0
           /\ After(b, h) # << >> /\ After(b, h)[1] = "<"
           /\ Len(After(b, h)) < HoldBack
           /\ After(b, h) \in Texts /\ SubSeq(b, 1, h - 1) \in Texts
<1>a. h \in 1..Len(b) /\ Len(b) \in Nat
  BY HeldIsLast DEF Texts
<1>1. h - 1 \in 0..Len(b) /\ h \in 1..(Len(b) + 1) /\ h - 1 + 1 = h
  BY <1>a
<1>2. PICK p \in Texts, q \in Texts : p = SubSeq(b, 1, h - 1) /\ q = After(b, h)
  BY <1>1, CutsAreTexts
<1>3. Len(p) = h - 1 /\ Len(q) = Len(b) + 1 - h
  BY <1>1, <1>2, CutsAreTexts
<1>4. p \o q = b
  <2>1. \A i \in 0..Len(b) : SubSeq(b, 1, i) \o After(b, i + 1) = b
    BY TextHalves
  <2>2. SubSeq(b, 1, h - 1) \o After(b, h - 1 + 1) = b
    BY <1>1, <2>1
  <2>. QED  BY <1>1, <1>2, <2>2
<1>5. ASSUME NEW t \in Texts PROVE Clean[b \o t] = p \o Clean[q \o t]
  <2>1. (p \o q) \o t = p \o (q \o t) /\ q \o t \in Texts
    BY TextAssoc, TextCat
  <2>2. ASSUME NEW i \in 1..Len(p) PROVE ~OpensAt(p \o (q \o t), i)
    <3>1. i \in 1..Len(b) /\ i < h
      BY <1>a, <1>1, <1>3
    <3>2. ~OpensAt(b \o t, i)
      BY <3>1, NoTagAcross
    <3>. QED  BY <1>4, <2>1, <3>2
  <2>3. Clean[p \o (q \o t)] = p \o Clean[q \o t]
    BY <2>1, <2>2, KeptBefore
  <2>. QED  BY <1>4, <2>1, <2>3
<1>6. First(q, Openings) = 0
  <2>1. PICK k : k = First(q, Openings)
    OBVIOUS
  <2>2. SUFFICES ASSUME k # 0 PROVE FALSE
    BY <2>1
  <2>3. k \in 1..Len(q) /\ OpensAt(q, k)
    BY <1>a, <1>3, <2>1, <2>2, FirstOpening
  <2>4. OpensAt(b, Len(p) + k)
    BY <1>4, <2>3, TagsOfLonger
  <2>5. Len(p) + k \in 1..Len(b)
    BY <1>a, <1>1, <1>3, <2>3
  <2>. QED  BY <2>4, <2>5, FirstOpening
<1>7. b[h] = "<" /\ Len(b) - (h - 1) < HoldBack
  BY HeldIsLast
<1>8. q[1] = b[h] /\ q # << >>
  <2>1. 1 \in 1..Len(q) /\ Len(p) + 1 = h
    BY <1>a, <1>3
  <2>2. (p \o q)[Len(p) + 1] = q[1]
    BY <2>1, Cat DEF Texts
  <2>. QED  BY <1>4, <2>1, <2>2
<1>9. Len(q) < HoldBack
  BY <1>a, <1>3, <1>7, SanitizerAssumption
<1>. QED  BY <1>2, <1>5, <1>6, <1>7, <1>8, <1>9

-----------------------------------------------------------------------------
\* Nothing can be decided of what the loop leaves in the buffer.
Undecided(b, w) ==
    /\ w # "no" => First(b, {Closing(w)}) = 0
    /\ w = "no" => /\ First(b, Openings) = 0
                   /\ b # << >> => b[1] = "<" /\ Len(b) < HoldBack

\* The loop changes nothing in what becomes of a text that goes on with t.
Becomes(p, t) == p.out \o CleanFrom(p.buffer \o t, p.suppressing)

Decided(p) == /\ Undecided(Process[p].buffer, Process[p].suppressing)
              /\ \A t \in Texts : Becomes(Process[p], t) = Becomes(p, t)

LEMMA OneTurn ==
    ASSUME NEW p \in Loop,
           \A q \in Loop : Len(q.buffer) < Len(p.buffer) => Decided(q)
    PROVE  Decided(p)
<1>1. PICK b \in Texts, e \in Texts, w \in Names \cup {"no"} :
          p = Rec(b, w, e) /\ b = p.buffer /\ w = p.suppressing /\ e = p.out
  BY DEF Loop, Rec
<1>2. PICK c : c = First(b, {Closing(w)})
  OBVIOUS
<1>3. PICK o : o = First(b, Openings)
  OBVIOUS
<1>4. PICK h : h = HeldFrom(b)
  OBVIOUS
<1>5. Process[p] =
        IF w # "no" /\ c = 0 THEN p
        ELSE IF w # "no" THEN Process[Rec(After(b, c + 4), "no", e)]
        ELSE IF o # 0 THEN Process[Rec(After(b, o + 3), b[o + 1], e \o SubSeq(b, 1, o - 1))]
        ELSE IF h # 0 THEN Rec(After(b, h), "no", e \o SubSeq(b, 1, h - 1))
        ELSE Rec(<< >>, "no", e \o b)
  <2>1. Process[p] = ProcessBody(p, Process)
    BY ProcessDef
  <2>. QED  BY <1>1, <1>2, <1>3, <1>4, <2>1, Zenon DEF ProcessBody, Rec
<1>6. \A t \in Texts : b \o t \in Texts /\ Becomes(p, t) = e \o CleanFrom(b \o t, w)
  BY <1>1, TextCat DEF Becomes
<1>7. \A x \in Texts, v \in Names \cup {"no"}, y \in Texts :
        /\ Rec(x, v, y) \in Loop /\ Rec(x, v, y).buffer = x
        /\ Rec(x, v, y).suppressing = v /\ Rec(x, v, y).out = y
  BY DEF Loop, Rec
<1>8. \A x, v, y, t : Becomes(Rec(x, v, y), t) = y \o CleanFrom(x \o t, v)
  BY DEF Becomes, Rec
<1>9. CASE w # "no" /\ c = 0
  <2>1. Process[p] = p
    BY <1>5, <1>9
  <2>2. Undecided(b, w)
    BY <1>2, <1>9 DEF Undecided
  <2>. QED  BY <1>1, <2>1, <2>2 DEF Decided
<1>10. CASE w # "no" /\ c # 0
  <2>1. After(b, c + 4) \in Texts /\ Len(After(b, c + 4)) < Len(b)
    BY <1>2, <1>10, CutsDescend
  <2>2. PICK q : q = Rec(After(b, c + 4), "no", e)
    OBVIOUS
  <2>3. q \in Loop /\ q.buffer = After(b, c + 4)
    BY <1>7, <2>1, <2>2
  <2>4. Process[p] = Process[q]
    BY <1>5, <1>10, <2>2
  <2>5. Decided(q)
    BY <1>1, <2>1, <2>3
  <2>6. ASSUME NEW t \in Texts PROVE Becomes(q, t) = Becomes(p, t)
    <3>1. CleanFrom(b \o t, w) = Clean[After(b, c + 4) \o t]
      BY <1>2, <1>10, ClosesThere
    <3>2. Becomes(q, t) = e \o CleanFrom(After(b, c + 4) \o t, "no")
      BY <1>8, <2>2
    <3>3. CleanFrom(After(b, c + 4) \o t, "no") = Clean[After(b, c + 4) \o t]
      BY DEF CleanFrom
    <3>. QED  BY <1>6, <3>1, <3>2, <3>3
  <2>. QED  BY <2>4, <2>5, <2>6 DEF Decided
<1>11. CASE w = "no" /\ o # 0
  <2>1. /\ After(b, o + 3) \in Texts /\ Len(After(b, o + 3)) < Len(b)
        /\ b[o + 1] \in Names /\ SubSeq(b, 1, o - 1) \in Texts
    BY <1>3, <1>11, CutsDescend
  <2>2. PICK x \in Texts : x = SubSeq(b, 1, o - 1)
    BY <2>1
  <2>3. PICK q : q = Rec(After(b, o + 3), b[o + 1], e \o x)
    OBVIOUS
  <2>4. q \in Loop /\ q.buffer = After(b, o + 3)
    <3>1. e \o x \in Texts
      BY TextCat
    <3>. QED  BY <1>7, <2>1, <2>3, <3>1
  <2>5. Process[p] = Process[q]
    BY <1>5, <1>11, <2>2, <2>3
  <2>6. Decided(q)
    BY <1>1, <2>1, <2>4
  <2>7. ASSUME NEW t \in Texts PROVE Becomes(q, t) = Becomes(p, t)
    <3>1. PICK y : y = CleanFrom(After(b, o + 3) \o t, b[o + 1])
      OBVIOUS
    <3>2. y \in Texts
      <4>1. After(b, o + 3) \o t \in Texts
        BY <2>1, TextCat
      <4>. QED  BY <2>1, <3>1, <4>1, CleanSteps
    <3>3. Clean[b \o t] = x \o y
      <4>1. Clean[b \o t] = SubSeq(b, 1, o - 1) \o CleanFrom(After(b, o + 3) \o t, b[o + 1])
        BY <1>3, <1>11, OpensThere, ZenonT(30)
      <4>. QED  BY <2>2, <3>1, <4>1
    <3>4. Becomes(p, t) = e \o (x \o y)
      BY <1>6, <1>11, <3>3 DEF CleanFrom
    <3>5. Becomes(q, t) = (e \o x) \o y
      <4>1. Becomes(q, t) = (e \o x) \o CleanFrom(After(b, o + 3) \o t, b[o + 1])
        BY <2>3 DEF Becomes, Rec
      <4>. QED  BY <3>1, <4>1
    <3>. QED  BY <3>2, <3>4, <3>5, TextAssoc
  <2>. QED  BY <2>5, <2>6, <2>7 DEF Decided
<1>12. CASE w = "no" /\ o = 0 /\ h # 0
  <2>1. /\ \A t \in Texts : Clean[b \o t] = SubSeq(b, 1, h - 1) \o Clean[After(b, h) \o t]
        /\ First(After(b, h), Openings) = 0
        /\ After(b, h) # << >> /\ After(b, h)[1] = "<"
        /\ Len(After(b, h)) < HoldBack
        /\ After(b, h) \in Texts /\ SubSeq(b, 1, h - 1) \in Texts
    <3>1. First(b, Openings) = 0 /\ h = HeldFrom(b) /\ h # 0
      BY <1>3, <1>4, <1>12
    <3>. QED  BY <3>1, TailIsHeld, ZenonT(30)
  <2>2. PICK x \in Texts : x = SubSeq(b, 1, h - 1)
    BY <2>1
  <2>3. PICK z \in Texts : z = After(b, h)
    BY <2>1
  <2>4. Process[p] = Rec(z, "no", e \o x)
    BY <1>5, <1>12, <2>2, <2>3
  <2>5. Undecided(z, "no")
    BY <2>1, <2>3 DEF Undecided
  <2>6. Rec(z, "no", e \o x).buffer = z /\ Rec(z, "no", e \o x).suppressing = "no"
    BY DEF Rec
  <2>7. ASSUME NEW t \in Texts PROVE Becomes(Rec(z, "no", e \o x), t) = Becomes(p, t)
    <3>1. PICK y \in Texts : y = Clean[z \o t]
      BY TextCat, CleanDef
    <3>2. Clean[b \o t] = x \o y
      BY <2>1, <2>2, <2>3, <3>1
    <3>3. Becomes(p, t) = e \o (x \o y)
      BY <1>6, <1>12, <3>2 DEF CleanFrom
    <3>4. Becomes(Rec(z, "no", e \o x), t) = (e \o x) \o y
      <4>1. Becomes(Rec(z, "no", e \o x), t) = (e \o x) \o CleanFrom(z \o t, "no")
        BY DEF Becomes, Rec
      <4>2. CleanFrom(z \o t, "no") = y
        BY <3>1 DEF CleanFrom
      <4>. QED  BY <4>1, <4>2
    <3>5. (e \o x) \o y = e \o (x \o y)
      BY TextAssoc, ZenonT(30)
    <3>. QED  BY <3>3, <3>4, <3>5
  <2>. QED  BY <2>4, <2>5, <2>6, <2>7 DEF Decided
<1>13. CASE w = "no" /\ o = 0 /\ h = 0
  <2>1. Process[p] = Rec(<< >>, "no", e \o b)
    BY <1>5, <1>13
  <2>2. Rec(<< >>, "no", e \o b).buffer = << >> /\ Rec(<< >>, "no", e \o b).suppressing = "no"
    BY DEF Rec
  <2>3. << >> \in Texts
    BY DEF Texts
  <2>4. Undecided(<< >>, "no")
    <3>1. PICK k : k = First(<< >>, Openings)
      OBVIOUS
    <3>2. k \in 0..Len(<< >>)
      BY <2>3, <3>1, FirstOpening
    <3>3. k = 0
      BY <3>2
    <3>. QED  BY <3>1, <3>3 DEF Undecided
  <2>5. ASSUME NEW t \in Texts PROVE Becomes(Rec(<< >>, "no", e \o b), t) = Becomes(p, t)
    <3>1. PICK y \in Texts : y = Clean[t]
      BY CleanDef
    <3>2. Clean[b \o t] = b \o y
      BY <1>3, <1>4, <1>13, <3>1, AllIsSent
    <3>3. Becomes(p, t) = e \o (b \o y)
      BY <1>6, <1>13, <3>2 DEF CleanFrom
    <3>4. << >> \o t = t
      BY TextCat
    <3>5. Becomes(Rec(<< >>, "no", e \o b), t) = (e \o b) \o y
      <4>1. Becomes(Rec(<< >>, "no", e \o b), t) = (e \o b) \o CleanFrom(<< >> \o t, "no")
        BY DEF Becomes, Rec
      <4>2. CleanFrom(t, "no") = y
        BY <3>1 DEF CleanFrom
      <4>. QED  BY <3>4, <4>1, <4>2
    <3>. QED  BY <3>3, <3>5, TextAssoc
  <2>. QED  BY <2>1, <2>2, <2>4, <2>5 DEF Decided
<1>. QED  BY <1>9, <1>10, <1>11, <1>12, <1>13

LEMMA ProcessDecides == \A p \in Loop : Decided(p)
<1>1. PICK m \in [Loop -> Nat] : \A p \in Loop : m[p] = Len(p.buffer)
  <2>1. [p \in Loop |-> Len(p.buffer)] \in [Loop -> Nat]
    BY DEF Loop, Texts
  <2>. QED  BY <2>1
<1>2. PICK G : G = {p \in Loop : Decided(p)}
  OBVIOUS
<1>3. ASSUME NEW p \in Loop, \A q \in Loop : m[q] < m[p] => q \in G PROVE p \in G
  <2>1. \A q \in Loop : Len(q.buffer) < Len(p.buffer) => Decided(q)
    BY <1>1, <1>2, <1>3
  <2>. QED  BY <1>2, <2>1, OneTurn
<1>4. Loop \subseteq G
  BY <1>3, Descent
<1>. QED  BY <1>2, <1>4

\* sanitizeText, the code, returns the text without its blocks: Clean.
THEOREM SanitizeTextCleans == \A s \in Texts : SanitizeText(s) = Clean[s]
<1>1. SUFFICES ASSUME NEW s \in Texts PROVE SanitizeText(s) = Clean[s]
  OBVIOUS
<1>2. << >> \in Texts
  BY DEF Texts
<1>3. PICK p : p = Rec(s, "no", << >>)
  OBVIOUS
<1>4. p \in Loop /\ p.buffer = s /\ p.suppressing = "no" /\ p.out = << >>
  BY <1>2, <1>3 DEF Rec, Loop
<1>5. PICK r \in Loop : r = Process[p]
  BY <1>4, ProcessDef
<1>6. r.buffer \in Texts /\ r.suppressing \in Names \cup {"no"} /\ r.out \in Texts
  BY DEF Loop
<1>7. Undecided(r.buffer, r.suppressing) /\ Becomes(r, << >>) = Becomes(p, << >>)
  BY <1>2, <1>4, <1>5, ProcessDecides DEF Decided
<1>8. Becomes(p, << >>) = Clean[s]
  <2>1. Becomes(p, << >>) = << >> \o CleanFrom(s \o << >>, "no")
    BY <1>4 DEF Becomes
  <2>2. s \o << >> = s /\ CleanFrom(s, "no") = Clean[s] /\ Clean[s] \in Texts
    BY <1>2, TextCat, CleanDef DEF CleanFrom
  <2>. QED  BY <1>2, <2>1, <2>2, TextCat
<1>9. Becomes(r, << >>) = r.out \o Flushed(r)
  <2>1. Becomes(r, << >>) = r.out \o CleanFrom(r.buffer, r.suppressing)
    BY <1>2, <1>6, TextCat DEF Becomes
  <2>2. CleanFrom(r.buffer, r.suppressing) = Flushed(r)
    BY <1>6, <1>7, CleanSteps DEF CleanFrom, Flushed, Undecided
  <2>. QED  BY <2>1, <2>2
<1>. QED  BY <1>3, <1>5, <1>7, <1>8, <1>9 DEF SanitizeText, Rec

-----------------------------------------------------------------------------
\* The inductive invariant: whatever still comes, t, the clean text is
\* what has been sent and what will become of the buffer with t.
ComesClean ==
    done = << >> =>
        /\ Undecided(buffer, suppressing)
        /\ \A t \in Texts : Clean[arrived \o t] = out \o CleanFrom(buffer \o t, suppressing)

SanitizerInv == SanitizerTypeOK /\ ComesClean

LEMMA SanitizerInvInit == SanitizerInit => SanitizerInv
<1>1. SUFFICES ASSUME SanitizerInit PROVE SanitizerInv
  OBVIOUS
<1>2. << >> \in Texts /\ Len(<< >>) = 0
  BY DEF Texts
<1>3. SanitizerTypeOK
  BY <1>1, <1>2, SanitizerAssumption DEF SanitizerInit, SanitizerTypeOK
<1>4. Undecided(<< >>, "no")
  <2>1. PICK k : k = First(<< >>, Openings)
    OBVIOUS
  <2>2. k \in 0..Len(<< >>)
    BY <1>2, <2>1, FirstOpening
  <2>3. k = 0
    BY <1>2, <2>2
  <2>. QED  BY <2>1, <2>3 DEF Undecided
<1>5. ASSUME NEW t \in Texts PROVE Clean[<< >> \o t] = << >> \o CleanFrom(<< >> \o t, "no")
  <2>1. << >> \o t = t /\ Clean[t] \in Texts /\ CleanFrom(t, "no") = Clean[t]
    BY <1>2, TextCat, CleanDef DEF CleanFrom
  <2>2. << >> \o Clean[t] = Clean[t]
    BY <2>1, TextCat
  <2>. QED  BY <2>1, <2>2
<1>6. ComesClean
  BY <1>1, <1>4, <1>5 DEF SanitizerInit, ComesClean
<1>. QED  BY <1>3, <1>6 DEF SanitizerInv

LEMMA TokenKeepsText == ASSUME SanitizerInv, TokenEvent PROVE SanitizerInv'
<1>0. PICK k \in 1..MaxToken : \E x \in [1..k -> Symbols] :
        /\ Len(arrived) + k <= MaxText
        /\ arrived' = arrived \o x
        /\ LET r == Process[[buffer |-> buffer \o x, suppressing |-> suppressing, out |-> out]]
           IN  /\ buffer' = r.buffer /\ suppressing' = r.suppressing
               /\ out' = r.out
  BY Zenon DEF TokenEvent
<1>1. PICK x \in [1..k -> Symbols] :
        /\ Len(arrived) + k <= MaxText
        /\ arrived' = arrived \o x
        /\ LET r == Process[[buffer |-> buffer \o x, suppressing |-> suppressing, out |-> out]]
           IN  /\ buffer' = r.buffer /\ suppressing' = r.suppressing
               /\ out' = r.out
  BY <1>0
<1>2. x \in Texts /\ Len(x) = k
  <2>1. k \in Nat
    BY SanitizerAssumption
  <2>. QED  BY <2>1 DEF Texts
<1>3. /\ arrived \in Texts /\ buffer \in Texts /\ out \in Texts
      /\ suppressing \in Names \cup {"no"} /\ done = << >> /\ done' = << >>
  BY DEF SanitizerInv, SanitizerTypeOK, TokenEvent
<1>4. PICK p : p = Rec(buffer \o x, suppressing, out)
  OBVIOUS
<1>5. /\ p \in Loop /\ p.buffer = buffer \o x /\ p.suppressing = suppressing /\ p.out = out
  BY <1>2, <1>3, <1>4, TextCat DEF Rec, Loop
<1>6. PICK r \in Loop : r = Process[p]
  BY <1>5, ProcessDef
<1>7. buffer' = r.buffer /\ suppressing' = r.suppressing /\ out' = r.out
  BY <1>1, <1>4, <1>6 DEF Rec
<1>8. SanitizerTypeOK'
  <2>1. arrived' \in Texts /\ Len(arrived') = Len(arrived) + k
    BY <1>1, <1>2, <1>3, TextCat
  <2>2. buffer' \in Texts /\ suppressing' \in Names \cup {"no"} /\ out' \in Texts
    BY <1>7 DEF Loop
  <2>3. Len(arrived') <= MaxText
    BY <1>1, <2>1
  <2>. QED  BY <1>3, <2>1, <2>2, <2>3 DEF SanitizerTypeOK
<1>9. Decided(p)
  BY <1>5, ProcessDecides
<1>10. Undecided(buffer', suppressing')
  BY <1>6, <1>7, <1>9 DEF Decided
<1>11. ASSUME NEW t \in Texts
       PROVE  Clean[arrived' \o t] = out' \o CleanFrom(buffer' \o t, suppressing')
  <2>1. x \o t \in Texts
    BY <1>2, TextCat
  <2>2. Clean[arrived \o (x \o t)] = out \o CleanFrom(buffer \o (x \o t), suppressing)
    BY <1>3, <2>1 DEF SanitizerInv, ComesClean
  <2>3. arrived' \o t = arrived \o (x \o t)
    BY <1>1, <1>2, <1>3, TextAssoc
  <2>4. (buffer \o x) \o t = buffer \o (x \o t)
    BY <1>2, <1>3, TextAssoc, ZenonT(30)
  <2>5. Becomes(p, t) = out \o CleanFrom((buffer \o x) \o t, suppressing)
    BY <1>5 DEF Becomes
  <2>6. Becomes(r, t) = Becomes(p, t)
    BY <1>6, <1>9 DEF Decided
  <2>7. Becomes(r, t) = out' \o CleanFrom(buffer' \o t, suppressing')
    BY <1>7 DEF Becomes
  <2>. QED  BY <2>2, <2>3, <2>4, <2>5, <2>6, <2>7
<1>12. ComesClean'
  BY <1>10, <1>11 DEF ComesClean
<1>. QED  BY <1>8, <1>12 DEF SanitizerInv

LEMMA DoneKeepsText == ASSUME SanitizerInv, DoneEvent PROVE SanitizerInv'
<1>1. /\ done' = <<SanitizeText(arrived)
                     \o Flushed([buffer |-> buffer, suppressing |-> suppressing])>>
      /\ buffer' = << >> /\ suppressing' = "no" /\ arrived' = arrived /\ out' = out
  BY DEF DoneEvent
<1>2. /\ arrived \in Texts /\ buffer \in Texts /\ out \in Texts /\ Len(arrived) <= MaxText
  BY DEF SanitizerInv, SanitizerTypeOK
<1>3. << >> \in Texts
  BY DEF Texts
<1>4. SanitizeText(arrived) \in Texts
  BY <1>2, SanitizeTextCleans, CleanDef
<1>5. Flushed([buffer |-> buffer, suppressing |-> suppressing]) \in Texts
  BY <1>2, <1>3 DEF Flushed
<1>6. PICK t \in Texts : done' = <<t>>
  BY <1>1, <1>4, <1>5, TextCat
<1>7. done' # << >> /\ done' \in Seq(Texts) /\ Len(done') = 1
  BY <1>6
<1>. QED  BY <1>1, <1>2, <1>3, <1>6, <1>7 DEF SanitizerInv, SanitizerTypeOK, ComesClean

LEMMA SanitizerSteps == SanitizerInv /\ [SanitizerNext]_sanitizerVars => SanitizerInv'
<1>1. SUFFICES ASSUME SanitizerInv, [SanitizerNext]_sanitizerVars PROVE SanitizerInv'
  OBVIOUS
<1>2. CASE TokenEvent
  BY <1>1, <1>2, TokenKeepsText
<1>3. CASE DoneEvent
  BY <1>1, <1>3, DoneKeepsText
<1>4. CASE UNCHANGED sanitizerVars
  BY <1>1, <1>4 DEF sanitizerVars, SanitizerInv, SanitizerTypeOK, ComesClean
<1>. QED  BY <1>1, <1>2, <1>3, <1>4 DEF SanitizerNext

LEMMA SanitizerInvHolds == SanitizerSpec => []SanitizerInv
  BY SanitizerInvInit, SanitizerSteps, PTL DEF SanitizerSpec

\* However the answer is cut into tokens, what is sent is the clean text
\* but for the tail that is held back.
THEOREM TailHeld == SanitizerSpec => []OnlyTailIsHeld
<1>1. ASSUME SanitizerInv PROVE OnlyTailIsHeld
  <2>1. SUFFICES ASSUME done = << >>
                 PROVE  IF suppressing # "no" THEN Clean[arrived] = out
                        ELSE /\ Clean[arrived] = out \o buffer
                             /\ buffer # << >> => buffer[1] = "<" /\ Len(buffer) < HoldBack
    BY DEF OnlyTailIsHeld
  <2>2. /\ arrived \in Texts /\ buffer \in Texts /\ out \in Texts /\ << >> \in Texts
        /\ suppressing \in Names \cup {"no"}
    BY <1>1 DEF SanitizerInv, SanitizerTypeOK, Texts
  <2>3. /\ Undecided(buffer, suppressing)
        /\ Clean[arrived \o << >>] = out \o CleanFrom(buffer \o << >>, suppressing)
    BY <1>1, <2>1, <2>2 DEF SanitizerInv, ComesClean
  <2>4. Clean[arrived] = out \o CleanFrom(buffer, suppressing)
    BY <2>2, <2>3, TextCat
  <2>5. CASE suppressing # "no"
    <3>1. CleanFrom(buffer, suppressing) = << >>
      BY <2>3, <2>5 DEF CleanFrom, Undecided
    <3>. QED  BY <2>2, <2>4, <2>5, <3>1, TextCat
  <2>6. CASE suppressing = "no"
    <3>1. CleanFrom(buffer, suppressing) = buffer
      BY <2>2, <2>3, <2>6, CleanSteps DEF Undecided
    <3>. QED  BY <2>3, <2>4, <2>6, <3>1 DEF Undecided
  <2>. QED  BY <2>5, <2>6
<1>. QED  BY <1>1, SanitizerInvHolds, PTL

\* What has arrived, is held back and was sent are texts.
THEOREM TextsTyped == SanitizerSpec => []SanitizerTypeOK
<1>1. SanitizerInv => SanitizerTypeOK
  BY DEF SanitizerInv
<1>. QED  BY <1>1, SanitizerInvHolds, PTL
=============================================================================
