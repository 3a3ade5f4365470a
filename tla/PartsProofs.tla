---------------------------- MODULE PartsProofs -----------------------------
(***************************************************************************)
(* What holds of receipts, payout addresses, the peer list, database rows, *)
(* rented machines and event streams, for every number of receipts,        *)
(* callers, commands and faults, and wherever streams are cut.  Each       *)
(* section has the inductive invariant of one component: Init implies it,  *)
(* every step keeps it, and it implies the properties.  The last section   *)
(* puts the parts of MCParts together.                                     *)
(***************************************************************************)
EXTENDS MCParts, ServicesProofs, CprQueue

-----------------------------------------------------------------------------
(* The receipt outbox: a row leaves the queue as sent, failed or refused   *)
(* only for a reason.                                                      *)
(*                                                                         *)
(* What a worker is about to write is backed by an answer it got, or by a  *)
(* try it made, whatever overlapping drains do to the row meanwhile        *)
(* (WorkersInv).                                                           *)

\* What a worker is about to write is backed by an answer, or by a try.
BusyWorker(w) == pc[w] \notin {"idle", "loop"}

WorkersInv ==
    \A w \in Workers :
        /\ BusyWorker(w) => cur[w] \in Receipts
        /\ pc[w] = "sent" => cur[w] \in accepted
        /\ pc[w] = "permanent_fail" => cur[w] \in refused \cup accepted
        /\ pc[w] = "retrying" => read[w] <= tries[cur[w]]
        /\ pc[w] # "retrying" => read[w] = 0

QueueInv == TypeOK /\ WorkersInv /\ AttemptsWithinTries /\ NotAbandoned

-----------------------------------------------------------------------------
LEMMA QueueInvInit == Init => QueueInv
  BY CprQueueAssumption
     DEF Init, QueueInv, TypeOK, WorkersInv, AttemptsWithinTries, NotAbandoned,
         BusyWorker, Workers

\* Rows that are inserted, become ready, or arrive late.
LEMMA QueueRowKeeps ==
  ASSUME QueueInv, NEW r \in Receipts,
         EnqueueReceipt(r) \/ BackoffEnds(r) \/ LateArrival(r)
  PROVE  QueueInv'
<1>. USE CprQueueAssumption
         DEF QueueInv, TypeOK, WorkersInv, AttemptsWithinTries, NotAbandoned,
             BusyWorker, Workers, EndStates, queueVars, cprVars, workerVars
<1>1. CASE EnqueueReceipt(r)
  BY <1>1 DEF EnqueueReceipt, Goto
<1>2. CASE BackoffEnds(r)
  BY <1>2 DEF BackoffEnds
<1>3. CASE LateArrival(r)
  BY <1>3 DEF LateArrival, CprHolds
<1>. QED  BY <1>1, <1>2, <1>3

\* Choosing rows changes no row.
LEMMA ChooseInv ==
  ASSUME QueueInv, NEW w \in Workers,
         (w \in Drains /\ SelectPage(w)) \/ TakeRow(w) \/ Finish(w)
  PROVE  QueueInv'
<1>. USE CprQueueAssumption
         DEF QueueInv, TypeOK, WorkersInv, AttemptsWithinTries, NotAbandoned,
             BusyWorker, Workers, EndStates, queueVars, cprVars, workerVars
<1>1. CASE w \in Drains /\ SelectPage(w)
  BY <1>1 DEF SelectPage, Goto, Drainable
<1>2. CASE TakeRow(w)
  BY <1>2 DEF TakeRow
<1>3. CASE Finish(w)
  BY <1>3 DEF Finish, Goto
<1>. QED  BY <1>1, <1>2, <1>3

\* Answers of CPR, and answers that do not come.
LEMMA AnswerInv ==
  ASSUME QueueInv, NEW w \in Workers,
         \/ Accepts(w) \/ Conflicts(w) \/ Refuses(w) \/ Busy(w) \/ NoAnswer(w)
  PROVE  QueueInv'
<1>. USE CprQueueAssumption
         DEF QueueInv, TypeOK, WorkersInv, AttemptsWithinTries, NotAbandoned,
             BusyWorker, Workers, EndStates, queueVars, cprVars, workerVars
<1>1. CASE Accepts(w)
  BY <1>1 DEF Accepts, CprHolds, Goto
<1>2. CASE Conflicts(w)
  BY <1>2 DEF Conflicts, CprHolds, Goto
<1>3. CASE Refuses(w)
  BY <1>3 DEF Refuses, Goto
<1>4. CASE Busy(w)
  BY <1>4 DEF Busy, Goto
<1>5. CASE NoAnswer(w)
  BY <1>5 DEF NoAnswer, Goto, Fault
<1>. QED  BY <1>1, <1>2, <1>3, <1>4, <1>5

\* Verdicts written to the queue, or lost.
LEMMA MarkInv ==
  ASSUME QueueInv, NEW w \in Workers,
         \/ MarkFinal(w) \/ ReadAttempts(w) \/ MarkRetry(w)
         \/ MarkFails(w) \/ WorkerDies(w)
  PROVE  QueueInv'
<1>. USE CprQueueAssumption
         DEF QueueInv, TypeOK, WorkersInv, AttemptsWithinTries, NotAbandoned,
             BusyWorker, Workers, EndStates, queueVars, cprVars, workerVars
<1>1. CASE MarkFinal(w)
  BY <1>1 DEF MarkFinal, LeavesRow, Goto
<1>2. CASE ReadAttempts(w)
  BY <1>2 DEF ReadAttempts, Goto, Fault
<1>3. CASE MarkRetry(w)
  BY <1>3 DEF MarkRetry, LeavesRow, Goto
<1>4. CASE MarkFails(w)
  <2>1. CASE /\ pc[w] \in {"sent", "permanent_fail"}
             /\ LeavesRow(w, pc[w]) /\ UNCHANGED tries
    BY <1>4, <2>1 DEF MarkFails, LeavesRow, Goto, Fault
  <2>2. CASE LeavesRow(w, "retrying") /\ tries' = [tries EXCEPT ![cur[w]] = @ + 1]
    <3>1. /\ cur[w] \in Receipts /\ pc[w] = "retrying"
          /\ UNCHANGED <<queueVars, configured, cprVars, page>>
          /\ faults' = faults + 1 /\ faults < MaxFaults
      BY <1>4, <2>2 DEF MarkFails, LeavesRow, Goto, Fault
    <3>2. TypeOK'
      BY <2>2, <3>1 DEF LeavesRow, Goto
    <3>3. \A r \in Receipts : tries[r] <= tries'[r]
      BY <2>2, <3>1
    <3>4. WorkersInv'
      BY <2>2, <3>1, <3>3 DEF LeavesRow, Goto
    <3>. QED  BY <3>1, <3>2, <3>3, <3>4
  <2>. QED  BY <1>4, <2>1, <2>2 DEF MarkFails
<1>5. CASE WorkerDies(w)
  BY <1>5 DEF WorkerDies, Fault
<1>. QED  BY <1>1, <1>2, <1>3, <1>4, <1>5

LEMMA QueueInvNext == QueueInv /\ [Next]_vars => QueueInv'
<1>. SUFFICES ASSUME QueueInv, [Next]_vars PROVE QueueInv'
  OBVIOUS
<1>1. CASE \E r \in Receipts : EnqueueReceipt(r) \/ BackoffEnds(r) \/ LateArrival(r)
  BY <1>1, QueueRowKeeps
<1>2. CASE \E d \in Drains : SelectPage(d)
  BY <1>2, ChooseInv DEF Workers
<1>3. CASE \E w \in Workers :
             WorkerStep(w) \/ NoAnswer(w) \/ MarkFails(w) \/ WorkerDies(w)
  BY <1>3, ChooseInv, AnswerInv, MarkInv DEF WorkerStep
<1>4. CASE Configure
  BY <1>4 DEF Configure, QueueInv, TypeOK, WorkersInv, AttemptsWithinTries, NotAbandoned,
              BusyWorker, Workers, EndStates, queueVars, cprVars, workerVars
<1>5. CASE UNCHANGED vars
  BY <1>5 DEF vars, QueueInv, TypeOK, WorkersInv, AttemptsWithinTries, NotAbandoned,
              BusyWorker, Workers, EndStates, queueVars, cprVars, workerVars
<1>. QED  BY <1>1, <1>2, <1>3, <1>4, <1>5 DEF Next

LEMMA QueueInvHolds == Spec => []QueueInv
  BY QueueInvInit, QueueInvNext, PTL DEF Spec

-----------------------------------------------------------------------------
\* Every row and every worker keeps its type.
THEOREM ReceiptsTyped == Spec => []TypeOK
  BY QueueInvHolds, PTL DEF QueueInv

\* markRetry may lose attempts but never invents one.
THEOREM AttemptsAreTries == Spec => []AttemptsWithinTries
  BY QueueInvHolds, PTL DEF QueueInv

\* A row leaves the queue as sent, failed or refused for a reason only.
THEOREM ReceiptsNotAbandoned == Spec => []NotAbandoned
  BY QueueInvHolds, PTL DEF QueueInv

-----------------------------------------------------------------------------
(* Payout addresses: one default of a provider.                            *)
(*                                                                         *)
(* A call that found itself alone finds no default when it writes its own, *)
(* and nobody else is between the same two statements (SetAlone); the rows  *)
(* of a provider go with it (GoneHasNoRows).                               *)

SetRec == [at : {"idle", "demoted", "done"}, of : Nodes \cup {Nil},
           key : Keys \cup {Nil}, network : Networks \cup {Nil}, alone : BOOLEAN]

\* A call between its two statements knows what it writes.
PendingSets ==
    \A c \in Sets : set[c].at = "demoted" =>
        set[c].of \in Nodes /\ set[c].key \in Keys /\ set[c].network \in Networks

\* As long as no other call comes in between, it finds no default when it writes
\* its own.
SetAlone ==
    \A c \in Sets : set[c].at = "demoted" /\ set[c].alone =>
        /\ Defaults(set[c].of) = {}
        /\ \A d \in Sets : set[d].at = "demoted" /\ set[d].of = set[c].of => d = c

\* The rows of a provider go with it.
GoneHasNoRows == \A p \in Nodes \ listed : Rows(p) = {}

PayoutInv == PayoutTypeOK /\ PendingSets /\ SetAlone /\ GoneHasNoRows /\ OneDefault

\* pickNetwork answers with a network of the list, or with none.
LEMMA PickType ==
    \A coin, asked : PickNetwork(coin, asked) \in Networks \cup {Nil}
<1>. TAKE coin, asked
<1>. DEFINE hit == {n \in {m \in DOMAIN PaymentCoins : PaymentCoins[m].code = coin} :
                      asked \in {Nil, PaymentCoins[n].network}}
<1>1. DOMAIN PaymentCoins = 1..3
  BY DEF PaymentCoins
<1>2. CASE hit # {}
  <2>1. \E n \in hit : \A m \in hit : n <= m
    <3>1. hit \subseteq 1..3
      BY <1>1
    <3>. HIDE DEF hit
    <3>2. CASE 1 \in hit
      BY <3>1, <3>2
    <3>3. CASE 1 \notin hit /\ 2 \in hit
      BY <3>1, <3>3
    <3>4. CASE 1 \notin hit /\ 2 \notin hit
      <4>1. PICK n \in hit : TRUE
        BY <1>2
      <4>2. n = 3 /\ \A m \in hit : m = 3
        BY <4>1, <3>1, <3>4
      <4>. QED  BY <4>2
    <3>. QED  BY <3>2, <3>3, <3>4
  <2>2. (CHOOSE n \in hit : \A m \in hit : n <= m) \in DOMAIN PaymentCoins
    BY <2>1
  <2>. QED  BY <1>2, <2>2 DEF PickNetwork, Networks
<1>. QED  BY <1>2 DEF PickNetwork

LEMMA PayoutInvInit == PayoutInit => PayoutInv
<1>. SUFFICES ASSUME PayoutInit PROVE PayoutInv
  OBVIOUS
<1>1. PayoutTypeOK
  BY PayoutsAssumption DEF PayoutInit, PayoutTypeOK, Sets
<1>2. \A p \in Nodes : Rows(p) = {}
  BY DEF PayoutInit, Rows
<1>3. PendingSets /\ SetAlone
  BY DEF PayoutInit, PendingSets, SetAlone
<1>. QED  BY <1>1, <1>2, <1>3 DEF PayoutInv, GoneHasNoRows, OneDefault

\* The first statement of a call.
LEMMA DemoteKeeps ==
    ASSUME PayoutInv, NEW c \in Sets, DemoteDefaults(c)
    PROVE  PayoutInv'
<1>1. PICK p \in listed, k \in Keys, asked \in Networks \cup {Nil} :
        /\ RunSet(k[1], asked)
        /\ payout' = [payout EXCEPT ![p] =
                         [q \in Keys |-> IF q \in Defaults(p)
                                         THEN [@[q] EXCEPT !.default = FALSE] ELSE @[q]]]
        /\ set' = [d \in Sets |->
                      IF d = c
                      THEN [at |-> "demoted", of |-> p, key |-> k,
                            network |-> PickNetwork(k[1], asked), alone |-> Under(p) = {}]
                      ELSE [set[d] EXCEPT !.alone = @ /\ d \notin Under(p)]]
  BY DEF DemoteDefaults
<1>2. /\ set[c].at = "idle"
      /\ UNCHANGED <<listed, spoilt, mishaps>>
  <2>1. c \in Int
    BY PayoutsAssumption DEF Sets
  <2>. QED BY <2>1 DEF DemoteDefaults
<1>. DEFINE w == PickNetwork(k[1], asked)
<1>3. w \in Networks /\ p \in Nodes
  BY <1>1, PickType DEF RunSet, PayoutInv, PayoutTypeOK
<1>. HIDE DEF w
<1>4. \A d \in Sets :
        set[d] \in SetRec
  BY DEF PayoutInv, PayoutTypeOK, SetRec
<1>5. /\ set'[c] = [at |-> "demoted", of |-> p, key |-> k, network |-> w,
                     alone |-> Under(p) = {}]
      /\ set'[c].alone <=> Under(p) = {}
  BY <1>1 DEF w
<1>6. \A d \in Sets \ {c} :
        /\ set'[d].at = set[d].at /\ set'[d].of = set[d].of /\ set'[d].key = set[d].key
        /\ set'[d].network = set[d].network
        /\ set'[d].alone = (set[d].alone /\ d \notin Under(p))
        /\ set'[d] \in SetRec
  <2>. SUFFICES ASSUME NEW d \in Sets \ {c} 
       PROVE  /\ set'[d].at = set[d].at /\ set'[d].of = set[d].of /\ set'[d].key = set[d].key
              /\ set'[d].network = set[d].network
              /\ set'[d].alone = (set[d].alone /\ d \notin Under(p))
              /\ set'[d] \in SetRec
    OBVIOUS
  <2>1. set'[d] = [set[d] EXCEPT !.alone = @ /\ d \notin Under(p)]
    BY <1>1
  <2>2. set[d] \in SetRec
    BY <1>4
  <2>. QED  BY <2>1, <2>2 DEF SetRec
<1>7. payout \in [Nodes -> [Keys -> Row \cup {Nil}]]
  BY DEF PayoutInv, PayoutTypeOK, SetRec
<1>8. \A q \in Nodes \ {p} : payout'[q] = payout[q]
  BY <1>1, <1>7
<1>9. \A q \in Keys :
        /\ q \in Defaults(p) => /\ payout'[p][q] = [payout[p][q] EXCEPT !.default = FALSE]
                                /\ payout[p][q] \in Row
        /\ q \notin Defaults(p) => payout'[p][q] = payout[p][q]
  BY <1>1, <1>3, <1>7 DEF Defaults, Rows
<1>10. \A q \in Keys : /\ payout'[p][q] \in Row \cup {Nil}
                       /\ payout'[p][q] # Nil => ~payout'[p][q].default
                       /\ payout[p][q] = Nil => payout'[p][q] = Nil
  <2>. SUFFICES ASSUME NEW q \in Keys
       PROVE  /\ payout'[p][q] \in Row \cup {Nil}
              /\ payout'[p][q] # Nil => ~payout'[p][q].default
              /\ payout[p][q] = Nil => payout'[p][q] = Nil
    OBVIOUS
  <2>1. CASE q \in Defaults(p)
    <3>1. /\ payout[p][q] \in Row /\ payout'[p][q] = [payout[p][q] EXCEPT !.default = FALSE]
      BY <2>1, <1>9
    <3>2. payout'[p][q] \in Row /\ ~payout'[p][q].default
      BY <3>1 DEF Row
    <3>. QED  BY <3>1, <3>2, <2>1 DEF Defaults, Rows
  <2>2. CASE q \notin Defaults(p)
    <3>1. payout'[p][q] = payout[p][q] /\ payout[p][q] \in Row \cup {Nil}
      BY <2>2, <1>9, <1>3, <1>7
    <3>. QED  BY <3>1, <2>2 DEF Defaults, Rows
  <2>. QED  BY <2>1, <2>2
<1>11. PayoutTypeOK'
  <2>1. payout' \in [Nodes -> [Keys -> Row \cup {Nil}]]
    <3>1. payout' = [q \in Nodes |-> payout'[q]] /\ payout'[p] = [q \in Keys |-> payout'[p][q]]
      BY <1>1, <1>3, <1>7
    <3>2. payout'[p] \in [Keys -> Row \cup {Nil}]
      BY <3>1, <1>10
    <3>3. \A q \in Nodes : payout'[q] \in [Keys -> Row \cup {Nil}]
      BY <3>2, <1>7, <1>8
    <3>. QED  BY <3>1, <3>3
  <2>2. set' \in [Sets -> SetRec]
    <3>1. set'[c] \in SetRec
      BY <1>3, <1>5 DEF SetRec
    <3>. QED  BY <3>1, <1>1, <1>6
  <2>. QED  BY <1>2, <2>1, <2>2 DEF PayoutTypeOK, PayoutInv, SetRec
<1>12. PendingSets'
  BY <1>3, <1>5, <1>6 DEF PendingSets, PayoutInv
<1>13. (Defaults(p))' = {}
  BY <1>10 DEF Defaults, Rows
<1>14. \A q \in Nodes \ {p} : /\ (Defaults(q))' = Defaults(q)
                              /\ (Rows(q))' = Rows(q)
                              /\ (Under(q))' = Under(q)
  BY <1>5, <1>6, <1>8, <1>2 DEF Defaults, Rows, Under
<1>15. SetAlone'
  <2>. SUFFICES ASSUME NEW d \in Sets, set'[d].at = "demoted", set'[d].alone
       PROVE  /\ Defaults(set[d].of)' = {}
              /\ \A e \in Sets : set'[e].at = "demoted" /\ set'[e].of = set'[d].of => e = d
    BY DEF SetAlone
  <2>1. CASE d = c
    <3>1. set'[d].of = p
      BY <2>1, <1>5
    <3>2. Under(p) = {}
      BY <2>1, <1>5
    <3>3. Defaults(set[d].of)' = {}
      BY <3>1, <1>13 DEF Defaults, Rows
    <3>. QED  BY <2>1, <3>1, <3>2, <3>3, <1>6 DEF Under
  <2>2. CASE d # c
    <3>1. set[d].at = "demoted" /\ set[d].alone /\ d \notin Under(p)
      BY <2>2, <1>6
    <3>0. PICK o \in Nodes \ {p} : o = set[d].of /\ set'[d].of = o
      BY <3>1, <2>2, <1>6 DEF Under, PayoutInv, PendingSets
    <3>3. /\ Defaults(o) = {}
          /\ \A e \in Sets : set[e].at = "demoted" /\ set[e].of = o => e = d
      BY <3>0, <3>1 DEF PayoutInv, SetAlone
    <3>4. Defaults(o)' = {}
      BY <1>14, <3>0, <3>3
    <3>. QED  BY <3>0, <3>3, <3>4, <1>5, <1>6
  <2>. QED  BY <2>1, <2>2
<1>16. GoneHasNoRows'
  BY <1>1, <1>2, <1>14 DEF GoneHasNoRows, PayoutInv
<1>17. OneDefault'
  <2>1. (Under(p))' # {}
    BY <1>5 DEF Under
  <2>. QED  BY <1>2, <1>14, <2>1 DEF OneDefault, PayoutInv
<1>. QED  BY <1>11, <1>12, <1>15, <1>16, <1>17 DEF PayoutInv

\* The second statement, that it fails, and that the provider goes.
LEMMA UpsertKeeps ==
    ASSUME PayoutInv, NEW c \in Sets, UpsertPayout(c)
    PROVE  PayoutInv'
<1>0. PICK p \in Nodes, key \in Keys, new \in Row :
        /\ p = set[c].of /\ key = set[c].key
        /\ new = [network |-> set[c].network, default |-> TRUE]
  BY DEF UpsertPayout, PayoutInv, PendingSets, Row
<1>1. /\ set[c].at = "demoted"
      /\ set' = [set EXCEPT ![c].at = "done"]
      /\ spoilt' = IF set[c].alone THEN spoilt \ {p} ELSE spoilt \cup {p}
      /\ payout' = IF p \in listed THEN [payout EXCEPT ![p][key] = new] ELSE payout
      /\ UNCHANGED <<listed, mishaps>>
  BY <1>0 DEF UpsertPayout
<1>2. /\ set \in [Sets -> SetRec] /\ payout \in [Nodes -> [Keys -> Row \cup {Nil}]]
      /\ spoilt \subseteq Nodes /\ listed \subseteq Nodes /\ mishaps \in 0..MaxMishaps
  BY DEF PayoutInv, PayoutTypeOK, SetRec
<1>3. /\ set'[c].at = "done" /\ set' \in [Sets -> SetRec]
      /\ \A d \in Sets \ {c} : set'[d] = set[d]
  BY <1>1, <1>2 DEF SetRec
<1>4. /\ p \in listed => /\ payout'[p] = [payout[p] EXCEPT ![key] = new]
                         /\ payout'[p][key] = new
                         /\ \A k \in Keys \ {key} : payout'[p][k] = payout[p][k]
      /\ p \notin listed => payout' = payout
      /\ \A q \in Nodes \ {p} : payout'[q] = payout[q]
  BY <1>1, <1>2
<1>5. payout' \in [Nodes -> [Keys -> Row \cup {Nil}]]
  <2>1. CASE p \in listed
    <3>1. payout'[p] \in [Keys -> Row \cup {Nil}]
      BY <2>1, <1>1, <1>2, <1>4
    <3>. QED  BY <2>1, <3>1, <1>1, <1>2
  <2>2. CASE p \notin listed
    BY <2>2, <1>2, <1>4
  <2>. QED  BY <2>1, <2>2
<1>6. PayoutTypeOK'
  BY <1>1, <1>2, <1>3, <1>5 DEF PayoutTypeOK, SetRec
<1>7. PendingSets'
  BY <1>3 DEF PendingSets, PayoutInv
<1>8. \A q \in Nodes \ {p} : /\ Defaults(q)' = Defaults(q)
                             /\ Rows(q)' = Rows(q)
                             /\ Under(q)' = Under(q)
  <2>. SUFFICES ASSUME NEW q \in Nodes \ {p}
       PROVE  Defaults(q)' = Defaults(q) /\ Rows(q)' = Rows(q) /\ Under(q)' = Under(q)
    OBVIOUS
  <2>1. Rows(q)' = Rows(q) /\ Defaults(q)' = Defaults(q)
    BY <1>4 DEF Rows, Defaults
  <2>2. Under(q)' = Under(q)
    BY <1>0, <1>3 DEF Under
  <2>. QED  BY <2>1, <2>2
<1>9. SetAlone'
  <2>. SUFFICES ASSUME NEW d \in Sets, set'[d].at = "demoted", set'[d].alone
       PROVE  /\ Defaults(set[d].of)' = {}
              /\ \A e \in Sets : set'[e].at = "demoted" /\ set'[e].of = set'[d].of => e = d
    BY DEF SetAlone
  <2>1. d # c /\ set'[d] = set[d]
    BY <1>3
  <2>3. PICK o \in Nodes : o = set[d].of
    BY <2>1 DEF PayoutInv, PendingSets
  <2>2. /\ Defaults(o) = {}
        /\ \A e \in Sets : set[e].at = "demoted" /\ set[e].of = o => e = d
    BY <2>1, <2>3 DEF PayoutInv, SetAlone
  <2>5. o # p
    BY <1>0, <1>1, <2>1, <2>2 DEF PayoutInv, PendingSets
  <2>4. Defaults(o)' = {}
    BY <2>2, <2>5, <1>8
  <2>. QED  BY <2>1, <2>2, <2>3, <2>4, <1>3
<1>10. GoneHasNoRows'
  <2>1. \A q \in Nodes \ {p} : q \notin listed => Rows(q)' = {}
    BY <1>8 DEF PayoutInv, GoneHasNoRows
  <2>2. p \notin listed => Rows(p)' = {}
    BY <1>1, <1>4 DEF PayoutInv, GoneHasNoRows, Rows
  <2>. QED  BY <1>1, <2>1, <2>2 DEF GoneHasNoRows
<1>11. OneDefault'
  <2>1. \A q \in Nodes \ {p} :
          Rows(q)' = {} \/ q \in spoilt' \/ Under(q)' # {} \/ Cardinality(Defaults(q)') = 1
    BY <1>1, <1>8 DEF PayoutInv, OneDefault
  <2>2. CASE ~set[c].alone
    BY <1>1, <2>1, <2>2 DEF OneDefault
  <2>3. CASE set[c].alone /\ p \notin listed
    <3>1. Rows(p)' = {}
      BY <2>3, <1>10, <1>1 DEF GoneHasNoRows
    <3>. QED  BY <2>1, <3>1 DEF OneDefault
  <2>4. CASE set[c].alone /\ p \in listed
    <3>1. \A k \in Keys : payout[p][k] # Nil => ~payout[p][k].default
      BY <1>0, <1>1, <2>4 DEF PayoutInv, SetAlone, Defaults, Rows
    <3>2. Defaults(p)' = {key}
      <4>1. payout'[p][key] # Nil /\ payout'[p][key].default
        BY <1>0, <1>1, <1>4, <2>4, PayoutsAssumption DEF Row
      <4>. QED  BY <4>1, <3>1, <1>1, <1>4, <2>4 DEF Defaults, Rows
    <3>3. Cardinality(Defaults(p)') = 1
      BY <3>2, FS_Singleton
    <3>. QED  BY <2>1, <3>3 DEF OneDefault
  <2>. QED  BY <2>2, <2>3, <2>4
<1>. QED  BY <1>6, <1>7, <1>9, <1>10, <1>11 DEF PayoutInv

LEMMA UpsertFailsKeeps ==
    ASSUME PayoutInv, NEW c \in Sets, UpsertFails(c)
    PROVE  PayoutInv'
<1>0. PICK p \in Nodes : p = set[c].of
  BY DEF UpsertFails, PayoutInv, PendingSets
<1>1. /\ set[c].at = "demoted"
      /\ set' = [set EXCEPT ![c].at = "done"]
      /\ spoilt' = spoilt \cup {p}
      /\ UNCHANGED <<listed, payout>> /\ mishaps' \in 0..MaxMishaps
  BY <1>0, PayoutsAssumption DEF UpsertFails, PayoutInv, PayoutTypeOK
<1>2. /\ set \in [Sets -> SetRec] /\ spoilt \subseteq Nodes
  BY DEF PayoutInv, PayoutTypeOK, SetRec
<1>3. /\ set'[c].at = "done" /\ set' \in [Sets -> SetRec]
      /\ \A d \in Sets \ {c} : set'[d] = set[d]
  BY <1>1, <1>2 DEF SetRec
<1>4. PayoutTypeOK'
  BY <1>1, <1>2, <1>3 DEF PayoutInv, PayoutTypeOK, SetRec
<1>5. \A q \in Nodes : Rows(q)' = Rows(q) /\ Defaults(q)' = Defaults(q)
  BY <1>1 DEF Rows, Defaults
<1>6. PendingSets'
  BY <1>3 DEF PendingSets, PayoutInv
<1>7. SetAlone'
  <2>. SUFFICES ASSUME NEW d \in Sets, set'[d].at = "demoted", set'[d].alone
       PROVE  /\ Defaults(set[d].of)' = {}
              /\ \A e \in Sets : set'[e].at = "demoted" /\ set'[e].of = set'[d].of => e = d
    BY DEF SetAlone
  <2>1. d # c /\ set'[d] = set[d]
    BY <1>3
  <2>0. PICK o \in Nodes : o = set[d].of
    BY <2>1 DEF PayoutInv, PendingSets
  <2>2. /\ Defaults(o) = {}
        /\ \A e \in Sets : set[e].at = "demoted" /\ set[e].of = o => e = d
    BY <2>0, <2>1 DEF PayoutInv, SetAlone
  <2>3. Defaults(o)' = {}
    BY <2>2, <1>5
  <2>. QED  BY <2>0, <2>1, <2>2, <2>3, <1>3
<1>8. GoneHasNoRows'
  BY <1>1, <1>5 DEF PayoutInv, GoneHasNoRows
<1>9. \A q \in Nodes \ {p} : Under(q)' = Under(q)
  BY <1>0, <1>3 DEF Under
<1>10. OneDefault'
  BY <1>1, <1>5, <1>9 DEF PayoutInv, OneDefault
<1>. QED  BY <1>4, <1>6, <1>7, <1>8, <1>10 DEF PayoutInv

LEMMA NodeLeavesKeeps ==
    ASSUME PayoutInv, NEW p \in Nodes, NodeLeaves(p)
    PROVE  PayoutInv'
<1>1. /\ payout' = [payout EXCEPT ![p] = [k \in Keys |-> Nil]]
      /\ listed' = listed \ {p} /\ UNCHANGED <<set, spoilt, mishaps>>
      /\ payout \in [Nodes -> [Keys -> Row \cup {Nil}]]
  BY DEF NodeLeaves, PayoutInv, PayoutTypeOK
<1>2. PayoutTypeOK'
  BY <1>1 DEF PayoutInv, PayoutTypeOK
<1>3. /\ Rows(p)' = {} /\ Defaults(p)' = {}
      /\ \A q \in Nodes \ {p} : Rows(q)' = Rows(q) /\ Defaults(q)' = Defaults(q)
  BY <1>1 DEF Rows, Defaults
<1>4. PendingSets' /\ \A q \in Nodes : Under(q)' = Under(q)
  BY <1>1 DEF PayoutInv, PendingSets, Under
<1>5. SetAlone'
  <2>. SUFFICES ASSUME NEW d \in Sets, set[d].at = "demoted", set[d].alone
       PROVE  /\ Defaults(set[d].of)' = {}
              /\ \A e \in Sets : set[e].at = "demoted" /\ set[e].of = set[d].of => e = d
    BY <1>1 DEF SetAlone
  <2>0. PICK o \in Nodes : o = set[d].of
    BY DEF PayoutInv, PendingSets
  <2>1. /\ Defaults(o) = {}
        /\ \A e \in Sets : set[e].at = "demoted" /\ set[e].of = o => e = d
    BY <2>0 DEF PayoutInv, SetAlone
  <2>2. Defaults(o)' = {}
    BY <2>1, <1>3
  <2>. QED  BY <2>0, <2>1, <2>2, <1>1
<1>6. GoneHasNoRows'
  BY <1>1, <1>3 DEF PayoutInv, GoneHasNoRows
<1>7. OneDefault'
  BY <1>1, <1>3, <1>4 DEF PayoutInv, OneDefault
<1>. QED  BY <1>2, <1>4, <1>5, <1>6, <1>7 DEF PayoutInv

LEMMA PayoutInvNext == PayoutInv /\ [PayoutNext]_payoutVars => PayoutInv'
<1>. SUFFICES ASSUME PayoutInv, [PayoutNext]_payoutVars PROVE PayoutInv'
  OBVIOUS
<1>1. CASE PayoutNext
  BY <1>1, DemoteKeeps, UpsertKeeps, UpsertFailsKeeps, NodeLeavesKeeps DEF PayoutNext
<1>2. CASE UNCHANGED payoutVars
  <2>1. PayoutTypeOK'
    BY <1>2 DEF payoutVars, PayoutInv, PayoutTypeOK
  <2>. QED  BY <1>2, <2>1 DEF payoutVars, PayoutInv, PendingSets, SetAlone, GoneHasNoRows,
               OneDefault, Rows, Defaults, Under
<1>. QED  BY <1>1, <1>2

LEMMA PayoutInvHolds == PayoutSpec => []PayoutInv
BY PayoutInvInit, PayoutInvNext, PTL DEF PayoutSpec

\* Payouts and the calls that change them keep their types.
THEOREM PayoutsTyped == PayoutSpec => []PayoutTypeOK
<1>1. PayoutInv => PayoutTypeOK
  BY DEF PayoutInv
<1>. QED  BY PayoutInvHolds, <1>1, PTL

\* Whatever calls are made and fail, a provider with payout rows has one default,
\* but while a call is between its statements or after some that overlapped.
THEOREM ProviderHasOneDefault == PayoutSpec => []OneDefault
<1>1. PayoutInv => OneDefault
  BY DEF PayoutInv
<1>. QED  BY PayoutInvHolds, <1>1, PTL

-----------------------------------------------------------------------------
(* Peers: the list that was saved last is the one that is there.           *)

\* What is about to be renamed is whole; a list that was fetched says so.
BootKnows ==
    /\ boot.at = "renaming" => tmpFile = Whole(boot.peers)
    /\ boot.at = "asking" => boot.source = "empty"
    /\ boot.at \in {"writing", "renaming"} => boot.source = "fetch"

PeersInv == PeersTypeOK /\ BootKnows /\ HeardIsKept

LEMMA PeersInvInit == PeersInit => PeersInv
BY PeersAssumption DEF PeersInit, PeersInv, PeersTypeOK, BootKnows, HeardIsKept, Off, NoFile,
                       File, Lists

\* The process asks: nothing is written.
LEMMA AskKeeps ==
    ASSUME PeersInv, BootstrapPeers \/ FetchPeers \/ LoadCachedPeers
    PROVE  PeersInv'
<1>. USE PeersAssumption DEF PeersInv, PeersTypeOK, BootKnows, HeardIsKept
<1>1. CASE BootstrapPeers
  <2>1. boot' = [at |-> "asking", seed |-> 1, peers |-> {}, source |-> "empty"]
    BY <1>1 DEF BootstrapPeers, Off
  <2>2. boot' \in [at : {"off", "asking", "writing", "renaming", "over"},
                   seed : 0..Seeds + 1, peers : Lists, source : {"fetch", "cache", "empty"}]
    <3>1. 1 \in 0..Seeds + 1 /\ {} \in Lists
      BY DEF Lists
    <3>. QED  BY <2>1, <3>1
  <2>3. UNCHANGED <<heard, peersFile, tmpFile, kept, crashes>>
    BY <1>1 DEF BootstrapPeers
  <2>4. BootKnows' /\ HeardIsKept'
    BY <2>1, <2>3
  <2>5. PeersTypeOK'
    BY <2>2, <2>3
  <2>. QED  BY <2>4, <2>5
<1>2. CASE FetchPeers
  <2>1. CASE \E S \in ListOnlinePeers :
            boot' = [boot EXCEPT !.at = "writing", !.peers = S, !.source = "fetch"]
    <3>1. PICK S \in Lists :
            boot' = [at |-> "writing", seed |-> boot.seed, peers |-> S, source |-> "fetch"]
      BY <2>1 DEF ListOnlinePeers, Live, Lists
    <3>. QED  BY <1>2, <3>1 DEF FetchPeers
  <2>2. CASE boot' = [boot EXCEPT !.seed = @ + 1]
    <3>1. /\ boot' = [at |-> boot.at, seed |-> boot.seed + 1, peers |-> boot.peers,
                      source |-> boot.source]
          /\ boot.seed + 1 \in 0..Seeds + 1
      BY <1>2, <2>2 DEF FetchPeers
    <3>. QED  BY <1>2, <3>1 DEF FetchPeers
  <2>. QED  BY <1>2, <2>1, <2>2 DEF FetchPeers
<1>3. CASE LoadCachedPeers
  <2>1. CASE peersFile.peers = {}
    <3>1. boot' = [at |-> "over", seed |-> boot.seed, peers |-> boot.peers,
                   source |-> boot.source]
      BY <1>3, <2>1 DEF LoadCachedPeers
    <3>. QED  BY <1>3, <2>1, <3>1 DEF LoadCachedPeers
  <2>2. CASE peersFile.peers # {}
    <3>1. /\ boot' = [at |-> "over", seed |-> boot.seed, peers |-> peersFile.peers,
                      source |-> "cache"]
          /\ peersFile.peers \in Lists
      BY <1>3, <2>2 DEF LoadCachedPeers, File
    <3>. QED  BY <1>3, <3>1 DEF LoadCachedPeers
  <2>. QED  BY <2>1, <2>2
<1>. QED  BY <1>1, <1>2, <1>3

\* It writes, renames, or dies before one of them.
LEMMA SaveKeeps ==
    ASSUME PeersInv, WriteTmp \/ RenameTmp \/ BootCrashes
    PROVE  PeersInv'
<1>. USE PeersAssumption DEF PeersInv, PeersTypeOK, BootKnows, HeardIsKept
<1>0. /\ Torn \in File
      /\ Whole(boot.peers) \in File
  BY DEF Torn, Whole, File, Lists
<1>1. CASE WriteTmp
  <2>1. \E a \in {"renaming", "over"} :
          boot' = [at |-> a, seed |-> boot.seed, peers |-> boot.peers, source |-> boot.source]
    BY <1>1 DEF WriteTmp
  <2>. QED  BY <1>0, <1>1, <2>1 DEF WriteTmp
<1>2. CASE RenameTmp
  <2>1. boot' = [at |-> "over", seed |-> boot.seed, peers |-> boot.peers,
                 source |-> boot.source]
    BY <1>2 DEF RenameTmp
  <2>2. NoFile \in File
    BY DEF NoFile, File, Lists
  <2>. QED  BY <1>0, <1>2, <2>1, <2>2 DEF RenameTmp
<1>3. CASE BootCrashes
  <2>1. /\ boot' = Off /\ tmpFile' \in {tmpFile, Torn} /\ crashes' \in 0..MaxCrashes
        /\ UNCHANGED <<heard, peersFile, kept>>
    BY <1>3 DEF BootCrashes
  <2>. QED  BY <1>0, <2>1 DEF Off, Lists
<1>. QED  BY <1>1, <1>2, <1>3

LEMMA PeersInvNext == PeersInv /\ [PeersNext]_peersVars => PeersInv'
<1>. SUFFICES ASSUME PeersInv, [PeersNext]_peersVars PROVE PeersInv'
  OBVIOUS
<1>1. CASE \E p \in Providers : Heard(p)
  BY <1>1 DEF Heard, PeersInv, PeersTypeOK, BootKnows, HeardIsKept
<1>2. CASE UNCHANGED peersVars
  BY <1>2 DEF peersVars, PeersInv, PeersTypeOK, BootKnows, HeardIsKept
<1>. QED  BY <1>1, <1>2, AskKeeps, SaveKeeps DEF PeersNext

LEMMA PeersInvHolds == PeersSpec => []PeersInv
BY PeersInvInit, PeersInvNext, PTL DEF PeersSpec

\* The files and the process that bootstraps keep their types.
THEOREM PeersTyped == PeersSpec => []PeersTypeOK
<1>1. PeersInv => PeersTypeOK
  BY DEF PeersInv
<1>. QED  BY PeersInvHolds, <1>1, PTL

\* peers.json is the last list saved, whole, whoever died while writing it; and a
\* bootstrap that found nothing had nothing to find.
THEOREM HeardPeersAreKept == PeersSpec => []HeardIsKept
<1>1. PeersInv => HeardIsKept
  BY DEF PeersInv
<1>. QED  BY PeersInvHolds, <1>1, PTL

-----------------------------------------------------------------------------
(* The database models: what a row keeps while methods come between each   *)
(* other's statements.                                                     *)

HoldsJob == {"find", "findAggregator", "assign", "assignAggregator", "run", "runFirst"}

\* A call that holds a job holds one that was made; one that is to set it
\* running without a date chose so on a job that had one, and no later statement
\* of anyone takes the date away or makes the job again.
FaithfulCall(m, used, cells) ==
    /\ m.op \in HoldsJob => m.job \in JobIds /\ m.job \in used
    /\ m.op = "run" => cells[m.job] = No \/ cells[m.job].assignedAt

CallsAreFaithful == \A c \in Callers : FaithfulCall(calling[c], everUsed, jobRow)

\* An id is never made twice.
RowsWereMade == \A t \in Tables : \A i \in Ids : table[t][i] # No => i \in everUsed

DbmInv == DbmTypeOK /\ RunningIsDated /\ CallsAreFaithful /\ RowsWereMade

\* What each step does to the tables, the jobs and the calls.
TablesKept ==
    /\ table' \in [Tables -> [Ids -> AnyRow \cup {No}]]
    /\ everUsed' \subseteq Ids \cup JobIds
    /\ everUsed \subseteq everUsed'
    /\ RowsWereMade'
    /\ \A t \in Tables : \A i \in Present(t) :
         table'[t][i] # No => table'[t][i].node = table[t][i].node

JobsKept ==
    /\ jobRow' \in [JobIds -> AnyJob \cup {No}]
    /\ RunningIsDated'
    /\ \A j \in JobIds \cap everUsed : jobRow'[j] # No =>
         jobRow[j] # No /\ (jobRow[j].assignedAt => jobRow'[j].assignedAt)

CallsKept ==
    /\ calling' \in [Callers -> AnyCall]
    /\ \A c \in Callers : \/ calling'[c] = calling[c]
                          \/ FaithfulCall(calling'[c], everUsed', jobRow')

LEMMA DbmInvInit == DbmInit => DbmInv
<1>. SUFFICES ASSUME DbmInit PROVE DbmInv
  OBVIOUS
<1>1. Resting \in AnyCall /\ Resting.op = "none"
  BY DEF Resting, AnyCall, Tables
<1>2. DbmTypeOK
  BY <1>1 DEF DbmInit, DbmTypeOK
<1>3. RunningIsDated /\ RowsWereMade
  BY DEF DbmInit, RunningIsDated, RowsWereMade
<1>4. CallsAreFaithful
  BY <1>1 DEF DbmInit, CallsAreFaithful, FaithfulCall, HoldsJob
<1>. QED  BY <1>2, <1>3, <1>4 DEF DbmInv

LEMMA DbmFacts ==
    ASSUME DbmInv
    PROVE  /\ table \in [Tables -> [Ids -> AnyRow \cup {No}]]
           /\ everUsed \subseteq Ids \cup JobIds
           /\ jobRow \in [JobIds -> AnyJob \cup {No}]
           /\ calling \in [Callers -> AnyCall]
BY DEF DbmInv, DbmTypeOK

LEMMA DbmCombines ==
    ASSUME DbmInv, TablesKept, JobsKept, CallsKept, connected' \subseteq Callers
    PROVE  TablesKept /\ DbmInv'
<1>1. DbmTypeOK'
  BY DEF TablesKept, JobsKept, CallsKept, DbmTypeOK
<1>2. RunningIsDated' /\ RowsWereMade'
  BY DEF TablesKept, JobsKept
<1>3. CallsAreFaithful'
  <2>. SUFFICES ASSUME NEW c \in Callers PROVE FaithfulCall(calling[c], everUsed, jobRow)'
    BY DEF CallsAreFaithful
  <2>1. CASE FaithfulCall(calling'[c], everUsed', jobRow')
    BY <2>1
  <2>2. CASE calling'[c] = calling[c]
    <3>1. FaithfulCall(calling[c], everUsed, jobRow)
      BY DEF DbmInv, CallsAreFaithful
    <3>2. everUsed \subseteq everUsed'
      BY DEF TablesKept
    <3>3. FaithfulCall(calling[c], everUsed', jobRow')
      BY <3>1, <3>2 DEF FaithfulCall, HoldsJob, JobsKept
    <3>. QED  BY <2>2, <3>3
  <2>. QED  BY <2>1, <2>2 DEF CallsKept
<1>. QED  BY <1>1, <1>2, <1>3 DEF DbmInv

\* Steps that leave a part alone.
LEMMA TablesRest == ASSUME DbmInv, UNCHANGED <<table, everUsed>> PROVE TablesKept
BY DbmFacts DEF DbmInv, TablesKept, RowsWereMade, Present

LEMMA JobsRest == ASSUME DbmInv, UNCHANGED jobRow PROVE JobsKept
BY DbmFacts DEF DbmInv, JobsKept, RunningIsDated

LEMMA CallsRest == ASSUME DbmInv, UNCHANGED calling PROVE CallsKept
BY DbmFacts DEF CallsKept

LEMMA OneCall ==
    ASSUME DbmInv, NEW c \in Callers, NEW m \in AnyCall, calling' = [calling EXCEPT ![c] = m],
           FaithfulCall(m, everUsed', jobRow')
    PROVE  CallsKept
BY DbmFacts DEF CallsKept

LEMMA CallEnds == ASSUME DbmInv, NEW c \in Callers, Returns(c) PROVE CallsKept
<1>1. Resting \in AnyCall /\ Resting.op = "none"
  BY DEF Resting, AnyCall, Tables
<1>2. FaithfulCall(Resting, everUsed', jobRow')
  BY <1>1 DEF FaithfulCall, HoldsJob
<1>. QED  BY <1>1, <1>2, OneCall DEF Returns

Ops == {"none", "update", "updateById", "insert", "delete", "deleteJob", "find",
        "findAggregator", "assign", "assignAggregator", "mark", "markLoad", "run", "runFirst"}

LEMMA CallGoes ==
    ASSUME DbmInv, NEW c \in Callers, NEW op \in Ops, NEW t \in Tables,
           NEW k \in NodeNames \cup Ids \cup {No}, NEW j \in JobIds \cup {No}, Goes(c, op, t, k, j),
           op \in HoldsJob => j \in JobIds /\ j \in everUsed',
           op = "run" => jobRow'[j] = No \/ jobRow'[j].assignedAt
    PROVE  CallsKept
<1>1. PICK m \in AnyCall : m = [op |-> op, on |-> t, key |-> k, job |-> j]
  BY DEF AnyCall, Ops
<1>2. FaithfulCall(m, everUsed', jobRow')
  BY <1>1 DEF FaithfulCall, HoldsJob
<1>. QED  BY <1>1, <1>2, OneCall DEF Goes

LEMMA CallGoesAlone ==
    ASSUME DbmInv, NEW c \in Callers, NEW op \in Ops \ HoldsJob, NEW t \in Tables,
           NEW k \in NodeNames \cup Ids \cup {No}, NEW j \in JobIds \cup {No}, Goes(c, op, t, k, j)
    PROVE  CallsKept
<1>1. op \in Ops /\ op \notin HoldsJob /\ op # "run"
  BY DEF HoldsJob
<1>. QED  BY <1>1, CallGoes

\* Rows are written where they are.
LEMMA WrittenKeeps ==
    ASSUME DbmInv, NEW t \in Tables, NEW hit \in SUBSET Present(t), NEW s \in Status,
           Written(t, hit, s), UNCHANGED everUsed
    PROVE  TablesKept
<1>1. \A i \in hit : i \in Ids /\ table[t][i] # No /\ table[t][i] \in AnyRow
  BY DbmFacts DEF Present
<1>2. table' = [table EXCEPT ![t] =
                  [i \in Ids |-> IF i \in hit THEN [table[t][i] EXCEPT !.status = s]
                                 ELSE table[t][i]]]
  <2>1. table[t] \in [Ids -> AnyRow \cup {No}]
    BY DbmFacts
  <2>. QED  BY <2>1, DbmFacts DEF Written
<1>3. /\ \A u \in Tables \ {t} : table'[u] = table[u]
      /\ \A i \in Ids \ hit : table'[t][i] = table[t][i]
      /\ \A i \in hit : table'[t][i] = [table[t][i] EXCEPT !.status = s]
      /\ DOMAIN table' = Tables /\ DOMAIN table'[t] = Ids
      /\ table' = [u \in Tables |-> table'[u]] /\ table'[t] = [i \in Ids |-> table'[t][i]]
  BY <1>1, <1>2, DbmFacts
<1>4. ASSUME NEW row \in AnyRow
      PROVE  /\ [row EXCEPT !.status = s] \in AnyRow
             /\ [row EXCEPT !.status = s].node = row.node
  BY DEF AnyRow
<1>5. \A i \in hit : table'[t][i] \in AnyRow /\ table'[t][i].node = table[t][i].node
  <2>. SUFFICES ASSUME NEW i \in hit
       PROVE  table'[t][i] \in AnyRow /\ table'[t][i].node = table[t][i].node
    OBVIOUS
  <2>1. PICK row \in AnyRow : row = table[t][i]
    BY <1>1
  <2>2. table'[t][i] = [row EXCEPT !.status = s]
    BY <1>3, <2>1
  <2>. QED  BY <1>4, <2>1, <2>2
<1>6. \A i \in Ids : table'[t][i] \in AnyRow \cup {No}
  <2>1. \A i \in Ids : table[t][i] \in AnyRow \cup {No}
    BY DbmFacts
  <2>2. \A i \in Ids \ hit : table'[t][i] \in AnyRow \cup {No}
    BY <1>3, <2>1
  <2>. QED  BY <1>5, <2>2
<1>7. table' \in [Tables -> [Ids -> AnyRow \cup {No}]]
  <2>1. table'[t] \in [Ids -> AnyRow \cup {No}]
    BY <1>3, <1>6
  <2>2. \A u \in Tables \ {t} : table'[u] \in [Ids -> AnyRow \cup {No}]
    BY <1>3, DbmFacts
  <2>. QED  BY <1>3, <2>1, <2>2
<1>8. RowsWereMade'
  <2>1. \A i \in hit : i \in everUsed
    BY <1>1 DEF DbmInv, RowsWereMade
  <2>. QED  BY <1>3, <2>1 DEF DbmInv, RowsWereMade
<1>9. \A u \in Tables : \A i \in Present(u) :
         table'[u][i] # No => table'[u][i].node = table[u][i].node
  BY <1>3, <1>5 DEF Present
<1>. QED  BY <1>7, <1>8, <1>9, DbmFacts DEF TablesKept

LEMMA WithNodePresent == \A t, k : WithNode(t, k) \in SUBSET Present(t)
BY DEF WithNode

-----------------------------------------------------------------------------
(* register, update and delete of nodes. *)

LEMMA NamesAreKeys == Named \subseteq NodeNames \cup Ids
BY DEF Named

LEMMA RegisterKeeps ==
    ASSUME DbmInv, NEW c \in Callers, NEW t \in Tables, Register(c, t)
    PROVE  TablesKept /\ DbmInv'
<1>1. UNCHANGED <<table, everUsed, connected, jobRow>>
  BY DEF Register, KeepsTables, Keeps
<1>2. CallsKept
  <2>1. PICK k \in Named \cup {No}, r \in (Ids \cap everUsed) \cup {No} :
          \/ Returns(c)
          \/ Goes(c, "update", t, k, No) \/ Goes(c, "insert", t, k, No)
          \/ (r \in Ids /\ Goes(c, "updateById", t, r, No)) \/ Goes(c, "insert", t, No, No)
    BY DEF Register, Throws, Present
  <2>2. k \in NodeNames \cup Ids \cup {No} /\ r \in NodeNames \cup Ids \cup {No}
    BY NamesAreKeys
  <2>3. {"update", "insert", "updateById"} \subseteq Ops \ HoldsJob
    BY DEF Ops, HoldsJob
  <2>. QED  BY <2>1, <2>2, <2>3, CallEnds, CallGoesAlone
<1>. QED  BY <1>1, <1>2, TablesRest, JobsRest, DbmCombines DEF DbmInv, DbmTypeOK

LEMMA UpdateKeeps ==
    ASSUME DbmInv, NEW c \in Callers, NEW t \in Tables, UpdateFound(c, t) \/ UpdateById(c, t)
    PROVE  TablesKept /\ DbmInv'
<1>1. UNCHANGED <<connected, jobRow>> /\ CallsKept
  BY CallEnds DEF UpdateFound, UpdateById, Keeps, Throws
<1>2. TablesKept
  <2>1. PICK hit \in SUBSET Present(t) :
          \/ UNCHANGED <<table, everUsed>>
          \/ Written(t, hit, "available") /\ UNCHANGED everUsed
    <3>1. WithNode(t, calling[c].key) \in SUBSET Present(t)
      BY WithNodePresent
    <3>. QED  BY <3>1 DEF UpdateFound, UpdateById, KeepsTables
  <2>. QED  BY <2>1, TablesRest, WrittenKeeps DEF Status
<1>. QED  BY <1>1, <1>2, JobsRest, DbmCombines DEF DbmInv, DbmTypeOK

LEMMA InsertKeeps ==
    ASSUME DbmInv, NEW c \in Callers, NEW t \in Tables, InsertRow(c, t)
    PROVE  TablesKept /\ DbmInv'
<1>1. UNCHANGED <<connected, jobRow>> /\ CallsKept
  BY CallEnds DEF InsertRow, Keeps, Throws
<1>2. TablesKept
  <2>. DEFINE k == calling[c].key
  <2>1. CASE UNCHANGED <<table, everUsed>>
    BY <2>1, TablesRest
  <2>2. CASE \E i \in Ids \ everUsed : /\ table' = [table EXCEPT ![t][i] = Fresh(k)]
                                       /\ everUsed' = everUsed \cup {i}
    <3>1. PICK i \in Ids : /\ i \notin everUsed
                          /\ table' = [table EXCEPT ![t][i] = Fresh(k)]
                          /\ everUsed' = everUsed \cup {i}
      BY <2>2
    <3>2. Fresh(k) \in AnyRow
      BY DbmFacts DEF Fresh, AnyRow, AnyCall, Status
    <3>3. /\ table' \in [Tables -> [Ids -> AnyRow \cup {No}]]
          /\ \A u \in Tables, x \in Ids : u # t \/ x # i => table'[u][x] = table[u][x]
      BY <3>1, <3>2, DbmFacts
    <3>4. i \notin Present(t)
      BY <3>1 DEF DbmInv, RowsWereMade, Present
    <3>5. RowsWereMade'
      BY <3>1, <3>3 DEF DbmInv, RowsWereMade
    <3>. QED  BY <3>1, <3>3, <3>4, <3>5, DbmFacts DEF TablesKept, Present
  <2>. QED  BY <2>1, <2>2 DEF InsertRow, KeepsTables
<1>. QED  BY <1>1, <1>2, JobsRest, DbmCombines DEF DbmInv, DbmTypeOK

LEMMA PatchKeeps ==
    ASSUME DbmInv, NEW c \in Callers, NEW t \in Tables, Patch(c, t)
    PROVE  TablesKept /\ DbmInv'
<1>1. UNCHANGED <<connected, jobRow>> /\ CallsKept
  BY CallEnds DEF Patch, Keeps, Throws
<1>2. TablesKept
  <2>1. PICK k \in Named, s \in Status :
          \/ UNCHANGED <<table, everUsed>>
          \/ Written(t, WithNode(t, k), s) /\ UNCHANGED everUsed
    BY DEF Patch, KeepsTables
  <2>. QED  BY <2>1, TablesRest, WrittenKeeps, WithNodePresent
<1>. QED  BY <1>1, <1>2, JobsRest, DbmCombines DEF DbmInv, DbmTypeOK

LEMMA FindToDeleteKeeps ==
    ASSUME DbmInv, NEW c \in Callers, NEW t \in Tables, FindToDelete(c, t)
    PROVE  TablesKept /\ DbmInv'
<1>1. UNCHANGED <<table, everUsed, connected, jobRow>>
  BY DEF FindToDelete, KeepsTables, Keeps
<1>2. CallsKept
  <2>1. PICK k \in Named : \/ Returns(c)
                          \/ \E i \in FindByNodeId(t, k) : Goes(c, "delete", t, i, No)
    BY DEF FindToDelete, Throws
  <2>2. FindByNodeId(t, k) \subseteq Ids
    BY DEF FindByNodeId, WithNode, Present
  <2>3. "delete" \in Ops \ HoldsJob
    BY DEF Ops, HoldsJob
  <2>. QED  BY <2>1, <2>2, <2>3, CallEnds, CallGoesAlone
<1>. QED  BY <1>1, <1>2, TablesRest, JobsRest, DbmCombines DEF DbmInv, DbmTypeOK

LEMMA DeleteFoundKeeps ==
    ASSUME DbmInv, NEW c \in Callers, NEW t \in Tables, DeleteFound(c, t)
    PROVE  TablesKept /\ DbmInv'
<1>. DEFINE i == calling[c].key
            Without(ref) == IF ref = i THEN No ELSE ref
<1>1. /\ table' = [table EXCEPT ![t][i] = No]
      /\ jobRow' = [j \in JobIds |-> IF jobRow[j] = No THEN No
                      ELSE [jobRow[j] EXCEPT !.provider = Without(@), !.aggregator = Without(@)]]
      /\ UNCHANGED <<connected, everUsed>> /\ CallsKept
  BY CallEnds DEF DeleteFound, Keeps
<1>2. TablesKept
  <2>1. /\ table' \in [Tables -> [Ids -> AnyRow \cup {No}]]
        /\ \A u \in Tables, x \in Ids : table'[u][x] = table[u][x] \/ table'[u][x] = No
    BY <1>1, DbmFacts
  <2>2. RowsWereMade'
    BY <1>1, <2>1 DEF DbmInv, RowsWereMade
  <2>. QED  BY <1>1, <2>1, <2>2, DbmFacts DEF TablesKept, Present
<1>3. JobsKept
  <2>1. ASSUME NEW row \in AnyJob, NEW new,
               new = [row EXCEPT !.provider = Without(@), !.aggregator = Without(@)]
        PROVE  /\ new \in AnyJob /\ new.status = row.status
               /\ new.assignedAt = row.assignedAt
    BY <2>1 DEF AnyJob
  <2>2. ASSUME NEW j \in JobIds
        PROVE  \/ jobRow'[j] = No /\ jobRow[j] = No
               \/ /\ jobRow[j] # No /\ jobRow'[j] \in AnyJob
                  /\ jobRow'[j].status = jobRow[j].status
                  /\ jobRow'[j].assignedAt = jobRow[j].assignedAt
    <3>1. CASE jobRow[j] = No
      BY <1>1, <3>1
    <3>2. CASE jobRow[j] # No
      <4>1. PICK row \in AnyJob : row = jobRow[j]
        BY <3>2, DbmFacts
      <4>2. jobRow'[j] = [row EXCEPT !.provider = Without(@), !.aggregator = Without(@)]
        BY <1>1, <3>2, <4>1
      <4>. QED  BY <2>1, <3>2, <4>1, <4>2
    <3>. QED  BY <3>1, <3>2
  <2>3. jobRow' \in [JobIds -> AnyJob \cup {No}]
    <3>1. jobRow' = [j \in JobIds |-> jobRow'[j]]
      BY <1>1
    <3>. QED  BY <2>2, <3>1
  <2>4. RunningIsDated'
    BY <2>2 DEF DbmInv, RunningIsDated
  <2>. QED  BY <2>2, <2>3, <2>4 DEF JobsKept
<1>. QED  BY <1>1, <1>2, <1>3, DbmCombines DEF DbmInv, DbmTypeOK

-----------------------------------------------------------------------------
(* Jobs. *)

Dated(row) ==
    row.status \in {"assigned", "assigned_to_aggregator", "running"} => row.assignedAt

LEMMA OneJob ==
    ASSUME DbmInv, NEW j \in JobIds, jobRow[j] # No, NEW new \in AnyJob,
           Dated(new), jobRow[j].assignedAt => new.assignedAt,
           jobRow' = [jobRow EXCEPT ![j] = new]
    PROVE  JobsKept
<1>1. /\ jobRow' \in [JobIds -> AnyJob \cup {No}] /\ jobRow'[j] = new
      /\ \A k \in JobIds \ {j} : jobRow'[k] = jobRow[k]
  BY DbmFacts
<1>2. RunningIsDated'
  BY <1>1 DEF DbmInv, RunningIsDated, Dated
<1>. QED  BY <1>1, <1>2 DEF JobsKept

LEMMA JobGoes ==
    ASSUME DbmInv, NEW j \in JobIds, jobRow' = [jobRow EXCEPT ![j] = No]
    PROVE  JobsKept
<1>1. /\ jobRow' \in [JobIds -> AnyJob \cup {No}] /\ jobRow'[j] = No
      /\ \A k \in JobIds \ {j} : jobRow'[k] = jobRow[k]
  BY DbmFacts
<1>2. RunningIsDated'
  BY <1>1 DEF DbmInv, RunningIsDated
<1>. QED  BY <1>1, <1>2 DEF JobsKept

\* What an update that ends a job writes.
LEMMA JobEnds ==
    ASSUME NEW row \in AnyJob, NEW s \in {"completed", "failed"}, NEW new,
           \/ new = [row EXCEPT !.status = s, !.completedAt = TRUE]
           \/ new = [row EXCEPT !.status = s, !.result = TRUE, !.completedAt = TRUE]
           \/ new = [row EXCEPT !.status = s, !.error = TRUE, !.completedAt = TRUE]
    PROVE  new \in AnyJob /\ new.status = s /\ new.assignedAt = row.assignedAt
BY DEF AnyJob

LEMMA ResultKeeps ==
    ASSUME DbmInv, NEW c \in Callers, RecordResult(c) \/ RecordFailure(c)
    PROVE  TablesKept /\ DbmInv'
<1>1. UNCHANGED <<table, everUsed, connected>>
  BY DEF RecordResult, RecordFailure, KeepsTables, Keeps
<1>2. CallsKept
  BY CallEnds DEF RecordResult, RecordFailure, SetJob, Throws
<1>3. JobsKept
  <2>1. CASE UNCHANGED jobRow
    BY <2>1, JobsRest
  <2>2. CASE \E j \in JobIds : /\ jobRow[j] # No
                              /\ jobRow' = [jobRow EXCEPT ![j] =
                                   [jobRow[j] EXCEPT !.status = "completed", !.result = TRUE,
                                                     !.completedAt = TRUE]]
    <3>1. PICK j \in JobIds, row \in AnyJob :
             /\ jobRow[j] # No /\ row = jobRow[j]
             /\ jobRow' = [jobRow EXCEPT ![j] =
                  [row EXCEPT !.status = "completed", !.result = TRUE, !.completedAt = TRUE]]
      BY <2>2, DbmFacts
    <3>2. PICK new : new = [row EXCEPT !.status = "completed", !.result = TRUE, !.completedAt = TRUE]
      OBVIOUS
    <3>3. new \in AnyJob /\ new.status = "completed" /\ new.assignedAt = row.assignedAt
      BY <3>2 DEF AnyJob
    <3>. QED  BY <3>1, <3>2, <3>3, OneJob DEF Dated
  <2>3. CASE \E j \in JobIds : /\ jobRow[j] # No
                              /\ jobRow' = [jobRow EXCEPT ![j] =
                                   [jobRow[j] EXCEPT !.status = "failed", !.error = TRUE,
                                                     !.completedAt = TRUE]]
    <3>1. PICK j \in JobIds, row \in AnyJob :
             /\ jobRow[j] # No /\ row = jobRow[j]
             /\ jobRow' = [jobRow EXCEPT ![j] =
                  [row EXCEPT !.status = "failed", !.error = TRUE, !.completedAt = TRUE]]
      BY <2>3, DbmFacts
    <3>2. PICK new : new = [row EXCEPT !.status = "failed", !.error = TRUE, !.completedAt = TRUE]
      OBVIOUS
    <3>3. new \in AnyJob /\ new.status = "failed" /\ new.assignedAt = row.assignedAt
      BY <3>2 DEF AnyJob
    <3>. QED  BY <3>1, <3>2, <3>3, OneJob DEF Dated
  <2>. QED  BY <2>1, <2>2, <2>3 DEF RecordResult, RecordFailure, SetJob
<1>. QED  BY <1>1, <1>2, <1>3, TablesRest, DbmCombines DEF DbmInv, DbmTypeOK

LEMMA UpdateStatusKeeps ==
    ASSUME DbmInv, NEW c \in Callers, UpdateStatus(c)
    PROVE  TablesKept /\ DbmInv'
<1>1. UNCHANGED <<table, everUsed, connected>>
  BY DEF UpdateStatus, KeepsTables, Keeps
<1>2. PICK j \in JobIds \cap everUsed :
         \/ /\ Goes(c, IF jobRow[j] # No /\ ~jobRow[j].assignedAt THEN "runFirst" ELSE "run",
                    "clients", No, j)
            /\ UNCHANGED jobRow
         \/ \E s \in {"completed", "failed"} :
              SetJob(c, j, [jobRow[j] EXCEPT !.status = s, !.completedAt = TRUE])
  BY DEF UpdateStatus
<1>3. CASE \E s \in {"completed", "failed"} :
              SetJob(c, j, [jobRow[j] EXCEPT !.status = s, !.completedAt = TRUE])
  <2>1. CallsKept
    BY <1>3, CallEnds DEF SetJob, Throws
  <2>2. JobsKept
    <3>1. CASE UNCHANGED jobRow
      BY <3>1, JobsRest
    <3>2. CASE jobRow[j] # No /\ \E s \in {"completed", "failed"} :
                  jobRow' = [jobRow EXCEPT ![j] =
                               [jobRow[j] EXCEPT !.status = s, !.completedAt = TRUE]]
      <4>1. PICK s \in {"completed", "failed"}, row \in AnyJob :
               /\ jobRow[j] # No /\ row = jobRow[j]
               /\ jobRow' = [jobRow EXCEPT ![j] =
                               [row EXCEPT !.status = s, !.completedAt = TRUE]]
        BY <3>2, DbmFacts
      <4>2. PICK new : new = [row EXCEPT !.status = s, !.completedAt = TRUE]
        OBVIOUS
      <4>3. new \in AnyJob /\ new.status = s /\ new.assignedAt = row.assignedAt
        BY <4>2, JobEnds
      <4>. QED  BY <4>1, <4>2, <4>3, OneJob DEF Dated
    <3>. QED  BY <1>3, <3>1, <3>2 DEF SetJob
  <2>. QED  BY <1>1, <2>1, <2>2, TablesRest, DbmCombines DEF DbmInv, DbmTypeOK
<1>4. CASE Goes(c, "runFirst", "clients", No, j) /\ UNCHANGED jobRow
  <2>1. "runFirst" \in Ops /\ "clients" \in Tables
    BY DEF Ops, Tables
  <2>2. CallsKept
    BY <1>1, <1>4, <2>1, CallGoes
  <2>. QED  BY <1>1, <1>4, <2>2, TablesRest, JobsRest, DbmCombines DEF DbmInv, DbmTypeOK
<1>5. CASE /\ Goes(c, "run", "clients", No, j) /\ UNCHANGED jobRow
           /\ jobRow[j] = No \/ jobRow[j].assignedAt
  <2>1. "run" \in Ops /\ "clients" \in Tables
    BY DEF Ops, Tables
  <2>2. CallsKept
    BY <1>1, <1>5, <2>1, CallGoes
  <2>. QED  BY <1>1, <1>5, <2>2, TablesRest, JobsRest, DbmCombines DEF DbmInv, DbmTypeOK
<1>. QED  BY <1>2, <1>3, <1>4, <1>5

\* The date is that of the job that was read, or is written now.
LEMMA SetRunningKeeps ==
    ASSUME DbmInv, NEW c \in Callers, SetRunning(c)
    PROVE  TablesKept /\ DbmInv'
<1>1. UNCHANGED <<table, everUsed, connected>>
  BY DEF SetRunning, KeepsTables, Keeps
<1>2. CallsKept
  BY CallEnds DEF SetRunning, SetJob, Throws
<1>3. PICK j \in JobIds : j = calling[c].job
  BY DEF SetRunning, Doing, DbmInv, CallsAreFaithful, FaithfulCall, HoldsJob
<1>5. JobsKept
  <2>1. CASE UNCHANGED jobRow
    BY <2>1, JobsRest
  <2>2. CASE /\ jobRow[j] # No
             /\ jobRow' = [jobRow EXCEPT ![j] = [jobRow[j] EXCEPT !.status = "running",
                                           !.assignedAt = @ \/ Doing(c, "runFirst")]]
    <3>1. PICK row \in AnyJob : row = jobRow[j]
      BY <2>2, DbmFacts
    <3>2. row.assignedAt \in BOOLEAN
      BY DEF AnyJob
    <3>3. row.assignedAt \/ Doing(c, "runFirst")
      <4>1. CASE Doing(c, "runFirst")
        BY <4>1
      <4>2. CASE calling[c].op = "run"
        <5>1. FaithfulCall(calling[c], everUsed, jobRow)
          BY DEF DbmInv, CallsAreFaithful
        <5>2. jobRow[j] = No \/ jobRow[j].assignedAt
          BY <1>3, <4>2, <5>1 DEF FaithfulCall
        <5>. QED  BY <2>2, <3>1, <5>2
      <4>. QED  BY <4>1, <4>2 DEF SetRunning, Doing
    <3>4. PICK dated \in BOOLEAN : dated = (row.assignedAt \/ Doing(c, "runFirst"))
      OBVIOUS
    <3>5. dated
      BY <3>3, <3>4
    <3>6. PICK new : new = [row EXCEPT !.status = "running", !.assignedAt = dated]
      OBVIOUS
    <3>7. new \in AnyJob /\ new.assignedAt = dated
      BY <3>6 DEF AnyJob
    <3>8. jobRow' = [jobRow EXCEPT ![j] = new]
      BY <2>2, <3>1, <3>4, <3>6
    <3>. QED  BY <2>2, <3>1, <3>5, <3>7, <3>8, OneJob DEF Dated
  <2>. QED  BY <1>3, <2>1, <2>2 DEF SetRunning, SetJob
<1>. QED  BY <1>1, <1>2, <1>5, TablesRest, DbmCombines DEF DbmInv, DbmTypeOK

LEMMA FindJobToDeleteKeeps ==
    ASSUME DbmInv, NEW c \in Callers, FindJobToDelete(c)
    PROVE  TablesKept /\ DbmInv'
<1>1. UNCHANGED <<table, everUsed, connected, jobRow>>
  BY DEF FindJobToDelete, KeepsTables, Keeps
<1>2. CallsKept
  <2>1. "deleteJob" \in Ops \ HoldsJob /\ "clients" \in Tables
    BY DEF Ops, HoldsJob, Tables
  <2>. QED  BY <2>1, CallGoesAlone DEF FindJobToDelete
<1>. QED  BY <1>1, <1>2, TablesRest, JobsRest, DbmCombines DEF DbmInv, DbmTypeOK

LEMMA DeleteJobKeeps ==
    ASSUME DbmInv, NEW c \in Callers, DeleteJob(c)
    PROVE  TablesKept /\ DbmInv'
<1>1. UNCHANGED <<table, everUsed, connected>> /\ CallsKept
  BY CallEnds DEF DeleteJob, KeepsTables, Keeps
<1>2. jobRow' = [jobRow EXCEPT ![calling[c].job] = No]
  BY DEF DeleteJob
<1>3. JobsKept
  <2>1. CASE calling[c].job \in JobIds
    BY <1>2, <2>1, JobGoes
  <2>2. CASE calling[c].job \notin JobIds
    BY <1>2, <2>2, JobsRest, DbmFacts
  <2>. QED  BY <2>1, <2>2
<1>. QED  BY <1>1, <1>3, TablesRest, DbmCombines DEF DbmInv, DbmTypeOK

-----------------------------------------------------------------------------
(* The example application, and the connection. *)

LEMMA CreateJobKeeps ==
    ASSUME DbmInv, NEW c \in Callers, CreateJob(c)
    PROVE  TablesKept /\ DbmInv'
<1>1. PICK j \in JobIds, op \in {"find", "findAggregator"} :
         /\ j \notin everUsed /\ everUsed' = everUsed \cup {j}
         /\ jobRow' = [jobRow EXCEPT ![j] = NewJob]
         /\ Goes(c, op, "clients", No, j)
         /\ UNCHANGED <<connected, table>>
  BY DEF CreateJob, Keeps
<1>2. NewJob \in AnyJob /\ NewJob.status = "pending"
  BY DEF NewJob, AnyJob
<1>3. TablesKept
  BY <1>1, DbmFacts DEF TablesKept, DbmInv, RowsWereMade, Present
<1>4. JobsKept
  <2>1. /\ jobRow' \in [JobIds -> AnyJob \cup {No}] /\ jobRow'[j] = NewJob
        /\ \A k \in JobIds \ {j} : jobRow'[k] = jobRow[k]
    BY <1>1, <1>2, DbmFacts
  <2>2. RunningIsDated'
    BY <1>2, <2>1 DEF DbmInv, RunningIsDated
  <2>. QED  BY <1>1, <2>1, <2>2 DEF JobsKept
<1>5. CallsKept
  <2>1. op \in Ops /\ op # "run" /\ "clients" \in Tables
    BY DEF Ops, Tables
  <2>. QED  BY <1>1, <2>1, CallGoes
<1>. QED  BY <1>1, <1>3, <1>4, <1>5, DbmCombines DEF DbmInv, DbmTypeOK

\* A job that a call holds.
LEMMA HeldJob ==
    ASSUME DbmInv, NEW c \in Callers, calling[c].op \in HoldsJob
    PROVE  calling[c].job \in JobIds /\ calling[c].job \in everUsed
BY DEF DbmInv, CallsAreFaithful, FaithfulCall

LEMMA FindForKeeps ==
    ASSUME DbmInv, NEW c \in Callers, NEW op \in HoldsJob, NEW t \in Tables,
           NEW next \in {"assign", "assignAggregator"}, FindFor(c, op, t, next)
    PROVE  TablesKept /\ DbmInv'
<1>1. UNCHANGED <<table, everUsed, connected, jobRow>>
  BY DEF FindFor, KeepsTables, Keeps
<1>2. calling[c].job \in JobIds /\ calling[c].job \in everUsed'
  BY <1>1, HeldJob DEF FindFor, Doing
<1>3. CallsKept
  <2>1. CASE Returns(c)
    BY <2>1, CallEnds
  <2>2. CASE \E i \in Ids : Goes(c, next, t, i, calling[c].job)
    <3>1. PICK i \in Ids : Goes(c, next, t, i, calling[c].job)
      BY <2>2
    <3>2. next \in Ops /\ next # "run"
      BY DEF Ops
    <3>. QED  BY <1>2, <3>1, <3>2, CallGoes
  <2>. QED  BY <2>1, <2>2 DEF FindFor, Throws, Available, Present
<1>. QED  BY <1>1, <1>3, TablesRest, JobsRest, DbmCombines DEF DbmInv, DbmTypeOK

LEMMA AssignForKeeps ==
    ASSUME DbmInv, NEW c \in Callers, NEW op \in HoldsJob, NEW t \in {"providers", "aggregators"},
           NEW next \in {"mark", "markLoad"}, AssignFor(c, op, t, next)
    PROVE  TablesKept /\ DbmInv'
<1>1. UNCHANGED <<table, everUsed, connected>>
  BY DEF AssignFor, KeepsTables, Keeps
<1>2. PICK j \in JobIds : j = calling[c].job
  BY HeldJob DEF AssignFor, Doing
<1>3. CASE Returns(c) /\ UNCHANGED jobRow
  BY <1>1, <1>3, CallEnds, TablesRest, JobsRest, DbmCombines DEF DbmInv, DbmTypeOK
<1>4. CASE \E i \in Ids : /\ jobRow[j] # No /\ Goes(c, next, t, i, j)
                         /\ jobRow' = [jobRow EXCEPT ![j] = Assigned(jobRow[j], t, i)]
  <2>1. PICK i \in Ids : /\ jobRow[j] # No /\ Goes(c, next, t, i, j)
                        /\ jobRow' = [jobRow EXCEPT ![j] = Assigned(jobRow[j], t, i)]
    BY <1>4
  <2>2. CallsKept
    <3>1. next \in Ops \ HoldsJob /\ t \in Tables
      BY DEF Ops, HoldsJob, Tables
    <3>. QED  BY <2>1, <3>1, CallGoesAlone
  <2>3. JobsKept
    <3>1. PICK row \in AnyJob : row = jobRow[j]
      BY <2>1, DbmFacts
    <3>2. PICK new : new = Assigned(row, t, i)
      OBVIOUS
    <3>3. new \in AnyJob /\ new.assignedAt
      <4>1. CASE t = "providers"
        BY <3>2, <4>1 DEF Assigned, AnyJob
      <4>2. CASE t = "aggregators"
        BY <3>2, <4>2 DEF Assigned, AnyJob
      <4>. QED  BY <4>1, <4>2
    <3>. QED  BY <2>1, <3>1, <3>2, <3>3, OneJob DEF Dated
  <2>. QED  BY <1>1, <2>2, <2>3, TablesRest, DbmCombines DEF DbmInv, DbmTypeOK
<1>. QED
  <2>1. \/ Returns(c) /\ UNCHANGED jobRow
        \/ /\ calling[c].key \in Ids /\ jobRow[j] # No /\ Goes(c, next, t, calling[c].key, j)
           /\ jobRow' = [jobRow EXCEPT ![j] = Assigned(jobRow[j], t, calling[c].key)]
    BY <1>2 DEF AssignFor, Throws, Present
  <2>. QED  BY <1>3, <1>4, <2>1

LEMMA MarkForKeeps ==
    ASSUME DbmInv, NEW c \in Callers, NEW op, NEW t \in Tables, MarkFor(c, op, t)
    PROVE  TablesKept /\ DbmInv'
<1>1. UNCHANGED <<connected, jobRow>> /\ CallsKept
  BY CallEnds DEF MarkFor, Keeps, Throws
<1>2. PICK hit \in SUBSET Present(t) :
         \/ UNCHANGED <<table, everUsed>>
         \/ Written(t, hit, "busy") /\ UNCHANGED everUsed
  <2>1. WithNode(t, calling[c].key) \in SUBSET Present(t)
    BY WithNodePresent
  <2>. QED  BY <2>1 DEF MarkFor, KeepsTables
<1>3. TablesKept
  BY <1>2, TablesRest, WrittenKeeps DEF Status
<1>. QED  BY <1>1, <1>3, JobsRest, DbmCombines DEF DbmInv, DbmTypeOK

LEMMA ConnectionKeeps ==
    ASSUME DbmInv, NEW c \in Callers, Connect(c) \/ Disconnect(c) \/ StatementFails(c)
    PROVE  TablesKept /\ DbmInv'
<1>1. UNCHANGED <<table, everUsed, jobRow>> /\ connected' \subseteq Callers
  BY DEF Connect, Disconnect, StatementFails, KeepsTables, DbmInv, DbmTypeOK
<1>2. CallsKept
  BY CallEnds, CallsRest DEF Connect, Disconnect, StatementFails
<1>. QED  BY <1>1, <1>2, TablesRest, JobsRest, DbmCombines

LEMMA DbmStep == ASSUME DbmInv, [DbmNext]_dbmVars PROVE TablesKept /\ DbmInv'
<1>1. CASE UNCHANGED dbmVars
  <2>1. UNCHANGED <<connected, table, everUsed, jobRow, calling>>
    BY <1>1 DEF dbmVars
  <2>. QED  BY <2>1, TablesRest, JobsRest, CallsRest, DbmCombines DEF DbmInv, DbmTypeOK
<1>2. ASSUME NEW c \in Callers, NEW t \in Tables,
             \/ Register(c, t) \/ UpdateFound(c, t) \/ UpdateById(c, t) \/ InsertRow(c, t)
             \/ Patch(c, t) \/ FindToDelete(c, t) \/ DeleteFound(c, t)
      PROVE  TablesKept /\ DbmInv'
  BY <1>2, RegisterKeeps, UpdateKeeps, InsertKeeps, PatchKeeps, FindToDeleteKeeps,
     DeleteFoundKeeps
<1>3. ASSUME NEW c \in Callers, AssignProvider(c) \/ AssignAggregator(c)
      PROVE  TablesKept /\ DbmInv'
  BY <1>3, FindForKeeps, AssignForKeeps, MarkForKeeps
     DEF AssignProvider, AssignAggregator, HoldsJob, Tables
<1>4. CASE DbmNext
  <2>1. PICK c \in Callers :
          \/ Connect(c) \/ Disconnect(c) \/ StatementFails(c)
          \/ \E t \in Tables :
               \/ Register(c, t) \/ UpdateFound(c, t) \/ UpdateById(c, t) \/ InsertRow(c, t)
               \/ Patch(c, t) \/ FindToDelete(c, t) \/ DeleteFound(c, t)
          \/ RecordResult(c) \/ RecordFailure(c) \/ UpdateStatus(c) \/ SetRunning(c)
          \/ FindJobToDelete(c) \/ DeleteJob(c)
          \/ CreateJob(c) \/ AssignProvider(c) \/ AssignAggregator(c)
    BY <1>4 DEF DbmNext, ProviderRegisters, AggregatorRegisters, ClientRegisters, PatchProvider,
                PatchAggregator, ProviderLeaves, AggregatorLeaves, ClientLeaves, Tables
  <2>. QED  BY <1>2, <1>3, <2>1, ConnectionKeeps, ResultKeeps, UpdateStatusKeeps, SetRunningKeeps,
               FindJobToDeleteKeeps, DeleteJobKeeps, CreateJobKeeps
<1>. QED  BY <1>1, <1>4

\* Each variable has its type.
THEOREM RowsTyped == DbmSpec => []DbmTypeOK
<1>1. DbmInv => DbmTypeOK
  BY DEF DbmInv
<1>. QED  BY <1>1, DbmInvInit, DbmStep, PTL DEF DbmSpec

\* A job that was handed out or that runs has the date of its assignment, and a
\* row keeps the node_id it was made with, whichever processes write them.
THEOREM RowsKeepTheirs == DbmSpec => RowsKeep
<1>1. DbmInv => RunningIsDated
  BY DEF DbmInv
<1>2. DbmInv /\ [DbmNext]_dbmVars =>
        [\A t \in Tables : \A i \in Present(t) :
           table'[t][i] # No => table'[t][i].node = table[t][i].node]_dbmVars
  BY DbmStep DEF TablesKept
<1>. QED  BY <1>1, <1>2, DbmInvInit, DbmStep, PTL DEF DbmSpec, RowsKeep, NodeIdStays

-----------------------------------------------------------------------------
(* Rentals: what a command carries from the offer it was shown and the     *)
(* token it had minted to the machine it pays for.                         *)

CommandAt == {"idle", "compare", "prompt", "resolve", "search", "create", "done"}
CommandRec == [at : CommandAt, args : Args \cup {Unset}, pick : Listing \cup {Unset},
               token : Bearers]

\* A command that has picked an offer knows its GPU, which an offer keeps, and
\* asks for that offer; one past `resolve` has a token, and it is the right one.
FaithfulCommand(k, offers) ==
    /\ k \in CommandRec
    /\ k.at \notin {"idle", "done"} => k.args \in Args
    /\ k.at \in {"idle", "compare"} => k.pick = Unset
    /\ k.at = "prompt" => k.pick \in Listing
    /\ k.pick # Unset => /\ offers[k.pick.offer].gpu = k.pick.gpu
                         /\ k.args.cap # Unset => k.pick.price <= k.args.cap
    /\ k.at \in {"resolve", "search", "create"} /\ k.pick # Unset =>
         k.args.provider = "vast" /\ k.args.offer = k.pick.offer
    /\ k.at \in {"search", "create"} =>
         k.token # Unset /\ (k.args.bearer # Unset => k.token = k.args.bearer)
    /\ k.at = "search" => k.args.provider = "vast"
    /\ k.at = "create" /\ k.args.provider = "vast" => k.args.offer \in Offers

RightMachine(m) == m.args # Unset =>
    /\ m.shown # Unset => /\ m.args.offer = m.shown.offer
                          /\ m.gpu = m.shown.gpu
                          /\ m.args.cap # Unset => m.shown.price <= m.args.cap
    /\ m.token # Unset
    /\ m.owner \in {Unset, m.token}
    /\ m.args.bearer # Unset => m.token = m.args.bearer

CommandsAreFaithful ==
    /\ cmd \in [Commands -> CommandRec]
    /\ \A c \in Commands : FaithfulCommand(cmd[c], market)

MachinesAreRight == \A i \in DOMAIN machine : RightMachine(machine[i])

DeployInv == DeployTypeOK /\ CommandsAreFaithful /\ MachinesAreRight

LEMMA DeployInvInit == DeployInit => DeployInv
<1>. SUFFICES ASSUME DeployInit PROVE DeployInv
  OBVIOUS
<1>1. \A c \in Commands :
        cmd[c] = [at |-> "idle", args |-> Unset, pick |-> Unset, token |-> Unset]
  BY DEF DeployInit
<1>2. [at |-> "idle", args |-> Unset, pick |-> Unset, token |-> Unset] \in CommandRec
  BY DEF CommandRec, CommandAt, Bearers
<1>3. cmd \in [Commands -> CommandRec]
  BY <1>2 DEF DeployInit
<1>4. CommandsAreFaithful
  BY <1>1, <1>2, <1>3 DEF CommandsAreFaithful, FaithfulCommand
<1>5. market \in [Offers -> [gpu : Gpus, price : Prices, free : BOOLEAN]]
  BY DEF DeployInit
<1>6. DeployTypeOK
  BY <1>3, <1>5, DeployAssumption DEF DeployInit, DeployTypeOK, CommandRec, CommandAt
<1>7. MachinesAreRight
  BY DEF DeployInit, MachinesAreRight
<1>. QED  BY <1>4, <1>6, <1>7 DEF DeployInv

LEMMA DeployFacts ==
    ASSUME DeployInv
    PROVE  /\ creds \subseteq Adapters /\ session \in Bearers
           /\ market \in [Offers -> [gpu : Gpus, price : Prices, free : BOOLEAN]]
           /\ cmd \in [Commands -> CommandRec]
           /\ machine \in Seq(Machine) /\ DOMAIN machine = 1..Len(machine)
           /\ \A i \in DOMAIN machine : machine[i] \in Machine
           /\ pods \in 0..PodLimit /\ shifts \in 0..MaxShifts /\ slips \in 0..MaxSlips
           /\ PodLimit \in Nat /\ MaxShifts \in Nat /\ MaxSlips \in Nat
BY DeployAssumption DEF DeployInv, DeployTypeOK, CommandsAreFaithful, Bearers

\* What each step does to the commands, the machines and the world around them.
CommandsKept ==
    /\ cmd' \in [Commands -> CommandRec]
    /\ \A c \in Commands : cmd'[c] = cmd[c] \/ FaithfulCommand(cmd'[c], market)

MachinesKept ==
    /\ machine' \in Seq(Machine)
    /\ MachinesAreRight'

WorldKept ==
    /\ creds' \subseteq Adapters /\ session' \in Bearers
    /\ market' \in [Offers -> [gpu : Gpus, price : Prices, free : BOOLEAN]]
    /\ \A o \in Offers : market'[o].gpu = market[o].gpu
    /\ pods' \in 0..PodLimit /\ shifts' \in 0..MaxShifts /\ slips' \in 0..MaxSlips

LEMMA DeployCombines ==
    ASSUME DeployInv, CommandsKept, MachinesKept, WorldKept
    PROVE  DeployInv'
<1>1. CommandsAreFaithful'
  <2>1. ASSUME NEW c \in Commands PROVE FaithfulCommand(cmd'[c], market')
    <3>1. FaithfulCommand(cmd'[c], market)
      BY DEF DeployInv, CommandsAreFaithful, CommandsKept
    <3>2. cmd'[c].pick # Unset => cmd'[c].pick.offer \in Offers
      BY DEF CommandsKept, CommandRec, Listing
    <3>. QED  BY <3>1, <3>2 DEF FaithfulCommand, WorldKept
  <2>. QED  BY <2>1 DEF CommandsAreFaithful, CommandsKept
<1>2. DeployTypeOK'
  BY DEF CommandsKept, MachinesKept, WorldKept, DeployTypeOK, CommandRec, CommandAt, Bearers
<1>. QED  BY <1>1, <1>2 DEF DeployInv, MachinesKept

LEMMA CommandsRest == ASSUME DeployInv, UNCHANGED cmd PROVE CommandsKept
BY DeployFacts DEF CommandsKept

LEMMA MachinesRest == ASSUME DeployInv, UNCHANGED machine PROVE MachinesKept
BY DeployFacts DEF DeployInv, MachinesAreRight, MachinesKept

LEMMA WorldRests ==
    ASSUME DeployInv, UNCHANGED <<creds, session, market, shifts, pods>>,
           slips' \in 0..MaxSlips
    PROVE  WorldKept
BY DeployFacts DEF WorldKept

LEMMA SlipsTyped == ASSUME DeployInv, Holds \/ Slips PROVE slips' \in 0..MaxSlips
<1>1. CASE Holds
  BY <1>1, DeployFacts DEF Holds
<1>2. CASE Slips
  BY <1>2, DeployFacts DEF Slips
<1>. QED  BY <1>1, <1>2

LEMMA OneCommand ==
    ASSUME DeployInv, NEW c \in Commands, NEW k, FaithfulCommand(k, market),
           cmd' = [cmd EXCEPT ![c] = k]
    PROVE  CommandsKept
<1>1. k \in CommandRec
  BY DEF FaithfulCommand
<1>. QED  BY <1>1, DeployFacts DEF CommandsKept

LEMMA RentalCommandEnds == ASSUME DeployInv, NEW c \in Commands, Ends(c) PROVE CommandsKept
<1>1. PICK k \in CommandRec : k = [at |-> "done", args |-> Unset, pick |-> Unset, token |-> Unset]
  BY DEF CommandRec, CommandAt, Bearers
<1>2. FaithfulCommand(k, market)
  BY <1>1 DEF FaithfulCommand
<1>. QED  BY <1>1, <1>2, OneCommand DEF Ends

\* One machine more, and one machine that gets on.
LEMMA MachineMore ==
    ASSUME DeployInv, NEW m \in Machine, RightMachine(m), machine' = Append(machine, m)
    PROVE  MachinesKept
<1>1. /\ machine' \in Seq(Machine) /\ DOMAIN machine' = 1..(Len(machine) + 1)
      /\ Len(machine) \in Nat /\ machine'[Len(machine) + 1] = m
      /\ \A i \in 1..Len(machine) : machine'[i] = machine[i]
  BY DeployFacts
<1>2. \A i \in DOMAIN machine' : i \in 1..Len(machine) \/ i = Len(machine) + 1
  BY <1>1
<1>3. MachinesAreRight'
  BY <1>1, <1>2, DeployFacts DEF DeployInv, MachinesAreRight
<1>. QED  BY <1>1, <1>3 DEF MachinesKept

LEMMA MachineGetsOn ==
    ASSUME DeployInv, NEW i \in DOMAIN machine, NEW m \in Machine, RightMachine(m),
           machine' = [machine EXCEPT ![i] = m]
    PROVE  MachinesKept
<1>1. /\ machine' \in Seq(Machine) /\ DOMAIN machine' = DOMAIN machine
      /\ machine'[i] = m /\ \A j \in DOMAIN machine \ {i} : machine'[j] = machine[j]
  BY DeployFacts
<1>2. MachinesAreRight'
  BY <1>1 DEF DeployInv, MachinesAreRight
<1>. QED  BY <1>1, <1>2 DEF MachinesKept

-----------------------------------------------------------------------------
(* The commands, up to the call that pays. *)

LEMMA ArgsAreArgs == UpArgs \cup PresetArgs \subseteq Args
<1>1. PresetArgs \subseteq Args
  BY DeployAssumption DEF PresetArgs, Args, Adapters
<1>2. UpArgs \subseteq Args
  BY DEF UpArgs, Args, Adapters, Models, Caps
<1>. QED  BY <1>1, <1>2

LEMMA BeginKeeps == ASSUME DeployInv, NEW c \in Commands, Begin(c) PROVE DeployInv'
<1>1. /\ cmd[c].at = "idle"
      /\ UNCHANGED <<machine, pods, slips, creds, session, market, shifts>>
  BY DEF Begin, World
<1>2. PICK a \in UpArgs \cup PresetArgs :
         cmd' = [cmd EXCEPT ![c].args = a,
                            ![c].at = IF a.sub = "up" THEN "resolve" ELSE "compare"]
  BY DEF Begin
<1>3. PICK old \in CommandRec : old = cmd[c] /\ old.at = "idle" /\ FaithfulCommand(old, market)
  BY <1>1, DeployFacts DEF DeployInv, CommandsAreFaithful
<1>4. PICK next \in {"resolve", "compare"} : cmd' = [cmd EXCEPT ![c].args = a, ![c].at = next]
  BY <1>2
<1>5. PICK k : k = [old EXCEPT !.args = a, !.at = next]
  OBVIOUS
<1>6. cmd' = [cmd EXCEPT ![c] = k]
  BY <1>3, <1>4, <1>5, DeployFacts
<1>7. a \in Args
  BY ArgsAreArgs
<1>8. /\ k \in CommandRec /\ k.at = next /\ k.args = a /\ k.pick = Unset
  <2>1. old.pick = Unset
    BY <1>3 DEF FaithfulCommand
  <2>. QED  BY <1>5, <1>7, <2>1 DEF CommandRec, CommandAt
<1>9. FaithfulCommand(k, market)
  BY <1>7, <1>8 DEF FaithfulCommand
<1>. QED
  BY <1>1, <1>6, <1>9, OneCommand, MachinesRest, WorldRests, DeployCombines, DeployFacts

\* An offer that a search returns.
LEMMA FoundOffers ==
    ASSUME DeployInv, NEW gpu, NEW cap, NEW o \in SearchOffers(gpu, cap)
    PROVE  /\ o \in Listing /\ o.offer \in Offers
           /\ market[o.offer].gpu = o.gpu
           /\ cap # Unset => o.price <= cap
<1>1. PICK x \in Offers : /\ cap = Unset \/ market[x].price <= cap
                         /\ o = [offer |-> x, gpu |-> market[x].gpu, price |-> market[x].price]
  BY DEF SearchOffers
<1>2. o.offer = x /\ o.gpu = market[x].gpu /\ o.price = market[x].price
  BY <1>1
<1>3. market[x].gpu \in Gpus /\ market[x].price \in Prices
  BY DeployFacts
<1>. QED  BY <1>1, <1>2, <1>3 DEF Listing

LEMMA CompareKeeps == ASSUME DeployInv, NEW c \in Commands, Compare(c) PROVE DeployInv'
<1>1. /\ cmd[c].at = "compare" /\ slips' \in 0..MaxSlips
      /\ UNCHANGED <<machine, pods, creds, session, market, shifts>>
  BY SlipsTyped DEF Compare, World
<1>2. CommandsKept
  <2>1. CASE Ends(c)
    BY <2>1, RentalCommandEnds
  <2>2. CASE \E o \in Winners(CollectOffers, cmd[c].args.sub, cmd[c].args.cap) :
               cmd' = [cmd EXCEPT ![c].at = "prompt", ![c].pick = o]
    <3>1. PICK o \in Winners(CollectOffers, cmd[c].args.sub, cmd[c].args.cap) :
               cmd' = [cmd EXCEPT ![c].at = "prompt", ![c].pick = o]
      BY <2>2
    <3>2. PICK old \in CommandRec : old = cmd[c] /\ old.at = "compare" /\ FaithfulCommand(old, market)
      BY <1>1, DeployFacts DEF DeployInv, CommandsAreFaithful
    <3>3. o \in CollectOffers /\ (old.args.cap # Unset => o.price <= old.args.cap)
      BY <3>2 DEF Winners, Eligible
    <3>4. o \in Listing /\ market[o.offer].gpu = o.gpu
      <4>1. o \in SearchOffers(Unset, Unset)
        BY <3>3 DEF CollectOffers
      <4>. QED  BY <4>1, FoundOffers
    <3>5. PICK k : k = [old EXCEPT !.at = "prompt", !.pick = o]
      OBVIOUS
    <3>6. cmd' = [cmd EXCEPT ![c] = k]
      BY <3>1, <3>2, <3>5, DeployFacts
    <3>7. k \in CommandRec /\ k.at = "prompt" /\ k.pick = o /\ k.args = old.args
      BY <3>2, <3>4, <3>5 DEF CommandRec, CommandAt
    <3>8. FaithfulCommand(k, market)
      BY <3>2, <3>3, <3>4, <3>7 DEF FaithfulCommand
    <3>. QED  BY <3>6, <3>8, OneCommand
  <2>. QED  BY <2>1, <2>2 DEF Compare
<1>. QED  BY <1>1, <1>2, MachinesRest, WorldRests, DeployCombines

LEMMA ConfirmKeeps == ASSUME DeployInv, NEW c \in Commands, Confirm(c) PROVE DeployInv'
<1>1. /\ cmd[c].at = "prompt"
      /\ UNCHANGED <<machine, pods, slips, creds, session, market, shifts>>
  BY DEF Confirm, World
<1>2. CommandsKept
  <2>1. CASE Ends(c)
    BY <2>1, RentalCommandEnds
  <2>2. CASE cmd' = [cmd EXCEPT ![c].at = "resolve",
                                ![c].args = ArgsFromOffer(cmd[c].args, cmd[c].pick)]
    <3>1. PICK old \in CommandRec : old = cmd[c] /\ old.at = "prompt" /\ FaithfulCommand(old, market)
      BY <1>1, DeployFacts DEF DeployInv, CommandsAreFaithful
    <3>2. PICK a \in Args, o \in Listing : a = old.args /\ o = old.pick
      BY <3>1 DEF FaithfulCommand
    <3>3. PICK b : b = ArgsFromOffer(a, o)
      OBVIOUS
    <3>4. /\ b \in Args /\ b.provider = "vast" /\ b.offer = o.offer /\ b.cap = a.cap
      BY <3>2, <3>3 DEF ArgsFromOffer, Args, Listing, Adapters, Bearers, Models
    <3>5. PICK k : k = [old EXCEPT !.at = "resolve", !.args = b]
      OBVIOUS
    <3>6. cmd' = [cmd EXCEPT ![c] = k]
      BY <2>2, <3>1, <3>2, <3>3, <3>5, DeployFacts
    <3>7. k \in CommandRec /\ k.at = "resolve" /\ k.args = b /\ k.pick = o
      BY <3>1, <3>2, <3>4, <3>5 DEF CommandRec, CommandAt
    <3>8. FaithfulCommand(k, market)
      BY <3>1, <3>2, <3>4, <3>7 DEF FaithfulCommand
    <3>. QED  BY <3>6, <3>8, OneCommand
  <2>. QED  BY <2>1, <2>2 DEF Confirm
<1>. QED  BY <1>1, <1>2, MachinesRest, WorldRests, DeployCombines, DeployFacts

LEMMA ResolveKeeps == ASSUME DeployInv, NEW c \in Commands, Resolve(c) PROVE DeployInv'
<1>1. /\ cmd[c].at = "resolve" /\ slips' \in 0..MaxSlips
      /\ UNCHANGED <<machine, pods, creds, session, market, shifts>>
  BY SlipsTyped DEF Resolve, World
<1>2. CommandsKept
  <2>1. CASE Ends(c)
    BY <2>1, RentalCommandEnds
  <2>2. CASE /\ Bearer(c) # Unset
             /\ cmd' = [cmd EXCEPT ![c].token = Bearer(c),
                           ![c].at = IF cmd[c].args.provider = "vast" /\ cmd[c].args.offer = Unset
                                     THEN "search" ELSE "create"]
    <3>1. PICK old \in CommandRec : old = cmd[c] /\ old.at = "resolve" /\ FaithfulCommand(old, market)
      BY <1>1, DeployFacts DEF DeployInv, CommandsAreFaithful
    <3>2. PICK a \in Args : a = old.args
      BY <3>1 DEF FaithfulCommand
    <3>3. PICK u \in Users : u = Bearer(c) /\ (a.bearer # Unset => u = a.bearer)
      BY <2>2, <3>1, <3>2, DeployFacts DEF Bearer, Args, Bearers
    <3>4. PICK next \in {"search", "create"} :
            /\ next = IF a.provider = "vast" /\ a.offer = Unset THEN "search" ELSE "create"
            /\ next = "search" <=> a.provider = "vast" /\ a.offer = Unset
      OBVIOUS
    <3>5. PICK k : k = [old EXCEPT !.token = u, !.at = next]
      OBVIOUS
    <3>6. cmd' = [cmd EXCEPT ![c] = k]
      BY <2>2, <3>1, <3>2, <3>3, <3>4, <3>5, DeployFacts
    <3>7. k \in CommandRec /\ k.at = next /\ k.token = u /\ k.args = a /\ k.pick = old.pick
      BY <3>1, <3>2, <3>3, <3>5 DEF CommandRec, CommandAt, Bearers
    <3>8. a.offer \in Offers \cup {Unset} /\ u # Unset
      BY DeployAssumption DEF Args
    <3>9. FaithfulCommand(k, market)
      BY <3>1, <3>2, <3>3, <3>4, <3>7, <3>8 DEF FaithfulCommand
    <3>. QED  BY <3>6, <3>9, OneCommand
  <2>. QED  BY <2>1, <2>2 DEF Resolve
<1>. QED  BY <1>1, <1>2, MachinesRest, WorldRests, DeployCombines

LEMMA SearchKeeps == ASSUME DeployInv, NEW c \in Commands, Search(c) PROVE DeployInv'
<1>1. /\ cmd[c].at = "search" /\ slips' \in 0..MaxSlips
      /\ UNCHANGED <<machine, pods, creds, session, market, shifts>>
  BY SlipsTyped DEF Search, World
<1>2. CommandsKept
  <2>1. CASE Ends(c)
    BY <2>1, RentalCommandEnds
  <2>2. CASE \E o \in SearchOffers(cmd[c].args.gpu, cmd[c].args.cap) :
               cmd' = [cmd EXCEPT ![c].at = "create", ![c].pick = o, ![c].args.offer = o.offer]
    <3>1. PICK o \in SearchOffers(cmd[c].args.gpu, cmd[c].args.cap) :
               cmd' = [cmd EXCEPT ![c].at = "create", ![c].pick = o, ![c].args.offer = o.offer]
      BY <2>2
    <3>2. PICK old \in CommandRec : old = cmd[c] /\ old.at = "search" /\ FaithfulCommand(old, market)
      BY <1>1, DeployFacts DEF DeployInv, CommandsAreFaithful
    <3>3. PICK a \in Args : a = old.args /\ a.provider = "vast"
      BY <3>2 DEF FaithfulCommand
    <3>4. /\ o \in Listing /\ o.offer \in Offers /\ market[o.offer].gpu = o.gpu
          /\ a.cap # Unset => o.price <= a.cap
      BY <3>2, <3>3, FoundOffers
    <3>5. PICK b : b = [a EXCEPT !.offer = o.offer]
      OBVIOUS
    <3>6. /\ b \in Args /\ b.provider = "vast" /\ b.offer = o.offer /\ b.cap = a.cap
          /\ b.bearer = a.bearer
      BY <3>3, <3>4, <3>5 DEF Args
    <3>7. PICK k : k = [old EXCEPT !.at = "create", !.pick = o, !.args = b]
      OBVIOUS
    <3>8. cmd' = [cmd EXCEPT ![c] = k]
      BY <3>1, <3>2, <3>3, <3>5, <3>7, DeployFacts DEF CommandRec
    <3>9. /\ k \in CommandRec /\ k.at = "create" /\ k.args = b /\ k.pick = o
          /\ k.token = old.token
      BY <3>2, <3>4, <3>6, <3>7 DEF CommandRec, CommandAt
    <3>10. FaithfulCommand(k, market)
      BY <3>2, <3>3, <3>4, <3>6, <3>9 DEF FaithfulCommand
    <3>. QED  BY <3>8, <3>10, OneCommand
  <2>. QED  BY <2>1, <2>2 DEF Search
<1>. QED  BY <1>1, <1>2, MachinesRest, WorldRests, DeployCombines

-----------------------------------------------------------------------------
(* The machines. *)

NewMachine(m, provider, gpu, token) ==
    /\ m \in Machine /\ m.provider = provider /\ m.gpu = gpu /\ m.token = token
    /\ m.at = "rented" /\ m.owner = Unset /\ m.args = Unset /\ m.shown = Unset

LEMMA NewTyped ==
    ASSUME NEW provider \in Adapters \cup {"own"}, NEW gpu \in Gpus \cup {Unset},
           NEW token \in Bearers
    PROVE  NewMachine(New(provider, gpu, token), provider, gpu, token)
BY DEF NewMachine, New, Machine, Bearers

\* A machine that a command pays for.
LEMMA RentedKeeps ==
    ASSUME DeployInv, NEW c \in Commands, NEW gpu \in Gpus \cup {Unset},
           cmd[c].at = "create", cmd[c].args.provider \in {"vast", "digitalocean"},
           cmd[c].args.provider = "vast" => gpu = market[cmd[c].args.offer].gpu,
           machine' = Rented(c, gpu)
    PROVE  MachinesKept
<1>1. PICK old \in CommandRec : old = cmd[c] /\ old.at = "create" /\ FaithfulCommand(old, market)
  BY DeployFacts DEF DeployInv, CommandsAreFaithful
<1>2. PICK a \in Args : a = old.args /\ a.provider \in {"vast", "digitalocean"}
  BY <1>1 DEF FaithfulCommand
<1>3. PICK n : n = New(a.provider, gpu, old.token)
  OBVIOUS
<1>4. NewMachine(n, a.provider, gpu, old.token)
  <2>1. a.provider \in Adapters \cup {"own"} /\ old.token \in Bearers
    BY <1>2 DEF Adapters, CommandRec
  <2>. QED  BY <1>3, <2>1, NewTyped
<1>5. PICK m : m = [n EXCEPT !.args = a, !.shown = old.pick]
  OBVIOUS
<1>6. machine' = Append(machine, m)
  BY <1>1, <1>2, <1>3, <1>5 DEF Rented
<1>7. /\ m \in Machine /\ m.gpu = gpu /\ m.token = old.token /\ m.owner = Unset
      /\ m.args = a /\ m.shown = old.pick
  BY <1>1, <1>4, <1>5 DEF NewMachine, Machine, CommandRec
<1>8. RightMachine(m)
  BY <1>1, <1>2, <1>7 DEF RightMachine, FaithfulCommand
<1>. QED  BY <1>6, <1>7, <1>8, MachineMore

LEMMA CreateVastKeeps == ASSUME DeployInv, NEW c \in Commands, CreateVast(c) PROVE DeployInv'
<1>. DEFINE o == cmd[c].args.offer
<1>1. /\ cmd[c].at = "create" /\ cmd[c].args.provider = "vast" /\ slips' \in 0..MaxSlips
      /\ UNCHANGED <<creds, session, pods, shifts>> /\ Ends(c)
      /\ \/ UNCHANGED <<market, machine>>
         \/ market' = [market EXCEPT ![o].free = FALSE] /\ machine' = Rented(c, market[o].gpu)
  BY SlipsTyped DEF CreateVast
<1>2. o \in Offers
  BY <1>1 DEF DeployInv, CommandsAreFaithful, FaithfulCommand
<1>3. CommandsKept
  BY <1>1, RentalCommandEnds
<1>4. CASE UNCHANGED <<market, machine>>
  BY <1>1, <1>3, <1>4, MachinesRest, WorldRests, DeployCombines
<1>5. CASE market' = [market EXCEPT ![o].free = FALSE] /\ machine' = Rented(c, market[o].gpu)
  <2>1. market[o].gpu \in Gpus
    BY <1>2, DeployFacts
  <2>2. MachinesKept
    BY <1>1, <1>5, <2>1, RentedKeeps
  <2>3. PICK x \in Offers : x = o
    BY <1>2
  <2>4. PICK offer \in [gpu : Gpus, price : Prices, free : BOOLEAN] :
           market' = [market EXCEPT ![x] = offer] /\ offer.gpu = market[x].gpu
    <3>1. PICK old \in [gpu : Gpus, price : Prices, free : BOOLEAN] : old = market[x]
      BY DeployFacts
    <3>2. PICK offer : offer = [old EXCEPT !.free = FALSE]
      OBVIOUS
    <3>3. offer \in [gpu : Gpus, price : Prices, free : BOOLEAN] /\ offer.gpu = old.gpu
      BY <3>2
    <3>4. market' = [market EXCEPT ![x] = offer]
      BY <1>5, <2>3, <3>1, <3>2, DeployFacts
    <3>. QED  BY <3>1, <3>3, <3>4
  <2>5. /\ market' \in [Offers -> [gpu : Gpus, price : Prices, free : BOOLEAN]]
        /\ \A y \in Offers : market'[y].gpu = market[y].gpu
    BY <2>4, DeployFacts
  <2>6. WorldKept
    BY <1>1, <2>5, DeployFacts DEF WorldKept
  <2>. QED  BY <1>3, <2>2, <2>6, DeployCombines
<1>. QED  BY <1>1, <1>4, <1>5

LEMMA CreateDropletKeeps == ASSUME DeployInv, NEW c \in Commands, CreateDroplet(c) PROVE DeployInv'
<1>1. /\ cmd[c].at = "create" /\ cmd[c].args.provider = "digitalocean"
      /\ slips' \in 0..MaxSlips
      /\ UNCHANGED <<creds, session, market, shifts, pods>> /\ Ends(c)
      /\ UNCHANGED machine \/ machine' = Rented(c, cmd[c].args.gpu)
  BY SlipsTyped DEF CreateDroplet, World
<1>2. cmd[c].args.gpu \in Gpus \cup {Unset}
  BY <1>1 DEF DeployInv, CommandsAreFaithful, FaithfulCommand, Args
<1>3. MachinesKept
  BY <1>1, <1>2, MachinesRest, RentedKeeps
<1>. QED  BY <1>1, <1>3, RentalCommandEnds, WorldRests, DeployCombines

\* A machine that no command rented.
LEMMA OtherMachine ==
    ASSUME DeployInv, NEW provider \in Adapters \cup {"own"}, NEW gpu \in Gpus \cup {Unset},
           NEW token \in Bearers, machine' = Append(machine, New(provider, gpu, token))
    PROVE  MachinesKept
<1>1. PICK m : m = New(provider, gpu, token)
  OBVIOUS
<1>2. NewMachine(m, provider, gpu, token)
  BY <1>1, NewTyped
<1>3. m \in Machine /\ RightMachine(m)
  BY <1>2 DEF NewMachine, RightMachine
<1>. QED  BY <1>1, <1>3, MachineMore

LEMMA WebKeeps == ASSUME DeployInv, DeployPod \/ HourEnds \/ PasteOneLiner PROVE DeployInv'
<1>1. UNCHANGED <<cmd, creds, session, market, shifts>>
  BY DEF DeployPod, HourEnds, PasteOneLiner, World
<1>2. pods' \in 0..PodLimit
  BY DeployFacts DEF DeployPod, HourEnds, PasteOneLiner
<1>3. slips' \in 0..MaxSlips
  BY SlipsTyped, DeployFacts DEF DeployPod, HourEnds, PasteOneLiner
<1>4. MachinesKept
  <2>1. CASE UNCHANGED machine
    BY <2>1, MachinesRest
  <2>2. CASE \E g \in Gpus : machine' = Append(machine, New("runpod", g, Unset))
    BY <2>2, OtherMachine DEF Adapters, Bearers
  <2>3. CASE \E u \in Bearers : machine' = Append(machine, New("own", Unset, u))
    BY <2>3, OtherMachine
  <2>. QED  BY <2>1, <2>2, <2>3 DEF DeployPod, HourEnds, PasteOneLiner
<1>5. WorldKept
  BY <1>1, <1>2, <1>3, DeployFacts DEF WorldKept
<1>. QED  BY <1>1, <1>4, <1>5, CommandsRest, DeployCombines

LEMMA BootKeeps ==
    ASSUME DeployInv, NEW i \in DOMAIN machine, CloudInit(i) \/ Bootstrap(i)
    PROVE  DeployInv'
<1>1. UNCHANGED <<cmd, pods, slips, creds, session, market, shifts>>
  BY DEF CloudInit, Bootstrap, World
<1>2. PICK old \in Machine : old = machine[i] /\ RightMachine(old)
  BY DeployFacts DEF DeployInv, MachinesAreRight
<1>3. MachinesKept
  <2>1. ASSUME NEW next \in {"script", "bare"}, machine' = [machine EXCEPT ![i].at = next]
        PROVE  MachinesKept
    <3>1. PICK m : m = [old EXCEPT !.at = next]
      OBVIOUS
    <3>2. machine' = [machine EXCEPT ![i] = m]
      BY <1>2, <2>1, <3>1, DeployFacts
    <3>3. /\ m \in Machine /\ m.args = old.args /\ m.gpu = old.gpu /\ m.shown = old.shown
          /\ m.token = old.token /\ m.owner = old.owner
      BY <3>1 DEF Machine
    <3>4. RightMachine(m)
      BY <1>2, <3>3 DEF RightMachine
    <3>. QED  BY <3>2, <3>3, <3>4, MachineGetsOn
  <2>2. ASSUME NEW u \in {machine[i].token, Unset},
               machine' = [machine EXCEPT ![i].at = "joined", ![i].owner = u]
        PROVE  MachinesKept
    <3>1. PICK m : m = [old EXCEPT !.at = "joined", !.owner = u]
      OBVIOUS
    <3>2. machine' = [machine EXCEPT ![i] = m]
      BY <1>2, <2>2, <3>1, DeployFacts
    <3>3. u \in Bearers /\ u \in {old.token, Unset}
      BY <1>2 DEF Machine, Bearers
    <3>4. /\ m \in Machine /\ m.args = old.args /\ m.gpu = old.gpu /\ m.shown = old.shown
          /\ m.token = old.token /\ m.owner = u
      BY <3>1, <3>3 DEF Machine
    <3>5. RightMachine(m)
      BY <1>2, <3>3, <3>4 DEF RightMachine
    <3>. QED  BY <3>2, <3>4, <3>5, MachineGetsOn
  <2>. QED  BY <2>1, <2>2 DEF CloudInit, Bootstrap
<1>. QED  BY <1>1, <1>3, CommandsRest, WorldRests, DeployCombines, DeployFacts

-----------------------------------------------------------------------------
(* Around them. *)

LEMMA KeysKeep == ASSUME DeployInv, NEW p \in Adapters, AuthSet(p) \/ AuthRemove(p) PROVE DeployInv'
<1>1. /\ UNCHANGED <<session, market, cmd, machine, pods, slips>>
      /\ creds' \subseteq Adapters /\ shifts' \in 0..MaxShifts
  BY DeployFacts DEF AuthSet, AuthRemove
<1>2. WorldKept
  BY <1>1, DeployFacts DEF WorldKept
<1>. QED  BY <1>1, <1>2, CommandsRest, MachinesRest, DeployCombines

LEMMA MarketKeeps == ASSUME DeployInv, MarketMoves PROVE DeployInv'
<1>1. /\ UNCHANGED <<creds, session, cmd, machine, pods, slips>>
      /\ shifts' \in 0..MaxShifts
  BY DeployFacts DEF MarketMoves
<1>2. PICK o \in Offers, p \in Prices, f \in BOOLEAN :
         market' = [market EXCEPT ![o].price = p, ![o].free = f]
  BY DEF MarketMoves
<1>3. PICK old \in [gpu : Gpus, price : Prices, free : BOOLEAN] : old = market[o]
  BY DeployFacts
<1>4. PICK offer : offer = [old EXCEPT !.price = p, !.free = f]
  OBVIOUS
<1>5. offer \in [gpu : Gpus, price : Prices, free : BOOLEAN] /\ offer.gpu = old.gpu
  BY <1>4
<1>6. market' = [market EXCEPT ![o] = offer]
  BY <1>2, <1>3, <1>4, DeployFacts
<1>7. /\ market' \in [Offers -> [gpu : Gpus, price : Prices, free : BOOLEAN]]
      /\ \A y \in Offers : market'[y].gpu = market[y].gpu
  BY <1>3, <1>5, <1>6, DeployFacts
<1>8. WorldKept
  BY <1>1, <1>7, DeployFacts DEF WorldKept
<1>. QED  BY <1>1, <1>8, CommandsRest, MachinesRest, DeployCombines

LEMMA SessionKeeps == ASSUME DeployInv, SessionMoves PROVE DeployInv'
<1>1. /\ UNCHANGED <<creds, market, cmd, machine, pods, slips>>
      /\ session' \in Bearers /\ shifts' \in 0..MaxShifts
  BY DeployFacts DEF SessionMoves, Bearers
<1>2. WorldKept
  BY <1>1, DeployFacts DEF WorldKept
<1>. QED  BY <1>1, <1>2, CommandsRest, MachinesRest, DeployCombines

LEMMA GivesUpKeeps ==
    ASSUME DeployInv, NEW c \in Commands, DryRun(c) \/ CreatePodFails(c)
    PROVE  DeployInv'
<1>1. UNCHANGED <<machine, pods, slips, creds, session, market, shifts>> /\ Ends(c)
  BY DEF DryRun, CreatePodFails, World
<1>. QED  BY <1>1, RentalCommandEnds, MachinesRest, WorldRests, DeployCombines, DeployFacts

LEMMA DeployStep == ASSUME DeployInv, [DeployNext]_deployVars PROVE DeployInv'
<1>1. CASE UNCHANGED deployVars
  <2>1. UNCHANGED <<creds, session, market, cmd, machine, pods, shifts, slips>>
    BY <1>1 DEF deployVars
  <2>. QED  BY <2>1, CommandsRest, MachinesRest, WorldRests, DeployCombines, DeployFacts
<1>2. CASE DeployNext
  BY <1>2, KeysKeep, BeginKeeps, CompareKeeps, ConfirmKeeps, ResolveKeeps, GivesUpKeeps, SearchKeeps,
     CreateVastKeeps, CreateDropletKeeps, WebKeeps, BootKeeps, MarketKeeps, SessionKeeps
     DEF DeployNext
<1>. QED  BY <1>1, <1>2

\* Each variable has its type.
THEOREM RentalsTyped == DeploySpec => []DeployTypeOK
<1>1. DeployInv => DeployTypeOK
  BY DEF DeployInv
<1>. QED  BY <1>1, DeployInvInit, DeployStep, PTL DEF DeploySpec

\* A machine that a command paid for is the offer that was shown, and is owned by
\* the account its token was for.
THEOREM RentalsHold == DeploySpec => []RentalsAreTrue
<1>1. DeployInv => RentalsAreTrue
  <2>. SUFFICES ASSUME DeployInv, NEW m \in CliMachines
       PROVE  RightMachine(m) /\ m.args # Unset
    BY DEF RentalsAreTrue, RentedAsShown, OwnersAreRight, RightMachine
  <2>. QED  BY DEF CliMachines, DeployInv, MachinesAreRight
<1>. QED  BY <1>1, DeployInvInit, DeployStep, PTL DEF DeploySpec

-----------------------------------------------------------------------------
(* The readers of event streams: what a reader yields is what the server   *)
(* said so far, by whole frames, wherever the pieces of the body end.      *)
(*                                                                         *)
(* The beginning of a frame that a reader has taken and the body that is   *)
(* still to come are together a stream of the events that it has not       *)
(* yielded yet (Underway).                                                 *)

LEMMA BodyCat ==
    ASSUME NEW a \in Bodies, NEW b \in Bodies
    PROVE  /\ a \o b \in Bodies /\ Len(a \o b) = Len(a) + Len(b)
           /\ a \o << >> = a /\ << >> \o a = a
           /\ \A i \in 1..Len(a) : (a \o b)[i] = a[i]
           /\ \A i \in 1..Len(b) : (a \o b)[Len(a) + i] = b[i]
  BY Cat, CatEmpty DEF Bodies

LEMMA BodyAssoc ==
    ASSUME NEW a \in Bodies, NEW b \in Bodies, NEW c \in Bodies
    PROVE  (a \o b) \o c = a \o (b \o c)
  BY Assoc DEF Bodies

LEMMA EventsAssoc ==
    ASSUME NEW a \in Seq(Events), NEW b \in Seq(Events), NEW c \in Seq(Events)
    PROVE  (a \o b) \o c = a \o (b \o c)
  BY Assoc DEF Events

LEMMA BodyCut ==
    ASSUME NEW a \in Bodies, NEW b \in Bodies, NEW i \in 1..(Len(a) + 1)
    PROVE  TextAfter(a \o b, i) = TextAfter(a, i) \o b
  BY CutCat DEF Bodies, TextAfter

LEMMA BodyCutPast ==
    ASSUME NEW a \in Bodies, NEW b \in Bodies, NEW i \in 1..(Len(b) + 1)
    PROVE  TextAfter(a \o b, Len(a) + i) = TextAfter(b, i)
  BY CutPast DEF Bodies, TextAfter

LEMMA BodyHead ==
    ASSUME NEW a \in Bodies, NEW b \in Bodies, NEW i \in 0..Len(a)
    PROVE  SubSeq(a \o b, 1, i) = SubSeq(a, 1, i)
  BY HeadCat DEF Bodies

LEMMA BodyHalves ==
    ASSUME NEW a \in Bodies, NEW i \in 0..Len(a)
    PROVE  SubSeq(a, 1, i) \o TextAfter(a, i + 1) = a
  BY Halves DEF Bodies, TextAfter

LEMMA BodyParts ==
    ASSUME NEW s \in Bodies
    PROVE  /\ Len(s) \in Nat /\ DOMAIN s = 1..Len(s)
           /\ \A i \in 1..(Len(s) + 1) :
                 TextAfter(s, i) \in Bodies /\ Len(TextAfter(s, i)) = Len(s) + 1 - i
           /\ \A i \in 0..Len(s) : SubSeq(s, 1, i) \in Bodies /\ Len(SubSeq(s, 1, i)) = i
  BY Sub DEF Bodies, TextAfter

LEMMA NoBody == << >> \in Bodies /\ Len(<< >>) = 0
  BY DEF Bodies

-----------------------------------------------------------------------------
\* What the server writes: events, and heartbeats between them.
WrittenEvents == Events \cup {Heartbeat}
EventOf(a) == IF a = Heartbeat THEN << >> ELSE <<a>>

LEMMA MarkFacts ==
    /\ NL.line = "end" /\ Comment.line = "comment" /\ Comment # NL
    /\ \A e : EventLine(e).line = "event" /\ EventLine(e).of = e /\ EventLine(e) # NL
    /\ \A e : DataLine(e).line = "data" /\ DataLine(e).of = e /\ DataLine(e) # NL
    /\ \A e : DataLine(e) # Comment /\ EventLine(e) # Comment
    /\ NL \in Marks /\ Comment \in Marks
    /\ \A e \in Events : EventLine(e) \in Marks /\ DataLine(e) \in Marks
    /\ \A m \in Marks : m.line = "data" => m.of \in Events
<1>1. /\ NL.line = "end" /\ Comment.line = "comment" /\ Comment # NL
      /\ \A e : EventLine(e).line = "event" /\ EventLine(e).of = e /\ EventLine(e) # NL
      /\ \A e : DataLine(e).line = "data" /\ DataLine(e).of = e /\ DataLine(e) # NL
  BY DEF NL, Comment, EventLine, DataLine
<1>2. \A e : DataLine(e) # Comment /\ EventLine(e) # Comment
  <2>1. \A e : DataLine(e).line # Comment.line /\ EventLine(e).line # Comment.line
    BY <1>1
  <2>. QED  BY <2>1, Zenon
<1>3. NL \in Marks /\ Comment \in Marks
  BY DEF Marks
<1>4. ASSUME NEW e \in Events PROVE EventLine(e) \in Marks /\ DataLine(e) \in Marks
  BY DEF Marks
<1>5. ASSUME NEW m \in Marks, m.line = "data" PROVE m.of \in Events
  <2>1. m = NL \/ m = Comment \/ (\E e \in Events : m = EventLine(e))
           \/ (\E e \in Events : m = DataLine(e))
    BY DEF Marks
  <2>. QED  BY <1>1, <1>5, <2>1
<1>. QED  BY <1>1, <1>2, <1>3, <1>4, <1>5

LEMMA WrittenFacts ==
    /\ Heartbeat \notin Events /\ Nothing \notin Events /\ Events \subseteq Int
    /\ Finals \subseteq Events /\ 1..Tokens \subseteq Events /\ 0 \in Events
    /\ \A a \in WrittenEvents : EventOf(a) \in Seq(Events)
    /\ \A a \in WrittenEvents : a = Heartbeat \/ (a \in Events /\ a # Heartbeat)
    /\ \A e \in Events : e \in WrittenEvents /\ e # Heartbeat /\ EventOf(e) = <<e>>
    /\ Heartbeat \in WrittenEvents /\ EventOf(Heartbeat) = << >>
<1>1. Events = 0..(Tokens + 2) /\ Heartbeat = -1 /\ Nothing = -2 /\ Tokens \in Nat
  BY ReadersAssumption DEF Events, Heartbeat, Nothing, Job, Error
<1>2. /\ Heartbeat \notin Events /\ Nothing \notin Events /\ Events \subseteq Int
      /\ 1..Tokens \subseteq Events /\ 0 \in Events
  BY <1>1
<1>3. Finals \subseteq Events
  BY <1>1 DEF Finals, Done, Error
<1>4. \A e \in Events : e \in WrittenEvents /\ e # Heartbeat /\ EventOf(e) = <<e>>
  BY <1>2 DEF WrittenEvents, EventOf
<1>5. Heartbeat \in WrittenEvents /\ EventOf(Heartbeat) = << >>
  BY DEF WrittenEvents, EventOf
<1>6. \A a \in WrittenEvents : a = Heartbeat \/ (a \in Events /\ a # Heartbeat)
  BY DEF WrittenEvents
<1>7. ASSUME NEW a \in WrittenEvents PROVE EventOf(a) \in Seq(Events)
  <2>1. CASE a = Heartbeat
    BY <1>5, <2>1
  <2>2. CASE a # Heartbeat
    <3>1. a \in Events /\ EventOf(a) = <<a>>
      BY <1>4, <1>6, <2>2
    <3>. QED  BY <3>1
  <2>. QED  BY <2>1, <2>2
<1>. QED  BY <1>2, <1>3, <1>4, <1>5, <1>6, <1>7

\* A frame ends with the only two ends of lines that meet.
LEMMA FrameShape ==
    ASSUME NEW a \in WrittenEvents, NEW f, f = Frame(a), NEW n, n = Len(f)
    PROVE  /\ f \in Bodies /\ n \in Nat /\ n >= 3 /\ f[1] # NL
           /\ f[n - 1] = NL /\ f[n] = NL
           /\ \A i \in 1..(n - 2) : ~(f[i] = NL /\ f[i + 1] = NL)
           /\ a = Heartbeat => /\ n = 3 /\ f[1] = Comment
           /\ a # Heartbeat /\ reader = "nim" => n = 3 /\ f[1] = DataLine(a)
           /\ a # Heartbeat /\ reader # "nim" =>
                 n = 5 /\ f[1] = EventLine(a) /\ f[2] = NL /\ f[3] = DataLine(a)
<1>1. CASE a = Heartbeat
  <2>1. f = <<Comment, NL, NL>>
    BY <1>1 DEF Frame
  <2>2. f \in Bodies
    BY <2>1, MarkFacts DEF Bodies
  <2>3. n = 3 /\ f[1] = Comment /\ f[2] = NL /\ f[3] = NL
    BY <2>1
  <2>4. \A i \in 1..(n - 2) : ~(f[i] = NL /\ f[i + 1] = NL)
    <3>1. \A i \in 1..(n - 2) : i = 1
      BY <2>3
    <3>. QED  BY <2>3, <3>1, MarkFacts, Zenon
  <2>5. f[1] # NL
    BY <2>3, MarkFacts
  <2>6. n \in Nat /\ n >= 3 /\ f[n - 1] = NL /\ f[n] = NL
    BY <2>3
  <2>7. a # Heartbeat => FALSE
    BY <1>1
  <2>. QED  BY <2>2, <2>3, <2>4, <2>5, <2>6, <2>7, Zenon
<1>2. CASE a # Heartbeat /\ reader = "nim"
  <2>1. f = <<DataLine(a), NL, NL>> /\ a \in Events
    BY <1>2, WrittenFacts DEF Frame
  <2>2. f \in Bodies
    BY <2>1, MarkFacts DEF Bodies
  <2>3. n = 3 /\ f[1] = DataLine(a) /\ f[2] = NL /\ f[3] = NL
    BY <2>1
  <2>4. \A i \in 1..(n - 2) : ~(f[i] = NL /\ f[i + 1] = NL)
    <3>1. \A i \in 1..(n - 2) : i = 1
      BY <2>3
    <3>. QED  BY <2>3, <3>1, MarkFacts, Zenon
  <2>5. f[1] # NL
    BY <2>3, MarkFacts
  <2>. QED  BY <1>2, <2>2, <2>3, <2>4, <2>5
<1>3. CASE a # Heartbeat /\ reader # "nim"
  <2>1. f = <<EventLine(a), NL, DataLine(a), NL, NL>> /\ a \in Events
    BY <1>3, WrittenFacts DEF Frame
  <2>2. f \in Bodies
    BY <2>1, MarkFacts DEF Bodies
  <2>3. n = 5 /\ f[1] = EventLine(a) /\ f[2] = NL /\ f[3] = DataLine(a) /\ f[4] = NL /\ f[5] = NL
    BY <2>1
  <2>4. \A i \in 1..(n - 2) : ~(f[i] = NL /\ f[i + 1] = NL)
    <3>1. \A i \in 1..(n - 2) : i = 1 \/ i = 2 \/ i = 3
      BY <2>3
    <3>2. f[1] # NL /\ f[3] # NL
      BY <2>3, MarkFacts
    <3>. QED  BY <3>1, <3>2
  <2>5. f[1] # NL
    BY <2>3, MarkFacts
  <2>. QED  BY <1>3, <2>2, <2>3, <2>4, <2>5
<1>. QED  BY <1>1, <1>2, <1>3

LEMMA FirstAtFacts ==
    ASSUME NEW P, P \subseteq Nat, P # {}
    PROVE  FirstAt(P) \in P /\ \A j \in P : FirstAt(P) <= j
<1>1. \E i \in P : \A j \in P : i <= j
  BY LeastOf
<1>. QED  BY <1>1, Zenon DEF FirstAt

LEMMA ParseFrameFacts ==
    ASSUME NEW raw \in Bodies
    PROVE  /\ ParseFrame(raw) \in Seq(Events)
           /\ (\A i \in 1..Len(raw) : raw[i].line # "data") => ParseFrame(raw) = << >>
           /\ raw # << >> /\ raw[1].line = "comment" => ParseFrame(raw) = << >>
           /\ \A i \in 1..Len(raw) : /\ raw[i].line = "data"
                                     /\ \A j \in 1..(i - 1) : raw[j].line # "data"
                                     /\ raw[1].line # "comment"
                 => ParseFrame(raw) = <<raw[i].of>>
<1>1. PICK D : D = DataLines(raw)
  OBVIOUS
<1>2. D = {i \in 1..Len(raw) : raw[i].line = "data"}
  BY <1>1, BodyParts DEF DataLines
<1>3. D # {} => FirstAt(D) \in D /\ \A j \in D : FirstAt(D) <= j
  BY <1>2, FirstAtFacts
<1>4. ParseFrame(raw) = IF D = {} \/ raw[1].line = "comment" THEN << >>
                        ELSE <<raw[FirstAt(D)].of>>
  BY <1>1 DEF ParseFrame
<1>5. \A i \in D : raw[i].of \in Events
  BY <1>2, MarkFacts DEF Bodies
<1>6. ParseFrame(raw) \in Seq(Events)
  BY <1>3, <1>4, <1>5
<1>7. ASSUME NEW i \in 1..Len(raw), raw[i].line = "data",
             \A j \in 1..(i - 1) : raw[j].line # "data", raw[1].line # "comment"
      PROVE  ParseFrame(raw) = <<raw[i].of>>
  <2>1. i \in D
    BY <1>2, <1>7
  <2>2. FirstAt(D) \in D /\ FirstAt(D) <= i
    BY <1>3, <2>1
  <2>3. ~(FirstAt(D) \in 1..(i - 1))
    BY <1>2, <1>7, <2>2
  <2>4. FirstAt(D) = i
    BY <1>2, <2>2, <2>3, BodyParts
  <2>. QED  BY <1>4, <1>7, <2>1, <2>4
<1>8. (\A i \in 1..Len(raw) : raw[i].line # "data") => ParseFrame(raw) = << >>
  BY <1>2, <1>4
<1>. QED  BY <1>4, <1>6, <1>7, <1>8

\* A frame that is cut off yields its event or none, the whole frame its event.
LEMMA FrameParsed ==
    ASSUME NEW a \in WrittenEvents, NEW f, f = Frame(a), NEW k \in 0..(Len(f) - 1)
    PROVE  /\ ParseFrame(SubSeq(f, 1, k)) \in {<< >>, EventOf(a)}
           /\ k = Len(f) - 2 => ParseFrame(SubSeq(f, 1, k)) = EventOf(a)
<1>1. f \in Bodies /\ Len(f) \in Nat /\ Len(f) >= 3
  BY FrameShape
<1>2. PICK r \in Bodies : r = SubSeq(f, 1, k) /\ Len(r) = k /\ \A i \in 1..k : r[i] = f[i]
  <2>1. k \in 0..Len(f)
    BY <1>1
  <2>2. SubSeq(f, 1, k) \in Bodies /\ Len(SubSeq(f, 1, k)) = k
    BY <1>1, <2>1, BodyParts
  <2>3. \A i \in 1..k : SubSeq(f, 1, k)[i] = f[i]
    BY <1>1, <2>1 DEF Bodies
  <2>. QED  BY <2>2, <2>3
<1>6. k = 0 => ParseFrame(r) = << >>
  <2>1. k = 0 => \A i \in 1..Len(r) : r[i].line # "data"
    BY <1>2
  <2>. QED  BY <2>1, ParseFrameFacts
<1>7. k # 0 => r # << >> /\ 1 \in 1..Len(r) /\ 1 \in 1..k /\ r[1] = f[1]
  <2>1. k # 0 => 1 \in 1..k
    BY <1>1
  <2>. QED  BY <1>2, <2>1, NoBody
<1>3. CASE a = Heartbeat
  <2>1. ParseFrame(r) = << >>
    <3>1. f[1] = Comment
      BY <1>3, FrameShape
    <3>3. CASE k # 0
      <4>1. r # << >> /\ r[1].line = "comment"
        BY <1>7, <3>1, <3>3, MarkFacts
      <4>. QED  BY <4>1, ParseFrameFacts
    <3>. QED  BY <1>6, <3>3
  <2>. QED  BY <1>2, <1>3, <2>1, WrittenFacts
<1>4. CASE a # Heartbeat /\ reader = "nim"
  <2>1. f[1] = DataLine(a) /\ Len(f) = 3 /\ EventOf(a) = <<a>>
    BY <1>4, FrameShape DEF EventOf
  <2>2. CASE k = 0
    BY <1>2, <1>6, <2>1, <2>2
  <2>3. CASE k # 0
    <3>1. 1 \in 1..Len(r) /\ r[1] = DataLine(a)
      BY <1>7, <2>1, <2>3
    <3>4. r[1].line = "data" /\ r[1].of = a
      BY <3>1, MarkFacts
    <3>2. ParseFrame(r) = <<r[1].of>>
      <4>1. \A j \in 1..(1 - 1) : r[j].line # "data"
        OBVIOUS
      <4>2. r[1].line # "comment"
        BY <3>4
      <4>. QED  BY <3>1, <3>4, <4>1, <4>2, ParseFrameFacts
    <3>. QED  BY <1>2, <2>1, <3>2, <3>4
  <2>. QED  BY <2>2, <2>3
<1>5. CASE a # Heartbeat /\ reader # "nim"
  <2>1. f[1] = EventLine(a) /\ f[2] = NL /\ f[3] = DataLine(a) /\ Len(f) = 5 /\ EventOf(a) = <<a>>
    BY <1>5, FrameShape DEF EventOf
  <2>4. f[1].line = "event" /\ f[2].line = "end" /\ f[3].line = "data" /\ f[3].of = a
    BY <2>1, MarkFacts
  <2>2. CASE k < 3
    <3>1. \A i \in 1..Len(r) : r[i].line # "data"
      <4>1. \A i \in 1..Len(r) : i = 1 \/ i = 2
        BY <1>2, <2>2
      <4>2. \A i \in 1..Len(r) : r[i] = f[i]
        BY <1>2
      <4>. QED  BY <2>4, <4>1, <4>2
    <3>2. ParseFrame(r) = << >>
      BY <3>1, ParseFrameFacts
    <3>. QED  BY <1>2, <2>1, <2>2, <3>2
  <2>3. CASE k >= 3
    <3>1. 3 \in 1..Len(r) /\ r[3] = f[3] /\ r[2] = f[2] /\ r[1] = f[1]
      BY <1>2, <2>1, <2>3
    <3>2. \A j \in 1..(3 - 1) : r[j].line # "data"
      <4>1. \A j \in 1..(3 - 1) : j = 1 \/ j = 2
        OBVIOUS
      <4>. QED  BY <2>4, <3>1, <4>1
    <3>3. r[3].line = "data" /\ r[1].line # "comment"
      BY <2>4, <3>1
    <3>4. ParseFrame(r) = <<r[3].of>>
      BY <3>1, <3>2, <3>3, ParseFrameFacts
    <3>. QED  BY <1>2, <2>1, <2>4, <3>1, <3>4
  <2>. QED  BY <2>2, <2>3
<1>. QED  BY <1>3, <1>4, <1>5

-----------------------------------------------------------------------------
\* The bodies a server writes, each with the events in it.
Writings == Bodies \X Seq(Events)
Longer(a, w) == <<Frame(a) \o w[1], EventOf(a) \o w[2]>>
Grown(T) == <<<< >>, << >>>> \in T /\ \A a \in WrittenEvents : \A w \in T : Longer(a, w) \in T
Streams == {w \in Writings : \A T \in SUBSET Writings : Grown(T) => w \in T}

LEMMA LongerFacts ==
    ASSUME NEW a \in WrittenEvents, NEW b \in Bodies, NEW s \in Seq(Events)
    PROVE  /\ Longer(a, <<b, s>>) \in Writings
           /\ Longer(a, <<b, s>>) = <<Frame(a) \o b, EventOf(a) \o s>>
           /\ Frame(a) \in Bodies /\ Frame(a) \o b \in Bodies
           /\ EventOf(a) \in Seq(Events) /\ EventOf(a) \o s \in Seq(Events)
<1>1. Frame(a) \in Bodies
  BY FrameShape
<1>2. Frame(a) \o b \in Bodies
  BY <1>1, BodyCat
<1>3. EventOf(a) \in Seq(Events)
  BY WrittenFacts
<1>4. EventOf(a) \o s \in Seq(Events)
  BY <1>3
<1>5. Longer(a, <<b, s>>) = <<Frame(a) \o b, EventOf(a) \o s>>
  BY DEF Longer
<1>6. <<Frame(a) \o b, EventOf(a) \o s>> \in Writings
  BY <1>2, <1>4 DEF Writings
<1>. QED  BY <1>1, <1>2, <1>3, <1>4, <1>5, <1>6

LEMMA StreamsGrow ==
    /\ Streams \subseteq Writings /\ <<<< >>, << >>>> \in Streams
    /\ \A a \in WrittenEvents : \A w \in Streams : Longer(a, w) \in Streams
<1>1. <<<< >>, << >>>> \in Writings
  <2>1. << >> \in Bodies /\ << >> \in Seq(Events)
    BY NoBody
  <2>. QED  BY <2>1 DEF Writings
<1>2. ASSUME NEW a \in WrittenEvents, NEW w \in Streams PROVE Longer(a, w) \in Streams
  <2>1. PICK b \in Bodies, s \in Seq(Events) : w = <<b, s>>
    BY DEF Streams, Writings
  <2>2. Longer(a, w) \in Writings
    BY <2>1, LongerFacts
  <2>3. \A T \in SUBSET Writings : Grown(T) => Longer(a, w) \in T
    BY DEF Streams, Grown
  <2>. QED  BY <2>2, <2>3 DEF Streams
<1>. QED  BY <1>1, <1>2 DEF Streams, Grown

LEMMA StreamsInduct ==
    ASSUME NEW G, <<<< >>, << >>>> \in G,
           \A a \in WrittenEvents : \A w \in Streams : w \in G => Longer(a, w) \in G
    PROVE  Streams \subseteq G
<1>1. PICK T : T = Streams \cap G
  OBVIOUS
<1>2. T \in SUBSET Writings
  BY <1>1, StreamsGrow
<1>3. Grown(T)
  BY <1>1, StreamsGrow DEF Grown
<1>. QED  BY <1>1, <1>2, <1>3 DEF Streams

LEMMA StreamParts ==
    ASSUME NEW w \in Streams
    PROVE  w[1] \in Bodies /\ w[2] \in Seq(Events) /\ w = <<w[1], w[2]>>
  BY StreamsGrow DEF Writings

\* One event more: its frame comes last.
LEMMA StreamsAppend ==
    ASSUME NEW e \in WrittenEvents, NEW b, NEW s, <<b, s>> \in Streams
    PROVE  <<b \o Frame(e), s \o EventOf(e)>> \in Streams
<1>1. PICK G : G = {w \in Streams : <<w[1] \o Frame(e), w[2] \o EventOf(e)>> \in Streams}
  OBVIOUS
<1>2. Frame(e) \in Bodies /\ EventOf(e) \in Seq(Events)
  BY FrameShape, WrittenFacts
<1>3. <<<< >>, << >>>> \in G
  <2>1. Longer(e, <<<< >>, << >>>>) = <<Frame(e) \o << >>, EventOf(e) \o << >>>>
    BY DEF Longer
  <2>2. /\ Frame(e) \o << >> = Frame(e) /\ << >> \o Frame(e) = Frame(e)
    BY <1>2, BodyCat, NoBody
  <2>3. EventOf(e) \o << >> = EventOf(e) /\ << >> \o EventOf(e) = EventOf(e)
    BY <1>2, CatEmpty
  <2>4. <<<< >> \o Frame(e), << >> \o EventOf(e)>> \in Streams
    BY <2>1, <2>2, <2>3, StreamsGrow
  <2>. QED  BY <1>1, <2>4, StreamsGrow
<1>4. ASSUME NEW a \in WrittenEvents, NEW w \in Streams, w \in G PROVE Longer(a, w) \in G
  <2>1. PICK c \in Bodies, t \in Seq(Events) : w = <<c, t>>
    BY StreamParts
  <2>2. <<c \o Frame(e), t \o EventOf(e)>> \in Streams
    BY <1>1, <1>4, <2>1
  <2>3. Longer(a, <<c \o Frame(e), t \o EventOf(e)>>) \in Streams
    BY <2>2, StreamsGrow
  <2>4. Frame(a) \in Bodies /\ EventOf(a) \in Seq(Events)
    BY FrameShape, WrittenFacts
  <2>5. (Frame(a) \o c) \o Frame(e) = Frame(a) \o (c \o Frame(e))
    BY <1>2, <2>4, BodyAssoc
  <2>6. (EventOf(a) \o t) \o EventOf(e) = EventOf(a) \o (t \o EventOf(e))
    BY <1>2, <2>4, Assoc
  <2>7. Longer(a, w) = <<Frame(a) \o c, EventOf(a) \o t>> /\ Longer(a, w) \in Streams
    BY <2>1, StreamsGrow DEF Longer
  <2>8. <<(Frame(a) \o c) \o Frame(e), (EventOf(a) \o t) \o EventOf(e)>> \in Streams
    BY <2>3, <2>5, <2>6 DEF Longer
  <2>9. PICK v \in Streams : v = Longer(a, w)
    BY <2>7
  <2>11. v[1] = Frame(a) \o c /\ v[2] = EventOf(a) \o t
    BY <2>7, <2>9
  <2>10. <<v[1] \o Frame(e), v[2] \o EventOf(e)>> \in Streams
    BY <2>8, <2>11
  <2>. QED  BY <1>1, <2>9, <2>10, <2>11
<1>5. Streams \subseteq G
  BY <1>3, <1>4, StreamsInduct
<1>. QED  BY <1>1, <1>5

\* A stream is empty or begins with a frame.
NextFrame(b, s) ==
    \E a \in WrittenEvents : \E c \in Bodies : \E t \in Seq(Events) :
       <<c, t>> \in Streams /\ b = Frame(a) \o c /\ s = EventOf(a) \o t

LEMMA StreamsBegin ==
    ASSUME NEW b, NEW s, <<b, s>> \in Streams
    PROVE  (b = << >> /\ s = << >>) \/ NextFrame(b, s)
<1>1. PICK G : G = {w \in Streams :
           \/ w[1] = << >> /\ w[2] = << >>
           \/ \E a \in WrittenEvents : \E c \in Bodies : \E t \in Seq(Events) :
                 <<c, t>> \in Streams /\ w[1] = Frame(a) \o c /\ w[2] = EventOf(a) \o t}
  OBVIOUS
<1>2. <<<< >>, << >>>> \in G
  BY <1>1, StreamsGrow
<1>3. ASSUME NEW a \in WrittenEvents, NEW w \in Streams, w \in G PROVE Longer(a, w) \in G
  <2>1. PICK c \in Bodies, t \in Seq(Events) : w = <<c, t>>
    BY StreamParts
  <2>2. Longer(a, w) = <<Frame(a) \o c, EventOf(a) \o t>> /\ Longer(a, w) \in Streams
    BY <2>1, StreamsGrow DEF Longer
  <2>3. PICK v \in Streams : v = Longer(a, w)
    BY <2>2
  <2>4. v[1] = Frame(a) \o c /\ v[2] = EventOf(a) \o t
    BY <2>2, <2>3
  <2>. QED  BY <1>1, <2>1, <2>3, <2>4
<1>4. Streams \subseteq G
  BY <1>2, <1>3, StreamsInduct
<1>5. PICK w \in Streams : w = <<b, s>> /\ w[1] = b /\ w[2] = s
  OBVIOUS
<1>. QED  BY <1>1, <1>4, <1>5 DEF NextFrame

LEMMA EmptyBody == ASSUME NEW x \in Bodies, Len(x) = 0 PROVE x = << >>
  BY DEF Bodies

\* Two ways to divide a text.
Between(a, b, c, d) == \E e \in Bodies : a = c \o e /\ e \o b = d

LEMMA OverlapLong ==
    ASSUME NEW a \in Bodies, NEW b \in Bodies, NEW c \in Bodies, NEW d \in Bodies,
           a \o b = c \o d, Len(c) <= Len(a)
    PROVE  Between(a, b, c, d)
<1>1. PICK la \in Nat : la = Len(a)
  BY BodyParts
<1>2. PICK lc \in Nat : lc = Len(c) /\ lc <= la
  BY <1>1, BodyParts
<1>3. PICK e \in Bodies : e = TextAfter(a, lc + 1)
  BY <1>1, <1>2, BodyParts
<1>4. lc \in 0..Len(a) /\ lc + 1 \in 1..(Len(a) + 1) /\ lc \in 0..Len(c) /\ 1 \in 1..(Len(d) + 1)
  <2>1. Len(d) \in Nat
    BY BodyParts
  <2>. QED  BY <1>1, <1>2, <2>1
<1>5. SubSeq(a, 1, lc) \o e = a
  BY <1>3, <1>4, BodyHalves
<1>6. SubSeq(a \o b, 1, lc) = SubSeq(a, 1, lc) /\ SubSeq(c \o d, 1, lc) = SubSeq(c, 1, lc)
  BY <1>4, BodyHead
<1>7. SubSeq(c, 1, lc) = c
  BY <1>2 DEF Bodies
<1>8. a = c \o e
  BY <1>5, <1>6, <1>7
<1>9. TextAfter(a \o b, lc + 1) = e \o b
  BY <1>3, <1>4, BodyCut
<1>10. TextAfter(c \o d, lc + 1) = TextAfter(d, 1)
  BY <1>2, <1>4, BodyCutPast
<1>11. TextAfter(d, 1) = d
  BY DEF Bodies, TextAfter
<1>. QED  BY <1>8, <1>9, <1>10, <1>11 DEF Between

LEMMA OverlapShort ==
    ASSUME NEW a \in Bodies, NEW b \in Bodies, NEW c \in Bodies, NEW d \in Bodies,
           a \o b = c \o d, Len(a) <= Len(c)
    PROVE  a = SubSeq(c, 1, Len(a))
<1>1. PICK la \in Nat : la = Len(a)
  BY BodyParts
<1>2. PICK lc \in Nat : lc = Len(c) /\ la <= lc
  BY <1>1, BodyParts
<1>3. la \in 0..Len(a) /\ la \in 0..Len(c)
  BY <1>1, <1>2
<1>4. SubSeq(a \o b, 1, la) = SubSeq(a, 1, la) /\ SubSeq(c \o d, 1, la) = SubSeq(c, 1, la)
  BY <1>3, BodyHead
<1>5. SubSeq(a, 1, la) = a
  BY <1>1 DEF Bodies
<1>. QED  BY <1>1, <1>4, <1>5

\* The beginning of a frame that has not come as a whole.
Partial(x) == x = << >> \/ \E a \in WrittenEvents : \E k \in 1..(Len(Frame(a)) - 1) : x = SubSeq(Frame(a), 1, k)

LEMMA PartialFacts ==
    ASSUME NEW a \in WrittenEvents, NEW k \in 1..(Len(Frame(a)) - 1), NEW x, x = SubSeq(Frame(a), 1, k)
    PROVE  /\ x \in Bodies /\ Len(x) = k /\ k \in Nat /\ k # 0 /\ k < Len(Frame(a))
           /\ \A i \in 1..k : x[i] = Frame(a)[i]
<1>1. PICK f \in Bodies : f = Frame(a)
  BY FrameShape
<1>2. Len(f) \in Nat /\ k \in 0..Len(f)
  BY <1>1, BodyParts
<1>3. x \in Bodies /\ Len(x) = k
  BY <1>1, <1>2, BodyParts
<1>4. \A i \in 1..k : x[i] = f[i]
  BY <1>1, <1>2 DEF Bodies
<1>. QED  BY <1>1, <1>2, <1>3, <1>4

\* The first line of a frame says which it is.
LEMMA FramesDiffer ==
    ASSUME NEW a \in WrittenEvents, NEW b \in WrittenEvents, Frame(a)[1] = Frame(b)[1]
    PROVE  a = b
<1>1. \A w \in WrittenEvents :
        \/ w = Heartbeat /\ Frame(w)[1] = Comment
        \/ w # Heartbeat /\ reader = "nim" /\ Frame(w)[1] = DataLine(w)
        \/ w # Heartbeat /\ reader # "nim" /\ Frame(w)[1] = EventLine(w)
  BY FrameShape
<1>2. \A w \in WrittenEvents : w # Heartbeat => Frame(w)[1].of = w /\ Frame(w)[1] # Comment
  BY <1>1, MarkFacts
<1>3. Frame(Heartbeat)[1] = Comment
  BY FrameShape, WrittenFacts
<1>. QED  BY <1>2, <1>3

\* What has come of a frame is the beginning of the next one.
CutFrame(x, y, s) ==
    \E a \in WrittenEvents : \E c \in Bodies : \E t \in Seq(Events) :
       /\ <<c, t>> \in Streams /\ x \o y = Frame(a) \o c /\ s = EventOf(a) \o t
       /\ Len(x) \in 1..(Len(Frame(a)) - 1) /\ x = SubSeq(Frame(a), 1, Len(x))

LEMMA PartialNext ==
    ASSUME NEW x, Partial(x), x # << >>, NEW y \in Bodies, NEW s, <<x \o y, s>> \in Streams
    PROVE  x \in Bodies /\ Len(x) \in Nat /\ CutFrame(x, y, s)
<1>1. PICK b \in WrittenEvents : \E j \in 1..(Len(Frame(b)) - 1) : x = SubSeq(Frame(b), 1, j)
  BY DEF Partial
<1>2. PICK k \in 1..(Len(Frame(b)) - 1) : x = SubSeq(Frame(b), 1, k)
  BY <1>1
<1>3. /\ x \in Bodies /\ Len(x) = k /\ k \in Nat /\ k # 0 /\ 1 \in 1..Len(x)
      /\ x[1] = Frame(b)[1]
  <2>1. /\ x \in Bodies /\ Len(x) = k /\ k \in Nat /\ k # 0
        /\ \A i \in 1..k : x[i] = Frame(b)[i]
    BY <1>2, PartialFacts
  <2>2. 1 \in 1..k
    BY <2>1
  <2>. QED  BY <2>1, <2>2
<1>4. x \o y # << >> /\ (x \o y)[1] = x[1]
  <2>1. Len(x \o y) = Len(x) + Len(y) /\ Len(y) \in Nat
    BY <1>3, BodyCat, BodyParts
  <2>2. Len(x \o y) # 0
    BY <1>3, <2>1
  <2>. QED  BY <1>3, <2>2, NoBody, BodyCat
<1>5. PICK a \in WrittenEvents, c \in Bodies, t \in Seq(Events) :
          <<c, t>> \in Streams /\ x \o y = Frame(a) \o c /\ s = EventOf(a) \o t
  <2>1. NextFrame(x \o y, s)
    BY <1>4, StreamsBegin
  <2>. QED  BY <2>1 DEF NextFrame
<1>6. Frame(a) \in Bodies /\ Len(Frame(a)) \in Nat /\ Len(Frame(a)) >= 3 /\ c \in Bodies
  BY <1>5, FrameShape, StreamParts
<1>7. (Frame(a) \o c)[1] = Frame(a)[1]
  <2>1. 1 \in 1..Len(Frame(a))
    BY <1>6
  <2>. QED  BY <1>6, <2>1, BodyCat
<1>8. a = b
  BY <1>3, <1>4, <1>5, <1>7, FramesDiffer
<1>. QED  BY <1>2, <1>3, <1>5, <1>8 DEF CutFrame

\* Nothing more comes: then there was no beginning of a frame, and no event.
LEMMA NothingLeft ==
    ASSUME NEW x, Partial(x), NEW s, <<x, s>> \in Streams
    PROVE  x = << >> /\ s = << >>
<1>1. x \in Bodies /\ x \o << >> = x /\ << >> \in Bodies
  BY StreamParts, BodyCat, NoBody
<1>2. ASSUME x # << >> PROVE FALSE
  <2>1. <<x \o << >>, s>> \in Streams
    BY <1>1
  <2>2. PICK a \in WrittenEvents, c \in Bodies, t \in Seq(Events) :
          /\ <<c, t>> \in Streams /\ x \o << >> = Frame(a) \o c
          /\ Len(x) \in 1..(Len(Frame(a)) - 1)
    <3>1. CutFrame(x, << >>, s)
      BY <1>1, <1>2, <2>1, PartialNext
    <3>. QED  BY <3>1 DEF CutFrame
  <2>3. Frame(a) \in Bodies /\ c \in Bodies /\ Len(Frame(a)) \in Nat /\ Len(c) \in Nat
    BY <2>2, StreamParts, FrameShape, BodyParts
  <2>4. Len(x) = Len(Frame(a)) + Len(c)
    BY <1>1, <2>2, <2>3, BodyCat
  <2>. QED  BY <2>2, <2>3, <2>4
<1>3. << >> = << >> /\ x = << >> => s = << >>
  <2>1. ASSUME x = << >>, s # << >> PROVE FALSE
    <3>1. PICK a \in WrittenEvents, c \in Bodies, t \in Seq(Events) : <<c, t>> \in Streams /\ << >> = Frame(a) \o c
      <4>1. NextFrame(<< >>, s)
        BY <2>1, StreamsBegin
      <4>. QED  BY <4>1 DEF NextFrame
    <3>2. Frame(a) \in Bodies /\ c \in Bodies /\ Len(Frame(a)) \in Nat /\ Len(c) \in Nat
             /\ Len(Frame(a)) >= 3
      BY <3>1, StreamParts, FrameShape, BodyParts
    <3>3. 0 = Len(Frame(a)) + Len(c)
      BY <3>1, <3>2, BodyCat, NoBody
    <3>. QED  BY <3>2, <3>3
  <2>. QED  BY <2>1
<1>. QED  BY <1>2, <1>3

-----------------------------------------------------------------------------
\* parseSseFrames, one frame of it: f does the rest.
Parts == [events : Seq(Events), buf : Bodies]
SplitBody(buf, f) ==
    LET i == FrameEnd(buf)
        rest == f[TextAfter(buf, i + 2)]
    IN  IF i = 0 THEN [events |-> << >>, buf |-> buf]
        ELSE [events |-> ParseFrame(SubSeq(buf, 1, i - 1)) \o rest.events, buf |-> rest.buf]

LEMMA FrameEndFacts ==
    ASSUME NEW buf \in Bodies, NEW i, i = FrameEnd(buf)
    PROVE  /\ i \in Nat
           /\ i # 0 => /\ i + 1 <= Len(buf) /\ buf[i] = NL /\ buf[i + 1] = NL
                       /\ \A j \in 1..(i - 1) : ~(buf[j] = NL /\ buf[j + 1] = NL)
           /\ i = 0 => \A j \in 1..(Len(buf) - 1) : ~(buf[j] = NL /\ buf[j + 1] = NL)
<1>1. PICK l \in Nat : l = Len(buf)
  BY BodyParts
<1>2. PICK D : D = BodyEnds(buf)
  OBVIOUS
<1>3. D = {j \in 1..(l - 1) : buf[j] = NL /\ buf[j + 1] = NL} /\ D \subseteq Nat
  BY <1>1, <1>2 DEF BodyEnds
<1>4. i = IF D = {} THEN 0 ELSE FirstAt(D)
  BY <1>2 DEF FrameEnd
<1>5. CASE D = {}
  <2>1. i = 0
    BY <1>4, <1>5
  <2>. QED  BY <1>1, <1>3, <1>5, <2>1
<1>6. CASE D # {}
  <2>1. i \in D /\ \A j \in D : i <= j
    BY <1>3, <1>4, <1>6, FirstAtFacts
  <2>2. i \in 1..(l - 1) /\ buf[i] = NL /\ buf[i + 1] = NL
    BY <1>3, <2>1
  <2>3. ASSUME NEW j \in 1..(i - 1) PROVE ~(buf[j] = NL /\ buf[j + 1] = NL)
    <3>1. j \in 1..(l - 1) /\ ~(i <= j)
      BY <2>2
    <3>. QED  BY <1>3, <2>1, <3>1
  <2>. QED  BY <1>1, <2>2, <2>3
<1>. QED  BY <1>5, <1>6

LEMMA SplitBodyType ==
    ASSUME NEW s \in Bodies, NEW f, \A t \in Bodies : Len(t) < Len(s) => f[t] \in Parts
    PROVE  /\ SplitBody(s, f) \in Parts
           /\ \A g : (\A t \in Bodies : Len(t) < Len(s) => f[t] = g[t])
                        => SplitBody(s, f) = SplitBody(s, g)
<1>1. PICK i : i = FrameEnd(s)
  OBVIOUS
<1>2. PICK l \in Nat : l = Len(s)
  BY BodyParts
<1>3. \A h : SplitBody(s, h) =
        IF i = 0 THEN [events |-> << >>, buf |-> s]
        ELSE [events |-> ParseFrame(SubSeq(s, 1, i - 1)) \o h[TextAfter(s, i + 2)].events,
              buf |-> h[TextAfter(s, i + 2)].buf]
  BY <1>1 DEF SplitBody
<1>4. CASE i = 0
  <2>1. \A h : SplitBody(s, h) = [events |-> << >>, buf |-> s]
    BY <1>3, <1>4
  <2>2. [events |-> << >>, buf |-> s] \in Parts
    BY DEF Parts
  <2>. QED  BY <2>1, <2>2
<1>5. CASE i # 0
  <2>1. i \in Nat /\ i + 1 <= l
    BY <1>1, <1>2, <1>5, FrameEndFacts
  <2>2. i + 2 \in 1..(Len(s) + 1) /\ i - 1 \in 0..Len(s) /\ l + 1 - (i + 2) < l
    BY <1>2, <1>5, <2>1
  <2>3. PICK t \in Bodies : t = TextAfter(s, i + 2) /\ Len(t) < Len(s)
    BY <1>2, <2>2, BodyParts
  <2>4. PICK e \in Seq(Events) : e = ParseFrame(SubSeq(s, 1, i - 1))
    <3>1. SubSeq(s, 1, i - 1) \in Bodies
      BY <2>2, BodyParts
    <3>. QED  BY <3>1, ParseFrameFacts
  <2>5. \A h : SplitBody(s, h) = [events |-> e \o h[t].events, buf |-> h[t].buf]
    BY <1>3, <1>5, <2>3, <2>4
  <2>6. f[t] \in Parts
    BY <2>3
  <2>7. f[t].events \in Seq(Events) /\ f[t].buf \in Bodies
    BY <2>6 DEF Parts
  <2>8. e \o f[t].events \in Seq(Events)
    BY <2>7
  <2>9. [events |-> e \o f[t].events, buf |-> f[t].buf] \in Parts
    BY <2>7, <2>8 DEF Parts
  <2>10. SplitBody(s, f) \in Parts
    BY <2>5, <2>9
  <2>11. ASSUME NEW g, \A u \in Bodies : Len(u) < Len(s) => f[u] = g[u]
         PROVE  SplitBody(s, f) = SplitBody(s, g)
    <3>1. f[t] = g[t]
      BY <2>3, <2>11
    <3>. QED  BY <2>5, <3>1
  <2>. QED  BY <2>10, <2>11
<1>. QED  BY <1>4, <1>5

LEMMA SplitDef ==
    /\ SplitFrames \in [Bodies -> Parts]
    /\ \A s \in Bodies : SplitFrames[s] = SplitBody(s, SplitFrames)
<1>1. PICK B : B = [p \in Bodies \X [Bodies -> Parts] |-> SplitBody(p[1], p[2])]
  OBVIOUS
<1>2. \A s \in Bodies : \A f \in [Bodies -> Parts] :
          B[<<s, f>>] = SplitBody(s, f) /\ SplitBody(s, f) \in Parts
  <2>1. \A s \in Bodies : \A f \in [Bodies -> Parts] : B[<<s, f>>] = SplitBody(s, f)
    BY <1>1
  <2>. QED  BY <2>1, SplitBodyType
<1>3. B \in [Bodies \X [Bodies -> Parts] -> Parts]
  BY <1>1, <1>2
<1>4. PICK m \in [Bodies -> Nat] : \A s \in Bodies : m[s] = Len(s)
  <2>1. [s \in Bodies |-> Len(s)] \in [Bodies -> Nat]
    BY BodyParts
  <2>. QED  BY <2>1
<1>5. ASSUME NEW s \in Bodies, NEW f \in [Bodies -> Parts], NEW g \in [Bodies -> Parts],
             \A t \in Bodies : m[t] < m[s] => f[t] = g[t]
      PROVE  B[<<s, f>>] = B[<<s, g>>]
  <2>1. \A t \in Bodies : Len(t) < Len(s) => f[t] = g[t] /\ f[t] \in Parts
    BY <1>4, <1>5
  <2>2. SplitBody(s, f) = SplitBody(s, g)
    BY <2>1, SplitBodyType
  <2>. QED  BY <1>2, <2>2
<1>6. Parts # {}
  <2>1. [events |-> << >>, buf |-> << >>] \in Parts
    BY NoBody DEF Parts
  <2>. QED  BY <2>1
<1>7. PICK f \in [Bodies -> Parts] : \A s \in Bodies : f[s] = B[<<s, f>>]
  <2>1. \A s \in Bodies : \A f, g \in [Bodies -> Parts] :
          (\A t \in Bodies : m[t] < m[s] => f[t] = g[t]) => B[<<s, f>>] = B[<<s, g>>]
    BY <1>5
  <2>2. Descends(Bodies, Parts, m, B)
    BY <1>3, <1>4, <1>6, <2>1, Zenon DEF Descends
  <2>. QED  BY <2>2, Recursion DEF Solution
<1>8. f = [s \in Bodies |-> SplitBody(s, f)]
  BY <1>2, <1>7
<1>9. SplitFrames = CHOOSE C : C = [s \in Bodies |-> SplitBody(s, C)]
  BY Zenon DEF SplitFrames, SplitBody
<1>10. SplitFrames = [s \in Bodies |-> SplitBody(s, SplitFrames)]
  BY <1>8, <1>9, Zenon
<1>11. \A s \in Bodies : SplitFrames[s] = SplitBody(s, SplitFrames)
  BY <1>10, Zenon
<1>12. PICK G : G = {s \in Bodies : SplitFrames[s] \in Parts}
  OBVIOUS
<1>13. ASSUME NEW s \in Bodies, \A t \in Bodies : m[t] < m[s] => t \in G
       PROVE  s \in G
  <2>1. \A t \in Bodies : Len(t) < Len(s) => SplitFrames[t] \in Parts
    BY <1>4, <1>12, <1>13
  <2>2. SplitFrames[s] \in Parts
    BY <1>11, <2>1, SplitBodyType
  <2>. QED  BY <1>12, <2>2
<1>14. Bodies \subseteq G
  BY <1>13, Descent
<1>15. SplitFrames \in [Bodies -> Parts]
  <2>1. SplitFrames = [s \in Bodies |-> SplitFrames[s]]
    BY <1>10
  <2>. QED  BY <1>12, <1>14, <2>1
<1>. QED  BY <1>11, <1>15

-----------------------------------------------------------------------------
\* What a reader has yielded and what it keeps, x, when y is still to come.
Start(x) == [buf |-> x, event |-> FALSE, data |-> << >>]
Kept(x, y, s, e, r) ==
    /\ x \in Bodies /\ Partial(x) /\ e \in Seq(Events) /\ r \in Seq(Events)
    /\ s = e \o r /\ <<x \o y, r>> \in Streams

LEMMA PartialKept ==
    ASSUME NEW x \in Bodies, Partial(x), NEW y, NEW s \in Seq(Events), <<x \o y, s>> \in Streams
    PROVE  Kept(x, y, s, << >>, s)
<1>1. << >> \in Seq(Events) /\ << >> \o s = s
  BY CatEmpty
<1>. QED  BY <1>1 DEF Kept

\* A frame more, before the others.
LEMMA KeptMore ==
    ASSUME NEW a \in WrittenEvents, NEW x, NEW y, NEW s, NEW e, NEW r, Kept(x, y, s, e, r)
    PROVE  Kept(x, y, EventOf(a) \o s, EventOf(a) \o e, r)
<1>1. EventOf(a) \in Seq(Events)
  BY WrittenFacts
<1>2. e \in Seq(Events) /\ r \in Seq(Events) /\ s = e \o r
  BY DEF Kept
<1>3. EventOf(a) \o e \in Seq(Events)
  BY <1>1, <1>2
<1>4. (EventOf(a) \o e) \o r = EventOf(a) \o (e \o r)
  BY <1>1, <1>2, Assoc
<1>. QED  BY <1>2, <1>3, <1>4 DEF Kept

\* What has come of a stream is the beginning of a frame, or a whole frame first.
LEMMA Comes ==
    ASSUME NEW a \in WrittenEvents, NEW c \in Bodies, NEW x \in Bodies, NEW y \in Bodies,
           x \o y = Frame(a) \o c
    PROVE  Partial(x) \/ Between(x, y, Frame(a), c)
<1>1. PICK f \in Bodies : f = Frame(a)
  BY FrameShape
<1>2. PICK k \in Nat, n \in Nat : k = Len(x) /\ n = Len(f)
  BY BodyParts
<1>5. x \o y = f \o c
  BY <1>1
<1>3. n <= k => Between(x, y, f, c)
  BY <1>2, <1>5, OverlapLong
<1>4. ASSUME k < n PROVE Partial(x)
  <2>1. x = SubSeq(f, 1, k)
    <3>1. Len(x) <= Len(f) /\ k = Len(x)
      BY <1>2, <1>4
    <3>. QED  BY <1>5, <3>1, OverlapShort
  <2>2. CASE k = 0
    <3>1. x = << >>
      BY <1>2, <2>2, EmptyBody
    <3>. QED  BY <3>1 DEF Partial
  <2>3. CASE k # 0
    <3>1. k \in 1..(Len(Frame(a)) - 1)
      BY <1>1, <1>2, <1>4, <2>3
    <3>. QED  BY <1>1, <2>1, <3>1 DEF Partial
  <2>. QED  BY <2>2, <2>3
<1>6. n <= k \/ k < n
  BY <1>2
<1>. QED  BY <1>1, <1>3, <1>4, <1>6

\* parseSseFrames on the beginning of a frame, and on a frame.
LEMMA SplitPartial ==
    ASSUME NEW x \in Bodies, Partial(x)
    PROVE  SplitFrames[x] = [events |-> << >>, buf |-> x]
<1>1. FrameEnd(x) = 0
  <2>1. PICK i : i = FrameEnd(x)
    OBVIOUS
  <2>2. SUFFICES ASSUME i # 0 PROVE FALSE
    BY <2>1
  <2>3. i \in Nat /\ i + 1 <= Len(x) /\ x[i] = NL /\ x[i + 1] = NL
    BY <2>1, <2>2, FrameEndFacts
  <2>4. x # << >>
    BY <2>2, <2>3, NoBody
  <2>5. PICK a \in WrittenEvents : \E k \in 1..(Len(Frame(a)) - 1) : x = SubSeq(Frame(a), 1, k)
    BY <2>4 DEF Partial
  <2>6. PICK k \in 1..(Len(Frame(a)) - 1) : x = SubSeq(Frame(a), 1, k)
    BY <2>5
  <2>7. PICK n \in Nat : n = Len(Frame(a)) /\ n >= 3
    BY FrameShape
  <2>8. k < n /\ k \in Nat /\ Len(x) = k /\ \A j \in 1..k : x[j] = Frame(a)[j]
    BY <2>6, <2>7, PartialFacts
  <2>9. i \in 1..k /\ i + 1 \in 1..k /\ i \in 1..(n - 2)
    BY <2>2, <2>3, <2>7, <2>8
  <2>10. Frame(a)[i] = NL /\ Frame(a)[i + 1] = NL
    BY <2>3, <2>8, <2>9
  <2>11. ~(Frame(a)[i] = NL /\ Frame(a)[i + 1] = NL)
    BY <2>7, <2>9, FrameShape
  <2>. QED  BY <2>10, <2>11
<1>. QED  BY <1>1, SplitDef DEF SplitBody

LEMMA SplitWhole ==
    ASSUME NEW a \in WrittenEvents, NEW z \in Bodies
    PROVE  SplitFrames[Frame(a) \o z] =
             [events |-> EventOf(a) \o SplitFrames[z].events, buf |-> SplitFrames[z].buf]
<1>1. PICK f \in Bodies : f = Frame(a)
  BY FrameShape
<1>2. PICK n \in Nat : n = Len(f) /\ n >= 3
  BY <1>1, FrameShape
<1>3. /\ f[n - 1] = NL /\ f[n] = NL /\ \A i \in 1..(n - 2) : ~(f[i] = NL /\ f[i + 1] = NL)
  BY <1>1, <1>2, FrameShape
<1>4. PICK b \in Bodies : b = f \o z
  BY BodyCat
<1>5. /\ Len(b) = n + Len(z) /\ Len(z) \in Nat /\ \A i \in 1..n : b[i] = f[i]
  BY <1>2, <1>4, BodyCat, BodyParts
<1>6. FrameEnd(b) = n - 1
  <2>1. PICK i : i = FrameEnd(b)
    OBVIOUS
  <2>2. i \in Nat
    BY <2>1, FrameEndFacts
  <2>3. b[n - 1] = NL /\ b[n - 1 + 1] = NL /\ n - 1 \in 1..(Len(b) - 1)
    <3>1. n - 1 \in 1..n /\ n \in 1..n /\ n - 1 + 1 = n
      BY <1>2
    <3>. QED  BY <1>2, <1>3, <1>5, <3>1
  <2>4. i # 0
    BY <2>1, <2>3, FrameEndFacts
  <2>5. ~(n - 1 \in 1..(i - 1))
    BY <2>1, <2>3, <2>4, FrameEndFacts
  <2>6. i <= n - 1
    BY <1>2, <2>2, <2>5
  <2>7. b[i] = NL /\ b[i + 1] = NL
    BY <2>1, <2>4, FrameEndFacts
  <2>8. ~(i \in 1..(n - 2))
    <3>1. ASSUME i \in 1..(n - 2) PROVE FALSE
      <4>1. i \in 1..n /\ i + 1 \in 1..n
        BY <1>2, <3>1
      <4>2. f[i] = NL /\ f[i + 1] = NL
        BY <1>5, <2>7, <4>1
      <4>. QED  BY <1>3, <3>1, <4>2
    <3>. QED  BY <3>1
  <2>. QED  BY <1>2, <2>1, <2>2, <2>4, <2>6, <2>8
<1>7. SubSeq(b, 1, (n - 1) - 1) = SubSeq(f, 1, n - 2)
  <2>1. n - 2 \in 0..Len(f) /\ (n - 1) - 1 = n - 2
    BY <1>2
  <2>. QED  BY <1>4, <2>1, BodyHead
<1>8. TextAfter(b, (n - 1) + 2) = z
  <2>1. 1 \in 1..(Len(z) + 1) /\ (n - 1) + 2 = Len(f) + 1
    BY <1>2, <1>5
  <2>2. TextAfter(b, Len(f) + 1) = TextAfter(z, 1)
    BY <1>4, <2>1, BodyCutPast
  <2>3. TextAfter(z, 1) = z
    BY DEF Bodies, TextAfter
  <2>. QED  BY <2>1, <2>2, <2>3
<1>9. ParseFrame(SubSeq(f, 1, n - 2)) = EventOf(a)
  <2>1. n - 2 \in 0..(Len(f) - 1)
    BY <1>2
  <2>. QED  BY <1>1, <1>2, <2>1, FrameParsed
<1>10. n - 1 # 0
  BY <1>2
<1>11. SplitFrames[b] = SplitBody(b, SplitFrames)
  BY SplitDef
<1>. QED  BY <1>1, <1>4, <1>6, <1>7, <1>8, <1>9, <1>10, <1>11 DEF SplitBody

\* Whatever has come of a stream, parseSseFrames takes the whole frames from it.
SplitsWell(x, y, s) ==
    \E r \in Seq(Events) : Kept(SplitFrames[x].buf, y, s, SplitFrames[x].events, r)

LEMMA SplitStreams ==
    ASSUME NEW x \in Bodies, NEW y \in Bodies, NEW s \in Seq(Events), <<x \o y, s>> \in Streams
    PROVE  SplitsWell(x, y, s)
<1>1. PICK G : G = {w \in Streams : \A u \in Bodies : u \o y = w[1] => SplitsWell(u, y, w[2])}
  OBVIOUS
<1>2. ASSUME NEW u \in Bodies, NEW t \in Seq(Events), Partial(u), <<u \o y, t>> \in Streams
      PROVE  SplitsWell(u, y, t)
  <2>1. SplitFrames[u].buf = u /\ SplitFrames[u].events = << >>
    <3>1. SplitFrames[u] = [events |-> << >>, buf |-> u]
      BY <1>2, SplitPartial
    <3>. QED  BY <3>1
  <2>2. Kept(u, y, t, << >>, t)
    BY <1>2, PartialKept
  <2>. QED  BY <2>1, <2>2 DEF SplitsWell
<1>3. <<<< >>, << >>>> \in G
  <2>1. ASSUME NEW u \in Bodies, u \o y = << >> PROVE SplitsWell(u, y, << >>)
    <3>1. u = << >>
      <4>1. Len(u) \in Nat /\ Len(y) \in Nat /\ Len(u) + Len(y) = 0
        BY <2>1, BodyCat, BodyParts, NoBody
      <4>2. Len(u) = 0
        BY <4>1
      <4>. QED  BY <4>2 DEF Bodies
    <3>2. Partial(u) /\ <<u \o y, << >>>> \in Streams /\ << >> \in Seq(Events)
      BY <2>1, <3>1, StreamsGrow DEF Partial
    <3>. QED  BY <1>2, <3>2
  <2>. QED  BY <1>1, <2>1, StreamsGrow
<1>4. ASSUME NEW a \in WrittenEvents, NEW w \in Streams, w \in G PROVE Longer(a, w) \in G
  <2>1. PICK c \in Bodies, t \in Seq(Events) : w = <<c, t>>
    BY StreamParts
  <2>2. PICK v \in Streams : v = Longer(a, w)
    BY StreamsGrow
  <2>3. v[1] = Frame(a) \o c /\ v[2] = EventOf(a) \o t
    BY <2>1, <2>2 DEF Longer
  <2>4. v[2] \in Seq(Events) /\ v = <<v[1], v[2]>>
    BY StreamParts
  <2>5. ASSUME NEW u \in Bodies, u \o y = v[1] PROVE SplitsWell(u, y, v[2])
    <3>1. CASE Partial(u)
      <4>1. <<u \o y, v[2]>> \in Streams
        BY <2>4, <2>5
      <4>. QED  BY <1>2, <2>4, <3>1, <4>1
    <3>2. CASE ~Partial(u)
      <4>1. PICK z \in Bodies : u = Frame(a) \o z /\ z \o y = c
        <5>1. u \o y = Frame(a) \o c
          BY <2>3, <2>5
        <5>2. Between(u, y, Frame(a), c)
          BY <3>2, <5>1, Comes
        <5>. QED  BY <5>2 DEF Between
      <4>2. SplitsWell(z, y, t)
        BY <1>1, <1>4, <2>1, <4>1
      <4>3. PICK r \in Seq(Events) : Kept(SplitFrames[z].buf, y, t, SplitFrames[z].events, r)
        BY <4>2 DEF SplitsWell
      <4>4. Kept(SplitFrames[z].buf, y, v[2], EventOf(a) \o SplitFrames[z].events, r)
        BY <2>3, <4>3, KeptMore
      <4>5. /\ SplitFrames[u].buf = SplitFrames[z].buf
            /\ SplitFrames[u].events = EventOf(a) \o SplitFrames[z].events
        <5>1. SplitFrames[Frame(a) \o z] =
                [events |-> EventOf(a) \o SplitFrames[z].events, buf |-> SplitFrames[z].buf]
          BY SplitWhole, ZenonT(30)
        <5>. QED  BY <4>1, <5>1
      <4>. QED  BY <4>4, <4>5 DEF SplitsWell
    <3>. QED  BY <3>1, <3>2
  <2>. QED  BY <1>1, <2>2, <2>5
<1>5. Streams \subseteq G
  BY <1>3, <1>4, StreamsInduct
<1>6. PICK w \in Streams : w = <<x \o y, s>>
  OBVIOUS
<1>7. w[1] = x \o y /\ w[2] = s
  BY <1>6
<1>. QED  BY <1>1, <1>5, <1>6, <1>7

-----------------------------------------------------------------------------
\* streamChatEvents, one line of it: f does the rest.
Yields == Events \cup {Nothing}
Lines == [events : Seq(Yields), parser : Parsers]
LineEnds(s) == {i \in DOMAIN s : s[i] = NL}
LineBody(p, f) ==
    LET ends == LineEnds(p.buf)
        l == SubSeq(p.buf, 1, FirstAt(ends) - 1)
        rest == f[Line(p, l, TextAfter(p.buf, FirstAt(ends) + 1))]
    IN  IF ends = {} THEN [events |-> << >>, parser |-> p]
        ELSE [events |-> (IF l = << >> THEN Flush(p) ELSE << >>) \o rest.events,
              parser |-> rest.parser]

LEMMA ParserParts ==
    ASSUME NEW p \in Parsers
    PROVE  /\ p.buf \in Bodies /\ p.event \in BOOLEAN /\ p.data \in Seq(Events)
           /\ p = [buf |-> p.buf, event |-> p.event, data |-> p.data]
  BY DEF Parsers

LEMMA MakesParser ==
    ASSUME NEW b \in Bodies, NEW e \in BOOLEAN, NEW d \in Seq(Events)
    PROVE  [buf |-> b, event |-> e, data |-> d] \in Parsers
  BY DEF Parsers

LEMMA FlushType == ASSUME NEW p \in Parsers PROVE Flush(p) \in Seq(Yields)
<1>1. << >> \in Seq(Yields) /\ <<Nothing>> \in Seq(Yields)
  BY DEF Yields
<1>2. ASSUME p.data # << >> PROVE <<p.data[1]>> \in Seq(Yields)
  <2>1. PICK d \in Seq(Events) : d = p.data
    BY ParserParts
  <2>2. d[1] \in Events
    <3>1. Len(d) \in Nat /\ Len(d) # 0
      BY <1>2, <2>1
    <3>2. 1 \in 1..Len(d)
      BY <3>1
    <3>. QED  BY <3>2
  <2>. QED  BY <2>1, <2>2 DEF Yields
<1>. QED  BY <1>1, <1>2 DEF Flush

LEMMA LineType ==
    ASSUME NEW p \in Parsers, NEW l \in Bodies, NEW r \in Bodies
    PROVE  Line(p, l, r) \in Parsers /\ Line(p, l, r).buf = r
<1>1. p.event \in BOOLEAN /\ p.data \in Seq(Events)
  BY ParserParts
<1>2. (l # << >> /\ (p.event \/ l[1].line = "event")) \in BOOLEAN
  BY <1>1
<1>3. l # << >> => l[1] \in Marks
  <2>1. l # << >> => Len(l) # 0 /\ Len(l) \in Nat
    BY EmptyBody, BodyParts
  <2>2. l # << >> => 1 \in 1..Len(l)
    BY <2>1
  <2>. QED  BY <2>2 DEF Bodies
<1>4. PICK d : d = IF l = << >> THEN << >>
              ELSE IF l[1].line = "data" THEN Append(p.data, l[1].of) ELSE p.data
  OBVIOUS
<1>5. d \in Seq(Events)
  <2>1. CASE l = << >>
    BY <1>4, <2>1
  <2>2. CASE l # << >> /\ l[1].line = "data"
    <3>1. l[1].of \in Events
      BY <1>3, <2>2, MarkFacts
    <3>2. d = Append(p.data, l[1].of)
      BY <1>4, <2>2
    <3>. QED  BY <1>1, <3>1, <3>2
  <2>3. CASE l # << >> /\ l[1].line # "data"
    BY <1>1, <1>4, <2>3
  <2>. QED  BY <2>1, <2>2, <2>3
<1>6. Line(p, l, r) =
        [buf |-> r, event |-> l # << >> /\ (p.event \/ l[1].line = "event"), data |-> d]
  BY <1>4 DEF Line
<1>7. PICK e \in BOOLEAN : e = (l # << >> /\ (p.event \/ l[1].line = "event"))
  BY <1>2
<1>8. Line(p, l, r) = [buf |-> r, event |-> e, data |-> d]
  BY <1>6, <1>7
<1>. QED  BY <1>5, <1>8, MakesParser

\* Where the first line ends.
LEMMA EndFacts ==
    ASSUME NEW s \in Bodies, LineEnds(s) # {}, NEW i, i = FirstAt(LineEnds(s))
    PROVE  /\ i \in 1..Len(s) /\ s[i] = NL /\ \A j \in 1..(i - 1) : s[j] # NL
           /\ SubSeq(s, 1, i - 1) \in Bodies
           /\ TextAfter(s, i + 1) \in Bodies /\ Len(TextAfter(s, i + 1)) < Len(s)
<1>1. PICK n \in Nat : n = Len(s)
  BY BodyParts
<1>2. PICK D : D = LineEnds(s)
  OBVIOUS
<1>3. D = {j \in 1..n : s[j] = NL} /\ D \subseteq Nat /\ D # {}
  BY <1>1, <1>2, BodyParts DEF LineEnds
<1>4. i \in D /\ \A j \in D : i <= j
  BY <1>2, <1>3, FirstAtFacts
<1>5. i \in 1..n /\ s[i] = NL
  BY <1>3, <1>4
<1>6. ASSUME NEW j \in 1..(i - 1) PROVE s[j] # NL
  <2>1. j \in 1..n /\ ~(i <= j)
    BY <1>5
  <2>. QED  BY <1>3, <1>4, <2>1
<1>7. i - 1 \in 0..Len(s) /\ i + 1 \in 1..(Len(s) + 1) /\ n + 1 - (i + 1) < n
  BY <1>1, <1>5
<1>8. SubSeq(s, 1, i - 1) \in Bodies
  BY <1>7, BodyParts
<1>9. TextAfter(s, i + 1) \in Bodies /\ Len(TextAfter(s, i + 1)) = n + 1 - (i + 1)
  BY <1>1, <1>7, BodyParts
<1>. QED  BY <1>1, <1>5, <1>6, <1>7, <1>8, <1>9

LEMMA LineBodyType ==
    ASSUME NEW p \in Parsers, NEW f,
           \A q \in Parsers : Len(q.buf) < Len(p.buf) => f[q] \in Lines
    PROVE  /\ LineBody(p, f) \in Lines
           /\ \A g : (\A q \in Parsers : Len(q.buf) < Len(p.buf) => f[q] = g[q])
                        => LineBody(p, f) = LineBody(p, g)
<1>1. PICK s \in Bodies : s = p.buf
  BY ParserParts
<1>2. PICK i : i = FirstAt(LineEnds(s))
  OBVIOUS
<1>3. PICK l : l = SubSeq(s, 1, i - 1)
  OBVIOUS
<1>4. PICK q : q = Line(p, l, TextAfter(s, i + 1))
  OBVIOUS
<1>5. PICK e : e = IF l = << >> THEN Flush(p) ELSE << >>
  OBVIOUS
<1>6. \A h : LineBody(p, h) = IF LineEnds(s) = {} THEN [events |-> << >>, parser |-> p]
                              ELSE [events |-> e \o h[q].events, parser |-> h[q].parser]
  BY <1>1, <1>2, <1>3, <1>4, <1>5 DEF LineBody
<1>7. CASE LineEnds(s) = {}
  <2>1. \A h : LineBody(p, h) = [events |-> << >>, parser |-> p]
    BY <1>6, <1>7
  <2>2. [events |-> << >>, parser |-> p] \in Lines
    BY DEF Lines
  <2>. QED  BY <2>1, <2>2
<1>8. CASE LineEnds(s) # {}
  <2>1. /\ l \in Bodies /\ TextAfter(s, i + 1) \in Bodies
        /\ Len(TextAfter(s, i + 1)) < Len(s)
    BY <1>2, <1>3, <1>8, EndFacts
  <2>2. q \in Parsers /\ Len(q.buf) < Len(p.buf)
    <3>1. q \in Parsers /\ q.buf = TextAfter(s, i + 1)
      BY <1>4, <2>1, LineType
    <3>. QED  BY <1>1, <2>1, <3>1
  <2>3. e \in Seq(Yields)
    <3>1. << >> \in Seq(Yields)
      OBVIOUS
    <3>. QED  BY <1>5, <3>1, FlushType
  <2>4. f[q] \in Lines
    BY <2>2
  <2>5. f[q].events \in Seq(Yields) /\ f[q].parser \in Parsers
    BY <2>4 DEF Lines
  <2>6. e \o f[q].events \in Seq(Yields)
    BY <2>3, <2>5
  <2>7. \A h : LineBody(p, h) = [events |-> e \o h[q].events, parser |-> h[q].parser]
    BY <1>6, <1>8
  <2>8. [events |-> e \o f[q].events, parser |-> f[q].parser] \in Lines
    BY <2>5, <2>6 DEF Lines
  <2>9. LineBody(p, f) \in Lines
    BY <2>7, <2>8
  <2>10. ASSUME NEW g, \A u \in Parsers : Len(u.buf) < Len(p.buf) => f[u] = g[u]
         PROVE  LineBody(p, f) = LineBody(p, g)
    <3>1. f[q] = g[q]
      BY <2>2, <2>10
    <3>. QED  BY <2>7, <3>1
  <2>. QED  BY <2>9, <2>10
<1>. QED  BY <1>7, <1>8

LEMMA LineDef ==
    /\ ByLine \in [Parsers -> Lines]
    /\ \A p \in Parsers : ByLine[p] = LineBody(p, ByLine)
<1>1. PICK B : B = [x \in Parsers \X [Parsers -> Lines] |-> LineBody(x[1], x[2])]
  OBVIOUS
<1>2. PICK m \in [Parsers -> Nat] : \A p \in Parsers : m[p] = Len(p.buf)
  <2>1. \A p \in Parsers : Len(p.buf) \in Nat
    BY ParserParts, BodyParts
  <2>2. [p \in Parsers |-> Len(p.buf)] \in [Parsers -> Nat]
    BY <2>1
  <2>. QED  BY <2>2
<1>3. \A p \in Parsers : \A f \in [Parsers -> Lines] :
          B[<<p, f>>] = LineBody(p, f) /\ LineBody(p, f) \in Lines
  <2>1. \A p \in Parsers : \A f \in [Parsers -> Lines] : B[<<p, f>>] = LineBody(p, f)
    BY <1>1
  <2>. QED  BY <2>1, LineBodyType
<1>4. B \in [Parsers \X [Parsers -> Lines] -> Lines]
  BY <1>1, <1>3
<1>5. ASSUME NEW p \in Parsers, NEW f \in [Parsers -> Lines], NEW g \in [Parsers -> Lines],
             \A q \in Parsers : m[q] < m[p] => f[q] = g[q]
      PROVE  B[<<p, f>>] = B[<<p, g>>]
  <2>1. \A q \in Parsers : Len(q.buf) < Len(p.buf) => f[q] = g[q] /\ f[q] \in Lines
    BY <1>2, <1>5
  <2>2. LineBody(p, f) = LineBody(p, g)
    BY <2>1, LineBodyType
  <2>. QED  BY <1>3, <2>2
<1>6. Lines # {}
  <2>1. [buf |-> << >>, event |-> FALSE, data |-> << >>] \in Parsers
    <3>1. << >> \in Bodies /\ << >> \in Seq(Events) /\ FALSE \in BOOLEAN
      BY NoBody
    <3>. QED  BY <3>1, MakesParser
  <2>2. \A p \in Parsers : [events |-> << >>, parser |-> p] \in Lines
    BY DEF Lines
  <2>. QED  BY <2>1, <2>2
<1>7. PICK f \in [Parsers -> Lines] : \A p \in Parsers : f[p] = B[<<p, f>>]
  <2>1. \A p \in Parsers : \A f, g \in [Parsers -> Lines] :
          (\A q \in Parsers : m[q] < m[p] => f[q] = g[q]) => B[<<p, f>>] = B[<<p, g>>]
    BY <1>5
  <2>2. Descends(Parsers, Lines, m, B)
    BY <1>2, <1>4, <1>6, <2>1, Zenon DEF Descends
  <2>. QED  BY <2>2, Recursion DEF Solution
<1>8. f = [p \in Parsers |-> LineBody(p, f)]
  BY <1>3, <1>7
<1>9. ByLine = CHOOSE C : C = [p \in Parsers |-> LineBody(p, C)]
  BY Zenon DEF ByLine, LineBody, LineEnds
<1>10. ByLine = [p \in Parsers |-> LineBody(p, ByLine)]
  BY <1>8, <1>9, Zenon
<1>11. \A p \in Parsers : ByLine[p] = LineBody(p, ByLine)
  BY <1>10, Zenon
<1>12. PICK G : G = {p \in Parsers : ByLine[p] \in Lines}
  OBVIOUS
<1>13. ASSUME NEW p \in Parsers, \A q \in Parsers : m[q] < m[p] => q \in G
       PROVE  p \in G
  <2>1. \A q \in Parsers : Len(q.buf) < Len(p.buf) => ByLine[q] \in Lines
    BY <1>2, <1>12, <1>13
  <2>2. ByLine[p] \in Lines
    BY <1>11, <2>1, LineBodyType
  <2>. QED  BY <1>12, <2>2
<1>14. Parsers \subseteq G
  BY <1>13, Descent
<1>15. ByLine \in [Parsers -> Lines]
  <2>1. ByLine = [p \in Parsers |-> ByLine[p]]
    BY <1>10
  <2>. QED  BY <1>12, <1>14, <2>1
<1>. QED  BY <1>11, <1>15

\* No line has come as a whole.
LEMMA NoLine ==
    ASSUME NEW p \in Parsers, \A i \in 1..Len(p.buf) : p.buf[i] # NL
    PROVE  ByLine[p] = [events |-> << >>, parser |-> p]
<1>1. LineEnds(p.buf) = {}
  BY ParserParts, BodyParts DEF LineEnds
<1>. QED  BY <1>1, LineDef DEF LineBody

\* A line has: it is handled, then the rest.
LEMMA OneLine ==
    ASSUME NEW p \in Parsers, NEW l \in Bodies, NEW r \in Bodies,
           \A i \in 1..Len(l) : l[i] # NL, p.buf = l \o (<<NL>> \o r)
    PROVE  /\ Line(p, l, r) \in Parsers
           /\ ByLine[Line(p, l, r)] \in Lines
           /\ ByLine[p] = [events |-> (IF l = << >> THEN Flush(p) ELSE << >>)
                                         \o ByLine[Line(p, l, r)].events,
                           parser |-> ByLine[Line(p, l, r)].parser]
<1>1. PICK s \in Bodies : s = p.buf
  BY ParserParts
<1>2. PICK n \in Nat : n = Len(l)
  BY BodyParts
<1>3. PICK z \in Bodies : z = <<NL>> \o r
  <2>1. <<NL>> \in Bodies
    BY MarkFacts DEF Bodies
  <2>. QED  BY <2>1, BodyCat
<1>4. Len(z) = 1 + Len(r) /\ z[1] = NL /\ Len(r) \in Nat /\ TextAfter(z, 2) = r
  <2>1. <<NL>> \in Bodies /\ Len(<<NL>>) = 1 /\ <<NL>>[1] = NL
    BY MarkFacts DEF Bodies
  <2>2. Len(z) = 1 + Len(r) /\ Len(r) \in Nat
    BY <1>3, <2>1, BodyCat, BodyParts
  <2>3. z[1] = NL
    <3>1. 1 \in 1..Len(<<NL>>)
      BY <2>1
    <3>. QED  BY <1>3, <2>1, <3>1, BodyCat
  <2>4. 1 \in 1..(Len(r) + 1) /\ Len(<<NL>>) + 1 = 2
    BY <2>1, <2>2
  <2>5. TextAfter(z, 2) = TextAfter(r, 1)
    <3>1. TextAfter(<<NL>> \o r, Len(<<NL>>) + 1) = TextAfter(r, 1)
      BY <2>1, <2>4, BodyCutPast
    <3>. QED  BY <1>3, <2>4, <3>1
  <2>6. TextAfter(r, 1) = r
    BY DEF Bodies, TextAfter
  <2>. QED  BY <2>2, <2>3, <2>5, <2>6
<1>5. /\ Len(s) = n + Len(z) /\ \A i \in 1..n : s[i] = l[i]
      /\ \A i \in 1..Len(z) : s[n + i] = z[i]
  BY <1>1, <1>2, <1>3, BodyCat
<1>6. s[n + 1] = NL /\ n + 1 \in 1..Len(s) /\ \A i \in 1..n : s[i] # NL
  <2>1. 1 \in 1..Len(z)
    BY <1>4
  <2>. QED  BY <1>2, <1>4, <1>5, <2>1
<1>7. PICK i : i = FirstAt(LineEnds(s))
  OBVIOUS
<1>8. LineEnds(s) # {}
  BY <1>6, BodyParts DEF LineEnds
<1>9. i = n + 1
  <2>1. i \in 1..Len(s) /\ s[i] = NL /\ \A j \in 1..(i - 1) : s[j] # NL
    BY <1>7, <1>8, EndFacts
  <2>2. ~(i \in 1..n) /\ ~(n + 1 \in 1..(i - 1))
    BY <1>6, <2>1
  <2>3. Len(s) \in Nat /\ i \in Nat
    BY <2>1, BodyParts
  <2>. QED  BY <2>1, <2>2, <2>3
<1>10. SubSeq(s, 1, i - 1) = l
  <2>1. i - 1 = n /\ n \in 0..Len(l)
    BY <1>2, <1>9
  <2>2. SubSeq(s, 1, n) = SubSeq(l, 1, n)
    BY <1>1, <1>3, <2>1, BodyHead
  <2>3. SubSeq(l, 1, n) = l
    BY <1>2 DEF Bodies
  <2>. QED  BY <2>1, <2>2, <2>3
<1>11. TextAfter(s, i + 1) = r
  <2>1. i + 1 = Len(l) + 2 /\ 2 \in 1..(Len(z) + 1)
    BY <1>2, <1>4, <1>9
  <2>2. TextAfter(s, Len(l) + 2) = TextAfter(z, 2)
    <3>1. TextAfter(l \o z, Len(l) + 2) = TextAfter(z, 2)
      BY <2>1, BodyCutPast
    <3>. QED  BY <1>1, <1>3, <3>1
  <2>. QED  BY <1>4, <2>1, <2>2
<1>12. Line(p, l, r) \in Parsers
  BY LineType
<1>13. ByLine[Line(p, l, r)] \in Lines
  BY <1>12, LineDef
<1>14. ByLine[p] = LineBody(p, ByLine)
  BY LineDef
<1>. QED  BY <1>1, <1>7, <1>8, <1>10, <1>11, <1>12, <1>13, <1>14 DEF LineBody

LEMMA Spelled ==
    ASSUME NEW s \in Bodies
    PROVE  /\ Len(s) = 1 => s = <<s[1]>>
           /\ Len(s) = 2 => s = <<s[1], s[2]>>
           /\ Len(s) = 3 => s = <<s[1], s[2], s[3]>>
           /\ Len(s) = 4 => s = <<s[1], s[2], s[3], s[4]>>
  BY DEF Bodies

LEMMA OneMark == ASSUME NEW a \in Marks
                 PROVE  <<a>> \in Bodies /\ Len(<<a>>) = 1 /\ <<a>>[1] = a /\ <<a>> # << >>
  BY DEF Bodies

LEMMA TwoMarks == ASSUME NEW a \in Marks, NEW b \in Marks
                  PROVE  <<a, b>> \in Bodies /\ <<a, b>> = <<a>> \o <<b>>
<1>1. <<a, b>> \in Bodies
  BY DEF Bodies
<1>2. <<a, b>> = <<a>> \o <<b>>
  <2>1. PICK s \in Bodies, t \in Bodies :
            s = <<a>> /\ t = <<b>> /\ Len(s) = 1 /\ s[1] = a /\ Len(t) = 1 /\ t[1] = b
    BY OneMark
  <2>2. s \o t \in Bodies /\ Len(s \o t) = 2 /\ (s \o t)[1] = a /\ (s \o t)[2] = b
    BY <2>1 DEF Bodies
  <2>. QED  BY <2>1, <2>2, Spelled
<1>. QED  BY <1>1, <1>2

LEMMA ThreeMarks == ASSUME NEW a \in Marks, NEW b \in Marks, NEW c \in Marks
                    PROVE  <<a, b, c>> \in Bodies /\ <<a, b, c>> = <<a, b>> \o <<c>>
<1>1. <<a, b, c>> \in Bodies
  BY DEF Bodies
<1>2. <<a, b, c>> = <<a, b>> \o <<c>>
  OBVIOUS
<1>. QED  BY <1>1, <1>2

LEMMA FourMarks == ASSUME NEW a \in Marks, NEW b \in Marks, NEW c \in Marks, NEW d \in Marks
                   PROVE  /\ <<a, b, c, d>> \in Bodies
                          /\ <<a, b, c, d>> = <<a, b>> \o <<c, d>>
<1>1. <<a, b, c, d>> \in Bodies
  BY DEF Bodies
<1>2. <<a, b, c, d>> = <<a, b>> \o <<c, d>>
  OBVIOUS
<1>. QED  BY <1>1, <1>2

LEMMA FiveMarks == ASSUME NEW a \in Marks, NEW b \in Marks, NEW c \in Marks, NEW d \in Marks,
                          NEW e \in Marks
                   PROVE  <<a, b, c, d, e>> = <<a, b, c, d>> \o <<e>>
  OBVIOUS

\* A line of one mark is handled without an event.
HandlesMark(p, m, r, q) ==
    /\ p.buf = <<m, NL>> \o r /\ q.buf = r /\ q.event = (p.event \/ m.line = "event")
    /\ q.data = IF m.line = "data" THEN Append(p.data, m.of) ELSE p.data

LEMMA MarkLine ==
    ASSUME NEW m \in Marks, m # NL, NEW r \in Bodies, NEW p \in Parsers, NEW q \in Parsers,
           HandlesMark(p, m, r, q)
    PROVE  ByLine[p] = ByLine[q]
<1>1. PICK l \in Bodies : l = <<m>> /\ l # << >> /\ l[1] = m /\ Len(l) = 1
  BY OneMark
<1>2. <<NL>> \in Bodies /\ <<m, NL>> = l \o <<NL>>
  BY <1>1, OneMark, TwoMarks, MarkFacts
<1>3. p.buf = l \o (<<NL>> \o r)
  BY <1>1, <1>2, BodyAssoc DEF HandlesMark
<1>4. \A i \in 1..Len(l) : l[i] # NL
  BY <1>1
<1>5. Line(p, l, r) = q
  <2>1. p.event \in BOOLEAN /\ q.event \in BOOLEAN
    BY ParserParts
  <2>2. Line(p, l, r).buf = q.buf
    BY DEF Line, HandlesMark
  <2>3. Line(p, l, r).event = q.event
    BY <1>1 DEF Line, HandlesMark
  <2>4. Line(p, l, r).data = q.data
    BY <1>1 DEF Line, HandlesMark
  <2>5. Line(p, l, r) \in Parsers
    BY LineType
  <2>. QED  BY <2>2, <2>3, <2>4, <2>5, ParserParts
<1>6. /\ ByLine[q] \in Lines
      /\ ByLine[p] = [events |-> << >> \o ByLine[q].events, parser |-> ByLine[q].parser]
  <2>1. /\ ByLine[Line(p, l, r)] \in Lines
        /\ ByLine[p] = [events |-> (IF l = << >> THEN Flush(p) ELSE << >>)
                                      \o ByLine[Line(p, l, r)].events,
                        parser |-> ByLine[Line(p, l, r)].parser]
    BY <1>3, <1>4, OneLine
  <2>. QED  BY <1>1, <1>5, <2>1
<1>7. << >> \o ByLine[q].events = ByLine[q].events
  BY <1>6, CatEmpty DEF Lines
<1>. QED  BY <1>6, <1>7 DEF Lines

\* An empty line ends a frame.
LEMMA EmptyLine ==
    ASSUME NEW p \in Parsers, NEW r \in Bodies, p.buf = <<NL>> \o r
    PROVE  /\ Start(r) \in Parsers /\ ByLine[Start(r)] \in Lines
           /\ ByLine[p] = [events |-> Flush(p) \o ByLine[Start(r)].events,
                           parser |-> ByLine[Start(r)].parser]
<1>1. PICK l \in Bodies : l = << >> /\ Len(l) = 0
  BY NoBody
<1>2. <<NL>> \o r \in Bodies
  <2>1. <<NL>> \in Bodies
    BY OneMark, MarkFacts
  <2>. QED  BY <2>1, BodyCat
<1>3. p.buf = l \o (<<NL>> \o r)
  BY <1>1, <1>2, BodyCat
<1>4. \A i \in 1..Len(l) : l[i] # NL
  BY <1>1
<1>5. Line(p, l, r) = Start(r)
  BY <1>1 DEF Line, Start
<1>6. /\ Line(p, l, r) \in Parsers
      /\ ByLine[Line(p, l, r)] \in Lines
      /\ ByLine[p] = [events |-> (IF l = << >> THEN Flush(p) ELSE << >>)
                                    \o ByLine[Line(p, l, r)].events,
                      parser |-> ByLine[Line(p, l, r)].parser]
  BY <1>3, <1>4, OneLine
<1>. QED  BY <1>1, <1>5, <1>6

\* The lines of a frame that a parser has handled.
Matches(c, p) ==
    \/ (c = << >> \/ c = <<Comment, NL>>) /\ ~p.event /\ p.data = << >>
    \/ \E e \in Events : c = <<EventLine(e), NL>> /\ p.event /\ p.data = << >>
    \/ \E e \in Events : /\ c = <<EventLine(e), NL, DataLine(e), NL>>
                         /\ p.event /\ p.data = <<e>>

LEMMA StartType ==
    ASSUME NEW x \in Bodies
    PROVE  /\ Start(x) \in Parsers /\ Start(x).buf = x /\ Start(x).event = FALSE
           /\ Start(x).data = << >>
<1>1. << >> \in Seq(Events) /\ FALSE \in BOOLEAN
  OBVIOUS
<1>2. Start(x) \in Parsers
  BY <1>1, MakesParser DEF Start
<1>. QED  BY <1>2 DEF Start

\* A parser that has handled lines goes on as one that has them before it.
LEMMA Resume ==
    ASSUME NEW p \in Parsers, NEW c, Matches(c, p)
    PROVE  c \in Bodies /\ ByLine[Start(c \o p.buf)] = ByLine[p]
<1>1. PICK r \in Bodies : r = p.buf
  BY ParserParts
<1>2. CASE c = << >> /\ ~p.event /\ p.data = << >>
  <2>1. << >> \o r = r
    BY BodyCat
  <2>2. Start(r) = p
    BY <1>1, <1>2, ParserParts DEF Start
  <2>. QED  BY <1>1, <1>2, <2>1, <2>2, NoBody
<1>3. CASE c = <<Comment, NL>> /\ ~p.event /\ p.data = << >>
  <2>1. c \in Bodies
    BY <1>3, TwoMarks, MarkFacts
  <2>2. PICK s \in Parsers : /\ s = Start(c \o r) /\ s.buf = c \o r
                             /\ s.event = FALSE /\ s.data = << >>
    <3>1. c \o r \in Bodies
      BY <2>1, BodyCat
    <3>. QED  BY <3>1, StartType
  <2>3. Comment \in Marks /\ Comment # NL /\ Comment.line = "comment"
    BY MarkFacts
  <2>4. ByLine[s] = ByLine[p]
    <3>1. s.buf = <<Comment, NL>> \o r
      BY <1>3, <2>2
    <3>2. p.event = (s.event \/ Comment.line = "event")
      BY <1>3, <2>2, <2>3, ParserParts
    <3>3. p.data = IF Comment.line = "data" THEN Append(s.data, Comment.of) ELSE s.data
      BY <1>3, <2>2, <2>3
    <3>4. HandlesMark(s, Comment, r, p)
      BY <1>1, <3>1, <3>2, <3>3 DEF HandlesMark
    <3>. QED  BY <2>3, <3>4, MarkLine
  <2>. QED  BY <1>1, <2>1, <2>2, <2>4
<1>4. ASSUME NEW e \in Events, NEW q \in Parsers, q.event, q.data = << >>
      PROVE  /\ <<EventLine(e), NL>> \in Bodies
             /\ ByLine[Start(<<EventLine(e), NL>> \o q.buf)] = ByLine[q]
  <2>1. /\ EventLine(e) \in Marks /\ EventLine(e) # NL /\ EventLine(e).line = "event"
    BY MarkFacts
  <2>2. <<EventLine(e), NL>> \in Bodies /\ q.buf \in Bodies
    BY <2>1, TwoMarks, MarkFacts, ParserParts
  <2>3. PICK s \in Parsers : /\ s = Start(<<EventLine(e), NL>> \o q.buf)
                             /\ s.buf = <<EventLine(e), NL>> \o q.buf
                             /\ s.event = FALSE /\ s.data = << >>
    <3>1. <<EventLine(e), NL>> \o q.buf \in Bodies
      BY <2>2, BodyCat
    <3>. QED  BY <3>1, StartType
  <2>4. q.event = (s.event \/ EventLine(e).line = "event")
    BY <1>4, <2>1, ParserParts
  <2>5. q.data = IF EventLine(e).line = "data" THEN Append(s.data, EventLine(e).of) ELSE s.data
    BY <1>4, <2>1, <2>3
  <2>6. ByLine[s] = ByLine[q]
    <3>1. HandlesMark(s, EventLine(e), q.buf, q)
      BY <2>3, <2>4, <2>5 DEF HandlesMark
    <3>. QED  BY <2>1, <2>2, <3>1, MarkLine
  <2>. QED  BY <2>2, <2>3, <2>6
<1>5. ASSUME NEW e \in Events, c = <<EventLine(e), NL, DataLine(e), NL>>, p.event, p.data = <<e>>
      PROVE  c \in Bodies /\ ByLine[Start(c \o r)] = ByLine[p]
  <2>1. /\ EventLine(e) \in Marks /\ DataLine(e) \in Marks /\ NL \in Marks /\ DataLine(e) # NL
        /\ DataLine(e).line = "data" /\ DataLine(e).of = e
    BY MarkFacts
  <2>2. /\ c \in Bodies /\ <<EventLine(e), NL>> \in Bodies /\ <<DataLine(e), NL>> \in Bodies
        /\ c = <<EventLine(e), NL>> \o <<DataLine(e), NL>>
    <3>1. <<EventLine(e), NL>> \in Bodies /\ <<DataLine(e), NL>> \in Bodies
      BY <2>1, TwoMarks
    <3>2. /\ <<EventLine(e), NL, DataLine(e), NL>> \in Bodies
          /\ <<EventLine(e), NL, DataLine(e), NL>> = <<EventLine(e), NL>> \o <<DataLine(e), NL>>
      BY <2>1, FourMarks
    <3>. QED  BY <1>5, <3>1, <3>2
  <2>3. c \o r = <<EventLine(e), NL>> \o (<<DataLine(e), NL>> \o r)
    BY <2>2, BodyAssoc
  <2>4. PICK b \in Bodies : b = <<DataLine(e), NL>> \o r
    BY <2>2, BodyCat
  <2>5. PICK q \in Parsers : q.buf = b /\ q.event = TRUE /\ q.data = << >>
    <3>1. << >> \in Seq(Events) /\ TRUE \in BOOLEAN
      OBVIOUS
    <3>2. [buf |-> b, event |-> TRUE, data |-> << >>] \in Parsers
      BY <3>1, MakesParser
    <3>. QED  BY <3>2
  <2>6. ByLine[Start(<<EventLine(e), NL>> \o b)] = ByLine[q]
    BY <1>4, <2>5
  <2>7. p.event = (q.event \/ DataLine(e).line = "event")
    BY <1>5, <2>5, ParserParts
  <2>8. p.data = IF DataLine(e).line = "data" THEN Append(q.data, DataLine(e).of) ELSE q.data
    <3>1. Append(<< >>, e) = <<e>>
      OBVIOUS
    <3>. QED  BY <1>5, <2>1, <2>5, <3>1
  <2>9. ByLine[q] = ByLine[p]
    <3>1. HandlesMark(q, DataLine(e), r, p)
      BY <1>1, <2>4, <2>5, <2>7, <2>8 DEF HandlesMark
    <3>. QED  BY <2>1, <3>1, MarkLine
  <2>. QED  BY <2>2, <2>3, <2>4, <2>6, <2>9
<1>6. ASSUME NEW e \in Events, c = <<EventLine(e), NL>>, p.event, p.data = << >>
      PROVE  c \in Bodies /\ ByLine[Start(c \o r)] = ByLine[p]
  BY <1>1, <1>4, <1>6
<1>. QED  BY <1>1, <1>2, <1>3, <1>5, <1>6 DEF Matches

\* The beginning of a frame, as `infernet chat` has it: whole lines and the rest.
Halfway(x, p, c) == p \in Parsers /\ Matches(c, p) /\ x = c \o p.buf
                      /\ \A i \in 1..Len(p.buf) : p.buf[i] # NL

LEMMA HalfwayIs ==
    ASSUME NEW b \in Bodies, NEW e \in BOOLEAN, NEW d \in Seq(Events), NEW c,
           Matches(c, [buf |-> b, event |-> e, data |-> d]), \A i \in 1..Len(b) : b[i] # NL
    PROVE  \E p : Halfway(c \o b, p, c)
<1>1. PICK p \in Parsers : p = [buf |-> b, event |-> e, data |-> d] /\ p.buf = b
  BY MakesParser
<1>2. Halfway(c \o b, p, c)
  BY <1>1 DEF Halfway
<1>. QED  BY <1>2

LEMMA PartialHalfway ==
    ASSUME reader = "cli", NEW x \in Bodies, Partial(x)
    PROVE  \E p, c : Halfway(x, p, c)
<1>1. << >> \in Seq(Events) /\ << >> \in Bodies /\ << >> \o x = x /\ x \o << >> = x
  BY BodyCat, NoBody
<1>2. ASSUME \A i \in 1..Len(x) : x[i] # NL PROVE \E p, c : Halfway(x, p, c)
  <2>1. Matches(<< >>, [buf |-> x, event |-> FALSE, data |-> << >>])
    BY DEF Matches
  <2>2. \E p : Halfway(<< >> \o x, p, << >>)
    BY <1>1, <1>2, <2>1, HalfwayIs
  <2>. QED  BY <1>1, <2>2
<1>3. CASE x = << >>
  <2>1. \A i \in 1..Len(x) : x[i] # NL
    BY <1>3, NoBody
  <2>. QED  BY <1>2, <2>1
<1>4. ASSUME NEW a \in WrittenEvents, NEW k \in 1..(Len(Frame(a)) - 1), x = SubSeq(Frame(a), 1, k)
      PROVE  \E p, c : Halfway(x, p, c)
  <2>1. Len(x) = k /\ k \in Nat /\ k # 0 /\ k < Len(Frame(a)) /\ \A i \in 1..k : x[i] = Frame(a)[i]
    BY <1>4, PartialFacts
  <2>2. CASE k = 1
    <3>1. x[1] = Frame(a)[1] /\ Frame(a)[1] # NL
      BY <2>1, <2>2, FrameShape
    <3>2. \A i \in 1..Len(x) : i = 1
      BY <2>1, <2>2
    <3>3. \A i \in 1..Len(x) : x[i] # NL
      BY <3>1, <3>2
    <3>. QED  BY <1>2, <3>3
  <2>3. CASE k # 1 /\ a = Heartbeat
    <3>1. Frame(a) = <<Comment, NL, NL>>
      BY <2>3 DEF Frame
    <3>2. Len(x) = 2 /\ x[1] = Comment /\ x[2] = NL
      <4>1. Len(Frame(a)) = 3 /\ Frame(a)[1] = Comment /\ Frame(a)[2] = NL
        BY <3>1
      <4>2. k = 2 /\ 1 \in 1..k /\ 2 \in 1..k
        BY <2>1, <2>3, <4>1
      <4>. QED  BY <2>1, <4>1, <4>2
    <3>3. x = <<Comment, NL>>
      BY <3>2, Spelled
    <3>4. Matches(x, [buf |-> << >>, event |-> FALSE, data |-> << >>])
      BY <3>3 DEF Matches
    <3>5. \A i \in 1..Len(<< >>) : << >>[i] # NL
      BY NoBody
    <3>6. \E p : Halfway(x \o << >>, p, x)
      BY <1>1, <3>4, <3>5, HalfwayIs
    <3>. QED  BY <1>1, <3>6
  <2>4. CASE k # 1 /\ a # Heartbeat
    <3>1. Frame(a) = <<EventLine(a), NL, DataLine(a), NL, NL>> /\ a \in Events
      BY <2>4, WrittenFacts DEF Frame
    <3>2. /\ Len(Frame(a)) = 5 /\ Frame(a)[1] = EventLine(a) /\ Frame(a)[2] = NL
          /\ Frame(a)[3] = DataLine(a) /\ Frame(a)[4] = NL
      BY <3>1
    <3>3. k = 2 \/ k = 3 \/ k = 4
      BY <2>1, <2>4, <3>2
    <3>4. /\ EventLine(a) \in Marks /\ NL \in Marks /\ DataLine(a) \in Marks /\ DataLine(a) # NL
      BY <3>1, MarkFacts
    <3>5. /\ x[1] = EventLine(a) /\ x[2] = NL
          /\ k # 2 => x[3] = DataLine(a)
          /\ k = 4 => x[4] = NL
      <4>1. 1 \in 1..k /\ 2 \in 1..k /\ (k # 2 => 3 \in 1..k) /\ (k = 4 => 4 \in 1..k)
        BY <3>3
      <4>. QED  BY <2>1, <3>2, <4>1
    <3>6. \A i \in 1..Len(<< >>) : << >>[i] # NL
      BY NoBody
    <3>7. CASE k = 2
      <4>1. x = <<EventLine(a), NL>>
        BY <2>1, <3>5, <3>7, Spelled
      <4>2. Matches(x, [buf |-> << >>, event |-> TRUE, data |-> << >>])
        BY <3>1, <4>1 DEF Matches
      <4>3. \E p : Halfway(x \o << >>, p, x)
        BY <1>1, <3>6, <4>2, HalfwayIs
      <4>. QED  BY <1>1, <4>3
    <3>8. CASE k = 3
      <4>1. x = <<EventLine(a), NL, DataLine(a)>>
        BY <2>1, <3>5, <3>8, Spelled
      <4>2. x = <<EventLine(a), NL>> \o <<DataLine(a)>>
        BY <3>4, <4>1, ThreeMarks
      <4>3. PICK b \in Bodies : b = <<DataLine(a)>> /\ Len(b) = 1 /\ b[1] = DataLine(a)
        BY <3>4, OneMark
      <4>4. Matches(<<EventLine(a), NL>>, [buf |-> b, event |-> TRUE, data |-> << >>])
        BY <3>1 DEF Matches
      <4>5. \A i \in 1..Len(b) : b[i] # NL
        BY <3>4, <4>3
      <4>6. \E p : Halfway(<<EventLine(a), NL>> \o b, p, <<EventLine(a), NL>>)
        BY <1>1, <4>4, <4>5, HalfwayIs
      <4>. QED  BY <4>2, <4>3, <4>6
    <3>9. CASE k = 4
      <4>1. x = <<EventLine(a), NL, DataLine(a), NL>>
        BY <2>1, <3>5, <3>9, Spelled
      <4>2. Matches(x, [buf |-> << >>, event |-> TRUE, data |-> <<a>>])
        BY <3>1, <4>1 DEF Matches
      <4>3. <<a>> \in Seq(Events)
        BY <3>1
      <4>4. \E p : Halfway(x \o << >>, p, x)
        BY <1>1, <3>6, <4>2, <4>3, HalfwayIs
      <4>. QED  BY <1>1, <4>4
    <3>. QED  BY <3>3, <3>7, <3>8, <3>9
  <2>. QED  BY <2>2, <2>3, <2>4
<1>. QED  BY <1>3, <1>4 DEF Partial

\* streamChatEvents on the beginning of a frame, and on a frame.
LEMMA LinePartial ==
    ASSUME reader = "cli", NEW x \in Bodies, Partial(x)
    PROVE  \E p \in Parsers : \E c : /\ Matches(c, p) /\ x = c \o p.buf
                                     /\ ByLine[Start(x)] = [events |-> << >>, parser |-> p]
<1>1. PICK p, c : Halfway(x, p, c)
  BY PartialHalfway
<1>2. ByLine[Start(x)] = ByLine[p]
  BY <1>1, Resume DEF Halfway
<1>3. ByLine[p] = [events |-> << >>, parser |-> p]
  BY <1>1, NoLine DEF Halfway
<1>. QED  BY <1>1, <1>2, <1>3 DEF Halfway

LEMMA LineWhole ==
    ASSUME reader = "cli", NEW a \in WrittenEvents, NEW z \in Bodies
    PROVE  /\ ByLine[Start(z)] \in Lines
           /\ ByLine[Start(Frame(a) \o z)] =
                [events |-> EventOf(a) \o ByLine[Start(z)].events,
                 parser |-> ByLine[Start(z)].parser]
<1>1. NL \in Marks /\ Comment \in Marks /\ <<NL>> \in Bodies
  BY MarkFacts, OneMark
<1>2. PICK y \in Bodies : y = <<NL>> \o z
  BY <1>1, BodyCat
<1>3. ASSUME NEW c \in Bodies, NEW p \in Parsers, Matches(c, p), p.buf = y,
             Frame(a) = c \o <<NL>>, Flush(p) = EventOf(a)
      PROVE  /\ ByLine[Start(z)] \in Lines
             /\ ByLine[Start(Frame(a) \o z)] =
                  [events |-> EventOf(a) \o ByLine[Start(z)].events,
                   parser |-> ByLine[Start(z)].parser]
  <2>1. Frame(a) \o z = c \o y
    BY <1>1, <1>2, <1>3, BodyAssoc
  <2>2. ByLine[Start(c \o y)] = ByLine[p]
    BY <1>3, Resume
  <2>3. /\ ByLine[Start(z)] \in Lines
        /\ ByLine[p] = [events |-> Flush(p) \o ByLine[Start(z)].events,
                        parser |-> ByLine[Start(z)].parser]
    BY <1>2, <1>3, EmptyLine
  <2>. QED  BY <1>3, <2>1, <2>2, <2>3
<1>4. CASE a = Heartbeat
  <2>1. Frame(a) = <<Comment, NL, NL>>
    BY <1>4 DEF Frame
  <2>2. PICK c \in Bodies : c = <<Comment, NL>> /\ Frame(a) = c \o <<NL>>
    BY <1>1, <2>1, TwoMarks, ThreeMarks
  <2>3. PICK p \in Parsers : p.buf = y /\ p.event = FALSE /\ p.data = << >>
    BY StartType
  <2>4. Matches(c, p)
    BY <2>2, <2>3 DEF Matches
  <2>5. Flush(p) = EventOf(a)
    BY <1>4, <2>3 DEF Flush, EventOf
  <2>. QED  BY <1>3, <2>2, <2>3, <2>4, <2>5
<1>5. CASE a # Heartbeat
  <2>1. Frame(a) = <<EventLine(a), NL, DataLine(a), NL, NL>> /\ a \in Events /\ EventOf(a) = <<a>>
    BY <1>5, WrittenFacts DEF Frame
  <2>2. EventLine(a) \in Marks /\ DataLine(a) \in Marks
    BY <2>1, MarkFacts
  <2>3. PICK c \in Bodies : /\ c = <<EventLine(a), NL, DataLine(a), NL>>
                            /\ Frame(a) = c \o <<NL>>
    <3>1. <<EventLine(a), NL, DataLine(a), NL>> \in Bodies
      BY <1>1, <2>2, FourMarks
    <3>2. Frame(a) = <<EventLine(a), NL, DataLine(a), NL>> \o <<NL>>
      BY <1>1, <2>1, <2>2, FiveMarks
    <3>. QED  BY <3>1, <3>2
  <2>4. PICK p \in Parsers : p.buf = y /\ p.event = TRUE /\ p.data = <<a>>
    <3>1. <<a>> \in Seq(Events) /\ TRUE \in BOOLEAN
      BY <2>1
    <3>2. [buf |-> y, event |-> TRUE, data |-> <<a>>] \in Parsers
      BY <3>1, MakesParser
    <3>. QED  BY <3>2
  <2>5. Matches(c, p)
    BY <2>1, <2>3, <2>4 DEF Matches
  <2>6. Flush(p) = EventOf(a)
    <3>1. <<a>> # << >> /\ <<a>>[1] = a
      OBVIOUS
    <3>. QED  BY <2>1, <2>4, <3>1 DEF Flush
  <2>. QED  BY <1>3, <2>3, <2>4, <2>5, <2>6
<1>. QED  BY <1>4, <1>5

\* Whatever has come of a stream, streamChatEvents takes the whole frames from it.
LinesWell(x, y, s) ==
    \E q \in Parsers : \E c : \E r \in Seq(Events) :
       /\ ByLine[Start(x)].parser = q /\ Matches(c, q)
       /\ Kept(c \o q.buf, y, s, ByLine[Start(x)].events, r)

LEMMA LineStreams ==
    ASSUME reader = "cli",
           NEW x \in Bodies, NEW y \in Bodies, NEW s \in Seq(Events), <<x \o y, s>> \in Streams
    PROVE  LinesWell(x, y, s)
<1>1. PICK G : G = {w \in Streams : \A u \in Bodies : u \o y = w[1] => LinesWell(u, y, w[2])}
  OBVIOUS
<1>2. ASSUME NEW u \in Bodies, NEW t \in Seq(Events), Partial(u), <<u \o y, t>> \in Streams
      PROVE  LinesWell(u, y, t)
  <2>0. PICK p \in Parsers : \E c : /\ Matches(c, p) /\ u = c \o p.buf
                                     /\ ByLine[Start(u)] = [events |-> << >>, parser |-> p]
    BY <1>2, LinePartial
  <2>1. PICK c : /\ Matches(c, p) /\ u = c \o p.buf
                 /\ ByLine[Start(u)] = [events |-> << >>, parser |-> p]
    BY <2>0
  <2>2. ByLine[Start(u)].parser = p /\ ByLine[Start(u)].events = << >>
    BY <2>1
  <2>3. Kept(u, y, t, << >>, t)
    BY <1>2, PartialKept
  <2>. QED  BY <2>1, <2>2, <2>3 DEF LinesWell
<1>3. <<<< >>, << >>>> \in G
  <2>1. ASSUME NEW u \in Bodies, u \o y = << >> PROVE LinesWell(u, y, << >>)
    <3>1. u = << >>
      <4>1. Len(u) \in Nat /\ Len(y) \in Nat /\ Len(u) + Len(y) = 0
        BY <2>1, BodyCat, BodyParts, NoBody
      <4>2. Len(u) = 0
        BY <4>1
      <4>. QED  BY <4>2, EmptyBody
    <3>2. Partial(u) /\ <<u \o y, << >>>> \in Streams /\ << >> \in Seq(Events)
      BY <2>1, <3>1, StreamsGrow DEF Partial
    <3>. QED  BY <1>2, <3>2
  <2>. QED  BY <1>1, <2>1, StreamsGrow
<1>4. ASSUME NEW a \in WrittenEvents, NEW w \in Streams, w \in G PROVE Longer(a, w) \in G
  <2>1. PICK d \in Bodies, t \in Seq(Events) : w = <<d, t>>
    BY StreamParts
  <2>2. PICK v \in Streams : v = Longer(a, w)
    BY StreamsGrow
  <2>3. v[1] = Frame(a) \o d /\ v[2] = EventOf(a) \o t
    BY <2>1, <2>2 DEF Longer
  <2>4. v[2] \in Seq(Events) /\ v = <<v[1], v[2]>>
    BY StreamParts
  <2>5. ASSUME NEW u \in Bodies, u \o y = v[1] PROVE LinesWell(u, y, v[2])
    <3>1. CASE Partial(u)
      <4>1. <<u \o y, v[2]>> \in Streams
        BY <2>4, <2>5
      <4>. QED  BY <1>2, <2>4, <3>1, <4>1
    <3>2. CASE ~Partial(u)
      <4>1. PICK z \in Bodies : u = Frame(a) \o z /\ z \o y = d
        <5>1. u \o y = Frame(a) \o d
          BY <2>3, <2>5
        <5>2. Between(u, y, Frame(a), d)
          BY <3>2, <5>1, Comes
        <5>. QED  BY <5>2 DEF Between
      <4>2. LinesWell(z, y, t)
        BY <1>1, <1>4, <2>1, <4>1
      <4>3. PICK q \in Parsers : \E c : \E r \in Seq(Events) :
               /\ ByLine[Start(z)].parser = q /\ Matches(c, q)
               /\ Kept(c \o q.buf, y, t, ByLine[Start(z)].events, r)
        BY <4>2 DEF LinesWell
      <4>4. PICK c : \E r \in Seq(Events) :
               /\ ByLine[Start(z)].parser = q /\ Matches(c, q)
               /\ Kept(c \o q.buf, y, t, ByLine[Start(z)].events, r)
        BY <4>3
      <4>5. PICK r \in Seq(Events) :
               /\ ByLine[Start(z)].parser = q /\ Matches(c, q)
               /\ Kept(c \o q.buf, y, t, ByLine[Start(z)].events, r)
        BY <4>4
      <4>6. Kept(c \o q.buf, y, v[2], EventOf(a) \o ByLine[Start(z)].events, r)
        BY <2>3, <4>5, KeptMore
      <4>7. /\ ByLine[Start(u)].parser = ByLine[Start(z)].parser
            /\ ByLine[Start(u)].events = EventOf(a) \o ByLine[Start(z)].events
        <5>1. ByLine[Start(Frame(a) \o z)] =
                [events |-> EventOf(a) \o ByLine[Start(z)].events,
                 parser |-> ByLine[Start(z)].parser]
          BY LineWhole
        <5>. QED  BY <4>1, <5>1
      <4>. QED  BY <4>5, <4>6, <4>7 DEF LinesWell
    <3>. QED  BY <3>1, <3>2
  <2>. QED  BY <1>1, <2>2, <2>5
<1>5. Streams \subseteq G
  BY <1>3, <1>4, StreamsInduct
<1>6. PICK w \in Streams : w = <<x \o y, s>>
  OBVIOUS
<1>7. w[1] = x \o y /\ w[2] = s
  BY <1>6
<1>. QED  BY <1>1, <1>5, <1>6, <1>7

-----------------------------------------------------------------------------
\* One event of those a caller is given: f does the rest.
HearOne(h) ==
    LET e == h.events[1]
    IN  [text |-> IF e \in 1..Tokens THEN Append(h.text, e) ELSE h.text,
         outcome |-> IF e = Error THEN "error"
                     ELSE IF e = Done /\ reader # "cli" THEN "ok" ELSE h.outcome,
         events |-> Tail(h.events)]
HearBody(h, f) ==
    IF h.events = << >> \/ (h.outcome # "reading" /\ reader # "cli") THEN h ELSE f[HearOne(h)]

LEMMA HearingParts ==
    ASSUME NEW h \in Hearing
    PROVE  h.text \in Seq(1..Tokens) /\ h.outcome \in Outcomes /\ h.events \in Seq(Yields)
  BY DEF Hearing, Yields

LEMMA MakesHearing ==
    ASSUME NEW t \in Seq(1..Tokens), NEW o \in Outcomes, NEW q \in Seq(Yields)
    PROVE  [text |-> t, outcome |-> o, events |-> q] \in Hearing
  BY DEF Hearing, Yields

LEMMA Behead ==
    ASSUME NEW X, NEW q \in Seq(X), q # << >>
    PROVE  /\ q[1] \in X /\ Tail(q) \in Seq(X) /\ Len(Tail(q)) < Len(q) /\ Len(Tail(q)) \in Nat
           /\ q = <<q[1]>> \o Tail(q)
<1>1. Len(q) \in Nat /\ Len(q) # 0
  OBVIOUS
<1>2. 1 \in 1..Len(q)
  BY <1>1
<1>3. Tail(q) \in Seq(X) /\ Len(Tail(q)) = Len(q) - 1
  OBVIOUS
<1>4. q[1] \in X
  BY <1>2
<1>5. q = <<q[1]>> \o Tail(q)
  OBVIOUS
<1>. QED  BY <1>1, <1>3, <1>4, <1>5

LEMMA HearOneType ==
    ASSUME NEW h \in Hearing, h.events # << >>, NEW g, g = HearOne(h), NEW e, e = h.events[1]
    PROVE  /\ g \in Hearing /\ Len(g.events) < Len(h.events) /\ g.events = Tail(h.events)
           /\ g.text = (IF e \in 1..Tokens THEN Append(h.text, e) ELSE h.text)
           /\ g.outcome = (IF e = Error THEN "error"
                           ELSE IF e = Done /\ reader # "cli" THEN "ok" ELSE h.outcome)
<1>1. h.text \in Seq(1..Tokens) /\ h.outcome \in Outcomes /\ h.events \in Seq(Yields)
  BY HearingParts
<1>2. Tail(h.events) \in Seq(Yields) /\ Len(Tail(h.events)) < Len(h.events)
  BY <1>1, Behead
<1>3. PICK t \in Seq(1..Tokens) : t = IF e \in 1..Tokens THEN Append(h.text, e) ELSE h.text
  <2>1. e \in 1..Tokens => Append(h.text, e) \in Seq(1..Tokens)
    BY <1>1
  <2>. QED  BY <1>1, <2>1
<1>4. PICK o \in Outcomes : o = IF e = Error THEN "error"
                                ELSE IF e = Done /\ reader # "cli" THEN "ok" ELSE h.outcome
  BY <1>1 DEF Outcomes
<1>5. g = [text |-> t, outcome |-> o, events |-> Tail(h.events)]
  BY <1>3, <1>4 DEF HearOne
<1>6. g \in Hearing
  BY <1>2, <1>5, MakesHearing
<1>7. g.text = t /\ g.outcome = o /\ g.events = Tail(h.events)
  BY <1>5
<1>. QED  BY <1>2, <1>3, <1>4, <1>6, <1>7

LEMMA HearBodyType ==
    ASSUME NEW h \in Hearing, NEW f,
           \A g \in Hearing : Len(g.events) < Len(h.events) => f[g] \in Hearing
    PROVE  /\ HearBody(h, f) \in Hearing
           /\ \A k : (\A g \in Hearing : Len(g.events) < Len(h.events) => f[g] = k[g])
                        => HearBody(h, f) = HearBody(h, k)
<1>1. CASE h.events = << >> \/ (h.outcome # "reading" /\ reader # "cli")
  BY <1>1 DEF HearBody
<1>2. CASE ~(h.events = << >> \/ (h.outcome # "reading" /\ reader # "cli"))
  <2>1. PICK g \in Hearing : g = HearOne(h) /\ Len(g.events) < Len(h.events)
    BY <1>2, HearOneType
  <2>2. \A k : HearBody(h, k) = k[g]
    BY <1>2, <2>1 DEF HearBody
  <2>. QED  BY <2>1, <2>2
<1>. QED  BY <1>1, <1>2

LEMMA HearDef ==
    /\ HeardToken \in [Hearing -> Hearing]
    /\ \A h \in Hearing : HeardToken[h] = HearBody(h, HeardToken)
<1>1. PICK B : B = [x \in Hearing \X [Hearing -> Hearing] |-> HearBody(x[1], x[2])]
  OBVIOUS
<1>2. PICK m \in [Hearing -> Nat] : \A h \in Hearing : m[h] = Len(h.events)
  <2>1. \A h \in Hearing : Len(h.events) \in Nat
    BY HearingParts
  <2>2. [h \in Hearing |-> Len(h.events)] \in [Hearing -> Nat]
    BY <2>1
  <2>. QED  BY <2>2
<1>3. \A h \in Hearing : \A f \in [Hearing -> Hearing] :
          B[<<h, f>>] = HearBody(h, f) /\ HearBody(h, f) \in Hearing
  <2>1. \A h \in Hearing : \A f \in [Hearing -> Hearing] : B[<<h, f>>] = HearBody(h, f)
    BY <1>1
  <2>. QED  BY <2>1, HearBodyType
<1>4. B \in [Hearing \X [Hearing -> Hearing] -> Hearing]
  BY <1>1, <1>3
<1>5. ASSUME NEW h \in Hearing, NEW f \in [Hearing -> Hearing], NEW k \in [Hearing -> Hearing],
             \A g \in Hearing : m[g] < m[h] => f[g] = k[g]
      PROVE  B[<<h, f>>] = B[<<h, k>>]
  <2>1. \A g \in Hearing : Len(g.events) < Len(h.events) => f[g] = k[g] /\ f[g] \in Hearing
    BY <1>2, <1>5
  <2>2. HearBody(h, f) = HearBody(h, k)
    BY <2>1, HearBodyType
  <2>. QED  BY <1>3, <2>2
<1>6. Hearing # {}
  <2>1. << >> \in Seq(1..Tokens) /\ "ok" \in Outcomes /\ << >> \in Seq(Yields)
    BY DEF Outcomes
  <2>2. [text |-> << >>, outcome |-> "ok", events |-> << >>] \in Hearing
    BY <2>1, MakesHearing
  <2>. QED  BY <2>2
<1>7. PICK f \in [Hearing -> Hearing] : \A h \in Hearing : f[h] = B[<<h, f>>]
  <2>1. \A h \in Hearing : \A f, k \in [Hearing -> Hearing] :
          (\A g \in Hearing : m[g] < m[h] => f[g] = k[g]) => B[<<h, f>>] = B[<<h, k>>]
    BY <1>5
  <2>2. Descends(Hearing, Hearing, m, B)
    BY <1>2, <1>4, <1>6, <2>1, Zenon DEF Descends
  <2>. QED  BY <2>2, Recursion DEF Solution
<1>8. f = [h \in Hearing |-> HearBody(h, f)]
  BY <1>3, <1>7
<1>9. HeardToken = CHOOSE C : C = [h \in Hearing |-> HearBody(h, C)]
  BY Zenon DEF HeardToken, HearBody, HearOne
<1>10. HeardToken = [h \in Hearing |-> HearBody(h, HeardToken)]
  BY <1>8, <1>9, Zenon
<1>11. \A h \in Hearing : HeardToken[h] = HearBody(h, HeardToken)
  BY <1>10, Zenon
<1>12. PICK G : G = {h \in Hearing : HeardToken[h] \in Hearing}
  OBVIOUS
<1>13. ASSUME NEW h \in Hearing, \A g \in Hearing : m[g] < m[h] => g \in G
       PROVE  h \in G
  <2>1. \A g \in Hearing : Len(g.events) < Len(h.events) => HeardToken[g] \in Hearing
    BY <1>2, <1>12, <1>13
  <2>2. HeardToken[h] \in Hearing
    BY <1>11, <2>1, HearBodyType
  <2>. QED  BY <1>12, <2>2
<1>14. Hearing \subseteq G
  BY <1>13, Descent
<1>15. HeardToken \in [Hearing -> Hearing]
  <2>1. HeardToken = [h \in Hearing |-> HeardToken[h]]
    BY <1>10
  <2>. QED  BY <1>12, <1>14, <2>1
<1>. QED  BY <1>11, <1>15

-----------------------------------------------------------------------------
\* Events as a server writes them: the job (not NVIDIA's), the tokens in order
\* and one that is final.
Ahead == IF reader = "nim" THEN 0 ELSE 1
Shaped(y) ==
    \A i \in 1..Len(y) : /\ y[i] \in Finals => i = Len(y) /\ i > Ahead
                         /\ y[i] \notin Finals => y[i] = i - Ahead

\* How many tokens are among them, and the text that is made of those.
Tally(y) == IF y = << >> THEN 0
            ELSE IF y[Len(y)] \in Finals THEN Len(y) - 1 - Ahead ELSE Len(y) - Ahead
Told(t, y) == Len(t) = Tally(y) /\ \A n \in 1..Len(t) : t[n] = n
Stopped(o, y) == o # "reading" => y # << >> /\ y[Len(y)] \in Finals

LEMMA ShapedBefore ==
    ASSUME NEW y \in Seq(Events), NEW q \in Seq(Events), Shaped(y \o q)
    PROVE  Shaped(y) /\ (q # << >> => \A i \in 1..Len(y) : y[i] \notin Finals)
<1>1. PICK n \in Nat, k \in Nat : n = Len(y) /\ k = Len(q)
  OBVIOUS
<1>2. Len(y \o q) = n + k /\ \A i \in 1..n : (y \o q)[i] = y[i]
  BY <1>1, Cat
<1>3. Ahead \in Nat
  BY DEF Ahead
<1>4. ASSUME NEW i \in 1..n
      PROVE  /\ y[i] \in Finals => i = n /\ i > Ahead /\ k = 0
             /\ y[i] \notin Finals => y[i] = i - Ahead
  <2>1. i \in 1..Len(y \o q) /\ (y \o q)[i] = y[i]
    BY <1>2
  <2>2. /\ y[i] \in Finals => i = n + k /\ i > Ahead
        /\ y[i] \notin Finals => y[i] = i - Ahead
    BY <1>2, <2>1 DEF Shaped
  <2>. QED  BY <2>2
<1>5. k = 0 <=> q = << >>
  BY <1>1
<1>. QED  BY <1>1, <1>4, <1>5 DEF Shaped

LEMMA NoneInIt == ASSUME NEW X, NEW s \in Seq(X), Len(s) = 0 PROVE s = << >>
  OBVIOUS

LEMMA OneMore ==
    ASSUME NEW X, NEW s \in Seq(X), NEW e \in X, NEW v, v = s \o <<e>>
    PROVE  /\ v \in Seq(X) /\ Len(v) = Len(s) + 1 /\ Len(s) \in Nat /\ v # << >>
           /\ v[Len(s) + 1] = e /\ v[Len(v)] = e
           /\ \A i \in 1..Len(s) : v[i] = s[i]
<1>1. PICK o \in Seq(X) : o = <<e>> /\ Len(o) = 1 /\ o[1] = e
  <2>1. <<e>> \in Seq(X)
    OBVIOUS
  <2>2. Len(<<e>>) = 1 /\ <<e>>[1] = e
    OBVIOUS
  <2>. QED  BY <2>1, <2>2, Zenon
<1>2. /\ v \in Seq(X) /\ Len(v) = Len(s) + 1 /\ \A i \in 1..Len(s) : v[i] = s[i]
      /\ v[Len(s) + 1] = e
  <2>1. v = s \o o /\ 1 \in 1..Len(o)
    BY <1>1
  <2>. QED  BY <1>1, <2>1, Cat
<1>3. v # << >> /\ Len(s) \in Nat
  BY <1>2
<1>. QED  BY <1>2, <1>3

LEMMA AppendedTo ==
    ASSUME NEW X, NEW s \in Seq(X), NEW e \in X, NEW v, v = Append(s, e)
    PROVE  /\ v \in Seq(X) /\ Len(v) = Len(s) + 1 /\ v[Len(s) + 1] = e
           /\ \A i \in 1..Len(s) : v[i] = s[i]
  OBVIOUS

\* One event more for a caller.
LEMMA HearsOne ==
    ASSUME NEW y \in Seq(Events), NEW e \in Events, NEW t \in Seq(1..Tokens),
           Shaped(y \o <<e>>), Told(t, y)
    PROVE  Told(IF e \in 1..Tokens THEN Append(t, e) ELSE t, y \o <<e>>)
<1>1. PICK n \in Nat : n = Len(y)
  OBVIOUS
<1>2. PICK v \in Seq(Events) : /\ v = y \o <<e>> /\ Len(v) = n + 1 /\ v[n + 1] = e
                               /\ \A i \in 1..n : v[i] = y[i]
  <2>1. PICK v : v = y \o <<e>>
    OBVIOUS
  <2>2. /\ v \in Seq(Events) /\ Len(v) = Len(y) + 1 /\ v[Len(y) + 1] = e
        /\ \A i \in 1..Len(y) : v[i] = y[i]
    BY <2>1, OneMore
  <2>. QED  BY <1>1, <2>1, <2>2
<1>3. Ahead \in {0, 1} /\ Tokens \in Nat
  BY ReadersAssumption DEF Ahead
<1>4. /\ e \in Finals => n + 1 > Ahead
      /\ e \notin Finals => e = n + 1 - Ahead
      /\ \A i \in 1..n : y[i] \notin Finals
  <2>1. n + 1 \in 1..Len(v) /\ Shaped(v)
    BY <1>2
  <2>2. /\ e \in Finals => n + 1 > Ahead
        /\ e \notin Finals => e = n + 1 - Ahead
    <3>1. PICK j \in 1..Len(v) : j = n + 1 /\ v[j] = e
      BY <1>2, <2>1
    <3>2. /\ v[j] \in Finals => j = Len(v) /\ j > Ahead
          /\ v[j] \notin Finals => v[j] = j - Ahead
      BY <2>1 DEF Shaped
    <3>3. e \in Finals => n + 1 > Ahead
      BY <3>1, <3>2
    <3>4. e \notin Finals => e = n + 1 - Ahead
      <4>1. e \notin Finals => v[j] = j - Ahead
        BY <3>1, <3>2
      <4>2. e \notin Finals => e = j - Ahead
        BY <3>1, <4>1
      <4>. QED  BY <1>3, <3>1, <4>2
    <3>. QED  BY <3>3, <3>4
  <2>3. <<e>> \in Seq(Events) /\ <<e>> # << >>
    OBVIOUS
  <2>4. \A i \in 1..n : y[i] \notin Finals
    BY <1>1, <2>3, ShapedBefore
  <2>. QED  BY <2>2, <2>4
<1>5. Finals = {Tokens + 1, Tokens + 2} /\ e \in 0..(Tokens + 2)
  BY <1>3 DEF Finals, Done, Error, Events, Job
<1>6. Tally(y) = IF n = 0 THEN 0 ELSE n - Ahead
  <2>1. CASE n = 0
    <3>1. y = << >>
      BY <1>1, <2>1, NoneInIt
    <3>. QED  BY <2>1, <3>1 DEF Tally
  <2>2. CASE n # 0
    <3>1. y # << >> /\ n \in 1..n
      BY <1>1, <2>2
    <3>2. y[Len(y)] \notin Finals
      BY <1>1, <1>4, <3>1
    <3>. QED  BY <1>1, <2>2, <3>1, <3>2 DEF Tally
  <2>. QED  BY <2>1, <2>2
<1>7. Tally(v) = IF e \in Finals THEN n - Ahead ELSE n + 1 - Ahead
  <2>1. v # << >> /\ Len(v) - 1 = n
    BY <1>2
  <2>. QED  BY <1>2, <1>3, <2>1 DEF Tally
<1>8. CASE e \in 1..Tokens
  <2>1. e \notin Finals /\ e = n + 1 - Ahead
    BY <1>3, <1>4, <1>5, <1>8
  <2>2. Len(t) = e - 1
    BY <1>3, <1>6, <1>8, <2>1 DEF Told
  <2>3. PICK u \in Seq(1..Tokens) : /\ u = Append(t, e) /\ Len(u) = e /\ u[e] = e
                                    /\ \A i \in 1..(e - 1) : u[i] = t[i]
    <3>1. Len(t) = e - 1 /\ Len(t) + 1 = e
      BY <1>8, <2>2
    <3>2. PICK u : u = Append(t, e)
      OBVIOUS
    <3>3. /\ u \in Seq(1..Tokens) /\ Len(u) = Len(t) + 1 /\ u[Len(t) + 1] = e
          /\ \A i \in 1..Len(t) : u[i] = t[i]
      BY <1>8, <3>2, AppendedTo
    <3>. QED  BY <3>1, <3>2, <3>3
  <2>4. ASSUME NEW i \in 1..Len(u) PROVE u[i] = i
    <3>1. i = e \/ i \in 1..(e - 1)
      BY <1>8, <2>3
    <3>2. i \in 1..(e - 1) => t[i] = i
      BY <2>2 DEF Told
    <3>. QED  BY <2>3, <3>1, <3>2
  <2>5. Len(u) = Tally(v)
    BY <1>7, <2>1, <2>3
  <2>. QED  BY <1>2, <1>8, <2>3, <2>4, <2>5 DEF Told
<1>9. CASE e \notin 1..Tokens
  <2>1. Tally(v) = Tally(y)
    <3>1. CASE e \in Finals
      BY <1>3, <1>4, <1>6, <1>7, <3>1
    <3>2. CASE e \notin Finals
      <4>1. e = 0
        BY <1>3, <1>5, <1>9, <3>2
      <4>2. n = 0 /\ Ahead = 1
        BY <1>3, <1>4, <3>2, <4>1
      <4>. QED  BY <1>6, <1>7, <3>2, <4>2
    <3>. QED  BY <3>1, <3>2
  <2>. QED  BY <1>2, <1>9, <2>1 DEF Told
<1>. QED  BY <1>8, <1>9

\* And all of them.
HearsAll(h) == \A y \in Seq(Events) :
    (h.events \in Seq(Events) /\ Shaped(y \o h.events) /\ Told(h.text, y) /\ Stopped(h.outcome, y))
       => /\ Told(HeardToken[h].text, y \o h.events)
          /\ Stopped(HeardToken[h].outcome, y \o h.events)

LEMMA Hears == \A h \in Hearing : HearsAll(h)
<1>1. PICK m \in [Hearing -> Nat] : \A h \in Hearing : m[h] = Len(h.events)
  <2>1. \A h \in Hearing : Len(h.events) \in Nat
    BY HearingParts
  <2>2. [h \in Hearing |-> Len(h.events)] \in [Hearing -> Nat]
    BY <2>1
  <2>. QED  BY <2>2
<1>2. PICK G : G = {h \in Hearing : HearsAll(h)}
  OBVIOUS
<1>3. ASSUME NEW h \in Hearing, \A g \in Hearing : m[g] < m[h] => g \in G PROVE h \in G
  <2>1. SUFFICES ASSUME NEW y \in Seq(Events), h.events \in Seq(Events),
                        Shaped(y \o h.events), Told(h.text, y), Stopped(h.outcome, y)
                 PROVE  /\ Told(HeardToken[h].text, y \o h.events)
                        /\ Stopped(HeardToken[h].outcome, y \o h.events)
    BY <1>2 DEF HearsAll
  <2>2. HeardToken[h] = HearBody(h, HeardToken)
    BY HearDef
  <2>3. CASE h.events = << >>
    <3>1. HeardToken[h] = h
      BY <2>2, <2>3 DEF HearBody
    <3>2. y \o h.events = y
      BY <2>3, CatEmpty
    <3>. QED  BY <2>1, <3>1, <3>2
  <2>4. CASE h.events # << >> /\ h.outcome # "reading" /\ reader # "cli"
    <3>1. y # << >> /\ y[Len(y)] \in Finals
      BY <2>1, <2>4 DEF Stopped
    <3>2. Len(y) \in 1..Len(y)
      BY <3>1
    <3>3. y[Len(y)] \notin Finals
      BY <2>1, <2>4, <3>2, ShapedBefore
    <3>. QED  BY <3>1, <3>3
  <2>5. CASE h.events # << >> /\ ~(h.outcome # "reading" /\ reader # "cli")
    <3>1. PICK e \in Events : e = h.events[1]
      BY <2>1, <2>5, Behead
    <3>2. PICK q \in Seq(Events) : q = Tail(h.events) /\ h.events = <<e>> \o q
      BY <2>1, <2>5, <3>1, Behead
    <3>3. PICK v \in Seq(Events) : v = y \o <<e>> /\ v # << >> /\ v[Len(v)] = e
      <4>1. PICK v : v = y \o <<e>>
        OBVIOUS
      <4>2. v \in Seq(Events) /\ v # << >> /\ v[Len(v)] = e
        BY <4>1, OneMore
      <4>. QED  BY <4>1, <4>2
    <3>4. v \o q = y \o h.events
      <4>1. <<e>> \in Seq(Events)
        OBVIOUS
      <4>2. (y \o <<e>>) \o q = y \o (<<e>> \o q)
        BY <4>1, Assoc
      <4>. QED  BY <3>2, <3>3, <4>2
    <3>5. Shaped(v \o q)
      BY <2>1, <3>4
    <3>6. Shaped(v)
      BY <3>5, ShapedBefore
    <3>7. PICK g \in Hearing :
            /\ g = HearOne(h) /\ Len(g.events) < Len(h.events) /\ g.events = q
            /\ g.text = (IF e \in 1..Tokens THEN Append(h.text, e) ELSE h.text)
            /\ g.outcome = (IF e = Error THEN "error"
                            ELSE IF e = Done /\ reader # "cli" THEN "ok" ELSE h.outcome)
      <4>1. PICK g : g = HearOne(h)
        OBVIOUS
      <4>2. /\ g \in Hearing /\ Len(g.events) < Len(h.events) /\ g.events = Tail(h.events)
            /\ g.text = (IF e \in 1..Tokens THEN Append(h.text, e) ELSE h.text)
            /\ g.outcome = (IF e = Error THEN "error"
                            ELSE IF e = Done /\ reader # "cli" THEN "ok" ELSE h.outcome)
        BY <2>5, <3>1, <4>1, HearOneType
      <4>. QED  BY <3>2, <4>1, <4>2
    <3>8. HeardToken[h] = HeardToken[g]
      BY <2>2, <2>5, <3>7 DEF HearBody
    <3>9. h.text \in Seq(1..Tokens)
      BY HearingParts
    <3>10. Told(g.text, v)
      BY <2>1, <3>3, <3>6, <3>7, <3>9, HearsOne
    <3>11. Stopped(g.outcome, v)
      <4>1. CASE e \in {Error, Done}
        BY <3>3, <4>1 DEF Stopped, Finals
      <4>2. CASE e \notin {Error, Done}
        <5>1. g.outcome = h.outcome
          BY <3>7, <4>2
        <5>2. h.outcome = "reading"
          <6>1. SUFFICES ASSUME h.outcome # "reading" PROVE FALSE
            OBVIOUS
          <6>2. y # << >> /\ y[Len(y)] \in Finals
            BY <2>1, <6>1 DEF Stopped
          <6>3. Len(y) \in 1..Len(y)
            BY <6>2
          <6>4. y[Len(y)] \notin Finals
            BY <2>1, <2>5, <6>3, ShapedBefore
          <6>. QED  BY <6>2, <6>4
        <5>. QED  BY <5>1, <5>2 DEF Stopped
      <4>. QED  BY <4>1, <4>2
    <3>12. HearsAll(g)
      BY <1>1, <1>2, <1>3, <3>7
    <3>13. /\ Told(HeardToken[g].text, v \o g.events)
           /\ Stopped(HeardToken[g].outcome, v \o g.events)
      BY <3>5, <3>7, <3>10, <3>11, <3>12 DEF HearsAll
    <3>. QED  BY <3>4, <3>7, <3>8, <3>13
  <2>. QED  BY <2>3, <2>4, <2>5
<1>4. Hearing \subseteq G
  BY <1>3, Descent
<1>. QED  BY <1>2, <1>4

-----------------------------------------------------------------------------
\* What a parser stands for: the frame under way, from its first line on.
Begun(p, x) == IF reader = "cli" THEN \E c : Matches(c, p) /\ x = c \o p.buf ELSE p = Start(x)

\* A piece that arrives: its whole frames are taken, and no other.
TakesWell(p, y, s) ==
    /\ p.parser \in Parsers
    /\ \E x : \E r \in Seq(Events) : Kept(x, y, s, p.events, r) /\ Begun(p.parser, x)

LEMMA ParsedWell ==
    ASSUME parser \in Parsers, NEW x \in Bodies, Begun(parser, x), NEW u \in Bodies,
           NEW y \in Bodies, NEW s \in Seq(Events), <<(x \o u) \o y, s>> \in Streams
    PROVE  TakesWell(Parsed(u), y, s)
<1>1. PICK b \in Bodies : b = parser.buf \o u
  BY ParserParts, BodyCat
<1>2. PICK p : p = [parser EXCEPT !.buf = b]
  OBVIOUS
<1>3. p \in Parsers /\ p.buf = b /\ p.event = parser.event /\ p.data = parser.data
  BY <1>2 DEF Parsers
<1>4. Parsed(u) = IF reader = "cli" THEN ByLine[p]
                  ELSE [events |-> SplitFrames[p.buf].events,
                        parser |-> [p EXCEPT !.buf = SplitFrames[p.buf].buf]]
  <2>1. p = [parser EXCEPT !.buf = @ \o u]
    BY <1>1, <1>2
  <2>. QED  BY <2>1 DEF Parsed
<1>5. x \o u \in Bodies
  BY BodyCat
<1>6. CASE reader = "cli"
  <2>1. PICK c : Matches(c, parser) /\ x = c \o parser.buf
    BY <1>6 DEF Begun
  <2>2. Matches(c, p)
    BY <1>3, <2>1 DEF Matches
  <2>3. c \in Bodies /\ ByLine[Start(c \o p.buf)] = ByLine[p]
    BY <1>3, <2>2, Resume
  <2>4. c \o p.buf = x \o u
    <3>1. parser.buf \in Bodies
      BY ParserParts
    <3>2. (c \o parser.buf) \o u = c \o (parser.buf \o u)
      BY <2>3, <3>1, BodyAssoc, ZenonT(30)
    <3>. QED  BY <1>1, <1>3, <2>1, <3>2
  <2>5. LinesWell(x \o u, y, s)
    BY <1>5, <1>6, LineStreams
  <2>6. PICK q \in Parsers : \E d : \E r \in Seq(Events) :
           /\ ByLine[p].parser = q /\ Matches(d, q)
           /\ Kept(d \o q.buf, y, s, ByLine[p].events, r)
    BY <2>3, <2>4, <2>5 DEF LinesWell
  <2>7. Parsed(u) = ByLine[p]
    BY <1>4, <1>6
  <2>. QED  BY <1>6, <2>6, <2>7 DEF TakesWell, Begun
<1>7. CASE reader # "cli"
  <2>1. parser = Start(x)
    BY <1>7 DEF Begun
  <2>2. p.buf = x \o u /\ p.event = FALSE /\ p.data = << >>
    BY <1>1, <1>3, <2>1, StartType
  <2>3. SplitsWell(x \o u, y, s)
    BY <1>5, SplitStreams
  <2>4. PICK r \in Seq(Events) :
          Kept(SplitFrames[p.buf].buf, y, s, SplitFrames[p.buf].events, r)
    BY <2>2, <2>3 DEF SplitsWell
  <2>5. PICK z \in Bodies : z = SplitFrames[p.buf].buf
    BY <2>4 DEF Kept
  <2>6. [p EXCEPT !.buf = z] = Start(z)
    <3>1. PICK q : q = [p EXCEPT !.buf = z]
      OBVIOUS
    <3>2. q \in Parsers /\ q.buf = z /\ q.event = p.event /\ q.data = p.data
      BY <1>3, <3>1 DEF Parsers
    <3>3. q = [buf |-> z, event |-> FALSE, data |-> << >>]
      BY <2>2, <3>2, ParserParts
    <3>. QED  BY <3>1, <3>3 DEF Start
  <2>7. Parsed(u).parser = Start(z) /\ Parsed(u).events = SplitFrames[p.buf].events
    BY <1>4, <1>7, <2>5, <2>6
  <2>8. Start(z) \in Parsers
    BY StartType
  <2>. QED  BY <1>7, <2>4, <2>5, <2>7, <2>8 DEF TakesWell, Begun
<1>. QED  BY <1>6, <1>7

\* What the end of the body makes of a frame under way: its event, or none.
LEMMA RestIs ==
    ASSUME parser \in Parsers, NEW x \in Bodies, Partial(x), Begun(parser, x),
           NEW y \in Bodies, NEW s \in Seq(Events), <<x \o y, s>> \in Streams
    PROVE  \/ Rest = << >> \/ Rest = <<Nothing>>
           \/ \E e \in Events : \E t \in Seq(Events) : Rest = <<e>> /\ s = <<e>> \o t
<1>1. CASE x = << >>
  <2>1. CASE reader = "cli"
    <3>1. PICK c : Matches(c, parser) /\ x = c \o parser.buf
      BY <2>1 DEF Begun
    <3>2. c \in Bodies /\ parser.buf \in Bodies
      BY <3>1, Resume, ParserParts
    <3>3. Len(c) = 0
      <4>1. Len(c) \in Nat /\ Len(parser.buf) \in Nat /\ Len(c) + Len(parser.buf) = 0
        <5>1. Len(c \o parser.buf) = Len(c) + Len(parser.buf)
          BY <3>2, BodyCat
        <5>2. Len(c \o parser.buf) = 0
          BY <1>1, <3>1, NoBody
        <5>. QED  BY <3>2, <5>1, <5>2, BodyParts
      <4>. QED  BY <4>1
    <3>4. ~parser.event /\ parser.data = << >>
      BY <3>1, <3>3 DEF Matches
    <3>. QED  BY <2>1, <3>4 DEF Rest, Flush
  <2>2. CASE reader # "cli"
    <3>1. parser.buf = << >>
      BY <1>1, <2>2, StartType DEF Begun
    <3>2. ParseFrame(<< >>) = << >>
      <4>1. \A i \in 1..Len(<< >>) : << >>[i].line # "data"
        BY NoBody
      <4>. QED  BY <4>1, NoBody, ParseFrameFacts
    <3>. QED  BY <2>2, <3>1, <3>2 DEF Rest
  <2>. QED  BY <2>1, <2>2
<1>2. CASE x # << >>
  <2>1. CutFrame(x, y, s)
    BY <1>2, PartialNext
  <2>2. PICK a \in WrittenEvents, c \in Bodies, t \in Seq(Events) :
       /\ s = EventOf(a) \o t
       /\ Len(x) \in 1..(Len(Frame(a)) - 1) /\ x = SubSeq(Frame(a), 1, Len(x))
    BY <2>1 DEF CutFrame
  <2>3. CASE reader # "cli"
    <3>1. Rest = ParseFrame(x)
      BY <2>3, StartType DEF Begun, Rest
    <3>2. ParseFrame(x) \in {<< >>, EventOf(a)}
      <4>1. Len(x) \in 0..(Len(Frame(a)) - 1)
        BY <2>2
      <4>. QED  BY <2>2, <4>1, FrameParsed
    <3>3. EventOf(a) = << >> \/ (a \in Events /\ EventOf(a) = <<a>>)
      BY WrittenFacts
    <3>. QED  BY <2>2, <3>1, <3>2, <3>3
  <2>4. CASE reader = "cli"
    <3>1. PICK d : Matches(d, parser) /\ x = d \o parser.buf
      BY <2>4 DEF Begun
    <3>2. d \in Bodies /\ parser.buf \in Bodies
      BY <3>1, Resume, ParserParts
    <3>3. Rest = Flush(parser)
      BY <2>4 DEF Rest
    <3>4. CASE ~parser.event /\ parser.data = << >>
      BY <3>3, <3>4 DEF Flush
    <3>5. CASE parser.event /\ parser.data = << >>
      BY <3>3, <3>5 DEF Flush
    <3>6. ASSUME NEW e \in Events, d = <<EventLine(e), NL, DataLine(e), NL>>, parser.data = <<e>>
          PROVE  Rest = <<e>> /\ s = <<e>> \o t
      <4>1. Rest = <<e>>
        <5>1. <<e>> # << >> /\ <<e>>[1] = e
          OBVIOUS
        <5>. QED  BY <3>3, <3>6, <5>1 DEF Flush
      <4>2. x[1] = EventLine(e)
        <5>1. Len(d) = 4 /\ d[1] = EventLine(e)
          BY <3>6
        <5>2. 1 \in 1..Len(d)
          BY <5>1
        <5>. QED  BY <3>1, <3>2, <5>1, <5>2, BodyCat
      <4>3. x[1] = Frame(a)[1]
        <5>1. Len(x) \in Nat /\ Len(x) # 0 /\ \A i \in 1..Len(x) : x[i] = Frame(a)[i]
          BY <2>2, PartialFacts
        <5>2. 1 \in 1..Len(x)
          BY <5>1
        <5>. QED  BY <5>1, <5>2
      <4>4. e \in WrittenEvents /\ Frame(e)[1] = EventLine(e) /\ EventOf(e) = <<e>>
        <5>1. e \in WrittenEvents /\ e # Heartbeat /\ EventOf(e) = <<e>>
          BY WrittenFacts
        <5>. QED  BY <2>4, <5>1, FrameShape
      <4>5. a = e
        BY <4>2, <4>3, <4>4, FramesDiffer
      <4>. QED  BY <2>2, <4>1, <4>4, <4>5
    <3>7. \/ ~parser.event /\ parser.data = << >>
          \/ parser.event /\ parser.data = << >>
          \/ \E e \in Events : d = <<EventLine(e), NL, DataLine(e), NL>> /\ parser.data = <<e>>
      BY <3>1 DEF Matches
    <3>. QED  BY <3>4, <3>5, <3>6, <3>7
  <2>. QED  BY <2>3, <2>4
<1>. QED  BY <1>1, <1>2

-----------------------------------------------------------------------------
\* What is under way: the frame the parser has begun, the wire, and the end of the
\* body, z, when that was cut off, hold the events r that have not been yielded.
Carries(x, z, r) ==
    /\ Partial(x) /\ Begun(parser, x) /\ <<x \o (wire \o z), r>> \in Streams
    /\ said = yielded \o r /\ (body = "open" => z = << >>)
Underway == \E x \in Bodies : \E z \in Bodies : \E r \in Seq(Events) : Carries(x, z, r)
ReadersInv ==
    /\ ReadersTypeOK /\ Shaped(said) /\ Told(text, yielded)
    /\ \E r \in Seq(Events) : said = yielded \o r
    /\ body # "over" => Underway /\ Stopped(outcome, yielded)
    /\ body = "over" => wire = << >>

LEMMA ReaderStays ==
    ASSUME reader' = reader
    PROVE  Streams' = Streams /\ \A e \in WrittenEvents : Frame(e)' = Frame(e)
<1>1. \A e : Frame(e)' = Frame(e)
  BY DEF Frame
<1>. QED  BY <1>1 DEF Streams, Grown, Longer

LEMMA HoldsNext ==
    ASSUME reader' = reader, NEW x, NEW z, NEW r, NEW p, p = parser',
           Partial(x), Begun(p, x), <<x \o (wire' \o z), r>> \in Streams,
           said' = yielded' \o r, body' = "open" => z = << >>
    PROVE  Carries(x, z, r)'
<1>1. Partial(x)'
  BY DEF Partial, Frame
<1>2. Begun(parser, x)'
  BY DEF Begun, Matches, Start
<1>3. Streams' = Streams
  BY ReaderStays
<1>. QED  BY <1>1, <1>2, <1>3 DEF Carries

LEMMA ReadersInvInit == ReadersInit => ReadersInv
<1>1. SUFFICES ASSUME ReadersInit PROVE ReadersInv
  OBVIOUS
<1>2. /\ reader \in Readers /\ said = << >> /\ pings = 0 /\ wire = << >> /\ yielded = << >>
      /\ text = << >> /\ parser = Start(<< >>) /\ body = "open" /\ outcome = "reading"
  BY <1>1 DEF ReadersInit, Start
<1>3. << >> \in Seq(Events) /\ << >> \in Seq(1..Tokens) /\ Len(<< >>) = 0
  OBVIOUS
<1>4. ReadersTypeOK
  <2>1. parser \in Parsers /\ wire \in Bodies
    BY <1>2, NoBody, StartType
  <2>. QED  BY <1>2, <1>3, <2>1, ReadersAssumption DEF ReadersTypeOK, Outcomes
<1>5. Shaped(said)
  BY <1>2, <1>3 DEF Shaped
<1>6. Told(text, yielded)
  BY <1>2, <1>3 DEF Told, Tally
<1>7. << >> \o << >> = << >>
  BY <1>3, CatEmpty
<1>8. Underway
  <2>1. Begun(parser, << >>)
    <3>1. Matches(<< >>, parser) /\ << >> = << >> \o parser.buf
      BY <1>2, <1>7, NoBody, StartType DEF Matches
    <3>. QED  BY <1>2, <3>1 DEF Begun
  <2>2. Carries(<< >>, << >>, << >>)
    BY <1>2, <1>7, <2>1, StreamsGrow DEF Carries, Partial
  <2>. QED  BY <1>3, <2>2, NoBody DEF Underway
<1>. QED  BY <1>2, <1>3, <1>4, <1>5, <1>6, <1>7, <1>8 DEF ReadersInv, Stopped

\* The server writes a frame, w: an event or a heartbeat.
LEMMA SayMore ==
    ASSUME ReadersInv, body = "open", NEW a \in WrittenEvents, Say(a), said' = said \o EventOf(a)
    PROVE  Underway' /\ \E r \in Seq(Events) : said' = yielded' \o r
<1>1. /\ wire' = wire \o Frame(a) /\ reader' = reader /\ parser' = parser /\ yielded' = yielded
      /\ body' = body /\ wire \in Bodies /\ yielded \in Seq(Events) /\ parser \in Parsers
  BY DEF Say, ReadersInv, ReadersTypeOK
<1>2. PICK x \in Bodies, z \in Bodies, r \in Seq(Events) : Carries(x, z, r)
  BY DEF ReadersInv, Underway
<1>3. /\ Partial(x) /\ Begun(parser, x) /\ <<x \o (wire \o z), r>> \in Streams
      /\ said = yielded \o r /\ z = << >>
  BY <1>2 DEF Carries
<1>4. Frame(a) \in Bodies /\ EventOf(a) \in Seq(Events) /\ wire \o z = wire /\ x \o wire \in Bodies
  BY <1>1, <1>3, FrameShape, WrittenFacts, BodyCat
<1>5. <<(x \o wire) \o Frame(a), r \o EventOf(a)>> \in Streams
  BY <1>3, <1>4, StreamsAppend
<1>6. x \o (wire' \o z) = (x \o wire) \o Frame(a)
  <2>1. wire \o Frame(a) \in Bodies
    BY <1>1, <1>4, BodyCat
  <2>2. wire' \o z = wire \o Frame(a)
    BY <1>1, <1>3, <2>1, BodyCat
  <2>3. (x \o wire) \o Frame(a) = x \o (wire \o Frame(a))
    BY <1>1, <1>4, BodyAssoc, ZenonT(30)
  <2>. QED  BY <2>2, <2>3
<1>7. r \o EventOf(a) \in Seq(Events) /\ said' = yielded' \o (r \o EventOf(a))
  <2>1. (yielded \o r) \o EventOf(a) = yielded \o (r \o EventOf(a))
    BY <1>1, <1>4, EventsAssoc, ZenonT(30)
  <2>2. r \o EventOf(a) \in Seq(Events)
    BY <1>4, Cat
  <2>. QED  BY <1>1, <1>3, <2>1, <2>2
<1>8. Carries(x, z, r \o EventOf(a))'
  <2>1. PICK p : p = parser' /\ p = parser
    BY <1>1
  <2>2. <<x \o (wire' \o z), r \o EventOf(a)>> \in Streams
    BY <1>5, <1>6
  <2>3. Begun(p, x) /\ (body' = "open" => z = << >>)
    BY <1>3, <2>1
  <2>. QED  BY <1>1, <1>3, <1>7, <2>1, <2>2, <2>3, HoldsNext
<1>9. Underway'
  BY <1>7, <1>8 DEF Underway
<1>. QED  BY <1>7, <1>9

\* Until the body is over, what the caller can know does not depend on it.
LEMMA ToldStays ==
    ASSUME reader' = reader, yielded' = yielded, text' = text
    PROVE  (Told(text, yielded) => Told(text, yielded)')
  BY DEF Told, Tally, Ahead

LEMMA SpeakKeeps == ASSUME ReadersInv, Speak PROVE ReadersInv'
<1>1. PICK e \in Coming : body = "open" /\ said' = Append(said, e) /\ Say(e) /\ pings' = pings
  BY DEF Speak
<1>2. /\ reader' = reader /\ parser' = parser /\ yielded' = yielded /\ body' = body
      /\ outcome' = outcome /\ text' = text /\ wire' = wire \o Frame(e)
  BY <1>1 DEF Say
<1>3. /\ reader \in Readers /\ said \in Seq(Events) /\ pings \in 0..MaxPings /\ wire \in Bodies
      /\ parser \in Parsers /\ yielded \in Seq(Events) /\ outcome \in Outcomes
      /\ text \in Seq(1..Tokens) /\ Shaped(said) /\ Told(text, yielded)
      /\ Underway /\ Stopped(outcome, yielded)
  BY <1>1 DEF ReadersInv, ReadersTypeOK
<1>4. PICK n \in Nat : n = Len(said)
  BY <1>3
<1>5. Ahead \in {0, 1} /\ Tokens \in Nat /\ Finals = {Tokens + 1, Tokens + 2}
  BY ReadersAssumption DEF Ahead, Finals, Done, Error
<1>6. /\ e \in Events /\ ~Final(said)
      /\ e \in Finals => n + 1 > Ahead
      /\ e \notin Finals => e = n + 1 - Ahead
  <2>1. Coming = IF Final(said) THEN {} ELSE IF n + 1 - Ahead = 0 THEN {Job}
                 ELSE (IF n + 1 - Ahead <= Tokens THEN {n + 1 - Ahead} ELSE {Done})
                        \cup (IF reader = "nim" THEN {} ELSE {Error})
    <3>1. n + (IF reader = "nim" THEN 1 ELSE 0) = n + 1 - Ahead
      BY DEF Ahead
    <3>. QED  BY <1>4, <3>1 DEF Coming
  <2>2. Events = 0..(Tokens + 2) /\ Job = 0 /\ Done = Tokens + 1 /\ Error = Tokens + 2
    BY DEF Events, Job, Done, Error
  <2>3. ~Final(said)
    BY <2>1
  <2>4. CASE n + 1 - Ahead = 0
    BY <1>5, <2>1, <2>2, <2>3, <2>4
  <2>5. CASE n + 1 - Ahead # 0
    <3>1. n + 1 - Ahead \in Nat /\ n + 1 - Ahead >= 1 /\ n + 1 > Ahead
      BY <1>5, <2>5
    <3>2. (e = n + 1 - Ahead /\ n + 1 - Ahead <= Tokens) \/ e = Done \/ e = Error
      BY <2>1, <2>3, <2>5
    <3>. QED  BY <1>5, <2>2, <2>3, <3>1, <3>2
  <2>. QED  BY <2>4, <2>5
<1>7. PICK v : v = said'
  OBVIOUS
<1>8. /\ v \in Seq(Events) /\ Len(v) = n + 1 /\ v[n + 1] = e
      /\ \A i \in 1..n : v[i] = said[i]
  BY <1>1, <1>3, <1>4, <1>6, <1>7, AppendedTo
<1>9. Shaped(v)
  <2>1. SUFFICES ASSUME NEW i \in 1..Len(v)
                 PROVE  /\ v[i] \in Finals => i = Len(v) /\ i > Ahead
                        /\ v[i] \notin Finals => v[i] = i - Ahead
    BY DEF Shaped
  <2>2. CASE i = n + 1
    <3>1. v[i] = e /\ i = Len(v)
      BY <1>8, <2>2
    <3>. QED  BY <1>4, <1>5, <1>6, <2>2, <3>1
  <2>3. CASE i # n + 1
    <3>1. i \in 1..n
      BY <1>4, <1>8, <2>3
    <3>2. /\ said[i] \in Finals => i = n /\ i > Ahead
          /\ said[i] \notin Finals => said[i] = i - Ahead
      BY <1>3, <1>4, <3>1 DEF Shaped
    <3>3. said[i] \notin Finals
      <4>1. ASSUME said[i] \in Finals PROVE FALSE
        <5>1. i = n /\ said # << >>
          BY <1>3, <1>4, <3>1, <3>2, <4>1
        <5>. QED  BY <1>4, <1>6, <4>1, <5>1 DEF Final
      <4>. QED  BY <4>1
    <3>. QED  BY <1>8, <3>1, <3>2, <3>3
  <2>. QED  BY <2>2, <2>3
<1>10. Shaped(said)'
  <2>1. Ahead' = Ahead
    BY <1>2 DEF Ahead
  <2>. QED  BY <1>7, <1>9, <2>1 DEF Shaped
<1>11. Underway' /\ \E r \in Seq(Events) : said' = yielded' \o r
  <2>1. e \in WrittenEvents /\ EventOf(e) = <<e>>
    BY <1>6, WrittenFacts
  <2>2. said' = said \o <<e>>
    BY <1>1, <1>3, <1>6
  <2>. QED  BY <1>1, <2>1, <2>2, SayMore
<1>12. ReadersTypeOK'
  <2>1. wire \o Frame(e) \in Bodies
    <3>1. Frame(e) \in Bodies
      BY <1>6, WrittenFacts, FrameShape
    <3>. QED  BY <1>3, <3>1, BodyCat
  <2>. QED  BY <1>1, <1>2, <1>3, <1>7, <1>8, <2>1 DEF ReadersTypeOK
<1>13. Told(text, yielded)'
  BY <1>2, <1>3, ToldStays
<1>14. Stopped(outcome, yielded)'
  BY <1>2, <1>3 DEF Stopped
<1>. QED  BY <1>1, <1>2, <1>10, <1>11, <1>12, <1>13, <1>14 DEF ReadersInv

LEMMA PingKeeps == ASSUME ReadersInv, Ping PROVE ReadersInv'
<1>1. /\ body = "open" /\ pings < MaxPings /\ pings' = pings + 1 /\ Say(Heartbeat)
      /\ said' = said
  BY DEF Ping
<1>2. /\ reader' = reader /\ parser' = parser /\ yielded' = yielded /\ body' = body
      /\ outcome' = outcome /\ text' = text /\ wire' = wire \o Frame(Heartbeat)
  BY <1>1 DEF Say
<1>3. /\ reader \in Readers /\ said \in Seq(Events) /\ pings \in 0..MaxPings /\ wire \in Bodies
      /\ parser \in Parsers /\ yielded \in Seq(Events) /\ outcome \in Outcomes
      /\ text \in Seq(1..Tokens) /\ Shaped(said) /\ Told(text, yielded)
      /\ Underway /\ Stopped(outcome, yielded)
  BY <1>1 DEF ReadersInv, ReadersTypeOK
<1>4. Heartbeat \in WrittenEvents /\ EventOf(Heartbeat) = << >> /\ said' = said \o EventOf(Heartbeat)
  BY <1>1, <1>3, WrittenFacts, CatEmpty
<1>5. Underway' /\ \E r \in Seq(Events) : said' = yielded' \o r
  BY <1>1, <1>4, SayMore
<1>6. ReadersTypeOK'
  <2>1. wire \o Frame(Heartbeat) \in Bodies
    BY <1>3, <1>4, FrameShape, BodyCat
  <2>2. pings' \in 0..MaxPings
    BY <1>1, <1>3, ReadersAssumption
  <2>. QED  BY <1>1, <1>2, <1>3, <2>1, <2>2 DEF ReadersTypeOK
<1>7. Shaped(said)'
  BY <1>1, <1>2, <1>3 DEF Shaped, Ahead
<1>8. Told(text, yielded)'
  BY <1>2, <1>3, ToldStays
<1>9. Stopped(outcome, yielded)'
  BY <1>2, <1>3 DEF Stopped
<1>. QED  BY <1>1, <1>2, <1>5, <1>6, <1>7, <1>8, <1>9 DEF ReadersInv

LEMMA EndBodyKeeps == ASSUME ReadersInv, EndBody PROVE ReadersInv'
<1>1. /\ body = "open" /\ reader' = reader /\ said' = said /\ pings' = pings /\ parser' = parser
      /\ yielded' = yielded /\ outcome' = outcome /\ text' = text
      /\ body' \in {"ended", "broken"}
  BY DEF EndBody
<1>2. /\ reader \in Readers /\ said \in Seq(Events) /\ pings \in 0..MaxPings /\ wire \in Bodies
      /\ parser \in Parsers /\ yielded \in Seq(Events) /\ outcome \in Outcomes
      /\ text \in Seq(1..Tokens) /\ Shaped(said) /\ Told(text, yielded)
      /\ Underway /\ Stopped(outcome, yielded)
  BY <1>1 DEF ReadersInv, ReadersTypeOK
<1>3. PICK w \in Bodies, t \in Bodies : wire' = w /\ wire = w \o t
  <2>1. CASE wire' = wire
    <3>1. wire = wire \o << >>
      BY <1>2, BodyCat
    <3>. QED  BY <1>2, <2>1, <3>1, NoBody
  <2>2. ASSUME NEW k \in 0..Len(wire), wire' = SubSeq(wire, 1, k)
        PROVE  \E w, t \in Bodies : wire' = w /\ wire = w \o t
    <3>1. k + 1 \in 1..(Len(wire) + 1) /\ SubSeq(wire, 1, k) \in Bodies
      BY <1>2, BodyParts
    <3>2. TextAfter(wire, k + 1) \in Bodies
      BY <1>2, <3>1, BodyParts
    <3>3. SubSeq(wire, 1, k) \o TextAfter(wire, k + 1) = wire
      BY <1>2, BodyHalves
    <3>. QED  BY <2>2, <3>1, <3>2, <3>3
  <2>. QED  BY <2>1, <2>2 DEF EndBody
<1>4. PICK x \in Bodies, z \in Bodies, r \in Seq(Events) : Carries(x, z, r)
  BY <1>2 DEF Underway
<1>5. /\ Partial(x) /\ Begun(parser, x) /\ <<x \o (wire \o z), r>> \in Streams
      /\ said = yielded \o r /\ z = << >>
  BY <1>1, <1>4 DEF Carries
<1>6. Carries(x, t, r)'
  <2>1. wire \o z = wire' \o t
    BY <1>2, <1>3, <1>5, BodyCat
  <2>2. PICK p : p = parser' /\ p = parser
    BY <1>1
  <2>3. Begun(p, x) /\ <<x \o (wire' \o t), r>> \in Streams
    BY <1>5, <2>1, <2>2
  <2>4. said' = yielded' \o r /\ (body' = "open" => t = << >>)
    BY <1>1, <1>5
  <2>. QED  BY <1>1, <1>5, <2>2, <2>3, <2>4, HoldsNext
<1>7. Underway'
  BY <1>6 DEF Underway
<1>8. ReadersTypeOK'
  BY <1>1, <1>2, <1>3 DEF ReadersTypeOK
<1>9. Shaped(said)'
  BY <1>1, <1>2 DEF Shaped, Ahead
<1>10. Told(text, yielded)'
  BY <1>1, <1>2, ToldStays
<1>11. Stopped(outcome, yielded)'
  BY <1>1, <1>2 DEF Stopped
<1>12. \E q \in Seq(Events) : said' = yielded' \o q
  BY <1>1, <1>5
<1>. QED  BY <1>1, <1>7, <1>8, <1>9, <1>10, <1>11, <1>12 DEF ReadersInv

\* The caller is given events that the server has written next.
LEMMA HearsNext ==
    ASSUME reader' = reader, text \in Seq(1..Tokens), outcome \in Outcomes, NEW q \in Seq(Events),
           yielded \in Seq(Events), Shaped(yielded \o q), Told(text, yielded),
           Stopped(outcome, yielded), NEW g, g = CallerHears(q)
    PROVE  /\ g.text \in Seq(1..Tokens) /\ g.outcome \in Outcomes
           /\ Told(g.text, yielded \o q) /\ Stopped(g.outcome, yielded \o q)
<1>1. q \in Seq(Yields)
  BY DEF Yields
<1>2. PICK h : h = [text |-> text, outcome |-> outcome, events |-> q]
  OBVIOUS
<1>3. h \in Hearing /\ h.text = text /\ h.outcome = outcome /\ h.events = q
  BY <1>1, <1>2, MakesHearing
<1>4. g = HeardToken[h]
  BY <1>2 DEF CallerHears
<1>5. g \in Hearing
  BY <1>3, <1>4, HearDef
<1>6. HearsAll(h)
  BY <1>3, Hears
<1>7. Told(g.text, yielded \o q) /\ Stopped(g.outcome, yielded \o q)
  BY <1>3, <1>4, <1>6 DEF HearsAll
<1>. QED  BY <1>5, <1>7, HearingParts

LEMMA ReadKeeps == ASSUME ReadersInv, Read PROVE ReadersInv'
<1>1. PICK k \in 1..Len(wire) :
        /\ wire' = TextAfter(wire, k + 1)
        /\ parser' = Parsed(SubSeq(wire, 1, k)).parser
        /\ TakeToken(Parsed(SubSeq(wire, 1, k)).events)
  BY DEF Read
<1>2. /\ wire # << >> /\ reader' = reader /\ said' = said /\ pings' = pings /\ body' = body
  BY DEF Read
<1>3. /\ reader \in Readers /\ said \in Seq(Events) /\ pings \in 0..MaxPings /\ wire \in Bodies
      /\ parser \in Parsers /\ yielded \in Seq(Events) /\ outcome \in Outcomes
      /\ text \in Seq(1..Tokens) /\ Shaped(said) /\ Told(text, yielded)
      /\ body \in {"open", "ended", "broken", "over"}
  BY DEF ReadersInv, ReadersTypeOK
<1>4. body # "over" /\ Underway /\ Stopped(outcome, yielded)
  BY <1>2, <1>3 DEF ReadersInv
<1>5. PICK x \in Bodies, z \in Bodies, r \in Seq(Events) : Carries(x, z, r)
  BY <1>4 DEF Underway
<1>6. /\ Partial(x) /\ Begun(parser, x) /\ <<x \o (wire \o z), r>> \in Streams
      /\ said = yielded \o r /\ (body = "open" => z = << >>)
  BY <1>5 DEF Carries
<1>7. PICK u \in Bodies : u = SubSeq(wire, 1, k)
  <2>1. PICK l \in Nat : l = Len(wire)
    BY <1>3, BodyParts
  <2>2. k \in 0..l
    BY <2>1
  <2>. QED  BY <1>3, <2>1, <2>2, BodyParts
<1>8. PICK t \in Bodies : t = TextAfter(wire, k + 1) /\ wire = u \o t
  <2>1. k \in 0..Len(wire) /\ k + 1 \in 1..(Len(wire) + 1)
    BY <1>3, BodyParts
  <2>. QED  BY <1>3, <1>7, <2>1, BodyParts, BodyHalves
<1>9. PICK y \in Bodies : y = t \o z
  BY BodyCat
<1>10. x \o (wire \o z) = (x \o u) \o y
  <2>1. (u \o t) \o z = u \o (t \o z)
    BY BodyAssoc, ZenonT(30)
  <2>2. (x \o u) \o y = x \o (u \o y)
    BY BodyAssoc, ZenonT(30)
  <2>. QED  BY <1>8, <1>9, <2>1, <2>2
<1>11. TakesWell(Parsed(u), y, r)
  BY <1>3, <1>6, <1>10, ParsedWell
<1>12. PICK p, q : p = Parsed(u).parser /\ q = Parsed(u).events
  OBVIOUS
<1>13. p \in Parsers /\ \E v : \E s \in Seq(Events) : Kept(v, y, r, q, s) /\ Begun(p, v)
  BY <1>11, <1>12 DEF TakesWell
<1>14. PICK v : \E s \in Seq(Events) : Kept(v, y, r, q, s) /\ Begun(p, v)
  BY <1>13
<1>15. PICK s \in Seq(Events) : Kept(v, y, r, q, s) /\ Begun(p, v)
  BY <1>14
<1>16. v \in Bodies /\ Partial(v) /\ q \in Seq(Events) /\ r = q \o s /\ <<v \o y, s>> \in Streams
  BY <1>15 DEF Kept
<1>17. /\ wire' = t /\ parser' = p /\ yielded' = yielded \o q
       /\ text' = CallerHears(q).text /\ outcome' = CallerHears(q).outcome
  BY <1>1, <1>7, <1>8, <1>12 DEF TakeToken
<1>18. said = (yielded \o q) \o s /\ yielded \o q \in Seq(Events)
  <2>1. (yielded \o q) \o s = yielded \o (q \o s)
    <3>1. yielded \in Seq(Events) /\ q \in Seq(Events) /\ s \in Seq(Events)
      BY <1>3, <1>15, <1>16
    <3>. QED  BY <3>1, EventsAssoc, ZenonT(30)
  <2>2. yielded \o q \in Seq(Events)
    BY <1>3, <1>16, Cat
  <2>. QED  BY <1>6, <1>16, <2>1, <2>2
<1>19. Shaped(yielded \o q)
  BY <1>3, <1>18, ShapedBefore
<1>20. /\ text' \in Seq(1..Tokens) /\ outcome' \in Outcomes
       /\ Told(text', yielded \o q) /\ Stopped(outcome', yielded \o q)
  <2>1. PICK g : g = CallerHears(q)
    OBVIOUS
  <2>2. /\ g.text \in Seq(1..Tokens) /\ g.outcome \in Outcomes
        /\ Told(g.text, yielded \o q) /\ Stopped(g.outcome, yielded \o q)
    BY <1>2, <1>3, <1>4, <1>16, <1>19, <2>1, HearsNext
  <2>. QED  BY <1>17, <2>1, <2>2
<1>21. ReadersTypeOK'
  BY <1>2, <1>3, <1>13, <1>17, <1>18, <1>20 DEF ReadersTypeOK
<1>22. Told(text, yielded)' /\ Stopped(outcome, yielded)'
  BY <1>2, <1>17, <1>20 DEF Told, Tally, Ahead, Stopped
<1>23. Shaped(said)'
  BY <1>2, <1>3 DEF Shaped, Ahead
<1>24. said' = yielded' \o s
  BY <1>2, <1>17, <1>18
<1>25. Carries(v, z, s)'
  <2>1. <<v \o (wire' \o z), s>> \in Streams
    BY <1>9, <1>16, <1>17
  <2>2. p = parser' /\ Begun(p, v) /\ (body' = "open" => z = << >>)
    BY <1>2, <1>6, <1>15, <1>17
  <2>. QED  BY <1>2, <1>16, <1>24, <2>1, <2>2, HoldsNext
<1>26. Underway'
  BY <1>16, <1>25 DEF Underway
<1>. QED  BY <1>2, <1>4, <1>21, <1>22, <1>23, <1>24, <1>26 DEF ReadersInv

\* A frame that was cut off before its data: nothing in it for the caller.
LEMMA NothingHeard ==
    ASSUME text \in Seq(1..Tokens), outcome \in Outcomes
    PROVE  CallerHears(<<Nothing>>).text = text
<1>1. <<Nothing>> \in Seq(Yields) /\ <<Nothing>> # << >> /\ <<Nothing>>[1] = Nothing
         /\ Tail(<<Nothing>>) = << >>
  BY DEF Yields
<1>2. PICK h : h = [text |-> text, outcome |-> outcome, events |-> <<Nothing>>]
  OBVIOUS
<1>3. h \in Hearing /\ h.text = text /\ h.outcome = outcome /\ h.events = <<Nothing>>
  BY <1>1, <1>2, MakesHearing
<1>4. CallerHears(<<Nothing>>) = HearBody(h, HeardToken)
  BY <1>2, <1>3, HearDef DEF CallerHears
<1>5. CASE h.outcome # "reading" /\ reader # "cli"
  BY <1>3, <1>4, <1>5 DEF HearBody
<1>6. CASE ~(h.outcome # "reading" /\ reader # "cli")
  <2>1. PICK g : g = HearOne(h)
    OBVIOUS
  <2>2. g \in Hearing /\ g.events = << >>
        /\ g.text = IF Nothing \in 1..Tokens THEN Append(h.text, Nothing) ELSE h.text
    <3>1. h.events # << >> /\ Tail(h.events) = << >> /\ h.events[1] = Nothing
      BY <1>1, <1>3
    <3>2. /\ g \in Hearing /\ g.events = Tail(h.events)
          /\ g.text = IF h.events[1] \in 1..Tokens THEN Append(h.text, h.events[1]) ELSE h.text
      BY <1>3, <2>1, <3>1, HearOneType
    <3>. QED  BY <3>1, <3>2
  <2>3. Nothing \notin 1..Tokens
    BY WrittenFacts
  <2>4. CallerHears(<<Nothing>>) = HeardToken[g]
    BY <1>1, <1>3, <1>4, <1>6, <2>1 DEF HearBody
  <2>5. HeardToken[g] = g
    BY <2>2, HearDef DEF HearBody
  <2>. QED  BY <1>3, <2>2, <2>3, <2>4, <2>5
<1>. QED  BY <1>5, <1>6

LEMMA ReadEndKeeps == ASSUME ReadersInv, ReadEnd PROVE ReadersInv'
<1>1. /\ reader' = reader /\ said' = said /\ pings' = pings /\ body' = "over" /\ wire' = << >>
      /\ parser' = Start(<< >>)
  BY DEF ReadEnd, Start
<1>2. /\ reader \in Readers /\ said \in Seq(Events) /\ pings \in 0..MaxPings /\ wire \in Bodies
      /\ parser \in Parsers /\ yielded \in Seq(Events) /\ outcome \in Outcomes
      /\ text \in Seq(1..Tokens) /\ Shaped(said) /\ Told(text, yielded)
      /\ \E r \in Seq(Events) : said = yielded \o r
  BY DEF ReadersInv, ReadersTypeOK
<1>3. /\ text' \in Seq(1..Tokens) /\ outcome' \in Outcomes /\ yielded' \in Seq(Events)
      /\ Told(text', yielded') /\ \E r \in Seq(Events) : said = yielded' \o r
  <2>1. CASE body = "broken" /\ outcome' = "threw" /\ yielded' = yielded /\ text' = text
    BY <1>2, <2>1 DEF Outcomes
  <2>2. CASE /\ body = "ended" /\ wire = << >> /\ text' = CallerHears(Rest).text
             /\ outcome' = (IF CallerHears(Rest).outcome = "error" THEN "error" ELSE "ok")
             /\ yielded' = (IF Rest = <<Nothing>> THEN yielded ELSE yielded \o Rest)
    <3>1. Underway /\ Stopped(outcome, yielded) /\ outcome' \in Outcomes
      BY <2>2 DEF ReadersInv, Outcomes
    <3>2. PICK x \in Bodies, z \in Bodies, r \in Seq(Events) : Carries(x, z, r)
      BY <3>1 DEF Underway
    <3>3. Partial(x) /\ Begun(parser, x) /\ <<x \o z, r>> \in Streams /\ said = yielded \o r
      <4>1. wire \o z = z
        BY <2>2, BodyCat
      <4>. QED  BY <3>2, <4>1 DEF Carries
    <3>4. ASSUME NEW q \in Seq(Events), NEW t \in Seq(Events), Rest = q, q # <<Nothing>>, r = q \o t
          PROVE  /\ text' \in Seq(1..Tokens) /\ yielded' \in Seq(Events)
                 /\ Told(text', yielded') /\ \E s \in Seq(Events) : said = yielded' \o s
      <4>1. said = (yielded \o q) \o t /\ yielded \o q \in Seq(Events)
        <5>1. (yielded \o q) \o t = yielded \o (q \o t)
          BY <1>2, EventsAssoc, ZenonT(30)
        <5>2. yielded \o q \in Seq(Events)
          BY <1>2, Cat
        <5>. QED  BY <3>3, <3>4, <5>1, <5>2
      <4>2. Shaped(yielded \o q)
        BY <1>2, <4>1, ShapedBefore
      <4>3. PICK g : g = CallerHears(q)
        OBVIOUS
      <4>4. g.text \in Seq(1..Tokens) /\ Told(g.text, yielded \o q)
        BY <1>1, <1>2, <3>1, <4>2, <4>3, HearsNext
      <4>5. yielded' = yielded \o q /\ text' = g.text
        BY <2>2, <3>4, <4>3
      <4>. QED  BY <4>1, <4>4, <4>5
    <3>5. CASE Rest = << >>
      <4>1. << >> \in Seq(Events) /\ r = << >> \o r /\ << >> # <<Nothing>>
        BY CatEmpty
      <4>. QED  BY <3>1, <3>4, <3>5, <4>1
    <3>6. CASE Rest = <<Nothing>>
      <4>1. text' = text /\ yielded' = yielded
        BY <1>2, <2>2, <3>6, NothingHeard
      <4>. QED  BY <1>2, <3>1, <4>1
    <3>7. ASSUME NEW e \in Events, NEW t \in Seq(Events), Rest = <<e>>, r = <<e>> \o t
          PROVE  /\ text' \in Seq(1..Tokens) /\ yielded' \in Seq(Events)
                 /\ Told(text', yielded') /\ \E s \in Seq(Events) : said = yielded' \o s
      <4>1. <<e>> \in Seq(Events) /\ <<e>> # <<Nothing>>
        <5>1. e # Nothing /\ <<e>>[1] = e /\ <<Nothing>>[1] = Nothing
          BY WrittenFacts
        <5>. QED  BY <5>1
      <4>. QED  BY <3>4, <3>7, <4>1
    <3>8. \/ Rest = << >> \/ Rest = <<Nothing>>
          \/ \E e \in Events : \E t \in Seq(Events) : Rest = <<e>> /\ r = <<e>> \o t
      BY <1>2, <3>3, RestIs
    <3>. QED  BY <3>1, <3>5, <3>6, <3>7, <3>8
  <2>. QED  BY <2>1, <2>2 DEF ReadEnd
<1>4. ReadersTypeOK'
  BY <1>1, <1>2, <1>3, NoBody, StartType DEF ReadersTypeOK
<1>5. Shaped(said)'
  BY <1>1, <1>2 DEF Shaped, Ahead
<1>6. Told(text, yielded)'
  BY <1>1, <1>3 DEF Told, Tally, Ahead
<1>. QED  BY <1>1, <1>3, <1>4, <1>5, <1>6 DEF ReadersInv

LEMMA ReadersSteps == ReadersInv /\ [ReadersNext]_readerVars => ReadersInv'
<1>1. SUFFICES ASSUME ReadersInv, [ReadersNext]_readerVars PROVE ReadersInv'
  OBVIOUS
<1>2. CASE UNCHANGED readerVars
  <2>1. /\ reader' = reader /\ said' = said /\ pings' = pings /\ wire' = wire /\ parser' = parser
        /\ yielded' = yielded /\ body' = body /\ outcome' = outcome /\ text' = text
    BY <1>2 DEF readerVars
  <2>2. Underway => Underway'
    <3>1. ASSUME Underway PROVE Underway'
      <4>1. PICK x \in Bodies, z \in Bodies, r \in Seq(Events) : Carries(x, z, r)
        BY <3>1 DEF Underway
      <4>2. PICK p : p = parser' /\ p = parser
        BY <2>1
      <4>3. Carries(x, z, r)'
        <5>1. /\ Partial(x) /\ Begun(p, x) /\ <<x \o (wire' \o z), r>> \in Streams
              /\ said' = yielded' \o r /\ (body' = "open" => z = << >>)
          BY <2>1, <4>1, <4>2 DEF Carries
        <5>. QED  BY <2>1, <4>2, <5>1, HoldsNext
      <4>. QED  BY <4>3 DEF Underway
    <3>. QED  BY <3>1
  <2>. QED  BY <1>1, <2>1, <2>2 DEF ReadersInv, ReadersTypeOK, Shaped, Told, Tally, Stopped, Ahead
<1>. QED  BY <1>1, <1>2, SpeakKeeps, PingKeeps, EndBodyKeeps, ReadKeeps, ReadEndKeeps DEF ReadersNext

LEMMA ReadersInvHolds == ReadersSpec => []ReadersInv
  BY ReadersInvInit, ReadersSteps, PTL DEF ReadersSpec

\* The tokens of the text are those among the events.
LEMMA TokensTold ==
    ASSUME NEW y \in Seq(Events), Shaped(y), NEW t \in Seq(1..Tokens), Told(t, y)
    PROVE  \A n \in 1..Tokens : n \in DOMAIN t <=> \E i \in DOMAIN y : y[i] = n
<1>1. PICK k \in Nat : k = Len(y) /\ DOMAIN y = 1..k
  OBVIOUS
<1>2. Ahead \in {0, 1} /\ Tokens \in Nat /\ Finals = {Tokens + 1, Tokens + 2}
  BY ReadersAssumption DEF Ahead, Finals, Done, Error
<1>3. DOMAIN t = 1..Tally(y)
  BY DEF Told
<1>4. \A i \in 1..k : /\ y[i] \in Finals => i = k /\ i > Ahead
                      /\ y[i] \notin Finals => y[i] = i - Ahead
  BY <1>1 DEF Shaped
<1>5. Tally(y) = IF k = 0 THEN 0 ELSE IF y[k] \in Finals THEN k - 1 - Ahead ELSE k - Ahead
  <2>1. y = << >> <=> k = 0
    BY <1>1
  <2>. QED  BY <1>1, <2>1 DEF Tally
<1>6. ASSUME NEW n \in 1..Tokens, n \in 1..Tally(y) PROVE \E i \in 1..k : y[i] = n
  <2>1. k # 0
    BY <1>5, <1>6
  <2>2. k \in 1..k
    BY <2>1
  <2>3. PICK i \in 1..k : i = n + Ahead /\ (y[k] \in Finals => i # k)
    <3>1. CASE y[k] \in Finals
      BY <1>2, <1>5, <1>6, <2>1, <3>1
    <3>2. CASE y[k] \notin Finals
      BY <1>2, <1>5, <1>6, <2>1, <3>2
    <3>. QED  BY <3>1, <3>2
  <2>4. y[i] \notin Finals
    BY <1>4, <2>3
  <2>5. y[i] = i - Ahead
    BY <1>4, <2>4
  <2>. QED  BY <1>2, <2>3, <2>5
<1>7. ASSUME NEW n \in 1..Tokens, NEW i \in 1..k, y[i] = n PROVE n \in 1..Tally(y)
  <2>1. y[i] \notin Finals
    BY <1>2, <1>7
  <2>2. n = i - Ahead /\ (y[k] \in Finals => i # k)
    BY <1>4, <1>7, <2>1
  <2>. QED  BY <1>2, <1>5, <2>2
<1>. QED  BY <1>1, <1>3, <1>6, <1>7

\* Wherever the pieces end, for any number of tokens and heartbeats.
THEOREM FramesWhole == ReadersSpec => []FramesAreWhole
<1>1. ReadersInv => FramesAreWhole
  <2>1. SUFFICES ASSUME ReadersInv PROVE FramesAreWhole
    OBVIOUS
  <2>2. /\ said \in Seq(Events) /\ yielded \in Seq(Events) /\ text \in Seq(1..Tokens)
        /\ Shaped(said) /\ Told(text, yielded)
    BY <2>1 DEF ReadersInv, ReadersTypeOK
  <2>3. PICK r \in Seq(Events) : said = yielded \o r
    BY <2>1 DEF ReadersInv
  <2>4. PrefixOf(yielded, said)
    <3>1. Len(said) = Len(yielded) + Len(r) /\ Len(r) \in Nat /\ Len(yielded) \in Nat
      BY <2>2, <2>3, Cat
    <3>2. SubSeq(said, 1, Len(yielded)) = SubSeq(yielded, 1, Len(yielded))
      <4>1. Len(yielded) \in 0..Len(yielded)
        BY <3>1
      <4>. QED  BY <2>2, <2>3, <4>1, HeadCat
    <3>3. SubSeq(yielded, 1, Len(yielded)) = yielded
      BY <2>2
    <3>. QED  BY <3>1, <3>2, <3>3 DEF PrefixOf
  <2>5. ASSUME wire = << >>, body = "open" PROVE yielded = said
    <3>1. Underway
      BY <2>1, <2>5 DEF ReadersInv
    <3>2. PICK x \in Bodies, z \in Bodies, s \in Seq(Events) : Carries(x, z, s)
      BY <3>1 DEF Underway
    <3>3. /\ Partial(x) /\ <<x \o (wire \o z), s>> \in Streams /\ said = yielded \o s
          /\ z = << >>
      BY <2>5, <3>2 DEF Carries
    <3>4. x \o (wire \o z) = x
      BY <2>5, <3>3, BodyCat, NoBody
    <3>5. s = << >>
      BY <3>3, <3>4, NothingLeft
    <3>. QED  BY <2>2, <3>3, <3>5, CatEmpty
  <2>6. Shaped(yielded)
    BY <2>2, <2>3, ShapedBefore
  <2>7. \A n \in 1..Tokens : n \in DOMAIN text <=> \E i \in DOMAIN yielded : yielded[i] = n
    BY <2>2, <2>6, TokensTold
  <2>8. \A n \in DOMAIN text : text[n] = n
    BY <2>2 DEF Told
  <2>. QED  BY <2>4, <2>5, <2>7, <2>8 DEF FramesAreWhole
<1>. QED  BY <1>1, ReadersInvHolds, PTL

\* The body, the parser and what was yielded keep their types.
THEOREM ReadersTyped == ReadersSpec => []ReadersTypeOK
<1>1. ReadersInv => ReadersTypeOK
  BY DEF ReadersInv
<1>. QED  BY <1>1, ReadersInvHolds, PTL

-----------------------------------------------------------------------------
(* The parts: a step of MCParts is one of a part and leaves the others     *)
(* alone, so that each part behaves as its own specification says, and     *)
(* what was proved of each is true of all.                                 *)

LEMMA PartsLinks == PartsSpec => LinksSpec
<1>1. PartsInit => LinksInit
  BY DEF PartsInit
<1>2. [PartsNext]_partVars => [LinksNext]_linkVars
  BY DEF PartsNext, partVars, linkSide, streamSide, nodeSide
<1>. QED  BY <1>1, <1>2, PTL DEF PartsSpec, LinksSpec

LEMMA PartsPayouts == PartsSpec => PayoutSpec
<1>1. PartsInit => PayoutInit
  BY DEF PartsInit
<1>2. [PartsNext]_partVars => [PayoutNext]_payoutVars
  BY DEF PartsNext, partVars, linkSide, streamSide, nodeSide
<1>. QED  BY <1>1, <1>2, PTL DEF PartsSpec, PayoutSpec

LEMMA PartsPayments == PartsSpec => PaySpec
<1>1. PartsInit => PayInit
  BY DEF PartsInit
<1>2. [PartsNext]_partVars => [PayNext]_payVars
  BY DEF PartsNext, partVars, linkSide, streamSide, nodeSide
<1>. QED  BY <1>1, <1>2, PTL DEF PartsSpec, PaySpec

LEMMA PartsSanitizer == PartsSpec => SanitizerSpec
<1>1. PartsInit => SanitizerInit
  BY DEF PartsInit
<1>2. [PartsNext]_partVars => [SanitizerNext]_sanitizerVars
  BY DEF PartsNext, partVars, linkSide, streamSide, nodeSide
<1>. QED  BY <1>1, <1>2, PTL DEF PartsSpec, SanitizerSpec

LEMMA PartsReaders == PartsSpec => ReadersSpec
<1>1. PartsInit => ReadersInit
  BY DEF PartsInit
<1>2. [PartsNext]_partVars => [ReadersNext]_readerVars
  BY DEF PartsNext, partVars, linkSide, streamSide, nodeSide
<1>. QED  BY <1>1, <1>2, PTL DEF PartsSpec, ReadersSpec

LEMMA PartsPeers == PartsSpec => PeersSpec
<1>1. PartsInit => PeersInit
  BY DEF PartsInit
<1>2. [PartsNext]_partVars => [PeersNext]_peersVars
  BY DEF PartsNext, partVars, linkSide, streamSide, nodeSide
<1>. QED  BY <1>1, <1>2, PTL DEF PartsSpec, PeersSpec

LEMMA PartsModels == PartsSpec => DbmSpec
<1>1. PartsInit => DbmInit
  BY DEF PartsInit
<1>2. [PartsNext]_partVars => [DbmNext]_dbmVars
  BY DEF PartsNext, partVars, linkSide, streamSide, nodeSide
<1>. QED  BY <1>1, <1>2, PTL DEF PartsSpec, DbmSpec

LEMMA PartsDeploy == PartsSpec => DeploySpec
<1>1. PartsInit => DeployInit
  BY DEF PartsInit
<1>2. [PartsNext]_partVars => [DeployNext]_deployVars
  BY DEF PartsNext, partVars, linkSide, streamSide, nodeSide
<1>. QED  BY <1>1, <1>2, PTL DEF PartsSpec, DeploySpec

LEMMA PartsSetup == PartsSpec => OnboardSpec
<1>1. PartsInit => OnboardInit
  BY DEF PartsInit
<1>2. [PartsNext]_partVars => [OnboardNext]_onboardVars
  BY DEF PartsNext, partVars, linkSide, streamSide, nodeSide
<1>. QED  BY <1>1, <1>2, PTL DEF PartsSpec, OnboardSpec

\* Whichever part is run, its state keeps its types.
THEOREM PartsTyped == PartsSpec => []PartsTypeOK
<1>1. LinksTypeOK /\ PayoutTypeOK /\ PayTypeOK /\ SanitizerTypeOK /\ ReadersTypeOK
        /\ PeersTypeOK /\ DbmTypeOK /\ DeployTypeOK /\ OnboardTypeOK
      => PartsTypeOK
  BY DEF PartsTypeOK
<1>. QED  BY <1>1, PartsLinks, PartsPayouts, PartsPayments, PartsSanitizer, PartsReaders,
             PartsPeers, PartsModels, PartsDeploy, PartsSetup, LinksTyped, PayoutsTyped,
             PaymentsTyped, TextsTyped, ReadersTyped, PeersTyped, RowsTyped, RentalsTyped,
             OnboardingTyped, PTL

\* Whichever part is run, it keeps what was proved of it: everything that the run of
\* MCParts checks on small sets.
THEOREM PartsHold ==
    PartsSpec =>
        /\ [](/\ LinksAreTrue /\ OneDefault /\ ConfirmedWasPaid /\ OnlyTailIsHeld
              /\ FramesAreWhole /\ HeardIsKept /\ RentalsAreTrue)
        /\ KeepsPaymentContract /\ RowsKeep /\ SettingsSurvive
BY PartsLinks, PartsPayouts, PartsPayments, PartsSanitizer, PartsReaders, PartsPeers,
   PartsModels, PartsDeploy, PartsSetup, LinksHold, ProviderHasOneDefault,
   ConfirmedJobsWerePaid, TailHeld, FramesWhole, HeardPeersAreKept, RentalsHold,
   PaymentsImplementContract, RowsKeepTheirs, SettingsHold, PTL
=============================================================================
