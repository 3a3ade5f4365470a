--------------------------- MODULE NodeJobsProofs ---------------------------
(***************************************************************************)
(* Proofs about NodeJobs, for any sets of jobs, providers, passes and      *)
(* request slots and any number of faults.                                 *)
(***************************************************************************)
EXTENDS NodeJobs, FiniteSetTheorems, TLAPS

\* A request under way is somebody's; a completion is about a job that was
\* given to a provider, and one that reports success follows an execution.
CallInv ==
    \A s \in Slots :
        /\ call[s].at # "free" =>
             call[s].by \in Providers /\ call[s].op \in {"poll", "complete"}
        /\ call[s].at \in {"mark", "pay", "receipt"} => call[s].op = "complete"
        /\ call[s].op = "complete" =>
             /\ call[s].job \in Jobs
             /\ call[s].body \in Finished
             /\ Given(call[s].job)
             /\ call[s].body = "completed" => runs[call[s].job] > 0
        /\ \A j \in call[s].page :
             Given(j) /\ assignee[j] \in {call[s].by, Null}

\* A pass awaits a request of its own, which no other pass awaits.
ReqInv ==
    \A p \in Passes : req[p] # Null =>
        /\ call[req[p]].at # "free"
        /\ call[req[p]].by = Owner(p)
        /\ \A q \in Passes : req[q] = req[p] => q = p

\* A pass that is busy has a job.
CurInv ==
    \A p \in Passes :
        pc[p] \in {"running", "completing", "erring", "failing"} => cur[p] \in Jobs

Inv == TypeOK /\ CallInv /\ ReqInv /\ CurInv /\ RunsOwnJobs /\ CompletedWasRun

USE NodeJobsAssumption

LEMMA OwnerType == \A p \in Passes : Owner(p) \in Providers
BY DEF Passes, Owner

LEMMA FreeSlotType == FreeSlot \in CallType
BY DEF FreeSlot, CallType

LEMMA RequestType ==
    ASSUME NEW pr \in Providers, NEW j \in Jobs, NEW o \in Finished
    PROVE  /\ PollRequest(pr) \in CallType
           /\ PollRequest(pr).at = "sent" /\ PollRequest(pr).op = "poll"
           /\ PollRequest(pr).by = pr /\ PollRequest(pr).page = {}
           /\ CompleteRequest(pr, j, o) \in CallType
           /\ CompleteRequest(pr, j, o).at = "sent" /\ CompleteRequest(pr, j, o).op = "complete"
           /\ CompleteRequest(pr, j, o).by = pr /\ CompleteRequest(pr, j, o).page = {}
           /\ CompleteRequest(pr, j, o).job = j /\ CompleteRequest(pr, j, o).body = o
BY DEF PollRequest, CompleteRequest, FreeSlot, CallType, Finished

LEMMA RepliedType ==
    ASSUME TypeOK, NEW s \in Slots, NEW page \in SUBSET Jobs, NEW ok \in BOOLEAN
    PROVE  /\ Replied(s, page, ok) \in CallType
           /\ \/ ~ Awaited(s) /\ Replied(s, page, ok) = FreeSlot
              \/ /\ Awaited(s)
                 /\ Replied(s, page, ok).at = "replied"
                 /\ Replied(s, page, ok).op = call[s].op
                 /\ Replied(s, page, ok).by = call[s].by
                 /\ Replied(s, page, ok).job = call[s].job
                 /\ Replied(s, page, ok).body = call[s].body
                 /\ Replied(s, page, ok).page = page
BY FreeSlotType, ZenonT(40) DEF TypeOK, Replied, CallType

LEMMA PageType ==
    ASSUME TypeOK, NEW pr
    PROVE  /\ Page(pr) \in SUBSET Jobs
           /\ \A j \in Page(pr) : assignee[j] = pr /\ status[j] = "assigned"
BY DEF Page, Mine

LEMMA RankType ==
    Cardinality({k \in Jobs : status[k] # "absent"}) \in Nat
<1>1. IsFiniteSet({k \in Jobs : status[k] # "absent"})
  BY FS_Subset
<1> QED
  BY <1>1, FS_CardinalityType

LEMMA InitInv == Init => Inv
<1> SUFFICES ASSUME Init PROVE Inv
  OBVIOUS
<1>1. TypeOK
  BY FreeSlotType DEF Init, TypeOK, Statuses, Finished
<1>2. CallInv
  BY DEF Init, CallInv, FreeSlot
<1> QED
  BY <1>1, <1>2 DEF Init, Inv, ReqInv, CurInv, RunsOwnJobs, CompletedWasRun

-----------------------------------------------------------------------------
(* One lemma per group of actions. *)

\* Clients and owners write rows.
LEMMA RowsInv ==
    ASSUME Inv,
           \/ \E j \in Jobs : CreateChatJob(j) \/ SubmitJob(j)
           \/ \E pr \in Providers : RemoveNode(pr)
    PROVE  Inv'
<1>1. CASE \E j \in Jobs : CreateChatJob(j) \/ SubmitJob(j)
  <2>1. PICK j \in Jobs, st \in {"assigned", "running", "pending"},
                pr \in Providers \cup {Null} : InsertJob(j, st, pr)
    BY <1>1 DEF CreateChatJob, SubmitJob, Inv, TypeOK
  <2> USE <2>1 DEF Inv, InsertJob
  <2>2. TypeOK'
    BY RankType DEF TypeOK, daemonVars, Statuses
  <2>3. CallInv'
    BY DEF TypeOK, CallInv, Given, daemonVars, Finished
  <2>4. ReqInv' /\ CurInv'
    BY DEF ReqInv, CurInv, daemonVars
  <2>5. RunsOwnJobs'
    BY DEF TypeOK, RunsOwnJobs, Given, daemonVars, Finished
  <2>6. CompletedWasRun'
    BY DEF TypeOK, CompletedWasRun, daemonVars
  <2> QED
    BY <2>2, <2>3, <2>4, <2>5, <2>6
<1>2. CASE \E pr \in Providers : RemoveNode(pr)
  <2>1. PICK pr \in Providers : RemoveNode(pr)
    BY <1>2
  <2> USE <2>1 DEF Inv, RemoveNode
  <2>2. TypeOK'
    BY DEF TypeOK, daemonVars
  <2>3. CallInv'
    BY DEF TypeOK, CallInv, Given, daemonVars, CallType
  <2>4. ReqInv' /\ CurInv'
    BY DEF ReqInv, CurInv, daemonVars
  <2>5. RunsOwnJobs'
    BY DEF TypeOK, RunsOwnJobs, Given, daemonVars
  <2>6. CompletedWasRun'
    BY DEF CompletedWasRun, daemonVars
  <2> QED
    BY <2>2, <2>3, <2>4, <2>5, <2>6
<1> QED
  BY <1>1, <1>2

\* What CallInv says of one request.
CallOK(c) ==
    /\ c.at # "free" => c.by \in Providers /\ c.op \in {"poll", "complete"}
    /\ c.at \in {"mark", "pay", "receipt"} => c.op = "complete"
    /\ c.op = "complete" =>
         /\ c.job \in Jobs
         /\ c.body \in Finished
         /\ Given(c.job)
         /\ c.body = "completed" => runs[c.job] > 0
    /\ \A j \in c.page : Given(j) /\ assignee[j] \in {c.by, Null}

\* The handler of one request moves on and the tables keep what Inv reads.
LEMMA HandlerInv ==
    ASSUME Inv, NEW s \in Slots, NEW c \in CallType, CallOK(c),
           call' = [call EXCEPT ![s] = c],
           c = FreeSlot => ~ Awaited(s),
           c # FreeSlot => c.at # "free" /\ c.by = call[s].by,
           payouts' \in [Jobs -> Nat], receipts' \in [Jobs -> [Finished -> Nat]],
           faults' \in 0..MaxFaults,
           UNCHANGED <<registered, status, assignee, created, daemonVars>>
    PROVE  Inv'
<1> USE DEF Inv, daemonVars
<1>1. TypeOK'
  BY DEF TypeOK
<1>2. CallInv'
  BY DEF TypeOK, CallInv, CallOK, Given
<1>3. ReqInv'
  BY DEF TypeOK, ReqInv, Awaited
<1>4. CurInv' /\ RunsOwnJobs' /\ CompletedWasRun'
  BY DEF CurInv, RunsOwnJobs, CompletedWasRun, Given
<1> QED
  BY <1>1, <1>2, <1>3, <1>4

LEMMA FreeSlotOK == CallOK(FreeSlot)
BY DEF CallOK, FreeSlot

LEMMA RepliedOK ==
    ASSUME Inv, NEW s \in Slots, call[s].at # "free",
           NEW page \in SUBSET Jobs, NEW ok \in BOOLEAN,
           \A j \in page : Given(j) /\ assignee[j] \in {call[s].by, Null}
    PROVE  LET c == Replied(s, page, ok) IN
           /\ c \in CallType /\ CallOK(c)
           /\ c = FreeSlot => ~ Awaited(s)
           /\ c # FreeSlot => c.at # "free" /\ c.by = call[s].by
<1>1. FreeSlot.at = "free"
  BY DEF FreeSlot
<1> QED
  BY <1>1, RepliedType, FreeSlotOK DEF Inv, CallInv, CallOK

\* A step of the handler that does not write the jobs table.
LEMMA ServeInv ==
    ASSUME Inv, NEW s \in Slots,
           \/ PollJobsForNode(s) \/ CheckCompletion(s)
           \/ InsertPayout(s) \/ EnqueueReceipt(s)
    PROVE  Inv'
<1> USE DEF Inv
<1>a. call[s] \in CallType /\ CallOK(call[s]) /\ FreeSlot.at = "free"
  BY DEF TypeOK, CallInv, CallOK, FreeSlot
<1>b. /\ payouts \in [Jobs -> Nat] /\ receipts \in [Jobs -> [Finished -> Nat]]
      /\ faults \in 0..MaxFaults
  BY DEF TypeOK
<1>1. CASE PollJobsForNode(s)
  <2> DEFINE pr == call[s].by
             page == IF pr \in registered THEN Page(pr) ELSE {}
             ok == pr \in registered
             c == Replied(s, page, ok)
  <2>1. /\ page \in SUBSET Jobs
        /\ \A j \in page : Given(j) /\ assignee[j] \in {pr, Null}
    BY PageType DEF Given
  <2>a. call[s].at # "free" /\ ok \in BOOLEAN
    BY <1>1 DEF PollJobsForNode
  <2>3. call' = [call EXCEPT ![s] = c]
    BY <1>1 DEF PollJobsForNode
  <2> HIDE DEF page, ok
  <2>2. /\ c \in CallType /\ CallOK(c)
        /\ c = FreeSlot => ~ Awaited(s)
        /\ c # FreeSlot => c.at # "free" /\ c.by = call[s].by
    BY <2>1, <2>a, RepliedOK
  <2> HIDE DEF c
  <2> QED
    BY <1>1, <1>b, <2>2, <2>3, HandlerInv DEF PollJobsForNode, dbVars
<1>2. CASE CheckCompletion(s)
  <2>1. CASE call[s].by \in registered /\ assignee[call[s].job] = call[s].by
    <3> DEFINE c == [call[s] EXCEPT !.at = "mark"]
    <3>1. c \in CallType /\ CallOK(c) /\ c.at = "mark" /\ c.by = call[s].by
      BY <1>a, <1>2 DEF CheckCompletion, CallType, CallOK
    <3>2. call' = [call EXCEPT ![s] = c]
      BY <1>2, <2>1 DEF CheckCompletion
    <3> HIDE DEF c
    <3> QED
      BY <1>a, <1>b, <1>2, <3>1, <3>2, HandlerInv DEF CheckCompletion, dbVars
  <2>2. CASE ~ (call[s].by \in registered /\ assignee[call[s].job] = call[s].by)
    <3> DEFINE c == Replied(s, {}, FALSE)
    <3>1. /\ c \in CallType /\ CallOK(c)
          /\ c = FreeSlot => ~ Awaited(s)
          /\ c # FreeSlot => c.at # "free" /\ c.by = call[s].by
      BY <1>2, RepliedOK DEF CheckCompletion
    <3>2. call' = [call EXCEPT ![s] = c]
      BY <1>2, <2>2 DEF CheckCompletion
    <3> HIDE DEF c
    <3> QED
      BY <1>b, <1>2, <3>1, <3>2, HandlerInv DEF CheckCompletion, dbVars
  <2> QED
    BY <2>1, <2>2
<1>3. CASE InsertPayout(s)
  <2> DEFINE c == [call[s] EXCEPT !.at = "receipt"]
  <2>1. c \in CallType /\ CallOK(c) /\ c.at = "receipt" /\ c.by = call[s].by
    BY <1>a, <1>3 DEF InsertPayout, CallType, CallOK
  <2>2. payouts' \in [Jobs -> Nat]
    BY <1>3, <1>a, <1>b DEF InsertPayout, CallOK
  <2>3. call' = [call EXCEPT ![s] = c]
    BY <1>3 DEF InsertPayout
  <2> HIDE DEF c
  <2> QED
    BY <1>a, <1>b, <1>3, <2>1, <2>2, <2>3, HandlerInv DEF InsertPayout
<1>4. CASE EnqueueReceipt(s)
  <2>1. receipts' \in [Jobs -> [Finished -> Nat]]
    <3>1. call[s].job \in Jobs /\ call[s].body \in Finished
      BY <1>a, <1>4 DEF EnqueueReceipt, CallOK
    <3> QED
      BY <1>4, <1>b, <3>1 DEF EnqueueReceipt
  <2> DEFINE c == Replied(s, {}, TRUE)
  <2>2. /\ c \in CallType /\ CallOK(c)
        /\ c = FreeSlot => ~ Awaited(s)
        /\ c # FreeSlot => c.at # "free" /\ c.by = call[s].by
    BY <1>4, RepliedOK DEF EnqueueReceipt
  <2>3. call' = [call EXCEPT ![s] = c]
    BY <1>4 DEF EnqueueReceipt
  <2> HIDE DEF c
  <2> QED
    BY <1>b, <1>4, <2>1, <2>2, <2>3, HandlerInv DEF EnqueueReceipt
<1> QED
  BY <1>1, <1>2, <1>3, <1>4

\* The update of the jobs row: a job that was given stays given, and it is
\* completed only by a request that follows an execution.
LEMMA MarkJobInv ==
    ASSUME Inv, NEW s \in Slots, MarkJob(s)
    PROVE  Inv'
<1> USE DEF Inv, MarkJob, daemonVars
<1>1. /\ call[s].job \in Jobs /\ call[s].body \in Finished
      /\ call[s].body = "completed" => runs[call[s].job] > 0
      /\ call[s].by \in Providers /\ call[s].op = "complete"
  BY DEF CallInv
<1>2. \A j \in Jobs : Given(j) => Given(j)'
  BY <1>1 DEF TypeOK, Given
<1>3. \A r \in Slots : /\ call'[r].op = call[r].op /\ call'[r].by = call[r].by
                       /\ call'[r].job = call[r].job /\ call'[r].body = call[r].body
                       /\ call'[r].page = call[r].page
                       /\ call'[r].at = "free" <=> call[r].at = "free"
                       /\ call'[r] \in CallType
                       /\ call'[r].at # call[r].at => r = s
  <2> DEFINE at == IF call[s].body = "completed" /\ call[s].job \in Paid
                   THEN "pay" ELSE "receipt"
             c == [call[s] EXCEPT !.at = at]
  <2>1. call' = [call EXCEPT ![s] = c]
    OBVIOUS
  <2>2. at \in {"pay", "receipt"} /\ call \in [Slots -> CallType] /\ call[s].at = "mark"
    BY DEF TypeOK
  <2> HIDE DEF at
  <2>3. /\ c \in CallType /\ c.at = at
        /\ c.op = call[s].op /\ c.by = call[s].by /\ c.job = call[s].job
        /\ c.body = call[s].body /\ c.page = call[s].page
    BY <2>2 DEF CallType
  <2> HIDE DEF c
  <2>4. ASSUME NEW r \in Slots PROVE call'[r] = IF r = s THEN c ELSE call[r]
    BY <2>1, <2>2
  <2> QED
    BY <2>2, <2>3, <2>4
<1>4. TypeOK'
  <2>1. call' \in [Slots -> CallType]
    BY <1>3 DEF TypeOK
  <2> QED
    BY <1>1, <2>1 DEF TypeOK, Statuses
<1>5. CallInv'
  <2>1. \A r \in Slots : call[r].page \subseteq Jobs
    BY DEF TypeOK, CallType
  <2> QED
    BY <1>1, <1>2, <1>3, <2>1 DEF CallInv
<1>6. ReqInv'
  BY <1>3 DEF ReqInv, TypeOK
<1>7. CurInv' /\ RunsOwnJobs'
  BY <1>2 DEF CurInv, RunsOwnJobs, TypeOK
<1>8. CompletedWasRun'
  BY <1>1 DEF CompletedWasRun, TypeOK
<1> QED
  BY <1>4, <1>5, <1>6, <1>7, <1>8

\* What a step of a pass does to its requests: nothing, a request, an answer,
\* or giving up.
Requests(p) ==
    \/ UNCHANGED <<call, req>>
    \/ \E s \in Slots : \E r \in CallType :
         /\ Send(p, s, r)
         /\ r.at = "sent" /\ r.by = Owner(p) /\ CallOK(r)'
    \/ Answer(p)
    \/ req' = [req EXCEPT ![p] = Null] /\ UNCHANGED call

LEMMA RequestsInv ==
    ASSUME Inv, NEW p \in Passes, Requests(p), UNCHANGED <<status, assignee>>,
           runs' \in [Jobs -> Nat], \A j \in Jobs : runs'[j] >= runs[j]
    PROVE  /\ call' \in [Slots -> CallType] /\ req' \in [Passes -> Slots \cup {Null}]
           /\ CallInv' /\ ReqInv'
<1> USE DEF Inv
<1>0. /\ call \in [Slots -> CallType] /\ req \in [Passes -> Slots \cup {Null}]
      /\ runs \in [Jobs -> Nat] /\ Owner(p) \in Providers
  BY OwnerType DEF TypeOK
<1>1. ASSUME NEW s \in Slots PROVE CallOK(call[s])'
  \* of the old requests, under the new counts
  <2>1. CallOK(call[s])
    BY DEF CallInv, CallOK
  <2>2. ASSUME NEW r \in CallType, CallOK(r)
        PROVE  /\ r.op = "complete" =>
                    /\ r.job \in Jobs /\ r.body \in Finished /\ Given(r.job)'
                    /\ r.body = "completed" => runs'[r.job] > 0
               /\ \A j \in r.page : Given(j)' /\ assignee'[j] \in {r.by, Null}
    BY <1>0, <2>2 DEF CallOK, Given, CallType
  <2>3. CASE call'[s] = call[s]
    BY <1>0, <2>1, <2>2, <2>3 DEF CallOK
  <2>4. CASE call'[s] = FreeSlot
    BY <2>4 DEF CallOK, FreeSlot
  <2>5. CASE call'[s] # call[s] /\ call'[s] # FreeSlot
    <3>1. PICK t \in Slots, r \in CallType :
              Send(p, t, r) /\ CallOK(r)'
      BY <1>0, <2>5 DEF Requests, Answer
    <3>2. call'[s] = r
      BY <1>0, <2>5, <3>1 DEF Send
    <3> QED
      BY <3>1, <3>2 DEF CallOK
  <2> QED
    BY <2>3, <2>4, <2>5
<1>2. CallInv'
  BY <1>1 DEF CallInv, CallOK
<1>3. CASE UNCHANGED <<call, req>>
  BY <1>0, <1>2, <1>3 DEF ReqInv
<1>4. CASE \E s \in Slots : \E r \in CallType :
             Send(p, s, r) /\ r.at = "sent" /\ r.by = Owner(p)
  <2>1. PICK s \in Slots, r \in CallType :
            Send(p, s, r) /\ r.at = "sent" /\ r.by = Owner(p)
    BY <1>4
  <2>2. \A q \in Passes : req[q] # s
    BY <2>1 DEF Send, ReqInv
  <2>3. ReqInv'
    BY <1>0, <2>1, <2>2 DEF Send, ReqInv
  <2> QED
    BY <1>0, <1>2, <2>1, <2>3 DEF Send
<1>5. CASE Answer(p)
  <2>1. ReqInv'
    BY <1>0, <1>5 DEF Answer, ReqInv
  <2> QED
    BY <1>0, <1>2, <1>5, <2>1, FreeSlotType DEF Answer
<1>6. CASE req' = [req EXCEPT ![p] = Null] /\ UNCHANGED call
  BY <1>0, <1>2, <1>6 DEF ReqInv
<1> QED
  BY <1>3, <1>4, <1>5, <1>6 DEF Requests

Places == {"idle", "polling", "next", "running", "completing", "erring", "failing"}

\* A step of one pass: it must say what it does to its own list and job.
LEMMA PassInv ==
    ASSUME Inv, NEW p \in Passes, Requests(p), UNCHANGED dbVars, UNCHANGED up,
           runs' \in [Jobs -> Nat], \A j \in Jobs : runs'[j] >= runs[j],
           faults' \in 0..MaxFaults,
           active' \in [Providers -> SUBSET Jobs],
           pc' \in [Passes -> Places],
           todo' \in [Passes -> SUBSET Jobs],
           cur' \in [Passes -> Jobs \cup {Null}],
           \A q \in Passes : q # p =>
               pc'[q] = pc[q] /\ todo'[q] = todo[q] /\ cur'[q] = cur[q],
           pc'[p] \in {"running", "completing", "erring", "failing"} => cur'[p] \in Jobs,
           \A j \in (todo'[p] \cup {cur'[p]}) \ {Null} :
               Given(j) /\ assignee[j] \in {Owner(p), Null}
    PROVE  Inv'
<1> USE DEF Inv, dbVars
<1>1. /\ call' \in [Slots -> CallType] /\ req' \in [Passes -> Slots \cup {Null}]
      /\ CallInv' /\ ReqInv'
  BY RequestsInv
<1>2. TypeOK'
  BY <1>1 DEF TypeOK, Places
<1>3. CurInv'
  BY DEF TypeOK, CurInv
<1>4. RunsOwnJobs'
  BY DEF TypeOK, RunsOwnJobs, Given
<1>5. CompletedWasRun'
  BY DEF TypeOK, CompletedWasRun
<1> QED
  BY <1>1, <1>2, <1>3, <1>4, <1>5

\* The new value of a pass's place, list and job.
LEMMA PassStepInv ==
    ASSUME Inv, NEW p \in Passes, StartPass(p) \/ RunPass(p) \/ Timeout(p)
    PROVE  Inv'
<1> USE DEF Inv
<1>0. /\ Owner(p) \in Providers
      /\ pc \in [Passes -> Places]
      /\ todo \in [Passes -> SUBSET Jobs] /\ cur \in [Passes -> Jobs \cup {Null}]
      /\ active \in [Providers -> SUBSET Jobs] /\ runs \in [Jobs -> Nat]
      /\ faults \in 0..MaxFaults
      /\ \A j \in (todo[p] \cup {cur[p]}) \ {Null} :
            Given(j) /\ assignee[j] \in {Owner(p), Null}
      /\ pc[p] \in {"running", "completing", "erring", "failing"} => cur[p] \in Jobs
  BY OwnerType DEF TypeOK, RunsOwnJobs, CurInv, Places
<1> DEFINE
      Kept == UNCHANGED dbVars /\ UNCHANGED up
      Counted == runs' \in [Jobs -> Nat] /\ \A j \in Jobs : runs'[j] >= runs[j]
      Typed == /\ pc' \in [Passes -> Places]
               /\ todo' \in [Passes -> SUBSET Jobs]
               /\ cur' \in [Passes -> Jobs \cup {Null}]
               /\ active' \in [Providers -> SUBSET Jobs]
               /\ faults' \in 0..MaxFaults
      Others == \A q \in Passes : q # p =>
                  pc'[q] = pc[q] /\ todo'[q] = todo[q] /\ cur'[q] = cur[q]
      Own == /\ pc'[p] \in {"running", "completing", "erring", "failing"} => cur'[p] \in Jobs
             /\ \A j \in (todo'[p] \cup {cur'[p]}) \ {Null} :
                   Given(j) /\ assignee[j] \in {Owner(p), Null}
<1>a. SUFFICES Kept /\ Counted /\ Typed /\ Others /\ Own /\ Requests(p)
  BY PassInv
<1>1. CASE StartPass(p)
  <2>1. Requests(p)
    <3>1. PollRequest(Owner(p)) \in CallType /\ CallOK(PollRequest(Owner(p)))'
      BY <1>0 DEF PollRequest, FreeSlot, CallType, CallOK
    <3>2. PollRequest(Owner(p)).at = "sent" /\ PollRequest(Owner(p)).by = Owner(p)
      BY <1>0 DEF PollRequest, FreeSlot
    <3> QED
      BY <1>1, <3>1, <3>2 DEF StartPass, Requests
  <2> QED
    BY <1>0, <1>1, <2>1 DEF StartPass, Goto, Places
<1>2. CASE PollAnswered(p)
  <2>1. Requests(p)
    BY <1>2 DEF PollAnswered, Requests
  <2>2. /\ req[p] \in Slots
        /\ call[req[p]] \in CallType /\ call[req[p]].by = Owner(p)
    BY <1>2 DEF PollAnswered, Answer, TypeOK, ReqInv
  <2>3. call[req[p]].page \in SUBSET Jobs
    BY <2>2 DEF CallType
  <2>4. \A j \in call[req[p]].page : Given(j) /\ assignee[j] \in {Owner(p), Null}
    BY <2>2 DEF CallInv
  <2>5. todo' = [todo EXCEPT ![p] = call[req[p]].page] /\ Kept
    BY <1>2 DEF PollAnswered
  <2>6. pc'[p] \in {"next", "idle"} /\ pc' \in [Passes -> Places]
        /\ \A q \in Passes : q # p => pc'[q] = pc[q]
    BY <1>0, <1>2 DEF PollAnswered, Goto, Places
  <2>7. UNCHANGED cur /\ UNCHANGED active /\ UNCHANGED runs /\ UNCHANGED faults
    BY <1>2 DEF PollAnswered
  <2>8. /\ todo'[p] = call[req[p]].page /\ cur'[p] = cur[p]
        /\ todo' \in [Passes -> SUBSET Jobs]
        /\ \A q \in Passes : q # p => todo'[q] = todo[q]
    BY <1>0, <2>3, <2>5, <2>7
  <2>9. Own
    BY <1>0, <2>4, <2>6, <2>8
  <2> QED
    BY <1>0, <2>1, <2>5, <2>6, <2>7, <2>8, <2>9
<1>3. CASE PickJob(p)
  <2>1. PICK j \in todo[p] :
           /\ todo' = [todo EXCEPT ![p] = @ \ {j}]
           /\ cur' = [cur EXCEPT ![p] = j]
           /\ active' = [active EXCEPT ![Owner(p)] = @ \cup {j}]
    BY <1>3 DEF PickJob
  <2>2. j \in Jobs /\ active' \in [Providers -> SUBSET Jobs]
    BY <1>0, <2>1
  <2> QED
    BY <1>0, <1>3, <2>1, <2>2 DEF PickJob, Goto, Requests, Places
<1>4. CASE EndPass(p)
  BY <1>0, <1>4 DEF EndPass, Goto, Requests, Places
<1>5. CASE RunSucceeds(p)
  <2>0. cur[p] \in Jobs
    BY <1>0, <1>5 DEF RunSucceeds, Goto
  <2>1. Counted /\ runs'[cur[p]] > 0
    BY <1>0, <1>5, <2>0 DEF RunSucceeds
  <2>2. ASSUME NEW r, r = CompleteRequest(Owner(p), cur[p], "completed")
        PROVE  r \in CallType /\ CallOK(r)' /\ r.at = "sent" /\ r.by = Owner(p)
    <3>1. /\ r.op = "complete" /\ r.job = cur[p] /\ r.body = "completed"
          /\ r.page = {} /\ r.at = "sent" /\ r.by = Owner(p) /\ r \in CallType
      BY <1>0, <2>0, <2>2 DEF CompleteRequest, FreeSlot, CallType, Finished
    <3>2. Given(cur[p])'
      BY <1>0, <1>5, <2>0 DEF RunSucceeds, dbVars, Given
    <3> QED
      BY <1>0, <1>5, <2>0, <2>1, <3>1, <3>2 DEF RunSucceeds, CallOK, Finished
  <2>3. Requests(p)
    BY <1>5, <2>2 DEF RunSucceeds, Requests
  <2> QED
    BY <1>0, <1>5, <2>0, <2>1, <2>3 DEF RunSucceeds, Goto, Places
<1>6. CASE RunFails(p)
  BY <1>0, <1>6 DEF RunFails, Goto, Requests, Places
<1>7. CASE SendFailure(p)
  <2>0. cur[p] \in Jobs
    BY <1>0, <1>7 DEF SendFailure, Goto
  <2>2. ASSUME NEW r, r = CompleteRequest(Owner(p), cur[p], "failed")
        PROVE  r \in CallType /\ CallOK(r)' /\ r.at = "sent" /\ r.by = Owner(p)
    <3>1. /\ r.op = "complete" /\ r.job = cur[p] /\ r.body = "failed"
          /\ r.page = {} /\ r.at = "sent" /\ r.by = Owner(p) /\ r \in CallType
      BY <1>0, <2>0, <2>2 DEF CompleteRequest, FreeSlot, CallType, Finished
    <3>2. Given(cur[p])'
      BY <1>0, <1>7, <2>0 DEF SendFailure, dbVars, Given
    <3> QED
      BY <1>0, <1>7, <2>0, <3>1, <3>2 DEF SendFailure, CallOK, Finished
  <2>3. Requests(p)
    BY <1>7, <2>2 DEF SendFailure, Requests
  <2> QED
    BY <1>0, <1>7, <2>0, <2>3 DEF SendFailure, Goto, Places
<1>8. CASE CompletionAnswered(p)
  <2>1. cur[p] \in Jobs
    BY <1>0, <1>8 DEF CompletionAnswered, Goto
  <2>2. /\ pc' \in [Passes -> Places] /\ cur' \in [Passes -> Jobs \cup {Null}]
        /\ Others
        /\ \/ pc'[p] = "erring" /\ cur'[p] = cur[p]
           \/ pc'[p] = "next" /\ cur'[p] = Null
    BY <1>0, <1>8, <2>1 DEF CompletionAnswered, Goto, Places
  <2>3. active' \in [Providers -> SUBSET Jobs] /\ Requests(p)
    BY <1>0, <1>8 DEF CompletionAnswered, Requests
  <2> QED
    BY <1>0, <1>8, <2>1, <2>2, <2>3 DEF CompletionAnswered
<1>9. CASE FailureAnswered(p)
  BY <1>0, <1>9 DEF FailureAnswered, Goto, Requests, Places
<1>10. CASE Timeout(p)
  <2>1. /\ pc' \in [Passes -> Places] /\ cur' \in [Passes -> Jobs \cup {Null}]
        /\ Others
        /\ pc'[p] = "erring" => cur'[p] \in Jobs
        /\ pc'[p] \in {"idle", "erring", "next"} /\ cur'[p] \in {cur[p], Null}
    BY <1>0, <1>10 DEF Timeout, Places
  <2>2. Requests(p)
    BY <1>10 DEF Timeout, Requests, Answer
  <2>3. active' \in [Providers -> SUBSET Jobs] /\ faults' \in 0..MaxFaults
    BY <1>0, <1>10 DEF Timeout, Fault
  <2> QED
    BY <1>0, <1>10, <2>1, <2>2, <2>3 DEF Timeout
<1> QED
  BY <1>1, <1>2, <1>3, <1>4, <1>5, <1>6, <1>7, <1>8, <1>9, <1>10 DEF RunPass

\* The faults of the control plane.
LEMMA HandlerFaultInv ==
    ASSUME Inv, NEW s \in Slots, RequestDies(s) \/ PayoutFails(s) \/ ReceiptFails(s)
    PROVE  Inv'
<1> USE DEF Inv
<1>0. /\ payouts \in [Jobs -> Nat] /\ receipts \in [Jobs -> [Finished -> Nat]]
      /\ call[s] \in CallType /\ CallOK(call[s]) /\ FreeSlot.at = "free"
  BY DEF TypeOK, CallInv, CallOK, FreeSlot
<1>1. faults' \in 0..MaxFaults
  <2>1. Fault
    BY DEF RequestDies, PayoutFails, ReceiptFails
  <2> QED
    BY <2>1 DEF Fault, TypeOK
<1>2. CASE RequestDies(s) \/ ReceiptFails(s)
  <2>1. PICK ok \in BOOLEAN : call' = [call EXCEPT ![s] = Replied(s, {}, ok)]
    BY <1>2 DEF RequestDies, ReceiptFails
  <2> DEFINE c == Replied(s, {}, ok)
  <2>2. /\ c \in CallType /\ CallOK(c)
        /\ c = FreeSlot => ~ Awaited(s)
        /\ c # FreeSlot => c.at # "free" /\ c.by = call[s].by
    BY <1>2, RepliedOK DEF RequestDies, ReceiptFails
  <2> HIDE DEF c
  <2> QED
    BY <1>0, <1>1, <1>2, <2>1, <2>2, HandlerInv
    DEF c, RequestDies, ReceiptFails, dbVars
<1>3. CASE PayoutFails(s)
  <2> DEFINE c == [call[s] EXCEPT !.at = "receipt"]
  <2>1. c \in CallType /\ CallOK(c) /\ c.at = "receipt" /\ c.by = call[s].by
    BY <1>0, <1>3 DEF PayoutFails, CallType, CallOK
  <2>2. call' = [call EXCEPT ![s] = c]
    BY <1>3 DEF PayoutFails
  <2> HIDE DEF c
  <2> QED
    BY <1>0, <1>1, <1>3, <2>1, <2>2, HandlerInv DEF PayoutFails, dbVars
<1> QED
  BY <1>2, <1>3

\* The daemon exits and is started again.
LEMMA DaemonInv ==
    ASSUME Inv, NEW pr \in Providers, DaemonStops(pr) \/ DaemonStarts(pr)
    PROVE  Inv'
<1> USE DEF Inv
<1>1. CASE DaemonStops(pr)
  <2> USE <1>1 DEF DaemonStops, dbVars
  <2>1. TypeOK'
    BY FreeSlotType DEF TypeOK, Fault
  <2>2. CallInv'
    <3>1. ASSUME NEW s \in Slots PROVE call'[s] \in {call[s], FreeSlot}
      OBVIOUS
    <3>2. \A s \in Slots : CallOK(call[s]) /\ call[s] \in CallType
      BY DEF CallInv, CallOK, TypeOK
    <3>3. \A s \in Slots : CallOK(call'[s])
      BY <3>1, <3>2, FreeSlotOK
    <3> QED
      BY <3>3 DEF CallInv, CallOK, Given
  <2>3. ReqInv'
    <3> SUFFICES ASSUME NEW p \in Passes, req'[p] # Null
                 PROVE  /\ call'[req'[p]].at # "free"
                        /\ call'[req'[p]].by = Owner(p)
                        /\ \A q \in Passes : req'[q] = req'[p] => q = p
      BY DEF ReqInv
    <3>1. Owner(p) # pr /\ req'[p] = req[p] /\ req[p] \in Slots
      BY DEF TypeOK
    <3>2. ~ \E q \in PassesOf(pr) : req[q] = req[p]
      BY <3>1 DEF ReqInv, PassesOf, Passes, Owner
    <3>3. call'[req[p]] = call[req[p]]
      BY <3>1, <3>2
    <3> QED
      BY <3>1, <3>3 DEF ReqInv
  <2>4. CurInv' /\ RunsOwnJobs' /\ CompletedWasRun'
    BY DEF TypeOK, CurInv, RunsOwnJobs, CompletedWasRun, Given
  <2> QED
    BY <2>1, <2>2, <2>3, <2>4
<1>2. CASE DaemonStarts(pr)
  BY <1>2 DEF DaemonStarts, dbVars, TypeOK, CallInv, ReqInv, CurInv, RunsOwnJobs,
              CompletedWasRun, Given
<1> QED
  BY <1>1, <1>2

LEMMA StutterInv == Inv /\ UNCHANGED vars => Inv'
BY DEF vars, dbVars, daemonVars, Inv, TypeOK, CallInv, ReqInv, CurInv, RunsOwnJobs,
       CompletedWasRun, Given

LEMMA NextInv == Inv /\ [Next]_vars => Inv'
<1> SUFFICES ASSUME Inv, Next PROVE Inv'
  BY StutterInv
<1> QED
  BY RowsInv, ServeInv, MarkJobInv, PassStepInv, HandlerFaultInv, DaemonInv
  DEF Next, Serve

LEMMA InvHolds == Spec => []Inv
BY InitInv, NextInv, PTL DEF Spec

-----------------------------------------------------------------------------
(***************************************************************************)
(* The tables, requests and daemons of NodeJobs keep their types: no       *)
(* status outside the five of the jobs table is ever written.              *)
(***************************************************************************)
THEOREM TypeCorrect == Spec => []TypeOK
BY InvHolds, PTL DEF Inv

(***************************************************************************)
(* A daemon only runs jobs that were assigned to it, however stale the     *)
(* page of jobs it works on (pollJobsForNode, processJob).                 *)
(***************************************************************************)
THEOREM DaemonsRunOwnJobs == Spec => []RunsOwnJobs
BY InvHolds, PTL DEF Inv

(***************************************************************************)
(* A job is completed only if its provider ran it to the end               *)
(* (completeJobForNode, processJob), whatever is lost, late or repeated.   *)
(***************************************************************************)
THEOREM CompletedWereRun == Spec => []CompletedWasRun
BY InvHolds, PTL DEF Inv

-----------------------------------------------------------------------------
(* NodeJobs implements JobContract.  Inv does not say enough of payments:  *)
(* each one recorded, and each one a request may still record, stands for  *)
(* an execution of its own.                                                *)

\* The completions of j that may still record a payment.
Owed(j) ==
    {s \in Slots : /\ call[s].op = "complete" /\ call[s].body = "completed"
                   /\ call[s].job = j /\ call[s].at \in {"sent", "mark", "pay"}}

PaidForWork == \A j \in Jobs : payouts[j] + Cardinality(Owed(j)) <= runs[j]

\* What MarkJob left behind for InsertPayout.
PaysFinished ==
    \A s \in Slots : call[s].at = "pay" =>
        /\ call[s].body = "completed" /\ call[s].job \in Paid
        /\ status[call[s].job] \in Finished

PayInv == PaidForWork /\ PaysFinished

LEMMA OwedFinite == \A j : IsFiniteSet(Owed(j)) /\ Cardinality(Owed(j)) \in Nat
<1> SUFFICES ASSUME NEW j PROVE IsFiniteSet(Owed(j)) /\ Cardinality(Owed(j)) \in Nat
  OBVIOUS
<1>1. Owed(j) \subseteq Slots
  BY DEF Owed
<1> QED
  BY <1>1, FS_Subset, FS_CardinalityType

\* What a job has paid and may still pay, when no new completion is sent.
LEMMA OwedShrinks ==
    ASSUME Inv, PaidForWork, \A j \in Jobs : Owed(j)' \subseteq Owed(j),
           UNCHANGED payouts, UNCHANGED runs
    PROVE  PaidForWork'
<1> SUFFICES ASSUME NEW j \in Jobs
             PROVE  payouts'[j] + Cardinality(Owed(j)') <= runs'[j]
  BY DEF PaidForWork
<1>1. IsFiniteSet(Owed(j)') /\ Cardinality(Owed(j)') <= Cardinality(Owed(j))
  BY OwedFinite, FS_Subset
<1>2. Cardinality(Owed(j)') \in Nat /\ Cardinality(Owed(j)) \in Nat
  BY <1>1, OwedFinite, FS_CardinalityType
<1>3. payouts[j] \in Nat /\ runs[j] \in Nat
  BY DEF Inv, TypeOK
<1> QED
  BY <1>1, <1>2, <1>3 DEF PaidForWork

\* Before the first request nothing is owed.
LEMMA InitPays == Init => PayInv
<1> SUFFICES ASSUME Init PROVE PayInv
  OBVIOUS
<1>1. ASSUME NEW j \in Jobs PROVE Cardinality(Owed(j)) = 0
  <2>1. Owed(j) = {}
    BY DEF Owed, Init, FreeSlot
  <2> QED
    BY <2>1, FS_EmptySet
<1>2. PaidForWork
  BY <1>1 DEF PaidForWork, Init
<1> QED
  BY <1>2 DEF PayInv, PaysFinished, Init, FreeSlot

\* A request that is not a success being sent, or moves from its check to its update.
Settles(s) ==
    \/ call'[s] = call[s]
    \/ call'[s].at \notin {"sent", "mark", "pay"}
    \/ call'[s].at = "sent" /\ (call'[s].op = "poll" \/ call'[s].body = "failed")
    \/ call[s].at = "sent" /\ call'[s].at = "mark" /\ call'[s].op = call[s].op
         /\ call'[s].body = call[s].body /\ call'[s].job = call[s].job

LEMMA SettlesInv ==
    ASSUME Inv, PayInv, UNCHANGED payouts, UNCHANGED runs, \A s \in Slots : Settles(s),
           \A j \in Jobs : status[j] \in Finished => status'[j] \in Finished
    PROVE  PayInv'
<1>1. \A j \in Jobs : Owed(j)' \subseteq Owed(j)
  BY DEF Owed, Settles
<1>2. PaidForWork'
  BY <1>1, OwedShrinks DEF PayInv
<1>3. PaysFinished'
  BY DEF PayInv, PaysFinished, Settles
<1> QED
  BY <1>2, <1>3 DEF PayInv

\* The handlers, but for the insert of the payment.
LEMMA ServePays ==
    ASSUME Inv, PayInv, NEW s \in Slots,
           \/ PollJobsForNode(s) \/ CheckCompletion(s) \/ EnqueueReceipt(s)
           \/ RequestDies(s) \/ PayoutFails(s) \/ ReceiptFails(s)
    PROVE  PayInv'
<1>0. call \in [Slots -> CallType] /\ call[s] \in CallType
  BY DEF Inv, TypeOK
<1>1. UNCHANGED payouts /\ UNCHANGED runs /\ UNCHANGED status
  BY DEF PollJobsForNode, CheckCompletion, EnqueueReceipt, RequestDies, PayoutFails,
         ReceiptFails, dbVars, daemonVars
<1>2. ASSUME NEW page, NEW ok PROVE Replied(s, page, ok).at \in {"replied", "free"}
  BY <1>0 DEF Replied, FreeSlot, CallType
<1>3. Settles(s)
  <2>1. CASE PollJobsForNode(s) \/ EnqueueReceipt(s) \/ RequestDies(s) \/ ReceiptFails(s)
    <3>1. PICK page, ok : call' = [call EXCEPT ![s] = Replied(s, page, ok)]
      BY <2>1 DEF PollJobsForNode, EnqueueReceipt, RequestDies, ReceiptFails
    <3> QED
      BY <1>0, <1>2, <3>1 DEF Settles
  <2>2. CASE CheckCompletion(s)
    <3>1. CASE call' = [call EXCEPT ![s] = Replied(s, {}, FALSE)]
      BY <1>0, <1>2, <3>1 DEF Settles
    <3>2. CASE call' = [call EXCEPT ![s] = [call[s] EXCEPT !.at = "mark"]]
      <4> DEFINE c == [call[s] EXCEPT !.at = "mark"]
      <4>1. call'[s] = c
        BY <1>0, <3>2
      <4>2. /\ c.at = "mark" /\ c.op = call[s].op
            /\ c.body = call[s].body /\ c.job = call[s].job
        BY <1>0 DEF CallType
      <4>3. call[s].at = "sent"
        BY <2>2 DEF CheckCompletion
      <4> QED
        BY <4>1, <4>2, <4>3 DEF Settles
    <3> QED
      BY <2>2, <3>1, <3>2 DEF CheckCompletion
  <2>3. CASE PayoutFails(s)
    BY <1>0, <2>3 DEF PayoutFails, Settles, CallType
  <2> QED
    BY <2>1, <2>2, <2>3
<1>4. \A t \in Slots : t # s => call'[t] = call[t]
  BY <1>0 DEF PollJobsForNode, CheckCompletion, EnqueueReceipt, RequestDies, PayoutFails,
              ReceiptFails
<1>5. \A t \in Slots : Settles(t)
  BY <1>3, <1>4 DEF Settles
<1> QED
  BY <1>1, <1>5, SettlesInv

\* The update of the jobs row leaves a finished job to pay for.
LEMMA MarkPays ==
    ASSUME Inv, PayInv, NEW s \in Slots, MarkJob(s)
    PROVE  PayInv'
<1>0. /\ call \in [Slots -> CallType] /\ call[s] \in CallType
      /\ call[s].at = "mark" /\ call[s].op = "complete"
      /\ call[s].job \in Jobs /\ call[s].body \in Finished
      /\ status \in [Jobs -> Statuses]
  BY DEF Inv, TypeOK, CallInv, MarkJob
<1>1. UNCHANGED payouts /\ UNCHANGED runs
  BY DEF MarkJob, daemonVars
<1>2. /\ call'[s].op = call[s].op /\ call'[s].body = call[s].body
      /\ call'[s].job = call[s].job
      /\ call'[s].at = IF call[s].body = "completed" /\ call[s].job \in Paid
                       THEN "pay" ELSE "receipt"
      /\ \A t \in Slots : t # s => call'[t] = call[t]
  <2> DEFINE c == [call[s] EXCEPT !.at = IF call[s].body = "completed" /\ call[s].job \in Paid
                                         THEN "pay" ELSE "receipt"]
  <2>1. call' = [call EXCEPT ![s] = c]
    BY DEF MarkJob
  <2>2. call'[s] = c /\ \A t \in Slots : t # s => call'[t] = call[t]
    BY <1>0, <2>1
  <2> QED
    BY <1>0, <2>2 DEF CallType
<1>3. \A j \in Jobs : status[j] \in Finished => status'[j] \in Finished
  BY <1>0 DEF MarkJob
<1>4. status'[call[s].job] \in Finished
  BY <1>0 DEF MarkJob
<1>5. PaidForWork'
  <2>1. \A j \in Jobs : Owed(j)' \subseteq Owed(j)
    BY <1>0, <1>2 DEF Owed
  <2> QED
    BY <1>1, <2>1, OwedShrinks DEF PayInv
<1>6. PaysFinished'
  <2> SUFFICES ASSUME NEW t \in Slots, call'[t].at = "pay"
               PROVE  /\ call'[t].body = "completed" /\ call'[t].job \in Paid
                      /\ status'[call'[t].job] \in Finished
    BY DEF PaysFinished
  <2>1. CASE t = s
    BY <1>2, <1>4, <2>1
  <2>2. CASE t # s
    BY <1>2, <1>3, <2>2 DEF PayInv, PaysFinished
  <2> QED
    BY <2>1, <2>2
<1> QED
  BY <1>5, <1>6 DEF PayInv

\* What the insert turns into a payment was owed.
LEMMA InsertPays ==
    ASSUME Inv, PayInv, NEW s \in Slots, InsertPayout(s)
    PROVE  /\ PayInv'
           /\ payouts[call[s].job] < runs[call[s].job]
<1>0. /\ call \in [Slots -> CallType] /\ call[s] \in CallType
      /\ call[s].at = "pay" /\ call[s].op = "complete"
      /\ call[s].job \in Jobs /\ call[s].body = "completed"
      /\ payouts \in [Jobs -> Nat] /\ runs \in [Jobs -> Nat]
  BY DEF Inv, TypeOK, CallInv, InsertPayout, PayInv, PaysFinished
<1>1. UNCHANGED runs /\ UNCHANGED status
  BY DEF InsertPayout, daemonVars
<1>2. /\ call'[s].at = "receipt" /\ call'[s].op = call[s].op
      /\ call'[s].job = call[s].job /\ call'[s].body = call[s].body
      /\ \A t \in Slots : t # s => call'[t] = call[t]
  BY <1>0 DEF InsertPayout, CallType
<1>3. s \in Owed(call[s].job)
  BY <1>0 DEF Owed
<1>4. \A j \in Jobs : Owed(j)' = Owed(j) \ {s}
  BY <1>0, <1>2 DEF Owed
<1>5. \A j \in Jobs : /\ Cardinality(Owed(j)) \in Nat
                      /\ Cardinality(Owed(j)') =
                           Cardinality(Owed(j)) - (IF s \in Owed(j) THEN 1 ELSE 0)
                      /\ Cardinality(Owed(j)') \in Nat
  <2> SUFFICES ASSUME NEW j \in Jobs
               PROVE  /\ Cardinality(Owed(j)) \in Nat
                      /\ Cardinality(Owed(j)') =
                           Cardinality(Owed(j)) - (IF s \in Owed(j) THEN 1 ELSE 0)
                      /\ Cardinality(Owed(j)') \in Nat
    OBVIOUS
  <2>1. IsFiniteSet(Owed(j)) /\ Cardinality(Owed(j)) \in Nat
    BY OwedFinite
  <2>2. /\ IsFiniteSet(Owed(j) \ {s})
        /\ Cardinality(Owed(j) \ {s}) = IF s \in Owed(j) THEN Cardinality(Owed(j)) - 1
                                        ELSE Cardinality(Owed(j))
    BY <2>1, FS_RemoveElement
  <2>3. Cardinality(Owed(j) \ {s}) \in Nat
    BY <2>2, FS_CardinalityType
  <2>4. Owed(j)' = Owed(j) \ {s}
    BY <1>4
  <2>5. Cardinality(Owed(j)') = Cardinality(Owed(j) \ {s})
    BY <2>4
  <2>6. CASE s \in Owed(j)
    BY <2>1, <2>2, <2>3, <2>5, <2>6
  <2>7. CASE s \notin Owed(j)
    BY <2>1, <2>2, <2>3, <2>5, <2>7
  <2> QED
    BY <2>6, <2>7
<1>6. payouts[call[s].job] < runs[call[s].job]
  BY <1>0, <1>3, <1>5 DEF PayInv, PaidForWork
<1>7. \A j \in Jobs : payouts'[j] = payouts[j] \/ (j = call[s].job /\ payouts'[j] = payouts[j] + 1)
  BY <1>0 DEF InsertPayout
<1>8. PaidForWork'
  <2> SUFFICES ASSUME NEW j \in Jobs
               PROVE  payouts'[j] + Cardinality(Owed(j)') <= runs'[j]
    BY DEF PaidForWork
  <2>1. payouts[j] + Cardinality(Owed(j)) <= runs[j] /\ payouts[j] \in Nat /\ runs[j] \in Nat
    BY <1>0 DEF PayInv, PaidForWork
  <2>2. CASE j = call[s].job
    BY <1>1, <1>3, <1>5, <1>7, <2>1, <2>2
  <2>3. CASE j # call[s].job
    BY <1>1, <1>5, <1>7, <2>1, <2>3
  <2> QED
    BY <2>2, <2>3
<1>9. PaysFinished'
  BY <1>1, <1>2 DEF PayInv, PaysFinished
<1> QED
  BY <1>6, <1>8, <1>9 DEF PayInv

\* One more execution, and one more completion that may pay for it.
LEMMA WorkPays ==
    ASSUME Inv, PayInv, NEW p \in Passes, RunSucceeds(p)
    PROVE  PayInv'
<1>0. /\ call \in [Slots -> CallType] /\ cur[p] \in Jobs /\ runs \in [Jobs -> Nat]
      /\ payouts \in [Jobs -> Nat]
  BY DEF Inv, TypeOK, CurInv, RunSucceeds, Goto
<1>1. UNCHANGED payouts /\ UNCHANGED status /\ runs' = [runs EXCEPT ![cur[p]] = @ + 1]
  BY DEF RunSucceeds, dbVars
<1>2. PICK s \in Slots : Send(p, s, CompleteRequest(Owner(p), cur[p], "completed"))
  BY DEF RunSucceeds
<1>3. /\ call'[s].at = "sent" /\ call'[s].op = "complete" /\ call'[s].job = cur[p]
      /\ \A t \in Slots : t # s => call'[t] = call[t]
  <2>1. call' = [call EXCEPT ![s] = CompleteRequest(Owner(p), cur[p], "completed")]
    BY <1>2 DEF Send
  <2>2. call'[s] = CompleteRequest(Owner(p), cur[p], "completed")
        /\ \A t \in Slots : t # s => call'[t] = call[t]
    BY <1>0, <2>1
  <2> QED
    BY <2>2 DEF CompleteRequest, FreeSlot
<1>4. \A j \in Jobs : Owed(j)' \subseteq (IF j = cur[p] THEN Owed(j) \cup {s} ELSE Owed(j))
  BY <1>3 DEF Owed
<1>5. PaidForWork'
  <2> SUFFICES ASSUME NEW j \in Jobs
               PROVE  payouts'[j] + Cardinality(Owed(j)') <= runs'[j]
    BY DEF PaidForWork
  <2>1. IsFiniteSet(Owed(j)) /\ Cardinality(Owed(j)) \in Nat
    BY OwedFinite
  <2>2. payouts[j] + Cardinality(Owed(j)) <= runs[j]
    BY DEF PayInv, PaidForWork
  <2>3. CASE j = cur[p]
    <3>1. /\ IsFiniteSet(Owed(j) \cup {s})
          /\ Cardinality(Owed(j) \cup {s}) <= Cardinality(Owed(j)) + 1
      <4>1. /\ IsFiniteSet(Owed(j) \cup {s})
            /\ Cardinality(Owed(j) \cup {s}) =
                 IF s \in Owed(j) THEN Cardinality(Owed(j)) ELSE Cardinality(Owed(j)) + 1
        BY <2>1, FS_AddElement
      <4> QED
        BY <2>1, <4>1
    <3>2. Owed(j)' \subseteq Owed(j) \cup {s}
      BY <1>4, <2>3
    <3>3. /\ IsFiniteSet(Owed(j)')
          /\ Cardinality(Owed(j)') <= Cardinality(Owed(j) \cup {s})
      BY <3>1, <3>2, FS_Subset
    <3>4. Cardinality(Owed(j)') \in Nat /\ Cardinality(Owed(j) \cup {s}) \in Nat
      BY <3>1, <3>3, FS_CardinalityType
    <3>5. runs'[j] = runs[j] + 1
      BY <1>0, <1>1, <2>3
    <3> QED
      BY <1>0, <1>1, <2>1, <2>2, <3>1, <3>3, <3>4, <3>5
  <2>4. CASE j # cur[p]
    <3>1. Owed(j)' \subseteq Owed(j)
      BY <1>4, <2>4
    <3>2. IsFiniteSet(Owed(j)') /\ Cardinality(Owed(j)') <= Cardinality(Owed(j))
      BY <2>1, <3>1, FS_Subset
    <3>3. Cardinality(Owed(j)') \in Nat
      BY <3>2, FS_CardinalityType
    <3>4. runs'[j] = runs[j]
      BY <1>0, <1>1, <2>4
    <3> QED
      BY <1>0, <1>1, <2>1, <2>2, <3>2, <3>3, <3>4
  <2> QED
    BY <2>3, <2>4
<1>6. PaysFinished'
  BY <1>1, <1>3 DEF PayInv, PaysFinished
<1> QED
  BY <1>5, <1>6 DEF PayInv

\* The other steps of a pass send a poll, a failure or nothing.
LEMMA PassPays ==
    ASSUME Inv, PayInv, NEW p \in Passes,
           \/ StartPass(p) \/ PollAnswered(p) \/ PickJob(p) \/ EndPass(p) \/ RunFails(p)
           \/ SendFailure(p) \/ CompletionAnswered(p) \/ FailureAnswered(p) \/ Timeout(p)
    PROVE  PayInv'
<1>0. call \in [Slots -> CallType]
  BY DEF Inv, TypeOK
<1>1. UNCHANGED payouts /\ UNCHANGED runs /\ UNCHANGED status
  BY DEF StartPass, PollAnswered, PickJob, EndPass, RunFails, SendFailure,
         CompletionAnswered, FailureAnswered, Timeout, dbVars
<1>2. ASSUME NEW s \in Slots PROVE Settles(s)
  <2>1. CASE call' = call
    BY <2>1 DEF Settles
  <2>2. CASE \E t : call' = [call EXCEPT ![t] = FreeSlot]
    BY <1>0, <2>2 DEF Settles, FreeSlot
  <2>3. CASE StartPass(p)
    <3>1. PICK t \in Slots : call' = [call EXCEPT ![t] = PollRequest(Owner(p))]
      BY <2>3 DEF StartPass, Send
    <3> QED
      BY <1>0, <3>1 DEF Settles, PollRequest, FreeSlot
  <2>4. CASE SendFailure(p)
    <3>1. PICK t \in Slots :
             call' = [call EXCEPT ![t] = CompleteRequest(Owner(p), cur[p], "failed")]
      BY <2>4 DEF SendFailure, Send
    <3> QED
      BY <1>0, <3>1 DEF Settles, CompleteRequest, FreeSlot
  <2>5. CASE PollAnswered(p) \/ CompletionAnswered(p) \/ FailureAnswered(p)
    <3>1. Answer(p)
      BY <2>5 DEF PollAnswered, CompletionAnswered, FailureAnswered
    <3> QED
      BY <2>2, <3>1 DEF Answer
  <2>6. CASE PickJob(p) \/ EndPass(p) \/ RunFails(p)
    BY <2>1, <2>6 DEF PickJob, EndPass, RunFails
  <2>7. CASE Timeout(p)
    BY <2>1, <2>2, <2>7 DEF Timeout
  <2> QED
    BY <2>3, <2>4, <2>5, <2>6, <2>7
<1> QED
  BY <1>1, <1>2, SettlesInv

\* Clients, owners and daemons that stop or start.
LEMMA OthersPay ==
    ASSUME Inv, PayInv,
           \/ \E j \in Jobs : CreateChatJob(j) \/ SubmitJob(j)
           \/ \E pr \in Providers : RemoveNode(pr) \/ DaemonStops(pr) \/ DaemonStarts(pr)
    PROVE  PayInv'
<1>1. CASE \E j \in Jobs : CreateChatJob(j) \/ SubmitJob(j)
  <2>1. PICK j \in Jobs, st \in {"assigned", "running", "pending"},
                pr \in registered \cup {Null} : InsertJob(j, st, pr)
    BY <1>1 DEF CreateChatJob, SubmitJob
  <2>2. \A k \in Jobs : status[k] \in Finished => status'[k] = status[k]
    BY <2>1 DEF InsertJob, Finished, Inv, TypeOK
  <2>3. UNCHANGED payouts /\ UNCHANGED runs /\ \A s \in Slots : Settles(s)
    BY <2>1 DEF InsertJob, daemonVars, Settles
  <2> QED
    BY <2>2, <2>3, SettlesInv
<1>2. CASE \E pr \in Providers : RemoveNode(pr) \/ DaemonStarts(pr)
  BY <1>2, SettlesInv DEF RemoveNode, DaemonStarts, dbVars, daemonVars, Settles
<1>3. CASE \E pr \in Providers : DaemonStops(pr)
  <2>1. \A s \in Slots : call'[s] = call[s] \/ call'[s] = FreeSlot
    BY <1>3 DEF DaemonStops
  <2>2. \A s \in Slots : Settles(s)
    BY <2>1 DEF Settles, FreeSlot
  <2>3. UNCHANGED payouts /\ UNCHANGED runs /\ UNCHANGED status
    BY <1>3 DEF DaemonStops, dbVars
  <2> QED
    BY <2>2, <2>3, SettlesInv
<1> QED
  BY <1>1, <1>2, <1>3

LEMMA PaysStutter == Inv /\ PayInv /\ UNCHANGED vars => PayInv'
<1> SUFFICES ASSUME Inv, PayInv, UNCHANGED vars PROVE PayInv'
  OBVIOUS
<1> QED
  BY SettlesInv DEF vars, dbVars, daemonVars, Settles

LEMMA NextPays == Inv /\ PayInv /\ [Next]_vars => PayInv'
<1> SUFFICES ASSUME Inv, PayInv, Next PROVE PayInv'
  BY PaysStutter
<1> QED
  BY ServePays, MarkPays, InsertPays, WorkPays, PassPays, OthersPay DEF Next, Serve, RunPass

LEMMA PayInvHolds == Spec => []PayInv
BY InitPays, NextPays, InvHolds, PTL DEF Spec

\* Every step is one of the contract, or none of its business.
LEMMA ContractStep == Inv /\ PayInv /\ [Next]_vars => [Contract!Next]_(Contract!vars)
<1> SUFFICES ASSUME Inv, PayInv, Next
             PROVE  Contract!Next \/ UNCHANGED <<status, assignee, runs, payouts>>
  BY DEF vars, dbVars, daemonVars, Contract!vars
<1>1. CASE \E j \in Jobs : CreateChatJob(j) \/ SubmitJob(j)
  <2>1. PICK j \in Jobs, st \in {"assigned", "running", "pending"},
                pr \in Providers \cup {Null} :
           /\ InsertJob(j, st, pr)
           /\ st = "assigned" => pr \in Providers
           /\ st # "assigned" => pr = Null
    BY <1>1 DEF CreateChatJob, SubmitJob, Inv, TypeOK
  <2>3. CASE st = "assigned"
    <3>1. Contract!Submit(j)
      BY <2>1, <2>3 DEF InsertJob, daemonVars, Contract!Submit
    <3> QED
      BY <3>1 DEF Contract!Next
  <2>4. CASE st # "assigned"
    <3>1. Contract!Submit(j)
      BY <2>1, <2>4 DEF InsertJob, daemonVars, Contract!Submit
    <3> QED
      BY <3>1 DEF Contract!Next
  <2> QED
    BY <2>3, <2>4
<1>2. CASE \E pr \in Providers : RemoveNode(pr)
  <2>1. PICK pr \in Providers : RemoveNode(pr)
    BY <1>2
  <2>2. Contract!Leave(pr)
    BY <2>1 DEF RemoveNode, daemonVars, Contract!Leave
  <2> QED
    BY <2>2 DEF Contract!Next
<1>3. CASE \E p \in Passes : RunSucceeds(p)
  <2>1. PICK p \in Passes : RunSucceeds(p)
    BY <1>3
  <2>2. PICK j \in Jobs : j = cur[p] /\ Given(j)
    BY <2>1 DEF Inv, CurInv, RunSucceeds, Goto, RunsOwnJobs
  <2>3. Contract!Work(j)
    BY <2>1, <2>2 DEF RunSucceeds, dbVars, Contract!Work, Contract!Given, Contract!Finished,
                      Given, Finished
  <2> QED
    BY <2>3 DEF Contract!Next
<1>4. CASE \E s \in Slots : MarkJob(s)
  <2>1. PICK s \in Slots : MarkJob(s)
    BY <1>4
  <2>2. PICK j \in Jobs, o \in Finished :
           /\ j = call[s].job /\ o = call[s].body /\ Given(j)
           /\ o = "completed" => runs[j] > 0
    BY <2>1 DEF Inv, CallInv, MarkJob
  <2>3. Contract!Finish(j, o)
    BY <2>1, <2>2 DEF MarkJob, daemonVars, Contract!Finish, Contract!Given, Contract!Finished,
                      Given, Finished
  <2>4. o \in Contract!Finished
    BY DEF Finished, Contract!Finished
  <2> QED
    BY <2>3, <2>4 DEF Contract!Next
<1>5. CASE \E s \in Slots : InsertPayout(s)
  <2>1. PICK s \in Slots : InsertPayout(s)
    BY <1>5
  <2>2. PICK j \in Jobs : /\ j = call[s].job /\ j \in Paid /\ status[j] \in Finished
                          /\ payouts[j] < runs[j]
    BY <2>1, InsertPays DEF InsertPayout, Inv, CallInv, PayInv, PaysFinished
  <2>3. CASE call[s].by \in registered
    <3>1. Contract!Pay(j)
      BY <2>1, <2>2, <2>3 DEF InsertPayout, daemonVars, Contract!Pay, Contract!Finished, Finished
    <3> QED
      BY <3>1 DEF Contract!Next
  <2>4. CASE call[s].by \notin registered
    BY <2>1, <2>4 DEF InsertPayout, daemonVars
  <2> QED
    BY <2>3, <2>4
<1>6. CASE \/ \E pr \in Providers : DaemonStops(pr) \/ DaemonStarts(pr)
           \/ \E s \in Slots : \/ PollJobsForNode(s) \/ CheckCompletion(s) \/ EnqueueReceipt(s)
                               \/ RequestDies(s) \/ PayoutFails(s) \/ ReceiptFails(s)
  BY <1>6 DEF DaemonStops, DaemonStarts, PollJobsForNode, CheckCompletion, EnqueueReceipt,
              RequestDies, PayoutFails, ReceiptFails, dbVars, daemonVars
<1>7. CASE \E p \in Passes :
              \/ StartPass(p) \/ PollAnswered(p) \/ PickJob(p) \/ EndPass(p) \/ RunFails(p)
              \/ SendFailure(p) \/ CompletionAnswered(p) \/ FailureAnswered(p) \/ Timeout(p)
  BY <1>7 DEF StartPass, PollAnswered, PickJob, EndPass, RunFails, SendFailure,
              CompletionAnswered, FailureAnswered, Timeout, dbVars
<1> QED
  BY <1>1, <1>2, <1>3, <1>4, <1>5, <1>6, <1>7 DEF Next, Serve, RunPass

LEMMA ContractInit == Init => Contract!Init
BY DEF Init, Contract!Init

(***************************************************************************)
(* The handlers and daemons of NodeJobs keep JobContract: whatever is      *)
(* lost, late, repeated or removed, only a job that was given to a         *)
(* provider is finished, and it is paid at most once per execution.        *)
(***************************************************************************)
THEOREM ContractImplemented == Spec => ImplementsContract
BY ContractInit, ContractStep, InvHolds, PayInvHolds, PTL
DEF Spec, ImplementsContract, Contract!Spec

-----------------------------------------------------------------------------
(* The books and the saturation filter (BooksHold).                        *)

Busy == {"running", "completing"}

\* A pass awaits an answer only where its code does, so that an answer that
\* does not come finds it there.
WaitInv == \A p \in Passes : req[p] # Null => pc[p] \in {"polling", "completing", "failing"}

\* Without faults a status that was written has its receipt, or a handler that is
\* about to write it; likewise its payment, unless the provider has gone.
Booked ==
    faults = 0 => \A j \in Jobs :
        /\ status[j] \in Finished =>
             \/ receipts[j][status[j]] > 0
             \/ \E s \in Slots : /\ call[s].job = j /\ call[s].body = status[j]
                                 /\ call[s].at \in {"pay", "receipt"}
        /\ status[j] = "completed" /\ j \in Paid /\ assignee[j] # Null =>
             \/ payouts[j] > 0
             \/ \E s \in Slots : call[s].job = j /\ call[s].at = "pay"

\* Who passed the check has the job still, or nobody has.
Checked ==
    \A s \in Slots : call[s].at \in {"mark", "pay", "receipt"} =>
        assignee[call[s].job] \in {call[s].by, Null}

AssigneesExist == \A j \in Jobs : assignee[j] \in registered \cup {Null}

BookInv == WaitInv /\ ActiveIsBusy /\ Booked /\ Checked /\ AssigneesExist

LEMMA InitBooks == Init => BookInv
<1> SUFFICES ASSUME Init PROVE BookInv
  OBVIOUS
<1>1. WaitInv /\ ActiveIsBusy
  BY DEF Init, WaitInv, ActiveIsBusy
<1>2. Booked /\ Checked /\ AssigneesExist
  BY DEF Init, Booked, Checked, AssigneesExist, FreeSlot, Finished
<1> QED
  BY <1>1, <1>2 DEF BookInv

\* Requests that are not at the books come, go or are answered.
Passing(s) ==
    \/ call'[s] = call[s]
    \/ call[s].at \in {"free", "sent", "replied"} /\ call'[s].at \in {"free", "sent", "replied"}

LEMMA PassingBooks ==
    ASSUME BookInv, Inv, UNCHANGED dbVars, \A s \in Slots : Passing(s),
           faults' = faults \/ faults' > 0
    PROVE  Booked' /\ Checked' /\ AssigneesExist'
<1> USE DEF BookInv, dbVars
<1>1. ASSUME faults' = 0 PROVE faults = 0
  BY <1>1
<1>2. \A s \in Slots : call[s].at \in {"mark", "pay", "receipt"} => call'[s] = call[s]
  BY DEF Passing
<1>3. \A s \in Slots : call'[s].at \in {"mark", "pay", "receipt"} => call'[s] = call[s]
  BY DEF Passing
<1>4. Booked'
  <2> SUFFICES ASSUME faults' = 0, NEW j \in Jobs
               PROVE  /\ status[j] \in Finished =>
                           \/ receipts[j][status[j]] > 0
                           \/ \E s \in Slots : /\ call'[s].job = j /\ call'[s].body = status[j]
                                               /\ call'[s].at \in {"pay", "receipt"}
                      /\ status[j] = "completed" /\ j \in Paid /\ assignee[j] # Null =>
                           \/ payouts[j] > 0
                           \/ \E s \in Slots : call'[s].job = j /\ call'[s].at = "pay"
    BY DEF Booked
  <2> QED
    BY <1>1, <1>2 DEF Booked
<1>5. Checked'
  BY <1>3 DEF Checked
<1> QED
  BY <1>4, <1>5 DEF AssigneesExist

\* The handlers do not touch a daemon.
LEMMA DaemonKeeps ==
    ASSUME BookInv, UNCHANGED daemonVars
    PROVE  WaitInv' /\ ActiveIsBusy'
BY DEF BookInv, WaitInv, ActiveIsBusy, daemonVars

\* A fault settles Booked.
LEMMA FaultBooks ==
    ASSUME Inv, BookInv, Fault,
           UNCHANGED dbVars,
           \A s \in Slots : /\ call'[s].at \in {"mark", "pay", "receipt"} =>
                                 call[s].at \in {"mark", "pay", "receipt"}
                            /\ call'[s].at \in {"mark", "pay", "receipt"} =>
                                 call'[s].by = call[s].by /\ call'[s].job = call[s].job
    PROVE  Booked' /\ Checked' /\ AssigneesExist'
<1>1. faults' # 0
  BY DEF Fault, Inv, TypeOK
<1>2. Booked'
  BY <1>1 DEF Booked
<1>3. Checked' /\ AssigneesExist'
  BY DEF BookInv, Checked, AssigneesExist, dbVars
<1> QED
  BY <1>2, <1>3

\* The handlers' steps of one request.
LEMMA ServeBooks ==
    ASSUME Inv, BookInv, NEW s \in Slots,
           \/ PollJobsForNode(s) \/ CheckCompletion(s) \/ EnqueueReceipt(s)
           \/ RequestDies(s) \/ PayoutFails(s) \/ ReceiptFails(s)
    PROVE  BookInv'
<1>0. call \in [Slots -> CallType] /\ call[s] \in CallType
  BY DEF Inv, TypeOK
<1>1. WaitInv' /\ ActiveIsBusy'
  BY DaemonKeeps DEF PollJobsForNode, CheckCompletion, EnqueueReceipt, RequestDies, PayoutFails,
                     ReceiptFails
<1>2. ASSUME NEW page, NEW ok PROVE Replied(s, page, ok).at \in {"replied", "free"}
  BY <1>0 DEF Replied, FreeSlot, CallType
<1>3. \A t \in Slots : t # s => call'[t] = call[t]
  BY <1>0 DEF PollJobsForNode, CheckCompletion, EnqueueReceipt, RequestDies, PayoutFails,
              ReceiptFails
<1>4. CASE PollJobsForNode(s)
  <2>1. call[s].at = "sent" /\ call'[s].at \in {"replied", "free"}
    BY <1>0, <1>2, <1>4 DEF PollJobsForNode
  <2>2. \A t \in Slots : Passing(t)
    BY <1>3, <2>1 DEF Passing
  <2> QED
    BY <1>1, <1>4, <2>2, PassingBooks DEF PollJobsForNode, BookInv
<1>5. CASE CheckCompletion(s)
  <2>1. CASE call' = [call EXCEPT ![s] = Replied(s, {}, FALSE)]
    <3>1. call[s].at = "sent" /\ call'[s].at \in {"replied", "free"}
      <4>1. call'[s] = Replied(s, {}, FALSE)
        BY <1>0, <2>1
      <4> QED
        BY <1>2, <1>5, <4>1 DEF CheckCompletion
    <3>2. \A t \in Slots : Passing(t)
      BY <1>3, <3>1 DEF Passing
    <3> QED
      BY <1>1, <1>5, <3>2, PassingBooks DEF CheckCompletion, BookInv
  <2>2. CASE /\ call' = [call EXCEPT ![s] = [call[s] EXCEPT !.at = "mark"]]
             /\ assignee[call[s].job] = call[s].by
    <3>1. call'[s].job = call[s].job /\ call'[s].by = call[s].by
      <4>1. call'[s] = [call[s] EXCEPT !.at = "mark"]
        BY <1>0, <2>2
      <4> QED
        BY <1>0, <4>1 DEF CallType
    <3>2. UNCHANGED <<dbVars, faults>> /\ call[s].at = "sent"
      BY <1>5 DEF CheckCompletion
    <3>3. Checked'
      BY <1>3, <2>2, <3>1, <3>2 DEF BookInv, Checked, dbVars
    <3>4. Booked'
      <4>1. \A t \in Slots : call[t].at \in {"pay", "receipt"} => call'[t] = call[t]
        BY <1>3, <3>2
      <4> QED
        BY <3>2, <4>1 DEF BookInv, Booked, dbVars
    <3> QED
      BY <1>1, <3>2, <3>3, <3>4 DEF BookInv, AssigneesExist, dbVars
  <2> QED
    BY <1>5, <2>1, <2>2 DEF CheckCompletion
<1>6. CASE EnqueueReceipt(s)
  <2>1. /\ call[s].at = "receipt" /\ call[s].job \in Jobs /\ call[s].body \in Finished
        /\ receipts \in [Jobs -> [Finished -> Nat]]
    BY <1>6 DEF EnqueueReceipt, Inv, CallInv, TypeOK
  <2>2. call'[s].at \in {"replied", "free"}
    BY <1>0, <1>2, <1>6 DEF EnqueueReceipt
  <2>3. /\ receipts'[call[s].job][call[s].body] > 0
        /\ \A j \in Jobs, o \in Finished : receipts[j][o] > 0 => receipts'[j][o] > 0
    BY <1>6, <2>1 DEF EnqueueReceipt
  <2>4. UNCHANGED <<registered, status, assignee, payouts, faults>>
    BY <1>6 DEF EnqueueReceipt
  <2>5. Booked'
    <3> SUFFICES ASSUME faults' = 0, NEW j \in Jobs
                 PROVE  /\ status'[j] \in Finished =>
                             \/ receipts'[j][status'[j]] > 0
                             \/ \E t \in Slots : /\ call'[t].job = j /\ call'[t].body = status'[j]
                                                 /\ call'[t].at \in {"pay", "receipt"}
                        /\ status'[j] = "completed" /\ j \in Paid /\ assignee'[j] # Null =>
                             \/ payouts'[j] > 0
                             \/ \E t \in Slots : call'[t].job = j /\ call'[t].at = "pay"
      BY DEF Booked
    <3>1. ASSUME status'[j] \in Finished
          PROVE  \/ receipts'[j][status'[j]] > 0
                 \/ \E t \in Slots : /\ call'[t].job = j /\ call'[t].body = status'[j]
                                     /\ call'[t].at \in {"pay", "receipt"}
      BY <1>3, <2>1, <2>3, <2>4, <3>1 DEF BookInv, Booked
    <3>2. ASSUME status'[j] = "completed" /\ j \in Paid /\ assignee'[j] # Null
          PROVE  \/ payouts'[j] > 0
                 \/ \E t \in Slots : call'[t].job = j /\ call'[t].at = "pay"
      BY <1>3, <2>1, <2>4, <3>2 DEF BookInv, Booked
    <3> QED
      BY <3>1, <3>2
  <2>6. Checked' /\ AssigneesExist'
    BY <1>3, <2>2, <2>4 DEF BookInv, Checked, AssigneesExist
  <2> QED
    BY <1>1, <2>5, <2>6 DEF BookInv
<1>7. CASE RequestDies(s) \/ ReceiptFails(s)
  <2>1. PICK page, ok : call' = [call EXCEPT ![s] = Replied(s, page, ok)]
    BY <1>7 DEF RequestDies, ReceiptFails
  <2>2. call'[s].at \in {"replied", "free"}
    BY <1>0, <1>2, <2>1
  <2> QED
    BY <1>1, <1>3, <1>7, <2>2, FaultBooks DEF RequestDies, ReceiptFails, BookInv
<1>8. CASE PayoutFails(s)
  <2>1. /\ call'[s].by = call[s].by /\ call'[s].job = call[s].job /\ call[s].at = "pay"
    BY <1>0, <1>8 DEF PayoutFails, CallType
  <2> QED
    BY <1>1, <1>3, <1>8, <2>1, FaultBooks DEF PayoutFails, BookInv
<1> QED
  BY <1>4, <1>5, <1>6, <1>7, <1>8

\* The new status has its handler on the way to the books.
LEMMA MarkBooks ==
    ASSUME Inv, BookInv, NEW s \in Slots, MarkJob(s)
    PROVE  BookInv'
<1>0. /\ call \in [Slots -> CallType] /\ call[s] \in CallType
      /\ call[s].at = "mark" /\ call[s].job \in Jobs /\ call[s].body \in Finished
      /\ status \in [Jobs -> Statuses]
  BY DEF Inv, TypeOK, CallInv, MarkJob
<1>1. WaitInv' /\ ActiveIsBusy'
  BY DaemonKeeps DEF MarkJob
<1>2. /\ call'[s].body = call[s].body /\ call'[s].job = call[s].job /\ call'[s].by = call[s].by
      /\ call'[s].at = IF call[s].body = "completed" /\ call[s].job \in Paid
                       THEN "pay" ELSE "receipt"
      /\ \A t \in Slots : t # s => call'[t] = call[t]
  <2> DEFINE c == [call[s] EXCEPT !.at = IF call[s].body = "completed" /\ call[s].job \in Paid
                                         THEN "pay" ELSE "receipt"]
  <2>1. call' = [call EXCEPT ![s] = c]
    BY DEF MarkJob
  <2>2. call'[s] = c /\ \A t \in Slots : t # s => call'[t] = call[t]
    BY <1>0, <2>1
  <2> QED
    BY <1>0, <2>2 DEF CallType
<1>3. UNCHANGED <<registered, assignee, payouts, receipts, faults>>
  BY DEF MarkJob
<1>4. \A j \in Jobs : status'[j] = IF j = call[s].job THEN call[s].body ELSE status[j]
  BY <1>0 DEF MarkJob
<1>5. Booked'
  <2> SUFFICES ASSUME faults' = 0, NEW j \in Jobs
               PROVE  /\ status'[j] \in Finished =>
                           \/ receipts'[j][status'[j]] > 0
                           \/ \E t \in Slots : /\ call'[t].job = j /\ call'[t].body = status'[j]
                                               /\ call'[t].at \in {"pay", "receipt"}
                      /\ status'[j] = "completed" /\ j \in Paid /\ assignee'[j] # Null =>
                           \/ payouts'[j] > 0
                           \/ \E t \in Slots : call'[t].job = j /\ call'[t].at = "pay"
    BY DEF Booked
  <2>1. CASE j = call[s].job
    BY <1>2, <1>4, <2>1
  <2>2. CASE j # call[s].job
    <3>1. \A t \in Slots : call[t].at \in {"pay", "receipt"} => call'[t] = call[t]
      BY <1>0, <1>2
    <3> QED
      BY <1>3, <1>4, <2>2, <3>1 DEF BookInv, Booked
  <2> QED
    BY <2>1, <2>2
<1>6. Checked' /\ AssigneesExist'
  BY <1>0, <1>2, <1>3 DEF BookInv, Checked, AssigneesExist
<1> QED
  BY <1>1, <1>5, <1>6 DEF BookInv

\* The payment is recorded, or its provider has gone and the job is nobody's.
LEMMA InsertBooks ==
    ASSUME Inv, BookInv, NEW s \in Slots, InsertPayout(s)
    PROVE  BookInv'
<1>0. /\ call \in [Slots -> CallType] /\ call[s] \in CallType
      /\ call[s].at = "pay" /\ call[s].job \in Jobs /\ call[s].by \in Providers
      /\ payouts \in [Jobs -> Nat]
  BY DEF Inv, TypeOK, CallInv, InsertPayout
<1>1. WaitInv' /\ ActiveIsBusy'
  BY DaemonKeeps DEF InsertPayout
<1>2. /\ call'[s].at = "receipt" /\ call'[s].by = call[s].by
      /\ call'[s].job = call[s].job /\ call'[s].body = call[s].body
      /\ \A t \in Slots : t # s => call'[t] = call[t]
  BY <1>0 DEF InsertPayout, CallType
<1>3. UNCHANGED <<registered, status, assignee, receipts, faults>>
  BY DEF InsertPayout
<1>4. /\ \A j \in Jobs : payouts[j] > 0 => payouts'[j] > 0
      /\ call[s].by \in registered => payouts'[call[s].job] > 0
  BY <1>0 DEF InsertPayout
<1>5. call[s].by \notin registered => assignee[call[s].job] = Null
  BY <1>0 DEF BookInv, Checked, AssigneesExist
<1>6. Booked'
  <2> SUFFICES ASSUME faults' = 0, NEW j \in Jobs
               PROVE  /\ status'[j] \in Finished =>
                           \/ receipts'[j][status'[j]] > 0
                           \/ \E t \in Slots : /\ call'[t].job = j /\ call'[t].body = status'[j]
                                               /\ call'[t].at \in {"pay", "receipt"}
                      /\ status'[j] = "completed" /\ j \in Paid /\ assignee'[j] # Null =>
                           \/ payouts'[j] > 0
                           \/ \E t \in Slots : call'[t].job = j /\ call'[t].at = "pay"
    BY DEF Booked
  <2>1. \A t \in Slots : /\ call'[t].job = call[t].job /\ call'[t].body = call[t].body
                         /\ call[t].at \in {"pay", "receipt"} => call'[t].at \in {"pay", "receipt"}
    BY <1>2
  <2>2. ASSUME status'[j] \in Finished
        PROVE  \/ receipts'[j][status'[j]] > 0
               \/ \E t \in Slots : /\ call'[t].job = j /\ call'[t].body = status'[j]
                                   /\ call'[t].at \in {"pay", "receipt"}
    BY <1>3, <2>1, <2>2 DEF BookInv, Booked
  <2>3. ASSUME status'[j] = "completed" /\ j \in Paid /\ assignee'[j] # Null
        PROVE  \/ payouts'[j] > 0
               \/ \E t \in Slots : call'[t].job = j /\ call'[t].at = "pay"
    <3>1. \/ payouts[j] > 0
          \/ \E t \in Slots : call[t].job = j /\ call[t].at = "pay"
      BY <1>3, <2>3 DEF BookInv, Booked
    <3>2. CASE payouts[j] > 0
      BY <1>4, <3>2
    <3>3. CASE j = call[s].job
      BY <1>3, <1>4, <1>5, <2>3, <3>3
    <3>4. CASE j # call[s].job /\ \E t \in Slots : call[t].job = j /\ call[t].at = "pay"
      BY <1>2, <3>4
    <3> QED
      BY <3>1, <3>2, <3>3, <3>4
  <2> QED
    BY <2>2, <2>3
<1>7. Checked' /\ AssigneesExist'
  BY <1>0, <1>2, <1>3 DEF BookInv, Checked, AssigneesExist
<1> QED
  BY <1>1, <1>6, <1>7 DEF BookInv

\* What a pass may do to its daemon's list of active jobs.
LEMMA PassBusy ==
    ASSUME Inv, BookInv, NEW p \in Passes,
           \A q \in Passes : q # p =>
               pc'[q] = pc[q] /\ cur'[q] = cur[q] /\ req'[q] = req[q],
           \A pr \in Providers : pr # Owner(p) => active'[pr] = active[pr],
           \A j \in active'[Owner(p)] :
               \/ j \in active[Owner(p)] /\ ~ (cur[p] = j /\ pc[p] \in Busy)
               \/ cur'[p] = j /\ pc'[p] \in Busy,
           req'[p] # Null => pc'[p] \in {"polling", "completing", "failing"}
    PROVE  WaitInv' /\ ActiveIsBusy'
<1>1. WaitInv'
  BY DEF BookInv, WaitInv
<1>2. p \in PassesOf(Owner(p)) /\ \A pr \in Providers : PassesOf(pr) \subseteq Passes
  BY DEF Passes, PassesOf, Owner
<1>3. \A pr \in Providers : \A q \in PassesOf(pr) : Owner(q) = pr
  BY DEF PassesOf, Owner
<1>4. ActiveIsBusy'
  <2> SUFFICES ASSUME NEW pr \in Providers, NEW j \in active'[pr]
               PROVE  \E q \in PassesOf(pr) : cur'[q] = j /\ pc'[q] \in {"running", "completing"}
    BY DEF ActiveIsBusy
  <2>1. CASE pr # Owner(p)
    <3>1. PICK q \in PassesOf(pr) : cur[q] = j /\ pc[q] \in {"running", "completing"}
      BY <2>1 DEF BookInv, ActiveIsBusy
    <3>2. q # p /\ q \in Passes
      BY <1>2, <1>3, <2>1
    <3> QED
      BY <3>1, <3>2
  <2>2. CASE pr = Owner(p) /\ cur'[p] = j /\ pc'[p] \in Busy
    BY <1>2, <2>2 DEF Busy
  <2>3. CASE pr = Owner(p) /\ j \in active[pr] /\ ~ (cur[p] = j /\ pc[p] \in Busy)
    <3>1. PICK q \in PassesOf(pr) : cur[q] = j /\ pc[q] \in {"running", "completing"}
      BY <2>3 DEF BookInv, ActiveIsBusy
    <3>2. q # p /\ q \in Passes
      BY <1>2, <2>3, <3>1 DEF Busy
    <3> QED
      BY <3>1, <3>2
  <2> QED
    BY <2>1, <2>2, <2>3
<1> QED
  BY <1>1, <1>4

LEMMA PassBooks ==
    ASSUME Inv, BookInv, NEW p \in Passes, StartPass(p) \/ RunPass(p) \/ Timeout(p)
    PROVE  BookInv'
<1>0. /\ Owner(p) \in Providers
      /\ call \in [Slots -> CallType] /\ req \in [Passes -> Slots \cup {Null}]
      /\ pc \in [Passes -> Places] /\ cur \in [Passes -> Jobs \cup {Null}]
      /\ active \in [Providers -> SUBSET Jobs] /\ faults \in Nat
      /\ req[p] # Null => pc[p] \in {"polling", "completing", "failing"}
  BY OwnerType DEF Inv, TypeOK, Places, BookInv, WaitInv
<1> DEFINE
      Others == \A q \in Passes : q # p =>
                  pc'[q] = pc[q] /\ cur'[q] = cur[q] /\ req'[q] = req[q]
      Elsewhere == \A pr \in Providers : pr # Owner(p) => active'[pr] = active[pr]
      Here == \A j \in active'[Owner(p)] :
                 \/ j \in active[Owner(p)] /\ ~ (cur[p] = j /\ pc[p] \in Busy)
                 \/ cur'[p] = j /\ pc'[p] \in Busy
      Waits == req'[p] # Null => pc'[p] \in {"polling", "completing", "failing"}
<1>a. SUFFICES /\ Others /\ Elsewhere /\ Here /\ Waits
               /\ \A s \in Slots : Passing(s)
  <2>1. WaitInv' /\ ActiveIsBusy'
    BY PassBusy
  <2>2. UNCHANGED dbVars
    BY DEF StartPass, RunPass, PollAnswered, PickJob, EndPass, RunSucceeds, RunFails,
           SendFailure, CompletionAnswered, FailureAnswered, Timeout
  <2>3. faults' = faults \/ faults' > 0
    BY <1>0 DEF StartPass, RunPass, PollAnswered, PickJob, EndPass, RunSucceeds, RunFails,
                SendFailure, CompletionAnswered, FailureAnswered, Timeout, Fault
  <2>4. Booked' /\ Checked' /\ AssigneesExist'
    BY <2>2, <2>3, PassingBooks
  <2> QED
    BY <2>1, <2>4 DEF BookInv
\* The two ways in which a pass touches its requests.
<1>b. ASSUME NEW s \in Slots, NEW r, Send(p, s, r), r.at = "sent"
      PROVE  /\ \A t \in Slots : Passing(t)
             /\ \A q \in Passes : q # p => req'[q] = req[q]
             /\ req'[p] = s
  BY <1>0, <1>b DEF Send, Passing
<1>c. ASSUME Answer(p)
      PROVE  /\ \A t \in Slots : Passing(t)
             /\ \A q \in Passes : q # p => req'[q] = req[q]
             /\ req'[p] = Null
  <2>1. req[p] \in Slots /\ call'[req[p]] = FreeSlot
        /\ \A t \in Slots : t # req[p] => call'[t] = call[t]
    BY <1>0, <1>c DEF Answer
  <2>2. call[req[p]].at = "replied" /\ FreeSlot.at = "free"
    BY <1>c DEF Answer, FreeSlot
  <2>3. \A t \in Slots : Passing(t)
    BY <2>1, <2>2 DEF Passing
  <2> QED
    BY <1>0, <1>c, <2>3 DEF Answer
<1>d. ASSUME UNCHANGED call PROVE \A t \in Slots : Passing(t)
  BY <1>d DEF Passing
<1>1. CASE StartPass(p)
  <2>1. PICK s \in Slots : Send(p, s, PollRequest(Owner(p)))
    BY <1>1 DEF StartPass
  <2>2. PollRequest(Owner(p)).at = "sent"
    BY DEF PollRequest, FreeSlot
  <2> QED
    BY <1>0, <1>1, <1>b, <2>1, <2>2 DEF StartPass, Goto, Busy
<1>2. CASE PollAnswered(p)
  <2>1. Answer(p) /\ pc[p] = "polling" /\ UNCHANGED <<cur, active>>
    BY <1>2 DEF PollAnswered, Goto
  <2>2. \A q \in Passes : q # p => pc'[q] = pc[q]
    BY <1>0, <1>2 DEF PollAnswered, Goto
  <2> QED
    BY <1>0, <1>c, <2>1, <2>2 DEF Busy
<1>3. CASE PickJob(p)
  <2>1. PICK j \in todo[p] : /\ cur' = [cur EXCEPT ![p] = j]
                             /\ active' = [active EXCEPT ![Owner(p)] = @ \cup {j}]
    BY <1>3 DEF PickJob
  <2>2. pc[p] = "next" /\ pc' = [pc EXCEPT ![p] = "running"] /\ UNCHANGED <<call, req>>
    BY <1>3 DEF PickJob, Goto
  <2> QED
    BY <1>0, <1>d, <2>1, <2>2 DEF Busy
<1>4. CASE EndPass(p)
  <2>1. /\ pc[p] = "next" /\ pc' = [pc EXCEPT ![p] = "idle"]
        /\ UNCHANGED <<call, req, cur, active>>
    BY <1>4 DEF EndPass, Goto
  <2> QED
    BY <1>0, <1>d, <2>1 DEF Busy
<1>5. CASE RunSucceeds(p)
  <2>1. PICK s \in Slots : Send(p, s, CompleteRequest(Owner(p), cur[p], "completed"))
    BY <1>5 DEF RunSucceeds
  <2>2. CompleteRequest(Owner(p), cur[p], "completed").at = "sent"
    BY DEF CompleteRequest, FreeSlot
  <2>3. /\ pc[p] = "running" /\ pc' = [pc EXCEPT ![p] = "completing"]
        /\ UNCHANGED <<cur, active>>
    BY <1>5 DEF RunSucceeds, Goto
  <2> QED
    BY <1>0, <1>b, <2>1, <2>2, <2>3 DEF Busy
<1>6. CASE RunFails(p)
  <2>1. /\ pc[p] = "running" /\ pc' = [pc EXCEPT ![p] = "erring"]
        /\ active' = [active EXCEPT ![Owner(p)] = @ \ {cur[p]}]
        /\ UNCHANGED <<call, req, cur>>
    BY <1>6 DEF RunFails, Goto
  <2> QED
    BY <1>0, <1>d, <2>1 DEF Busy
<1>7. CASE SendFailure(p)
  <2>1. PICK s \in Slots : Send(p, s, CompleteRequest(Owner(p), cur[p], "failed"))
    BY <1>7 DEF SendFailure
  <2>2. CompleteRequest(Owner(p), cur[p], "failed").at = "sent"
    BY DEF CompleteRequest, FreeSlot
  <2>3. /\ pc[p] = "erring" /\ pc' = [pc EXCEPT ![p] = "failing"]
        /\ UNCHANGED <<cur, active>>
    BY <1>7 DEF SendFailure, Goto
  <2> QED
    BY <1>0, <1>b, <2>1, <2>2, <2>3 DEF Busy
<1>8. CASE CompletionAnswered(p)
  <2>1. /\ Answer(p) /\ pc[p] = "completing"
        /\ active' = [active EXCEPT ![Owner(p)] = @ \ {cur[p]}]
    BY <1>8 DEF CompletionAnswered, Goto
  <2>2. \A q \in Passes : q # p => pc'[q] = pc[q] /\ cur'[q] = cur[q]
    BY <1>0, <1>8 DEF CompletionAnswered, Goto
  <2>3. Elsewhere /\ Here
    BY <1>0, <2>1
  <2> QED
    BY <1>c, <2>1, <2>2, <2>3
<1>9. CASE FailureAnswered(p)
  <2>1. /\ Answer(p) /\ pc[p] = "failing" /\ pc' = [pc EXCEPT ![p] = "next"]
        /\ cur' = [cur EXCEPT ![p] = Null] /\ UNCHANGED active
    BY <1>9 DEF FailureAnswered, Goto
  <2> QED
    BY <1>0, <1>c, <2>1 DEF Busy
<1>10. CASE Timeout(p)
  <2>1. /\ req[p] # Null /\ req' = [req EXCEPT ![p] = Null]
        /\ pc[p] \in {"polling", "completing", "failing"}
    BY <1>0, <1>10 DEF Timeout
  <2>2. \A q \in Passes : q # p => pc'[q] = pc[q] /\ cur'[q] = cur[q] /\ req'[q] = req[q]
    BY <1>0, <1>10 DEF Timeout
  <2>3. Elsewhere /\ Here
    BY <1>0, <1>10, <2>1 DEF Timeout, Busy
  <2>4. \A s \in Slots : Passing(s)
    <3>1. CASE UNCHANGED call
      BY <1>d, <3>1
    <3>2. CASE call[req[p]].at = "replied" /\ call' = [call EXCEPT ![req[p]] = FreeSlot]
      <4>1. call'[req[p]] = FreeSlot /\ \A t \in Slots : t # req[p] => call'[t] = call[t]
        BY <1>0, <2>1, <3>2
      <4> QED
        BY <3>2, <4>1 DEF Passing, FreeSlot
    <3> QED
      BY <1>10, <3>1, <3>2 DEF Timeout
  <2> QED
    BY <1>0, <2>1, <2>2, <2>3, <2>4
<1> QED
  BY <1>1, <1>2, <1>3, <1>4, <1>5, <1>6, <1>7, <1>8, <1>9, <1>10 DEF RunPass

\* Rows come and go; daemons stop and start.
LEMMA OtherBooks ==
    ASSUME Inv, BookInv,
           \/ \E j \in Jobs : CreateChatJob(j) \/ SubmitJob(j)
           \/ \E pr \in Providers : RemoveNode(pr) \/ DaemonStops(pr) \/ DaemonStarts(pr)
    PROVE  BookInv'
<1>1. CASE \E j \in Jobs : CreateChatJob(j) \/ SubmitJob(j)
  <2>1. PICK j \in Jobs, st \in {"assigned", "running", "pending"},
                pr \in registered \cup {Null} : InsertJob(j, st, pr)
    BY <1>1 DEF CreateChatJob, SubmitJob
  <2>2. WaitInv' /\ ActiveIsBusy'
    BY <2>1, DaemonKeeps DEF InsertJob
  <2>3. /\ status \in [Jobs -> Statuses] /\ assignee \in [Jobs -> Providers \cup {Null}]
        /\ status[j] = "absent" /\ UNCHANGED <<registered, call, payouts, receipts, faults>>
        /\ \A k \in Jobs : k # j => status'[k] = status[k] /\ assignee'[k] = assignee[k]
        /\ status'[j] = st /\ assignee'[j] = pr
    BY <2>1 DEF Inv, TypeOK, InsertJob
  <2>4. \A s \in Slots : call[s].at \in {"mark", "pay", "receipt"} =>
           call[s].job \in Jobs /\ call[s].job # j
    BY <2>3 DEF Inv, CallInv, Given, Finished
  <2>5. Booked'
    <3> SUFFICES ASSUME faults' = 0, NEW k \in Jobs
                 PROVE  /\ status'[k] \in Finished =>
                             \/ receipts'[k][status'[k]] > 0
                             \/ \E t \in Slots : /\ call'[t].job = k /\ call'[t].body = status'[k]
                                                 /\ call'[t].at \in {"pay", "receipt"}
                        /\ status'[k] = "completed" /\ k \in Paid /\ assignee'[k] # Null =>
                             \/ payouts'[k] > 0
                             \/ \E t \in Slots : call'[t].job = k /\ call'[t].at = "pay"
      BY DEF Booked
    <3>1. CASE k = j
      BY <2>3, <3>1 DEF Finished
    <3>2. CASE k # j
      BY <2>3, <3>2 DEF BookInv, Booked
    <3> QED
      BY <3>1, <3>2
  <2>6. Checked'
    BY <2>3, <2>4 DEF BookInv, Checked
  <2>7. AssigneesExist'
    BY <2>3 DEF BookInv, AssigneesExist
  <2> QED
    BY <2>2, <2>5, <2>6, <2>7 DEF BookInv
<1>2. CASE \E pr \in Providers : RemoveNode(pr)
  <2>1. PICK pr \in Providers : RemoveNode(pr)
    BY <1>2
  <2>2. WaitInv' /\ ActiveIsBusy'
    BY <2>1, DaemonKeeps DEF RemoveNode
  <2>3. /\ UNCHANGED <<status, payouts, receipts, call, faults>>
        /\ registered' = registered \ {pr}
        /\ \A j \in Jobs : assignee'[j] = IF assignee[j] = pr THEN Null ELSE assignee[j]
    BY <2>1 DEF RemoveNode
  <2>4. Booked'
    BY <2>3 DEF BookInv, Booked
  <2>5. Checked'
    <3>1. \A s \in Slots : call[s].at \in {"mark", "pay", "receipt"} => call[s].job \in Jobs
      BY DEF Inv, CallInv
    <3> QED
      BY <2>3, <3>1 DEF BookInv, Checked
  <2>6. AssigneesExist'
    BY <2>3 DEF BookInv, AssigneesExist
  <2> QED
    BY <2>2, <2>4, <2>5, <2>6 DEF BookInv
<1>3. CASE \E pr \in Providers : DaemonStops(pr)
  <2>1. PICK pr \in Providers : DaemonStops(pr)
    BY <1>3
  <2>2. \A p \in Passes : /\ Owner(p) = pr => req'[p] = Null
                          /\ Owner(p) # pr => req'[p] = req[p] /\ pc'[p] = pc[p] /\ cur'[p] = cur[p]
    BY <2>1 DEF DaemonStops
  <2>3. \A q \in Providers : active'[q] = IF q = pr THEN {} ELSE active[q]
    BY <2>1 DEF DaemonStops, Inv, TypeOK
  <2>4. WaitInv'
    BY <2>2 DEF BookInv, WaitInv, Inv, TypeOK, DaemonStops
  <2>5. ActiveIsBusy'
    <3> SUFFICES ASSUME NEW q \in Providers, NEW j \in active'[q]
                 PROVE  \E p \in PassesOf(q) : cur'[p] = j /\ pc'[p] \in {"running", "completing"}
      BY DEF ActiveIsBusy
    <3>1. q # pr /\ j \in active[q]
      BY <2>3
    <3>2. PICK p \in PassesOf(q) : cur[p] = j /\ pc[p] \in {"running", "completing"}
      BY <3>1 DEF BookInv, ActiveIsBusy
    <3>3. p \in Passes /\ Owner(p) = q
      BY <3>2 DEF Passes, PassesOf, Owner
    <3> QED
      BY <2>2, <3>1, <3>2, <3>3
  <2>6. \A s \in Slots : call'[s] = call[s] \/ call'[s] = FreeSlot
    BY <2>1 DEF DaemonStops
  <2>7. Booked' /\ Checked' /\ AssigneesExist'
    BY <2>1, <2>6, FaultBooks DEF DaemonStops, FreeSlot
  <2> QED
    BY <2>4, <2>5, <2>7 DEF BookInv
<1>4. CASE \E pr \in Providers : DaemonStarts(pr)
  <2>1. UNCHANGED <<dbVars, call, pc, cur, req, active, faults>>
    BY <1>4 DEF DaemonStarts
  <2>2. WaitInv' /\ ActiveIsBusy'
    BY <2>1 DEF BookInv, WaitInv, ActiveIsBusy
  <2>3. \A s \in Slots : Passing(s)
    BY <2>1 DEF Passing
  <2> QED
    BY <2>1, <2>2, <2>3, PassingBooks DEF BookInv
<1> QED
  BY <1>1, <1>2, <1>3, <1>4

LEMMA StutterBooks == Inv /\ BookInv /\ UNCHANGED vars => BookInv'
<1> SUFFICES ASSUME Inv, BookInv, UNCHANGED vars PROVE BookInv'
  OBVIOUS
<1>1. \A s \in Slots : Passing(s)
  BY DEF Passing, vars
<1> QED
  BY <1>1, PassingBooks, DaemonKeeps DEF vars, BookInv

LEMMA NextBooks == Inv /\ BookInv /\ [Next]_vars => BookInv'
<1> SUFFICES ASSUME Inv, BookInv, Next PROVE BookInv'
  BY StutterBooks
<1> QED
  BY ServeBooks, MarkBooks, InsertBooks, PassBooks, OtherBooks DEF Next, Serve

LEMMA BooksFollow == Inv /\ BookInv => BooksHold
<1> SUFFICES ASSUME Inv, BookInv PROVE BooksAgree
  BY DEF BookInv, BooksHold
<1> QED
  BY DEF BookInv, Booked, BooksAgree, Quiet

(***************************************************************************)
(* The saturation filter counts jobs somebody is busy with, and without    *)
(* faults status, receipt and payment agree whenever no completion of the  *)
(* job is half-way (completeJobForNode, processJob).                       *)
(***************************************************************************)
THEOREM BooksAreKept == Spec => []BooksHold
<1>1. Spec => []BookInv
  BY InitBooks, NextBooks, InvHolds, PTL DEF Spec
<1> QED
  BY <1>1, BooksFollow, InvHolds, PTL
=============================================================================
