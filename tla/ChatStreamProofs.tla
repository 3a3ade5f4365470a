-------------------------- MODULE ChatStreamProofs --------------------------
(***************************************************************************)
(* Proofs about ChatStream, for any number of runs, streams, batches,      *)
(* tokens and faults: a client is shown stored events in order and nothing *)
(* after a final one, and what it misses is a gap of its own.              *)
(*                                                                         *)
(* The invariant follows an event from the buffer of a run over its batch, *)
(* the table and a subscription to the client (DoneInv), says how the ids  *)
(* of what is under way relate to those of what was shown (RowInv,         *)
(* SentInv), and, for a job that is run once and without faults, that a    *)
(* row is shown, waits for its turn or fell into the gap (GapInv).         *)
(***************************************************************************)
EXTENDS ChatStream, TLAPS

\* The events in a sequence.
Evs(q) == {q[i] : i \in 1..Len(q)}

Batch == [at : {"free", "sent", "ids", "answered"}, evs : Seq(Event), first : Nat]

(***************************************************************************)
(* A done event, wherever it is, holds the answer of a writer that has     *)
(* ended, so that the answer does not grow any more.                       *)
(***************************************************************************)
Ended(w) == IF w \in Runs THEN pc[w] \notin {"idle", "running"}
            ELSE st[w] \in {"nimfinal", "closed"}

Whole(e) == e.type = "done" => Ended(e.by) /\ e.upto = made[e.by]

DoneInv ==
    /\ \A r \in Runs : \A e \in Evs(buf[r]) : Whole(e)
    /\ \A b \in Slots : \A e \in Evs(ins[b].evs) : Whole(e)
    /\ \A e \in rows : Whole(e)
    /\ \A s \in Streams :
         \A e \in Evs(inbox[s]) \cup held[s] \cup sent[s] : Whole(e)

(***************************************************************************)
(* Ids that were drawn are below the next one.                             *)
(***************************************************************************)
RowInv ==
    /\ \A e \in rows : 0 < e.id /\ e.id < nextId
    /\ \A b \in Slots : ins[b].at = "ids" =>
         0 < ins[b].first /\ ins[b].first + Len(ins[b].evs) <= nextId

(***************************************************************************)
(* Where a stream is, and what it has shown by then.                       *)
(***************************************************************************)
StreamOK(s) ==
    /\ st[s] = "unopened" => sent[s] = {}
    /\ st[s] \notin {"nimfinal", "closed"} =>
         /\ held[s] = {}
         /\ \A e \in sent[s] : e.type \notin Final
    /\ st[s] \in {"joining", "tailing"} => \A e \in sent[s] : e.id <= lastId[s]
    /\ st[s] \in {"nim", "nimrun"} => \A e \in sent[s] : e.id < nextId
    /\ st[s] = "nimfinal" => \A f \in held[s] : \A e \in sent[s] : Follows(e, f)
    /\ st[s] \in {"unopened", "joining"} => inbox[s] = <<>>
    /\ source = "p2p" => st[s] \notin {"nim", "nimrun", "nimfinal"}

SentInv == \A s \in Streams : StreamOK(s)

VerdictInv == faults = 0 =>
    /\ VerdictHasRow
    /\ \A s \in Streams :
         /\ outcome[s] = "completed" => \E e \in rows : e.type = "done"
         /\ outcome[s] = "failed" => \E e \in rows : e.type = "error"

(***************************************************************************)
(* A job that is run once, without faults: its batches do not overlap, so  *)
(* that rows are committed in the order of their ids.                      *)
(***************************************************************************)
Posted == \A b \in Slots : ins[b].at # "free" => \E r \in Runs : post[r] = b /\ pc[r] # "idle"

Ascending(q) == \A i, k \in 1..Len(q) : i < k => q[i].id < q[k].id

Shown(s) ==
    /\ lastId[s] < nextId
    /\ \A b \in Slots : ins[b].at = "ids" => lastId[s] < ins[b].first
    /\ st[s] = "unopened" => lastId[s] = 0
    /\ st[s] = "tailing" => /\ Ascending(inbox[s]) /\ Evs(inbox[s]) \subseteq rows
                            /\ \A e \in Evs(inbox[s]) : lastId[s] < e.id
    /\ s \notin gone => \A e \in rows :
         \/ e \in missed[s] \cup sent[s]
         \/ st[s] = "tailing" /\ e \in Evs(inbox[s])
         \/ st[s] \in {"unopened", "closed"} /\ lastId[s] < e.id

Below == \A b \in Slots : ins[b].at = "ids" => \A e \in rows : e.id < ins[b].first

GapInv ==
    /\ faults = 0 => Posted
    /\ faults = 0 /\ source = "p2p" /\ RunOnce =>
         /\ Below
         /\ \A s \in Streams : Shown(s)

Inv == TypeOK /\ DoneInv /\ RowInv /\ SentInv /\ VerdictInv /\ GapInv

-----------------------------------------------------------------------------
(* Sequences. *)

LEMMA EvsEmpty == Evs(<<>>) = {}
BY DEF Evs

LEMMA EvsOne == \A e : Evs(<<e>>) = {e}
BY DEF Evs

LEMMA EvsAppend ==
    ASSUME NEW S, NEW q \in Seq(S), NEW e \in S
    PROVE  Evs(Append(q, e)) = Evs(q) \cup {e}
<1>1. Len(Append(q, e)) = Len(q) + 1 /\ Len(q) \in Nat
  OBVIOUS
<1>2. \A i \in 1..(Len(q) + 1) : Append(q, e)[i] = IF i = Len(q) + 1 THEN e ELSE q[i]
  OBVIOUS
<1>3. Evs(Append(q, e)) \subseteq Evs(q) \cup {e}
  BY <1>1, <1>2 DEF Evs
<1>4. Evs(q) \subseteq Evs(Append(q, e))
  BY <1>1, <1>2 DEF Evs
<1>5. Append(q, e)[Len(q) + 1] = e
  OBVIOUS
<1>6. e \in Evs(Append(q, e))
  BY <1>1, <1>5 DEF Evs
<1> QED
  BY <1>3, <1>4, <1>6

LEMMA EvsTail ==
    ASSUME NEW S, NEW q \in Seq(S), q # <<>>
    PROVE  /\ Evs(Tail(q)) \subseteq Evs(q)
           /\ Head(q) \in Evs(q)
           /\ Evs(q) = {Head(q)} \cup Evs(Tail(q))
           /\ Tail(q) \in Seq(S) /\ Head(q) \in S
<1>1. /\ Len(q) \in Nat /\ Len(q) > 0 /\ Len(Tail(q)) = Len(q) - 1 /\ Head(q) = q[1]
      /\ Tail(q) \in Seq(S) /\ Head(q) \in S
  OBVIOUS
<1>2. \A i \in 1..(Len(q) - 1) : Tail(q)[i] = q[i + 1]
  OBVIOUS
<1>3. Evs(Tail(q)) \subseteq Evs(q)
  BY <1>1, <1>2 DEF Evs
<1>4. Head(q) \in Evs(q)
  BY <1>1 DEF Evs
<1>5. \A i \in 1..Len(q) : i = 1 \/ (i - 1 \in 1..Len(Tail(q)) /\ q[i] = Tail(q)[i - 1])
  BY <1>1, <1>2
<1>6. Evs(q) \subseteq {Head(q)} \cup Evs(Tail(q))
  BY <1>1, <1>5 DEF Evs
<1> QED
  BY <1>1, <1>3, <1>4, <1>6

LEMMA EvsConcat ==
    ASSUME NEW S, NEW q \in Seq(S), NEW t \in Seq(S)
    PROVE  Evs(q \o t) = Evs(q) \cup Evs(t) /\ q \o t \in Seq(S)
<1>1. Len(q) \in Nat /\ Len(t) \in Nat /\ Len(q \o t) = Len(q) + Len(t) /\ q \o t \in Seq(S)
  OBVIOUS
<1>2. \A i \in 1..(Len(q) + Len(t)) :
         (q \o t)[i] = IF i <= Len(q) THEN q[i] ELSE t[i - Len(q)]
  OBVIOUS
<1>3. Evs(q \o t) \subseteq Evs(q) \cup Evs(t)
  BY <1>1, <1>2 DEF Evs
<1>4. Evs(q) \subseteq Evs(q \o t)
  BY <1>1, <1>2 DEF Evs
<1>5. \A i \in 1..Len(t) : Len(q) + i \in 1..Len(q \o t) /\ (q \o t)[Len(q) + i] = t[i]
  BY <1>1, <1>2
<1>6. Evs(t) \subseteq Evs(q \o t)
  BY <1>5 DEF Evs
<1> QED
  BY <1>1, <1>3, <1>4, <1>6

LEMMA EvsType ==
    ASSUME NEW S, NEW q \in Seq(S)
    PROVE  Evs(q) \subseteq S
BY DEF Evs

\* Rows that continue an ascending sequence.
LEMMA AscendingConcat ==
    ASSUME NEW q \in Seq(Row), NEW t \in Seq(Row), Ascending(q), Ascending(t),
           \A e \in Evs(q), f \in Evs(t) : e.id < f.id
    PROVE  Ascending(q \o t)
<1> DEFINE n == Len(q)
<1>1. n \in Nat /\ Len(t) \in Nat /\ Len(q \o t) = n + Len(t)
  OBVIOUS
<1>2. \A i \in 1..(n + Len(t)) : (q \o t)[i] = IF i <= n THEN q[i] ELSE t[i - n]
  OBVIOUS
<1>3. SUFFICES ASSUME NEW i \in 1..(n + Len(t)), NEW k \in 1..(n + Len(t)), i < k
               PROVE  (q \o t)[i].id < (q \o t)[k].id
  BY <1>1 DEF Ascending
<1>4. CASE k <= n
  BY <1>1, <1>2, <1>3, <1>4 DEF Ascending
<1>5. CASE i > n
  <2>1. i - n \in 1..Len(t) /\ k - n \in 1..Len(t) /\ i - n < k - n
    BY <1>1, <1>3, <1>5
  <2>2. (q \o t)[i] = t[i - n] /\ (q \o t)[k] = t[k - n]
    BY <1>1, <1>2, <1>3, <1>5
  <2> QED
    BY <2>1, <2>2 DEF Ascending
<1>6. CASE i <= n /\ k > n
  <2>1. q[i] \in Evs(q) /\ t[k - n] \in Evs(t)
    BY <1>1, <1>3, <1>6 DEF Evs
  <2> QED
    BY <2>1, <1>1, <1>2, <1>3, <1>6
<1> QED
  BY <1>1, <1>3, <1>4, <1>5, <1>6

LEMMA AscendingTail ==
    ASSUME NEW q \in Seq(Row), q # <<>>, Ascending(q)
    PROVE  Ascending(Tail(q)) /\ \A e \in Evs(Tail(q)) : Head(q).id < e.id
<1>1. Len(q) \in Nat /\ Len(q) > 0 /\ Len(Tail(q)) = Len(q) - 1 /\ Head(q) = q[1]
  OBVIOUS
<1>2. \A i \in 1..(Len(q) - 1) : Tail(q)[i] = q[i + 1]
  OBVIOUS
<1> QED
  BY <1>1, <1>2 DEF Ascending, Evs

-----------------------------------------------------------------------------
(* The parts of an action. *)

LEMMA RowsOfFacts ==
    ASSUME NEW evs \in Seq(Event), NEW first \in Nat
    PROVE  LET q == RowsOf(evs, first) IN
           /\ q \in Seq(Row) /\ Ascending(q)
           /\ \A e \in Evs(q) :
                /\ first <= e.id /\ e.id < first + Len(evs)
                /\ \E f \in Evs(evs) : f.type = e.type /\ f.by = e.by /\ f.upto = e.upto
<1> DEFINE q == RowsOf(evs, first)
<1>1. Len(evs) \in Nat /\ \A i \in 1..Len(evs) : evs[i] \in Event
  OBVIOUS
<1>2. q = [i \in 1..Len(evs) |->
             [id |-> first + i - 1, type |-> evs[i].type, by |-> evs[i].by,
              upto |-> evs[i].upto]]
  BY DEF RowsOf, Stored
<1>3. \A i \in 1..Len(evs) : q[i] \in Row
  BY <1>1, <1>2 DEF Row, Event
<1>4. q \in Seq(Row) /\ Len(q) = Len(evs)
  <2>1. q = [i \in 1..Len(evs) |-> q[i]]
    BY <1>2
  <2>2. q \in [1..Len(evs) -> Row]
    BY <2>1, <1>3
  <2> HIDE DEF q
  <2> QED
    BY <2>2, <1>1
<1>5. \A i \in 1..Len(evs) : q[i].id = first + i - 1
  BY <1>2
<1>6. Ascending(q)
  BY <1>1, <1>4, <1>5 DEF Ascending
<1>7. \A i \in 1..Len(evs) : /\ first <= q[i].id /\ q[i].id < first + Len(evs)
                             /\ evs[i] \in Evs(evs)
                             /\ evs[i].type = q[i].type /\ evs[i].by = q[i].by
                             /\ evs[i].upto = q[i].upto
  BY <1>1, <1>2, <1>5 DEF Evs
<1>8. \A e \in Evs(q) : \E i \in 1..Len(evs) : e = q[i]
  BY <1>4 DEF Evs
<1> HIDE DEF q
<1>9. QED
  BY <1>4, <1>6, <1>7, <1>8 DEF q

LEMMA OneRow ==
    ASSUME NEW f \in Row
    PROVE  <<f>> \in Seq(Row) /\ Ascending(<<f>>) /\ Evs(<<f>>) = {f}
<1>1. Len(<<f>>) = 1 /\ <<f>>[1] = f /\ <<f>> \in Seq(Row)
  OBVIOUS
<1>2. Ascending(<<f>>)
  BY <1>1 DEF Ascending
<1> QED
  BY <1>1, <1>2, EvsOne

LEMMA PublishedFacts ==
    ASSUME TypeOK, NEW new \in Seq(Row), Published(new)
    PROVE  /\ rows' = rows \cup Evs(new) /\ rows' \subseteq Row
           /\ inbox' \in [Streams -> Seq(Row)] /\ missed' \in [Streams -> SUBSET Row]
           /\ \A s \in Streams :
                /\ st[s] # "tailing" => inbox'[s] = inbox[s]
                /\ st[s] = "tailing" => inbox'[s] = inbox[s] \o new
                /\ Evs(inbox'[s]) \subseteq Evs(inbox[s]) \cup Evs(new)
                /\ st[s] = "tailing" => Evs(inbox'[s]) = Evs(inbox[s]) \cup Evs(new)
                /\ missed[s] \subseteq missed'[s]
                /\ st[s] = "joining" => Evs(new) \subseteq missed'[s]
<1>1. Evs(new) \subseteq Row
  BY EvsType
<1>2. rows' = rows \cup Evs(new) /\ rows' \subseteq Row
  BY <1>1 DEF Published, Evs, TypeOK
<1>3. \A s \in Streams : inbox[s] \in Seq(Row) /\ missed[s] \subseteq Row
  BY DEF TypeOK
<1>4. \A s \in Streams : /\ inbox[s] \o new \in Seq(Row)
                         /\ Evs(inbox[s] \o new) = Evs(inbox[s]) \cup Evs(new)
  BY <1>3, EvsConcat
<1>5. /\ inbox' = [s \in Streams |-> IF st[s] = "tailing" THEN inbox[s] \o new ELSE inbox[s]]
      /\ missed' = [s \in Streams |->
                      IF st[s] = "joining" THEN missed[s] \cup Evs(new) ELSE missed[s]]
  BY DEF Published, Evs
<1>6. \A s \in Streams :
        /\ inbox'[s] = IF st[s] = "tailing" THEN inbox[s] \o new ELSE inbox[s]
        /\ missed'[s] = IF st[s] = "joining" THEN missed[s] \cup Evs(new) ELSE missed[s]
  BY <1>5
<1>7. inbox' \in [Streams -> Seq(Row)] /\ missed' \in [Streams -> SUBSET Row]
  BY <1>1, <1>3, <1>4, <1>5
<1> QED
  BY <1>2, <1>4, <1>6, <1>7

LEMMA EmitFacts ==
    ASSUME TypeOK, NEW s \in Streams, NEW f \in Row, Emit(s, f)
    PROVE  /\ sent' \in [Streams -> SUBSET Row] /\ shut' \subseteq Streams
           /\ \A t \in Streams : t # s => sent'[t] = sent[t]
           /\ sent'[s] \subseteq sent[s] \cup {f} /\ sent[s] \subseteq sent'[s]
           /\ s \notin gone => sent'[s] = sent[s] \cup {f}
<1>1. CASE s \in gone
  BY <1>1 DEF Emit, TypeOK
<1>2. CASE s \notin gone
  BY <1>2 DEF Emit, TypeOK
<1> QED
  BY <1>1, <1>2

-----------------------------------------------------------------------------
(* What no step may do, whichever it is. *)

\* Writers that have ended stay so; runs that began stay begun.
Onward ==
    /\ \A w \in Writers : Ended(w) => Ended(w)' /\ made'[w] = made[w]
    /\ \A r \in Runs : pc[r] # "idle" => pc'[r] # "idle"
    /\ source' = source
    /\ faults' = 0 => faults = 0

LEMMA RunsOnward ==
    ASSUME TypeOK, NEW r \in Runs, StartRun(r) \/ RunStep(r) \/ PostTimesOut(r) \/ CompletionFails(r)
    PROVE  Onward
<1> USE DEF Onward, Ended, TypeOK, Writers, UnchangedByRuns, clientVars, tailVars, nimVars, RunGoes
<1>1. CASE StartRun(r)
  BY <1>1 DEF StartRun
<1>2. CASE Produce(r)
  BY <1>2 DEF Produce
<1>3. CASE Finish(r)
  BY <1>3 DEF Finish
<1>4. CASE EngineErrs(r)
  BY <1>4 DEF EngineErrs
<1>5. CASE EngineDies(r)
  BY <1>5 DEF EngineDies
<1>6. CASE LastFlush(r)
  BY <1>6 DEF LastFlush
<1>7. CASE FailChatJob(r)
  BY <1>7 DEF FailChatJob
<1>8. CASE PostAnswered(r)
  BY <1>8 DEF PostAnswered
<1>9. CASE PostTimesOut(r)
  BY <1>9, ChatStreamAssumption DEF PostTimesOut, Fault
<1>10. CASE CompletionFails(r)
  BY <1>10, ChatStreamAssumption DEF CompletionFails, Fault
<1> QED
  BY <1>1, <1>2, <1>3, <1>4, <1>5, <1>6, <1>7, <1>8, <1>9, <1>10 DEF RunStep

LEMMA InsertsOnward ==
    ASSUME TypeOK, NEW b \in Slots, InsertStep(b) \/ PostLost(b)
    PROVE  Onward
<1> USE DEF Onward, Ended, TypeOK, Writers, UnchangedByInserts, runVars, nimVars
<1>1. CASE TakeIds(b)
  BY <1>1 DEF TakeIds
<1>2. CASE Commit(b)
  BY <1>2 DEF Commit
<1>3. CASE PostLost(b)
  BY <1>3, ChatStreamAssumption DEF PostLost, Fault
<1> QED
  BY <1>1, <1>2, <1>3 DEF InsertStep

LEMMA StreamsOnward ==
    ASSUME TypeOK, NEW s \in Streams,
           \/ \E k \in {"sse", "openai"} : Open(s, k)
           \/ StreamStep(s) \/ TimesOut(s) \/ ClientLeaves(s)
           \/ RealtimeDrops(s) \/ NimThrows(s) \/ FinalizeFails(s)
    PROVE  Onward
<1> USE ChatStreamAssumption
    DEF Onward, Ended, TypeOK, Writers, UnchangedByStreams, runVars, dbVars, tailVars, nimVars,
        NimInsertFails, InsertNimEvent, Fault
<1>1. CASE \E k \in {"sse", "openai"} : Open(s, k)
  BY <1>1 DEF Open
<1>2. CASE Joined(s) \/ ClientLeaves(s) \/ RealtimeDrops(s)
  BY <1>2 DEF Joined, ClientLeaves, RealtimeDrops
<1>3. CASE Deliver(s)
  BY <1>3 DEF Deliver
<1>4. CASE TimesOut(s)
  BY <1>4 DEF TimesOut
<1>5. CASE NimMeta(s)
  BY <1>5 DEF NimMeta
<1>6. CASE NimToken(s)
  BY <1>6 DEF NimToken, BreakOff
<1>7. CASE NimDone(s) \/ NimErrs(s)
  BY <1>7 DEF NimDone, NimErrs, NimEnds
<1>8. CASE FinalizeJob(s) \/ FinalizeFails(s)
  BY <1>8 DEF FinalizeJob, FinalizeFails, Closing
<1>9. CASE NimThrows(s)
  BY <1>9 DEF NimThrows, BreakOff
<1> QED
  BY <1>1, <1>2, <1>3, <1>4, <1>5, <1>6, <1>7, <1>8, <1>9 DEF StreamStep

LEMMA ServerOnward == TypeOK /\ ServerDies => Onward
BY ChatStreamAssumption
   DEF ServerDies, Fault, Onward, Ended, TypeOK, Writers, runVars

\* Events that were whole stay whole, and a job that is run once was run once.
LEMMA WholeKept ==
    ASSUME Onward
    PROVE  /\ \A e : e.by \in Writers /\ Whole(e) => Whole(e)'
           /\ RunOnce' => RunOnce
<1>1. \A e : e.by \in Writers /\ Whole(e) => Whole(e)'
  BY DEF Onward, Whole
<1>2. RunOnce' => RunOnce
  BY DEF Onward, RunOnce
<1> QED
  BY <1>1, <1>2

-----------------------------------------------------------------------------
(* Steps of the daemon. *)

\* What a run may change, and what that has to satisfy.
LEMMA RunEffect ==
    ASSUME Inv, Onward, UnchangedByRuns,
           pc' \in [Runs -> {"idle", "running", "closing", "erring", "done", "failing", "over"}],
           buf' \in [Runs -> Seq(Event)],
           post' \in [Runs -> Slots \cup {Null}],
           made' \in [Writers -> 0..Tokens],
           ins' \in [Slots -> Batch],
           faults' \in 0..MaxFaults,
           \A q \in Runs : \A e \in Evs(buf'[q]) : Whole(e)',
           \A b \in Slots : \A e \in Evs(ins'[b].evs) : Whole(e)',
           \A b \in Slots : ins'[b].at = "ids" => ins'[b] = ins[b],
           faults' = 0 => Posted'
    PROVE  Inv'
<1> USE DEF UnchangedByRuns, clientVars, tailVars, nimVars
<1>1. TypeOK'
  BY DEF Inv, TypeOK, Batch
<1>2. DoneInv'
  <2>1. \A e \in rows : Whole(e)'
    BY WholeKept DEF Inv, DoneInv, TypeOK, Row
  <2>2. ASSUME NEW s \in Streams, NEW e \in Evs(inbox[s]) \cup held[s] \cup sent[s]
        PROVE  Whole(e)'
    <3>1. e \in Row
      <4>1. inbox[s] \in Seq(Row) /\ held[s] \subseteq Row /\ sent[s] \subseteq Row
        BY DEF Inv, TypeOK
      <4> QED
        BY <4>1, EvsType
    <3> QED
      BY <2>2, <3>1, WholeKept DEF Inv, DoneInv, Row
  <2> QED
    BY <2>1, <2>2 DEF DoneInv
<1>3. RowInv'
  BY DEF Inv, RowInv
<1>4. SentInv'
  BY DEF Inv, SentInv, StreamOK
<1>5. VerdictInv'
  BY DEF Inv, VerdictInv, VerdictHasRow, Onward
<1>6. GapInv'
  <2>1. ASSUME faults' = 0, source = "p2p", RunOnce'
        PROVE  /\ \A b \in Slots : ins'[b].at = "ids" => \A e \in rows : e.id < ins'[b].first
               /\ \A s \in Streams : Shown(s)'
    <3>1. /\ \A b \in Slots : ins[b].at = "ids" => \A e \in rows : e.id < ins[b].first
          /\ \A s \in Streams : Shown(s)
      BY <2>1, WholeKept DEF Onward, Inv, GapInv, Below
    <3> QED
      BY <3>1 DEF Shown
  <2> QED
    BY <2>1 DEF GapInv, Below
<1> QED
  BY <1>1, <1>2, <1>3, <1>4, <1>5, <1>6 DEF Inv

LEMMA FlushFacts ==
    ASSUME TypeOK, NEW r \in Runs, NEW evs \in Seq(Event), Flush(r, evs)
    PROVE  /\ buf' \in [Runs -> Seq(Event)] /\ buf' = [buf EXCEPT ![r] = <<>>]
           /\ ins' \in [Slots -> Batch]
           /\ post' \in [Runs -> Slots \cup {Null}]
           /\ \A q \in Runs \ {r} : post'[q] = post[q]
           /\ \A b \in Slots : \/ ins'[b] = ins[b]
                               \/ /\ post'[r] = b
                                  /\ ins'[b] = [at |-> "sent", evs |-> evs, first |-> 0]
<1>1. PICK b \in Slots :
         /\ ins' = [ins EXCEPT ![b] = [at |-> "sent", evs |-> evs, first |-> 0]]
         /\ post' = [post EXCEPT ![r] = b]
  BY DEF Flush
<1>2. [at |-> "sent", evs |-> evs, first |-> 0] \in Batch
  BY DEF Batch
<1>3. ins \in [Slots -> Batch] /\ buf \in [Runs -> Seq(Event)] /\ <<>> \in Seq(Event)
  BY DEF TypeOK, Batch
<1>4. buf' = [buf EXCEPT ![r] = <<>>]
  BY DEF Flush
<1> QED
  BY <1>1, <1>2, <1>3, <1>4 DEF TypeOK

LEMMA PushFacts ==
    ASSUME TypeOK, NEW r \in Runs, NEW e \in Event, Push(r, e)
    PROVE  /\ buf' \in [Runs -> Seq(Event)] /\ ins' \in [Slots -> Batch]
           /\ post' \in [Runs -> Slots \cup {Null}]
           /\ \A q \in Runs \ {r} : post'[q] = post[q] /\ buf'[q] = buf[q]
           /\ Evs(buf'[r]) \subseteq Evs(buf[r]) \cup {e}
           /\ \A b \in Slots : \/ ins'[b] = ins[b]
                               \/ /\ post'[r] = b /\ ins'[b].at = "sent"
                                  /\ Evs(ins'[b].evs) = Evs(buf[r]) \cup {e}
<1> DEFINE evs == Append(buf[r], e)
<1>1. buf[r] \in Seq(Event) /\ evs \in Seq(Event) /\ Evs(evs) = Evs(buf[r]) \cup {e}
  BY EvsAppend DEF TypeOK
<1>0. Flush(r, evs) \/ (buf' = [buf EXCEPT ![r] = evs] /\ UNCHANGED <<ins, post>>)
  BY DEF Push
<1> HIDE DEF evs
<1>2. CASE Flush(r, evs)
  <2>1. /\ buf' \in [Runs -> Seq(Event)] /\ buf' = [buf EXCEPT ![r] = <<>>]
        /\ ins' \in [Slots -> Batch]
        /\ post' \in [Runs -> Slots \cup {Null}]
        /\ \A q \in Runs \ {r} : post'[q] = post[q]
        /\ \A b \in Slots : \/ ins'[b] = ins[b]
                            \/ /\ post'[r] = b
                               /\ ins'[b] = [at |-> "sent", evs |-> evs, first |-> 0]
    BY <1>1, <1>2, FlushFacts
  <2>2. Evs(buf'[r]) = {} /\ \A q \in Runs \ {r} : buf'[q] = buf[q]
    BY <2>1, EvsEmpty DEF TypeOK
  <2>3. \A b \in Slots : \/ ins'[b] = ins[b]
                         \/ /\ post'[r] = b /\ ins'[b].at = "sent"
                            /\ Evs(ins'[b].evs) = Evs(buf[r]) \cup {e}
    BY <2>1, <1>1
  <2> QED
    BY <2>1, <2>2, <2>3, EvsEmpty
<1>3. CASE buf' = [buf EXCEPT ![r] = evs] /\ UNCHANGED <<ins, post>>
  <2>1. buf'[r] = evs /\ \A q \in Runs \ {r} : buf'[q] = buf[q]
    BY <1>3 DEF TypeOK
  <2>2. buf' \in [Runs -> Seq(Event)] /\ ins' \in [Slots -> Batch]
    BY <1>1, <1>3 DEF TypeOK, Batch
  <2> QED
    BY <2>1, <2>2, <1>1, <1>3 DEF TypeOK
<1> QED
  BY <1>0, <1>2, <1>3

LEMMA Events ==
    ASSUME TypeOK, NEW r \in Runs
    PROVE  /\ Ev("meta", r, 0) \in Event /\ Ev("error", r, 0) \in Event
           /\ Ev("done", r, made[r]) \in Event
           /\ made[r] < Tokens => Ev("token", r, made[r] + 1) \in Event
BY ChatStreamAssumption DEF Ev, Event, RowTypes, Final, Writers, TypeOK

\* A run that pushes an event, which is whole afterwards.
LEMMA PushInv ==
    ASSUME Inv, Onward, UnchangedByRuns, faults' = faults,
           NEW r \in Runs, NEW e \in Event, Push(r, e), Whole(e)', post[r] = Null,
           pc' \in [Runs -> {"idle", "running", "closing", "erring", "done", "failing", "over"}],
           pc'[r] # "idle",
           made' \in [Writers -> 0..Tokens]
    PROVE  Inv'
<1>1. /\ buf' \in [Runs -> Seq(Event)] /\ ins' \in [Slots -> Batch]
      /\ post' \in [Runs -> Slots \cup {Null}]
      /\ \A q \in Runs \ {r} : post'[q] = post[q] /\ buf'[q] = buf[q]
      /\ Evs(buf'[r]) \subseteq Evs(buf[r]) \cup {e}
      /\ \A b \in Slots : \/ ins'[b] = ins[b]
                          \/ /\ post'[r] = b /\ ins'[b].at = "sent"
                             /\ Evs(ins'[b].evs) = Evs(buf[r]) \cup {e}
  BY PushFacts DEF Inv
<1>2. \A q \in Runs : Evs(buf[q]) \subseteq Event
  BY EvsType DEF Inv, TypeOK
<1>3. \A q \in Runs : \A f \in Evs(buf[q]) : Whole(f)'
  BY <1>2, WholeKept DEF Inv, DoneInv, Event
<1>4. \A b \in Slots : \A f \in Evs(ins[b].evs) : Whole(f)'
  <2>1. \A b \in Slots : Evs(ins[b].evs) \subseteq Event
    BY EvsType DEF Inv, TypeOK
  <2> QED
    BY <2>1, WholeKept DEF Inv, DoneInv, Event
<1>5. \A q \in Runs : \A f \in Evs(buf'[q]) : Whole(f)'
  <2>1. ASSUME NEW q \in Runs, NEW f \in Evs(buf'[q]) PROVE Whole(f)'
    <3>1. CASE q = r
      BY <3>1, <2>1, <1>1, <1>3
    <3>2. CASE q # r
      BY <3>2, <2>1, <1>1, <1>3
    <3> QED
      BY <3>1, <3>2
  <2> QED
    BY <2>1
<1>6. \A b \in Slots : \A f \in Evs(ins'[b].evs) : Whole(f)'
  <2>1. ASSUME NEW b \in Slots, NEW f \in Evs(ins'[b].evs) PROVE Whole(f)'
    <3>1. CASE ins'[b] = ins[b]
      BY <3>1, <2>1, <1>4
    <3>2. CASE Evs(ins'[b].evs) = Evs(buf[r]) \cup {e}
      BY <3>2, <2>1, <1>3
    <3> QED
      BY <3>1, <3>2, <1>1
  <2> QED
    BY <2>1
<1>7. ASSUME faults' = 0 PROVE Posted'
  <2>1. SUFFICES ASSUME NEW b \in Slots, ins'[b].at # "free"
                 PROVE  \E q \in Runs : post'[q] = b /\ pc'[q] # "idle"
    BY DEF Posted
  <2>2. CASE ins'[b] = ins[b]
    <3>1. PICK q \in Runs : post[q] = b /\ pc[q] # "idle"
      BY <2>1, <2>2, <1>7 DEF Inv, GapInv, Below, Posted, Onward
    <3>2. q # r
      BY <3>1, ChatStreamAssumption
    <3> QED
      BY <3>1, <3>2, <1>1 DEF Onward
  <2>3. CASE post'[r] = b
    BY <2>3
  <2> QED
    BY <2>2, <2>3, <1>1
<1>8. faults' \in 0..MaxFaults /\ \A b \in Slots : ins'[b].at = "ids" => ins'[b] = ins[b]
  BY <1>1 DEF Inv, TypeOK
<1> QED
  BY <1>1, <1>5, <1>6, <1>7, <1>8, RunEffect

LEMMA RunsInv ==
    ASSUME Inv, NEW r \in Runs, StartRun(r) \/ RunStep(r) \/ PostTimesOut(r) \/ CompletionFails(r)
    PROVE  Inv'
<1>1. Onward
  BY RunsOnward DEF Inv
<1> USE DEF RunGoes
<1>2. CASE StartRun(r)
  <2>1. Whole(Ev("meta", r, 0))'
    BY DEF Whole, Ev
  <2> QED
    BY <1>1, <1>2, <2>1, Events, PushInv DEF StartRun, Inv, TypeOK
<1>3. CASE Produce(r)
  <2>1. made' \in [Writers -> 0..Tokens]
    BY <1>3, ChatStreamAssumption DEF Produce, Inv, TypeOK, Writers
  <2>2. PICK e \in Event : Push(r, e) /\ e.type = "token"
    BY <1>3, Events DEF Produce, Inv, Ev
  <2>3. Whole(e)'
    BY <2>2 DEF Whole
  <2>4. /\ UnchangedByRuns /\ faults' = faults /\ post[r] = Null /\ pc'[r] # "idle"
        /\ pc' \in [Runs -> {"idle", "running", "closing", "erring", "done", "failing", "over"}]
    BY <1>3 DEF Produce, Inv, TypeOK
  <2> QED
    BY <1>1, <2>1, <2>2, <2>3, <2>4, PushInv
<1>4. CASE Finish(r)
  <2>1. Whole(Ev("done", r, made[r]))'
    BY <1>4 DEF Finish, Whole, Ev, Ended, Inv, TypeOK
  <2> QED
    BY <1>1, <1>4, <2>1, Events, PushInv DEF Finish, Inv, TypeOK
<1>5. CASE EngineErrs(r)
  <2>1. Whole(Ev("error", r, 0))'
    BY DEF Whole, Ev
  <2> QED
    BY <1>1, <1>5, <2>1, Events, PushInv DEF EngineErrs, Inv, TypeOK
\* The events of buffers and batches that stay.
<1>6. \A q \in Runs : \A f \in Evs(buf[q]) : Whole(f)'
  <2>1. \A q \in Runs : Evs(buf[q]) \subseteq Event
    BY EvsType DEF Inv, TypeOK
  <2> QED
    BY <2>1, <1>1, WholeKept DEF Inv, DoneInv, Event
<1>7. \A b \in Slots : \A f \in Evs(ins[b].evs) : Whole(f)'
  <2>1. \A b \in Slots : Evs(ins[b].evs) \subseteq Event
    BY EvsType DEF Inv, TypeOK
  <2> QED
    BY <2>1, <1>1, WholeKept DEF Inv, DoneInv, Event
<1>8. ins \in [Slots -> Batch] /\ NoBatch \in Batch /\ Evs(NoBatch.evs) = {} /\ NoBatch.at = "free"
  BY EvsEmpty DEF Inv, TypeOK, Batch, NoBatch
<1>9. CASE EngineDies(r)
  <2>1. buf' \in [Runs -> Seq(Event)] /\ \A q \in Runs : \A f \in Evs(buf'[q]) : Whole(f)'
    <3>1. buf' = [buf EXCEPT ![r] = <<>>] /\ <<>> \in Seq(Event)
      BY <1>9 DEF EngineDies
    <3>2. \A q \in Runs : buf'[q] = IF q = r THEN <<>> ELSE buf[q]
      BY <3>1 DEF Inv, TypeOK
    <3> QED
      BY <3>1, <3>2, <1>6, EvsEmpty DEF Inv, TypeOK
  <2>2. faults' = 0 => Posted'
    BY <1>9, <1>1 DEF EngineDies, Inv, GapInv, Below, Posted, Onward
  <2> QED
    BY <1>1, <1>9, <2>1, <2>2, <1>7, <1>8, RunEffect DEF EngineDies, Inv, TypeOK
<1>10. CASE CompletionFails(r)
  <2>1. faults' \in 0..MaxFaults /\ faults' # 0
    BY <1>10, ChatStreamAssumption DEF CompletionFails, Fault, Inv, TypeOK
  <2> QED
    BY <1>1, <1>10, <2>1, <1>6, <1>7, <1>8, RunEffect DEF CompletionFails, Inv, TypeOK
<1>11. CASE PostAnswered(r)
  <2> DEFINE b == post[r]
  <2>1. b \in Slots /\ ins' = [ins EXCEPT ![b] = NoBatch] /\ post' = [post EXCEPT ![r] = Null]
    BY <1>11 DEF PostAnswered, Inv, TypeOK
  <2>2. ins' \in [Slots -> Batch] /\ \A c \in Slots : ins'[c] = IF c = b THEN NoBatch ELSE ins[c]
    BY <2>1, <1>8
  <2>3. post' \in [Runs -> Slots \cup {Null}] /\ \A q \in Runs \ {r} : post'[q] = post[q]
    BY <2>1 DEF Inv, TypeOK
  <2>4. \A c \in Slots : \A f \in Evs(ins'[c].evs) : Whole(f)'
    BY <2>2, <1>7, <1>8
  <2>5. faults' = 0 => Posted'
    BY <2>2, <2>3, <1>1, <1>8 DEF Inv, GapInv, Below, Posted, Onward
  <2> QED
    BY <1>1, <1>11, <2>2, <2>3, <2>4, <2>5, <1>6, <1>8, RunEffect DEF PostAnswered, Inv, TypeOK
<1>12. CASE PostTimesOut(r)
  <2> DEFINE b == post[r]
  <2>1. b \in Slots /\ post' = [post EXCEPT ![r] = Null]
    BY <1>12 DEF PostTimesOut, Inv, TypeOK
  <2>2. ins' \in [Slots -> Batch] /\ \A c \in Slots : ins'[c] \in {NoBatch, ins[c]}
    BY <2>1, <1>12, <1>8 DEF PostTimesOut
  <2>3. post' \in [Runs -> Slots \cup {Null}]
    BY <2>1 DEF Inv, TypeOK
  <2>4. \A c \in Slots : \A f \in Evs(ins'[c].evs) : Whole(f)'
    BY <2>2, <1>7, <1>8
  <2>5. faults' \in 0..MaxFaults /\ faults' # 0
    BY <1>12, ChatStreamAssumption DEF PostTimesOut, Fault, Inv, TypeOK
  <2> QED
    BY <1>1, <1>12, <2>2, <2>3, <2>4, <2>5, <1>6, <1>8, RunEffect DEF PostTimesOut, Inv, TypeOK
\* A run that posts what is in its buffer, or one more event.
<1>13. ASSUME NEW evs \in Seq(Event), Flush(r, evs), UnchangedByRuns, UNCHANGED <<made, faults>>,
              post[r] = Null, pc[r] # "idle", \A f \in Evs(evs) : Whole(f)',
              pc' \in [Runs -> {"idle", "running", "closing", "erring", "done", "failing", "over"}]
       PROVE  Inv'
  <2>1. /\ buf' \in [Runs -> Seq(Event)] /\ buf' = [buf EXCEPT ![r] = <<>>]
        /\ ins' \in [Slots -> Batch]
        /\ post' \in [Runs -> Slots \cup {Null}]
        /\ \A q \in Runs \ {r} : post'[q] = post[q]
        /\ \A b \in Slots : \/ ins'[b] = ins[b]
                            \/ /\ post'[r] = b
                               /\ ins'[b] = [at |-> "sent", evs |-> evs, first |-> 0]
    BY <1>13, FlushFacts DEF Inv
  <2>2. \A q \in Runs : buf'[q] = IF q = r THEN <<>> ELSE buf[q]
    BY <2>1 DEF Inv, TypeOK
  <2>3. \A q \in Runs : \A f \in Evs(buf'[q]) : Whole(f)'
    BY <2>2, <1>6, EvsEmpty
  <2>4. \A b \in Slots : \A f \in Evs(ins'[b].evs) : Whole(f)'
    BY <2>1, <1>7, <1>13
  <2>5. ASSUME faults' = 0 PROVE Posted'
    <3>1. SUFFICES ASSUME NEW b \in Slots, ins'[b].at # "free"
                   PROVE  \E q \in Runs : post'[q] = b /\ pc'[q] # "idle"
      BY DEF Posted
    <3>2. CASE ins'[b] = ins[b]
      <4>1. PICK q \in Runs : post[q] = b /\ pc[q] # "idle"
        BY <3>1, <3>2, <2>5, <1>1 DEF Inv, GapInv, Below, Posted, Onward
      <4>2. q # r
        BY <4>1, <1>13, ChatStreamAssumption
      <4> QED
        BY <4>1, <4>2, <2>1, <1>1 DEF Onward
    <3>3. CASE post'[r] = b
      BY <3>3, <1>1, <1>13 DEF Onward
    <3> QED
      BY <3>2, <3>3, <2>1
  <2>6. \A b \in Slots : ins'[b].at = "ids" => ins'[b] = ins[b]
    BY <2>1
  <2> QED
    BY <1>1, <1>13, <2>1, <2>3, <2>4, <2>5, <2>6, RunEffect DEF Inv, TypeOK
<1>14. CASE LastFlush(r)
  <2>1. pc' \in [Runs -> {"idle", "running", "closing", "erring", "done", "failing", "over"}]
    BY <1>14 DEF LastFlush, Inv, TypeOK
  <2>2. CASE buf[r] # <<>>
    <3>1. buf[r] \in Seq(Event) /\ \A f \in Evs(buf[r]) : Whole(f)'
      BY <1>6 DEF Inv, TypeOK
    <3> QED
      BY <1>13, <1>14, <2>1, <2>2, <3>1 DEF LastFlush
  <2>3. CASE buf[r] = <<>>
    <3>1. UNCHANGED <<buf, ins, post>>
      BY <1>14, <2>3 DEF LastFlush
    <3>2. faults' = 0 => Posted'
      BY <3>1, <1>1 DEF Inv, GapInv, Below, Posted, Onward
    <3> QED
      BY <1>1, <1>14, <2>1, <3>1, <3>2, <1>6, <1>7, <1>8, RunEffect DEF LastFlush, Inv, TypeOK
  <2> QED
    BY <2>2, <2>3
<1>15. CASE FailChatJob(r)
  <2> DEFINE e == Ev("error", r, 0)
  <2>1. e \in Event /\ Whole(e)'
    BY Events DEF Whole, Ev, Inv
  <2>2. <<e>> \in Seq(Event) /\ \A f \in Evs(<<e>>) : Whole(f)'
    BY <2>1, EvsOne
  <2> QED
    BY <1>13, <1>15, <2>2 DEF FailChatJob, Inv, TypeOK
<1> QED
  BY <1>2, <1>3, <1>4, <1>5, <1>9, <1>10, <1>11, <1>12, <1>14, <1>15 DEF RunStep

-----------------------------------------------------------------------------
(* Steps of the control plane. *)

LEMMA StaysWhole ==
    ASSUME Inv, Onward
    PROVE  /\ \A r \in Runs : \A e \in Evs(buf[r]) : Whole(e)'
           /\ \A b \in Slots : \A e \in Evs(ins[b].evs) : Whole(e)'
           /\ \A e \in rows : Whole(e)'
           /\ \A s \in Streams : \A e \in Evs(inbox[s]) \cup held[s] \cup sent[s] : Whole(e)'
<1>1. \A r \in Runs : Evs(buf[r]) \subseteq Event
  BY EvsType DEF Inv, TypeOK
<1>2. \A b \in Slots : Evs(ins[b].evs) \subseteq Event
  BY EvsType DEF Inv, TypeOK
<1>3. \A s \in Streams : Evs(inbox[s]) \cup held[s] \cup sent[s] \subseteq Row
  BY EvsType DEF Inv, TypeOK
<1>4. \A e \in Event \cup Row : e.by \in Writers
  BY DEF Event, Row
<1>5. rows \subseteq Row
  BY DEF Inv, TypeOK
<1>6. \A e \in Event \cup Row : Whole(e) => Whole(e)'
  BY <1>4, WholeKept
<1> QED
  BY <1>1, <1>2, <1>3, <1>5, <1>6 DEF Inv, DoneInv

\* A batch that is answered or given up.
LEMMA AnsweredFacts ==
    ASSUME TypeOK, NEW b \in Slots
    PROVE  /\ Answered(b) \in Batch /\ Answered(b).at \in {"answered", "free"}
           /\ Evs(Answered(b).evs) \subseteq Evs(ins[b].evs)
           /\ (\A r \in Runs : post[r] # b) => Answered(b).at = "free"
<1>1. ins[b] \in Batch
  BY DEF TypeOK, Batch
<1>2. CASE \E r \in Runs : post[r] = b
  <2>1. Answered(b) = [at |-> "answered", evs |-> ins[b].evs, first |-> ins[b].first]
    BY <1>1, <1>2 DEF Answered, Batch
  <2> QED
    BY <2>1, <1>1, <1>2 DEF Batch
<1>3. CASE ~\E r \in Runs : post[r] = b
  <2>1. Answered(b) = NoBatch
    BY <1>3 DEF Answered
  <2> QED
    BY <2>1, EvsEmpty DEF Batch, NoBatch
<1> QED
  BY <1>2, <1>3

LEMMA TakeIdsInv == ASSUME Inv, NEW b \in Slots, TakeIds(b) PROVE Inv'
<1>1. Onward
  BY InsertsOnward DEF Inv, InsertStep
<1> USE DEF UnchangedByInserts, runVars, clientVars, nimVars
<1> DEFINE n == Len(ins[b].evs)
<1>2. /\ ins[b] \in Batch /\ ins \in [Slots -> Batch]
      /\ ins' = [ins EXCEPT ![b].at = "ids", ![b].first = nextId]
      /\ nextId \in Nat \ {0} /\ n \in Nat /\ nextId' = nextId + n
  BY DEF TakeIds, Inv, TypeOK, Batch
<1>3. /\ ins'[b] = [at |-> "ids", evs |-> ins[b].evs, first |-> nextId]
      /\ \A c \in Slots \ {b} : ins'[c] = ins[c]
  BY <1>2 DEF Batch
<1>4. ins' \in [Slots -> Batch]
  <2>1. \A c \in Slots : ins'[c] \in Batch
    BY <1>2, <1>3 DEF Batch
  <2> QED
    BY <2>1, <1>2
<1>5. TypeOK'
  BY <1>2, <1>4 DEF TakeIds, Inv, TypeOK, Batch
<1>6. DoneInv'
  <2>1. \A c \in Slots : \A e \in Evs(ins'[c].evs) : Whole(e)'
    BY <1>1, <1>3, StaysWhole
  <2> QED
    BY <2>1, <1>1, StaysWhole DEF TakeIds, DoneInv
<1>7. RowInv'
  BY <1>2, <1>3 DEF TakeIds, Inv, TypeOK, RowInv, Row
<1>8. SentInv'
  <2>1. \A s \in Streams : \A e \in sent[s] : e.id \in Nat
    BY DEF Inv, TypeOK, Row
  <2> QED
    BY <2>1, <1>2 DEF TakeIds, Inv, SentInv, StreamOK
<1>9. VerdictInv'
  BY DEF TakeIds, Inv, VerdictInv, VerdictHasRow
<1>10. GapInv'
  <2>1. ASSUME faults' = 0 PROVE Posted'
    BY <2>1, <1>3 DEF TakeIds, Inv, GapInv, Below, Posted
  <2>2. ASSUME faults' = 0, source = "p2p", RunOnce'
        PROVE  /\ \A c \in Slots : ins'[c].at = "ids" => \A e \in rows : e.id < ins'[c].first
               /\ \A s \in Streams : Shown(s)'
    <3>1. /\ \A c \in Slots : ins[c].at = "ids" => \A e \in rows : e.id < ins[c].first
          /\ \A s \in Streams : Shown(s)
      BY <2>2, <1>1, WholeKept DEF Onward, Inv, GapInv, Below
    <3>2. \A c \in Slots : ins'[c].at = "ids" => \A e \in rows : e.id < ins'[c].first
      BY <3>1, <1>3 DEF Inv, RowInv
    <3>3. ASSUME NEW s \in Streams PROVE Shown(s)'
      <4>1. lastId[s] \in Nat /\ lastId[s] < nextId
        BY <3>1 DEF Shown, Inv, TypeOK
      <4>2. lastId'[s] < nextId' /\ \A c \in Slots : ins'[c].at = "ids" => lastId'[s] < ins'[c].first
        <5>1. lastId' = lastId /\ nextId < nextId' + 1
          BY <1>2 DEF TakeIds
        <5>2. ASSUME NEW c \in Slots, ins'[c].at = "ids" PROVE lastId[s] < ins'[c].first
          <6>1. CASE c = b
            BY <6>1, <4>1, <1>3
          <6>2. CASE c # b
            BY <6>2, <5>2, <3>1, <1>3 DEF Shown
          <6> QED
            BY <6>1, <6>2
        <5> QED
          BY <5>1, <5>2, <4>1, <1>2
      <4> QED
        BY <4>2, <3>1 DEF Shown, TakeIds
    <3> QED
      BY <3>2, <3>3
  <2> QED
    BY <2>1, <2>2, <1>1 DEF GapInv, Below, TakeIds, Onward
<1> QED
  BY <1>5, <1>6, <1>7, <1>8, <1>9, <1>10 DEF Inv

LEMMA CommitInv == ASSUME Inv, NEW b \in Slots, Commit(b) PROVE Inv'
<1>1. Onward
  BY InsertsOnward DEF Inv, InsertStep
<1> USE DEF UnchangedByInserts, runVars, clientVars, nimVars
<1> DEFINE evs == ins[b].evs
           first == ins[b].first
           new == RowsOf(evs, first)
<1>2. /\ ins \in [Slots -> Batch] /\ evs \in Seq(Event) /\ first \in Nat
      /\ ins[b].at = "ids" /\ Published(new) /\ ins' = [ins EXCEPT ![b] = Answered(b)]
  BY DEF Commit, Inv, TypeOK, Batch
<1>3. /\ new \in Seq(Row) /\ Ascending(new)
      /\ \A e \in Evs(new) :
           /\ first <= e.id /\ e.id < first + Len(evs)
           /\ \E f \in Evs(evs) : f.type = e.type /\ f.by = e.by /\ f.upto = e.upto
  BY <1>2, RowsOfFacts
<1> HIDE DEF new
<1>4. /\ rows' = rows \cup Evs(new) /\ rows' \subseteq Row
      /\ inbox' \in [Streams -> Seq(Row)] /\ missed' \in [Streams -> SUBSET Row]
      /\ \A s \in Streams :
           /\ st[s] # "tailing" => inbox'[s] = inbox[s]
           /\ st[s] = "tailing" => inbox'[s] = inbox[s] \o new
           /\ Evs(inbox'[s]) \subseteq Evs(inbox[s]) \cup Evs(new)
           /\ st[s] = "tailing" => Evs(inbox'[s]) = Evs(inbox[s]) \cup Evs(new)
           /\ missed[s] \subseteq missed'[s]
           /\ st[s] = "joining" => Evs(new) \subseteq missed'[s]
  BY <1>2, <1>3, PublishedFacts DEF Inv
<1>5. /\ ins' \in [Slots -> Batch] /\ ins'[b] = Answered(b)
      /\ \A c \in Slots \ {b} : ins'[c] = ins[c]
      /\ ins'[b].at # "ids" /\ Evs(ins'[b].evs) \subseteq Evs(evs)
      /\ (\A r \in Runs : post[r] # b) => ins'[b].at = "free"
  BY <1>2, AnsweredFacts DEF Inv
<1>6. TypeOK'
  BY <1>4, <1>5 DEF Commit, Inv, TypeOK, Batch
<1>7. \A e \in Evs(new) : Whole(e)'
  <2>1. ASSUME NEW e \in Evs(new) PROVE Whole(e)'
    <3>1. PICK f \in Evs(evs) : f.type = e.type /\ f.by = e.by /\ f.upto = e.upto
      BY <1>3
    <3>2. Whole(f)'
      BY <1>1, StaysWhole
    <3> QED
      BY <3>1, <3>2 DEF Whole
  <2> QED
    BY <2>1
<1>8. DoneInv'
  <2>1. \A c \in Slots : \A e \in Evs(ins'[c].evs) : Whole(e)'
    BY <1>1, <1>5, StaysWhole
  <2>2. \A e \in rows' : Whole(e)'
    BY <1>1, <1>4, <1>7, StaysWhole
  <2>3. \A s \in Streams : \A e \in Evs(inbox'[s]) \cup held[s] \cup sent[s] : Whole(e)'
    BY <1>1, <1>4, <1>7, StaysWhole
  <2>4. \A r \in Runs : \A e \in Evs(buf'[r]) : Whole(e)'
    BY <1>1, StaysWhole DEF Commit
  <2> QED
    BY <2>1, <2>2, <2>3, <2>4 DEF Commit, DoneInv
<1>9. 0 < first /\ first + Len(evs) <= nextId /\ Len(evs) \in Nat /\ nextId \in Nat
  BY <1>2 DEF Inv, RowInv, TypeOK
<1>10. \A e \in Evs(new) : e.id \in Nat /\ 0 < e.id /\ e.id < nextId
  <2>1. Evs(new) \subseteq Row
    BY <1>3, EvsType
  <2> QED
    BY <2>1, <1>2, <1>3, <1>9 DEF Row
<1>11. RowInv'
  BY <1>4, <1>5, <1>10 DEF Commit, Inv, RowInv
<1>12. SentInv'
  BY <1>4 DEF Commit, Inv, SentInv, StreamOK
<1>13. VerdictInv'
  BY <1>4 DEF Commit, Inv, VerdictInv, VerdictHasRow
<1>14. GapInv'
  <2>1. ASSUME faults' = 0 PROVE Posted'
    <3>1. SUFFICES ASSUME NEW c \in Slots, ins'[c].at # "free"
                   PROVE  \E r \in Runs : post[r] = c /\ pc[r] # "idle"
      BY DEF Posted, Commit
    <3>2. ins[c].at # "free"
      BY <3>1, <1>2, <1>5
    <3> QED
      BY <3>2, <2>1 DEF Commit, Inv, GapInv, Below, Posted
  <2>2. ASSUME faults' = 0, source = "p2p", RunOnce'
        PROVE  /\ \A c \in Slots : ins'[c].at = "ids" => \A e \in rows' : e.id < ins'[c].first
               /\ \A s \in Streams : Shown(s)'
    <3>1. /\ \A c \in Slots : ins[c].at = "ids" => \A e \in rows : e.id < ins[c].first
          /\ \A s \in Streams : Shown(s)
          /\ Posted /\ RunOnce
      BY <2>2, <1>1, WholeKept DEF Onward, Inv, GapInv, Below
    \* No other batch is on its way.
    <3>2. \A c \in Slots : ins'[c].at # "ids"
      <4>1. ASSUME NEW c \in Slots, ins'[c].at = "ids" PROVE FALSE
        <5>1. c # b /\ ins[c].at # "free" /\ ins[b].at # "free"
          BY <4>1, <1>2, <1>5
        <5>2. PICK q \in Runs : post[q] = b /\ pc[q] # "idle"
          BY <5>1, <3>1 DEF Posted
        <5>3. PICK r \in Runs : post[r] = c /\ pc[r] # "idle"
          BY <5>1, <3>1 DEF Posted
        <5> QED
          BY <5>1, <5>2, <5>3, <3>1 DEF RunOnce
      <4> QED
        BY <4>1
    <3>3. ASSUME NEW s \in Streams PROVE Shown(s)'
      <4>1. lastId[s] \in Nat /\ lastId[s] < nextId /\ lastId[s] < first
        BY <3>1, <1>2 DEF Shown, Inv, TypeOK
      <4>2. \A e \in Evs(new) : lastId[s] < e.id
        BY <4>1, <1>2, <1>3, <1>10
      <4>3. ASSUME st[s] = "tailing"
            PROVE  /\ Ascending(inbox'[s]) /\ Evs(inbox'[s]) \subseteq rows'
                   /\ \A e \in Evs(inbox'[s]) : lastId[s] < e.id
        <5>1. /\ Ascending(inbox[s]) /\ Evs(inbox[s]) \subseteq rows
              /\ \A e \in Evs(inbox[s]) : lastId[s] < e.id
          BY <4>3, <3>1 DEF Shown
        <5>2. \A e \in Evs(inbox[s]), f \in Evs(new) : e.id < f.id
          <6>1. \A e \in rows : e.id \in Nat /\ e.id < first
            BY <3>1, <1>2 DEF Inv, TypeOK, Row
          <6> QED
            BY <6>1, <5>1, <1>2, <1>3, <1>10
        <5>3. Ascending(inbox[s] \o new)
          BY <5>1, <5>2, <1>3, AscendingConcat DEF Inv, TypeOK
        <5> QED
          BY <5>1, <5>3, <4>2, <4>3, <1>4
      <4>4. ASSUME s \notin gone, NEW e \in rows'
            PROVE  \/ e \in missed'[s] \cup sent[s]
                   \/ st[s] = "tailing" /\ e \in Evs(inbox'[s])
                   \/ st[s] \in {"unopened", "closed"} /\ lastId[s] < e.id
        <5>1. CASE e \in rows
          BY <5>1, <4>4, <3>1, <1>4 DEF Shown
        <5>2. CASE e \in Evs(new)
          <6>1. st[s] \in {"unopened", "joining", "tailing", "closed"}
            BY <2>2 DEF Inv, TypeOK, SentInv, StreamOK
          <6> QED
            BY <6>1, <5>2, <4>2, <1>4
        <5> QED
          BY <5>1, <5>2, <4>4, <1>4
      <4>5. lastId'[s] = lastId[s] /\ sent'[s] = sent[s] /\ st'[s] = st[s] /\ nextId' = nextId /\ gone' = gone
        BY DEF Commit
      <4>6. st[s] = "unopened" => lastId[s] = 0
        BY <3>1 DEF Shown
      <4> QED
        BY <3>2, <4>1, <4>3, <4>4, <4>5, <4>6 DEF Shown
    <3> QED
      BY <3>2, <3>3
  <2> QED
    BY <2>1, <2>2, <1>1 DEF GapInv, Below, Commit, Onward
<1> QED
  BY <1>6, <1>8, <1>11, <1>12, <1>13, <1>14 DEF Inv

\* Batches that end with a fault, and streams that end with the server.
LEMMA LostInv ==
    ASSUME Inv, ServerDies \/ \E b \in Slots : PostLost(b)
    PROVE  Inv'
<1>1. Onward
  BY ServerOnward, InsertsOnward DEF Inv
<1> USE DEF UnchangedByInserts, runVars, clientVars, nimVars, tailVars
<1>2. /\ ins' \in [Slots -> Batch]
      /\ \A c \in Slots : ins'[c] = ins[c] \/ ins'[c] = Answered(c)
  <2>1. \A c \in Slots : Answered(c) \in Batch
    BY AnsweredFacts DEF Inv
  <2>2. ins \in [Slots -> Batch]
    BY DEF Inv, TypeOK, Batch
  <2> QED
    BY <2>1, <2>2 DEF ServerDies, PostLost
<1>3. \A c \in Slots : /\ ins'[c].at = "ids" => ins'[c] = ins[c]
                       /\ Evs(ins'[c].evs) \subseteq Evs(ins[c].evs)
  BY <1>2, AnsweredFacts DEF Inv
<1>4. faults' \in 0..MaxFaults /\ faults' # 0
  BY ChatStreamAssumption DEF ServerDies, PostLost, Fault, Inv, TypeOK
<1>5. /\ UNCHANGED <<source, verdict, rows, nextId, pc, buf, post, made, kind, gone, shut, lastId,
                     inbox, missed, outcome, held, sent>>
      /\ st' \in [Streams -> {"unopened", "joining", "tailing", "nim", "nimrun",
                              "nimfinal", "closed"}]
      /\ \A s \in Streams : st'[s] = st[s] \/ st'[s] = "closed"
  BY DEF ServerDies, PostLost, Inv, TypeOK
<1>6. TypeOK'
  BY <1>2, <1>4, <1>5 DEF Inv, TypeOK, Batch
<1>7. DoneInv'
  <2>1. \A c \in Slots : \A e \in Evs(ins'[c].evs) : Whole(e)'
    BY <1>1, <1>3, StaysWhole
  <2> QED
    BY <2>1, <1>1, <1>5, StaysWhole DEF DoneInv
<1>8. RowInv'
  BY <1>3, <1>5 DEF Inv, RowInv
<1>9. SentInv'
  BY <1>5 DEF Inv, SentInv, StreamOK
<1> QED
  BY <1>4, <1>6, <1>7, <1>8, <1>9 DEF Inv, VerdictInv, GapInv, Below

LEMMA InsertsInv == ASSUME Inv, NEW b \in Slots, InsertStep(b) \/ PostLost(b) PROVE Inv'
BY TakeIdsInv, CommitInv, LostInv DEF InsertStep

-----------------------------------------------------------------------------
(* Steps of a stream on a job of a daemon, and those that both kinds share. *)

\* What such a step may change, and what that has to satisfy.
LEMMA TailEffect ==
    ASSUME Inv, Onward, NEW s \in Streams, TypeOK',
           UNCHANGED <<source, verdict, rows, nextId, ins, pc, buf, post, made, missed, outcome, held>>,
           \A t \in Streams \ {s} : /\ st'[t] = st[t] /\ sent'[t] = sent[t]
                                    /\ lastId'[t] = lastId[t] /\ inbox'[t] = inbox[t],
           gone \subseteq gone',
           Evs(inbox'[s]) \subseteq Evs(inbox[s]),
           \A e \in sent'[s] : e \in sent[s] \/ Whole(e)',
           StreamOK(s)',
           faults' = 0 /\ source = "p2p" /\ Below /\ Shown(s) => Shown(s)'
    PROVE  Inv'
<1>1. DoneInv'
  <2>1. \A t \in Streams : \A e \in Evs(inbox'[t]) \cup held[t] \cup sent'[t] : Whole(e)'
    <3>1. ASSUME NEW t \in Streams, NEW e \in Evs(inbox'[t]) \cup held[t] \cup sent'[t]
          PROVE  Whole(e)'
      <4>1. CASE t = s
        BY <3>1, <4>1, StaysWhole
      <4>2. CASE t # s
        <5>1. inbox'[t] = inbox[t] /\ sent'[t] = sent[t]
          BY <4>2
        <5> QED
          BY <5>1, <3>1, StaysWhole
      <4> QED
        BY <4>1, <4>2
    <3> QED
      BY <3>1
  <2> QED
    BY <2>1, StaysWhole DEF DoneInv
<1>2. RowInv'
  BY DEF Inv, RowInv
<1>3. SentInv'
  <2>1. ASSUME NEW t \in Streams, t # s PROVE StreamOK(t)'
    BY <2>1 DEF Inv, SentInv, StreamOK
  <2> QED
    BY <2>1 DEF SentInv
<1>4. VerdictInv'
  BY DEF Inv, VerdictInv, VerdictHasRow, Onward
<1>5. GapInv'
  <2>1. faults' = 0 => Posted'
    BY DEF Inv, GapInv, Posted, Onward
  <2>2. ASSUME faults' = 0, source = "p2p", RunOnce'
        PROVE  /\ \A c \in Slots : ins'[c].at = "ids" => \A e \in rows : e.id < ins'[c].first
               /\ \A t \in Streams : Shown(t)'
    <3>1. /\ \A c \in Slots : ins[c].at = "ids" => \A e \in rows : e.id < ins[c].first
          /\ \A t \in Streams : Shown(t)
      BY <2>2, WholeKept DEF Onward, Inv, GapInv, Below
    <3>2. ASSUME NEW t \in Streams, t # s PROVE Shown(t)'
      <4>1. /\ st'[t] = st[t] /\ sent'[t] = sent[t] /\ lastId'[t] = lastId[t]
            /\ inbox'[t] = inbox[t] /\ missed'[t] = missed[t] /\ t \notin gone' => t \notin gone
        BY <3>2
      <4>2. Shown(t)
        BY <3>1
      <4> QED
        BY <3>2, <4>2 DEF Shown
    <3> QED
      BY <2>2, <3>1, <3>2 DEF Below
  <2> QED
    BY <2>1, <2>2 DEF GapInv, Below
<1> QED
  BY <1>1, <1>2, <1>3, <1>4, <1>5 DEF Inv

LEMMA OpenInv == ASSUME Inv, NEW s \in Streams, NEW k \in {"sse", "openai"}, Open(s, k) PROVE Inv'
<1>1. Onward
  BY StreamsOnward DEF Inv
<1>2. PICK id \in {0} \cup {e.id : e \in Replayed} :
         (\A e \in Replayed : e.id <= id) /\ lastId' = [lastId EXCEPT ![s] = id]
  BY DEF Open
<1>3. /\ Replayed \subseteq rows /\ rows \subseteq Row
      /\ \A e \in rows : e.id \in Nat /\ 0 < e.id /\ e.id < nextId
  BY DEF Replayed, Inv, TypeOK, RowInv, Row
<1>4. id \in Nat /\ id < nextId
  BY <1>2, <1>3 DEF Inv, TypeOK
<1>5. /\ st[s] = "unopened" /\ kind' = [kind EXCEPT ![s] = k]
      /\ sent' = [sent EXCEPT ![s] = Replayed]
      /\ st' = [st EXCEPT ![s] = IF \E e \in rows : e.type \in Final THEN "closed"
                                 ELSE IF source = "nim" THEN "nim" ELSE "joining"]
      /\ UNCHANGED <<source, verdict, dbVars, runVars, made, gone, shut, inbox, missed,
                     nimVars, faults>>
  BY DEF Open
<1> USE DEF dbVars, runVars, nimVars
<1>6. TypeOK'
  BY <1>2, <1>3, <1>4, <1>5 DEF Inv, TypeOK
<1>7. /\ sent'[s] = Replayed /\ lastId'[s] = id
      /\ st'[s] = IF \E e \in rows : e.type \in Final THEN "closed"
                  ELSE IF source = "nim" THEN "nim" ELSE "joining"
      /\ \A t \in Streams \ {s} : /\ st'[t] = st[t] /\ sent'[t] = sent[t]
                                  /\ lastId'[t] = lastId[t] /\ inbox'[t] = inbox[t]
  BY <1>2, <1>5 DEF Inv, TypeOK
<1>8. inbox[s] = <<>> /\ held[s] = {}
  BY <1>5 DEF Inv, SentInv, StreamOK
<1>9. \A e \in sent'[s] : Whole(e)'
  BY <1>1, <1>3, <1>7, StaysWhole
<1>10. StreamOK(s)'
  BY <1>2, <1>3, <1>5, <1>7, <1>8 DEF StreamOK, Inv, TypeOK
<1>11. ASSUME source = "p2p", Below, Shown(s) PROVE Shown(s)'
  <2>1. \A b \in Slots : ins[b].at = "ids" => id < ins[b].first
    BY <1>2, <1>3, <1>11 DEF Below, Inv, RowInv
  <2>2. ASSUME NEW e \in rows
        PROVE  e \in Replayed \/ (st'[s] = "closed" /\ id < e.id)
    <3>1. CASE \E f \in rows : f.type \in Final /\ f.id < e.id
      <4>1. PICK f \in rows : f.type \in Final /\ f.id < e.id
        BY <3>1
      <4>2. id <= f.id
        BY <4>1, <1>2, <1>3 DEF Replayed
      <4> QED
        BY <4>1, <4>2, <1>3, <1>4, <1>7
    <3>2. CASE ~\E f \in rows : f.type \in Final /\ f.id < e.id
      <4>1. \A f \in rows : f.type \in Final => e.id <= f.id
        BY <3>2, <1>3
      <4> QED
        BY <4>1 DEF Replayed
    <3> QED
      BY <3>1, <3>2
  <2>3. st'[s] # "tailing" /\ st'[s] # "unopened"
    BY <1>7
  <2> QED
    BY <2>1, <2>2, <2>3, <1>4, <1>5, <1>7 DEF Shown
<1> QED
  BY <1>1, <1>5, <1>6, <1>7, <1>9, <1>10, <1>11, TailEffect

LEMMA DeliverInv == ASSUME Inv, NEW s \in Streams, Deliver(s) PROVE Inv'
<1>1. Onward
  BY StreamsOnward DEF Inv, StreamStep
<1> USE DEF UnchangedByStreams, runVars, nimVars
<1>0. PICK e \in {Head(inbox[s])} : TRUE
  OBVIOUS
<1>e. e = Head(inbox[s])
  OBVIOUS
<1>2. /\ st[s] = "tailing" /\ inbox[s] # <<>> /\ inbox[s] \in Seq(Row)
      /\ inbox' = [inbox EXCEPT ![s] = Tail(@)]
  BY DEF Deliver, Inv, TypeOK
<1>3. /\ Evs(Tail(inbox[s])) \subseteq Evs(inbox[s]) /\ e \in Evs(inbox[s])
      /\ Evs(inbox[s]) = {e} \cup Evs(Tail(inbox[s]))
      /\ Tail(inbox[s]) \in Seq(Row) /\ e \in Row
  BY <1>2, <1>e, EvsTail
<1>4. /\ inbox' \in [Streams -> Seq(Row)] /\ inbox'[s] = Tail(inbox[s])
      /\ \A t \in Streams \ {s} : inbox'[t] = inbox[t]
  BY <1>2, <1>3 DEF Inv, TypeOK
<1>5. Whole(e)'
  BY <1>1, <1>3, StaysWhole
<1>6. /\ UNCHANGED <<source, verdict, rows, nextId, ins, pc, buf, post, kind, made, gone, missed,
                     outcome, held, faults>>
  BY DEF Deliver
<1>7. CASE e.id > lastId[s]
  <2>1. /\ lastId' = [lastId EXCEPT ![s] = e.id] /\ Emit(s, e)
        /\ st' = [st EXCEPT ![s] = IF e.type \in Final \/ s \in shut THEN "closed" ELSE @]
    BY <1>7, <1>e DEF Deliver
  <2>2. /\ sent' \in [Streams -> SUBSET Row] /\ shut' \subseteq Streams
        /\ \A t \in Streams : t # s => sent'[t] = sent[t]
        /\ sent'[s] \subseteq sent[s] \cup {e} /\ sent[s] \subseteq sent'[s]
        /\ s \notin gone => sent'[s] = sent[s] \cup {e}
    BY <1>3, <2>1, EmitFacts DEF Inv
  <2>3. e.id \in Nat
    BY <1>3 DEF Row
  <2>4. TypeOK'
    BY <1>4, <1>6, <2>1, <2>2, <2>3 DEF Inv, TypeOK
  <2>5. /\ lastId'[s] = e.id
        /\ st'[s] = IF e.type \in Final \/ s \in shut THEN "closed" ELSE "tailing"
        /\ \A t \in Streams \ {s} : st'[t] = st[t] /\ lastId'[t] = lastId[t]
    BY <1>2, <2>1 DEF Inv, TypeOK
  <2>6. StreamOK(s)'
    <3>1. StreamOK(s) /\ lastId[s] \in Nat /\ \A f \in sent[s] : f.id \in Nat
      BY DEF Inv, SentInv, TypeOK, Row
    <3> QED
      BY <3>1, <1>2, <1>6, <1>7, <2>2, <2>3, <2>5 DEF StreamOK
  <2>7. ASSUME Below, Shown(s) PROVE Shown(s)'
    <3>1. /\ Ascending(inbox[s]) /\ Evs(inbox[s]) \subseteq rows
          /\ \A f \in Evs(inbox[s]) : lastId[s] < f.id
      BY <2>7, <1>2 DEF Shown
    <3>2. Ascending(inbox'[s]) /\ \A f \in Evs(inbox'[s]) : e.id < f.id
      BY <3>1, <1>2, <1>4, <1>e, AscendingTail
    <3>3. e \in rows
      BY <1>3, <3>1
    <3>4. e.id < nextId /\ \A b \in Slots : ins[b].at = "ids" => e.id < ins[b].first
      BY <3>3, <2>7 DEF Below, Inv, RowInv
    <3>5. ASSUME s \notin gone, NEW f \in rows
          PROVE  \/ f \in missed[s] \cup sent'[s]
                 \/ st'[s] = "tailing" /\ f \in Evs(inbox'[s])
                 \/ st'[s] = "closed" /\ e.id < f.id
      <4>1. f \in missed[s] \cup sent[s] \/ f \in Evs(inbox[s])
        BY <3>5, <2>7, <1>2 DEF Shown
      <4>2. CASE f \in missed[s] \cup sent[s] \/ f = e
        BY <4>2, <3>5, <2>2
      <4>3. CASE f \in Evs(inbox'[s])
        BY <4>3, <3>2, <2>5
      <4> QED
        BY <4>1, <4>2, <4>3, <1>3, <1>4
    <3>6. Evs(inbox'[s]) \subseteq rows
      BY <3>1, <1>3, <1>4
    <3> QED
      BY <3>2, <3>4, <3>5, <3>6, <1>6, <2>5 DEF Shown
  <2> QED
    BY <1>1, <1>3, <1>4, <1>5, <1>6, <2>2, <2>4, <2>5, <2>6, <2>7, TailEffect
<1>8. CASE ~(e.id > lastId[s])
  <2>1. UNCHANGED <<lastId, sent, shut, st>>
    BY <1>8, <1>e DEF Deliver
  <2>2. TypeOK'
    BY <1>4, <1>6, <2>1 DEF Inv, TypeOK
  <2>3. StreamOK(s)'
    BY <1>2, <1>6, <2>1 DEF Inv, SentInv, StreamOK
  <2>4. ~Shown(s)
    <3>1. lastId[s] \in Nat /\ e.id \in Nat
      BY <1>3 DEF Inv, TypeOK, Row
    <3> QED
      BY <3>1, <1>2, <1>3, <1>8 DEF Shown
  <2> QED
    BY <1>1, <1>3, <1>4, <1>6, <2>1, <2>2, <2>3, <2>4, TailEffect
<1> QED
  BY <1>7, <1>8

LEMMA TailsInv ==
    ASSUME Inv, NEW s \in Streams,
           Joined(s) \/ TimesOut(s) \/ ClientLeaves(s) \/ RealtimeDrops(s)
    PROVE  Inv'
<1>1. Onward
  BY StreamsOnward DEF Inv, StreamStep
<1> USE DEF UnchangedByStreams, runVars, nimVars, tailVars, dbVars
<1>2. CASE Joined(s)
  <2>1. TypeOK'
    BY <1>2 DEF Joined, Inv, TypeOK
  <2>2. /\ st[s] = "joining" /\ st'[s] = "tailing" /\ \A t \in Streams \ {s} : st'[t] = st[t]
        /\ UNCHANGED <<source, verdict, rows, nextId, ins, pc, buf, post, made, missed, outcome, held,
                       gone, lastId, inbox, sent>>
    BY <1>2 DEF Joined, Inv, TypeOK
  <2>3. StreamOK(s)' /\ inbox[s] = <<>>
    BY <2>2 DEF Inv, SentInv, StreamOK
  <2>4. Shown(s) => Shown(s)'
    BY <2>2, <2>3, EvsEmpty DEF Shown, Ascending
  <2> QED
    BY <1>1, <2>1, <2>2, <2>3, <2>4, TailEffect
<1>3. CASE TimesOut(s)
  <2>1. /\ st[s] \in {"joining", "tailing"} /\ st'[s] = "closed"
        /\ st' = [st EXCEPT ![s] = "closed"]
        /\ \A t \in Streams \ {s} : st'[t] = st[t]
        /\ UNCHANGED <<source, verdict, rows, nextId, ins, pc, buf, post, made, kind, missed, outcome,
                       held, gone, lastId, inbox, faults>>
        /\ Emit(s, Unstored("error", s, 0)) \/ UNCHANGED <<sent, shut>>
    BY <1>3 DEF TimesOut, Inv, TypeOK
  <2> DEFINE f == Unstored("error", s, 0)
  <2>2. f \in Row /\ Whole(f)' /\ f.type \in Final
    BY ChatStreamAssumption DEF Unstored, Stored, Row, RowTypes, Final, Writers, Whole
  <2> HIDE DEF f
  <2>3. /\ sent' \in [Streams -> SUBSET Row] /\ shut' \subseteq Streams
        /\ \A t \in Streams : t # s => sent'[t] = sent[t]
        /\ sent'[s] \subseteq sent[s] \cup {f} /\ sent[s] \subseteq sent'[s]
    BY <2>1, <2>2, EmitFacts DEF Inv, TypeOK, f
  <2>4. TypeOK'
    BY <2>1, <2>3 DEF Inv, TypeOK
  <2>5. StreamOK(s)'
    BY <2>1 DEF StreamOK
  <2>6. Shown(s) => Shown(s)'
    BY <2>1, <2>3 DEF Shown
  <2> QED
    BY <1>1, <2>1, <2>2, <2>3, <2>4, <2>5, <2>6, TailEffect
<1>4. CASE ClientLeaves(s)
  <2>1. TypeOK'
    BY <1>4 DEF ClientLeaves, clientVars, Inv, TypeOK
  <2>2. StreamOK(s)' /\ (Shown(s) => Shown(s)')
    BY <1>4 DEF ClientLeaves, Inv, SentInv, StreamOK, Shown
  <2> QED
    BY <1>1, <1>4, <2>1, <2>2, TailEffect DEF ClientLeaves
<1>5. CASE RealtimeDrops(s)
  <2>1. /\ inbox[s] # <<>> /\ inbox[s] \in Seq(Row) /\ inbox' = [inbox EXCEPT ![s] = Tail(@)]
    BY <1>5 DEF RealtimeDrops, Inv, TypeOK
  <2>2. Tail(inbox[s]) \in Seq(Row) /\ Evs(Tail(inbox[s])) \subseteq Evs(inbox[s])
    BY <2>1, EvsTail
  <2>3. /\ inbox' \in [Streams -> Seq(Row)] /\ inbox'[s] = Tail(inbox[s])
        /\ \A t \in Streams \ {s} : inbox'[t] = inbox[t]
    BY <2>1, <2>2 DEF Inv, TypeOK
  <2>4. faults' \in 0..MaxFaults /\ faults' # 0
    BY <1>5, ChatStreamAssumption DEF RealtimeDrops, Fault, Inv, TypeOK
  <2>5. TypeOK'
    BY <1>5, <2>3, <2>4 DEF RealtimeDrops, clientVars, Inv, TypeOK
  <2>6. StreamOK(s)'
    BY <1>5, <2>1, <2>3 DEF RealtimeDrops, clientVars, Inv, SentInv, StreamOK
  <2> QED
    BY <1>1, <1>5, <2>2, <2>3, <2>4, <2>5, <2>6, TailEffect DEF RealtimeDrops, clientVars
<1> QED
  BY <1>2, <1>3, <1>4, <1>5

-----------------------------------------------------------------------------
(* Steps of a stream that runs NIM: the row of an event, or none. *)

Recorded(f) == f.id = nextId /\ Published(<<f>>) /\ nextId' = nextId + 1

Unrecorded == UNCHANGED <<rows, nextId, inbox, missed>>

LEMMA RecordFacts ==
    ASSUME Inv, NEW f \in Row, Recorded(f) \/ Unrecorded
    PROVE  /\ rows \subseteq rows' /\ rows' \subseteq rows \cup {f} /\ rows' \subseteq Row
           /\ nextId \in Nat \ {0} /\ nextId' \in Nat \ {0} /\ nextId <= nextId'
           /\ \A e \in rows' : 0 < e.id /\ e.id < nextId'
           /\ inbox' \in [Streams -> Seq(Row)] /\ missed' \in [Streams -> SUBSET Row]
           /\ \A t \in Streams : /\ Evs(inbox'[t]) \subseteq Evs(inbox[t]) \cup {f}
                                 /\ st[t] # "tailing" => inbox'[t] = inbox[t]
<1>1. nextId \in Nat \ {0} /\ rows \subseteq Row /\ \A e \in rows : 0 < e.id /\ e.id < nextId
  BY DEF Inv, TypeOK, RowInv
<1>2. \A e \in Row : e.id \in Nat
  BY DEF Row
<1>3. CASE Recorded(f)
  <2>1. <<f>> \in Seq(Row) /\ Evs(<<f>>) = {f}
    BY OneRow
  <2>2. /\ rows' = rows \cup {f} /\ rows' \subseteq Row
        /\ inbox' \in [Streams -> Seq(Row)] /\ missed' \in [Streams -> SUBSET Row]
        /\ \A t \in Streams : /\ Evs(inbox'[t]) \subseteq Evs(inbox[t]) \cup {f}
                              /\ st[t] # "tailing" => inbox'[t] = inbox[t]
    BY <1>3, <2>1, PublishedFacts DEF Recorded, Inv
  <2>3. nextId' = nextId + 1 /\ f.id = nextId
    BY <1>3 DEF Recorded
  <2> QED
    BY <1>1, <1>2, <2>2, <2>3
<1>4. CASE Unrecorded
  BY <1>1, <1>4 DEF Unrecorded, Inv, TypeOK
<1> QED
  BY <1>3, <1>4

\* What such a step may change, and what that has to satisfy.
LEMMA NimEffect ==
    ASSUME Inv, Onward, NEW s \in Streams, st[s] \in {"nim", "nimrun", "nimfinal"},
           NEW f \in Row, Recorded(f) \/ Unrecorded, Whole(f)',
           UNCHANGED <<source, ins, pc, buf, post, kind, gone, lastId>>,
           made' \in [Writers -> 0..Tokens],
           faults' \in 0..MaxFaults,
           st' \in [Streams -> {"unopened", "joining", "tailing", "nim", "nimrun",
                                "nimfinal", "closed"}],
           outcome' \in [Streams -> {"open", "completed", "incomplete", "failed"}],
           held' \in [Streams -> SUBSET Row],
           sent' \in [Streams -> SUBSET Row],
           shut' \subseteq Streams,
           \A t \in Streams \ {s} : /\ st'[t] = st[t] /\ sent'[t] = sent[t]
                                    /\ held'[t] = held[t] /\ outcome'[t] = outcome[t],
           sent'[s] \cup held'[s] \subseteq sent[s] \cup held[s] \cup {f},
           StreamOK(s)',
           verdict' \in {verdict, outcome[s]},
           \/ faults' # 0
           \/ outcome'[s] \in {outcome[s], "open", "incomplete"}
           \/ /\ f \in rows'
              /\ outcome'[s] = "completed" => f.type = "done"
              /\ outcome'[s] = "failed" => f.type = "error"
    PROVE  Inv'
<1>1. /\ rows \subseteq rows' /\ rows' \subseteq rows \cup {f} /\ rows' \subseteq Row
      /\ nextId \in Nat \ {0} /\ nextId' \in Nat \ {0} /\ nextId <= nextId'
      /\ \A e \in rows' : 0 < e.id /\ e.id < nextId'
      /\ inbox' \in [Streams -> Seq(Row)] /\ missed' \in [Streams -> SUBSET Row]
      /\ \A t \in Streams : /\ Evs(inbox'[t]) \subseteq Evs(inbox[t]) \cup {f}
                            /\ st[t] # "tailing" => inbox'[t] = inbox[t]
  BY RecordFacts
<1>2. source = "nim"
  BY DEF Inv, SentInv, StreamOK, TypeOK
<1>3. TypeOK'
  <2>1. verdict' \in {"open", "completed", "incomplete", "failed"}
    BY DEF Inv, TypeOK
  <2> QED
    BY <1>1, <2>1 DEF Inv, TypeOK
<1>4. DoneInv'
  <2>1. \A e \in rows' : Whole(e)'
    BY <1>1, StaysWhole
  <2>2. ASSUME NEW t \in Streams, NEW e \in Evs(inbox'[t]) \cup held'[t] \cup sent'[t]
        PROVE  Whole(e)'
    <3>1. e \in Evs(inbox[t]) \cup held[t] \cup sent[t] \cup {f}
      BY <1>1, <2>2
    <3> QED
      BY <3>1, StaysWhole
  <2>3. /\ \A r \in Runs : \A e \in Evs(buf'[r]) : Whole(e)'
        /\ \A b \in Slots : \A e \in Evs(ins'[b].evs) : Whole(e)'
    BY StaysWhole
  <2> QED
    BY <2>1, <2>2, <2>3 DEF DoneInv
<1>5. RowInv'
  <2>1. ASSUME NEW b \in Slots, ins[b].at = "ids"
        PROVE  0 < ins[b].first /\ ins[b].first + Len(ins[b].evs) <= nextId'
    <3>1. /\ 0 < ins[b].first /\ ins[b].first + Len(ins[b].evs) <= nextId
          /\ ins[b].first \in Nat /\ ins[b].evs \in Seq(Event)
      BY <2>1 DEF Inv, TypeOK, RowInv
    <3> QED
      BY <3>1, <1>1
  <2> QED
    BY <2>1, <1>1 DEF RowInv
<1>6. SentInv'
  <2>1. ASSUME NEW t \in Streams, t # s PROVE StreamOK(t)'
    <3>1. /\ st'[t] = st[t] /\ sent'[t] = sent[t] /\ held'[t] = held[t] /\ lastId'[t] = lastId[t]
          /\ st[t] # "tailing" => inbox'[t] = inbox[t]
      BY <1>1, <2>1
    <3>2. \A e \in sent[t] : e.id \in Nat
      BY DEF Inv, TypeOK, Row
    <3>3. StreamOK(t)
      BY DEF Inv, SentInv
    <3> QED
      BY <1>1, <3>1, <3>2, <3>3 DEF StreamOK
  <2> QED
    BY <2>1 DEF SentInv
<1>7. VerdictInv'
  <2>1. ASSUME faults' = 0
        PROVE  /\ verdict' = "completed" => \E e \in rows' : e.type = "done"
               /\ verdict' = "failed" => \E e \in rows' : e.type = "error"
               /\ \A t \in Streams :
                    /\ outcome'[t] = "completed" => \E e \in rows' : e.type = "done"
                    /\ outcome'[t] = "failed" => \E e \in rows' : e.type = "error"
    <3>1. /\ verdict = "completed" => \E e \in rows' : e.type = "done"
          /\ verdict = "failed" => \E e \in rows' : e.type = "error"
          /\ \A t \in Streams :
               /\ outcome[t] = "completed" => \E e \in rows' : e.type = "done"
               /\ outcome[t] = "failed" => \E e \in rows' : e.type = "error"
      BY <2>1, <1>1 DEF Onward, Inv, VerdictInv, VerdictHasRow
    <3>2. /\ outcome'[s] = "completed" => \E e \in rows' : e.type = "done"
          /\ outcome'[s] = "failed" => \E e \in rows' : e.type = "error"
      BY <2>1, <3>1
    <3> QED
      BY <3>1, <3>2
  <2> QED
    BY <2>1 DEF VerdictInv, VerdictHasRow
<1>8. GapInv'
  BY <1>2 DEF Inv, GapInv, Posted, Onward
<1> QED
  BY <1>3, <1>4, <1>5, <1>6, <1>7, <1>8 DEF Inv

\* The frame of an event, with its row or without.
LEMMA Frames ==
    ASSUME TypeOK, NEW s \in Streams, NEW type \in RowTypes, NEW upto \in 0..Tokens
    PROVE  /\ Stored(nextId, type, s, upto) \in Row /\ Unstored(type, s, upto) \in Row
           /\ Stored(nextId, type, s, upto).id = nextId /\ Unstored(type, s, upto).id = 0
           /\ \A f \in {Stored(nextId, type, s, upto), Unstored(type, s, upto)} :
                /\ f.type = type /\ f.by = s /\ f.upto = upto
                /\ f.id \in {0, nextId}
BY DEF Stored, Unstored, Row, Writers, TypeOK

\* A frame may be passed on while the stream shows no final event.
LEMMA FrameFollows ==
    ASSUME Inv, NEW s \in Streams, st[s] \in {"nim", "nimrun"}, NEW f \in Row, f.id \in {0, nextId}
    PROVE  \A e \in sent[s] : Follows(e, f)
<1>1. \A e \in sent[s] : e.type \notin Final /\ e.id < nextId
  BY DEF Inv, SentInv, StreamOK
<1> QED
  BY <1>1 DEF Follows

\* Its id is below the next one afterwards.
LEMMA FrameId ==
    ASSUME Inv, NEW f \in Row, Recorded(f) \/ (Unrecorded /\ f.id = 0)
    PROVE  f.id < nextId' /\ nextId <= nextId' /\ nextId \in Nat \ {0} /\ nextId' \in Nat
<1>1. nextId \in Nat \ {0} /\ nextId' \in Nat \ {0} /\ nextId <= nextId'
  BY RecordFacts
<1>2. CASE Recorded(f)
  BY <1>1, <1>2 DEF Recorded
<1>3. CASE Unrecorded /\ f.id = 0
  BY <1>1, <1>3 DEF Unrecorded
<1> QED
  BY <1>1, <1>2, <1>3

\* What such a stream has shown.
LEMMA ShownByNim ==
    ASSUME Inv, NEW s \in Streams, st[s] \in {"nim", "nimrun"}
    PROVE  /\ held[s] = {} /\ source = "nim"
           /\ \A e \in sent[s] : e.type \notin Final /\ e.id < nextId /\ e.id \in Nat
<1>1. StreamOK(s) /\ source \in {"p2p", "nim"}
  BY DEF Inv, SentInv, TypeOK
<1>2. \A e \in sent[s] : e.id \in Nat
  BY DEF Inv, TypeOK, Row
<1> QED
  BY <1>1, <1>2 DEF StreamOK

LEMMA NimMetaInv == ASSUME Inv, NEW s \in Streams, NimMeta(s) PROVE Inv'
<1>1. Onward
  BY StreamsOnward DEF Inv, StreamStep
<1> USE DEF UnchangedByStreams, runVars, nimVars
<1>2. /\ Stored(nextId, "meta", s, 0) \in Row /\ Unstored("meta", s, 0) \in Row
      /\ \A f \in {Stored(nextId, "meta", s, 0), Unstored("meta", s, 0)} :
           f.type = "meta" /\ f.id \in {0, nextId}
      /\ Stored(nextId, "meta", s, 0).id = nextId /\ Unstored("meta", s, 0).id = 0
  BY Frames, ChatStreamAssumption DEF RowTypes, Inv
<1>3. PICK f \in {Stored(nextId, "meta", s, 0), Unstored("meta", s, 0)} :
         /\ Recorded(f) \/ (Unrecorded /\ f.id = 0)
         /\ faults' \in 0..MaxFaults
         /\ Emit(s, f) \/ UNCHANGED <<sent, shut>>
  <2>1. CASE InsertNimEvent(s, "meta", 0) /\ Emit(s, Stored(nextId, "meta", s, 0))
    BY <1>2, <2>1 DEF InsertNimEvent, Recorded, Inv, TypeOK
  <2>2. CASE /\ NimInsertFails
             /\ IF kind[s] = "sse" THEN UNCHANGED <<sent, shut>>
                ELSE Emit(s, Unstored("meta", s, 0))
    BY <1>2, <2>2, ChatStreamAssumption DEF NimInsertFails, Unrecorded, Inv, TypeOK
  <2> QED
    BY <2>1, <2>2 DEF NimMeta
<1>4. f \in Row /\ f.type = "meta" /\ f.id \in {0, nextId} /\ Whole(f)'
  BY <1>2 DEF Whole
<1>5. /\ sent' \in [Streams -> SUBSET Row] /\ shut' \subseteq Streams
      /\ \A t \in Streams : t # s => sent'[t] = sent[t]
      /\ sent'[s] \subseteq sent[s] \cup {f}
  BY <1>3, <1>4, EmitFacts DEF Inv, TypeOK
<1>6. /\ st[s] = "nim" /\ st' = [st EXCEPT ![s] = IF s \in shut THEN "closed" ELSE "nimrun"]
      /\ UNCHANGED <<source, ins, pc, buf, post, kind, verdict, made, gone, lastId, outcome, held>>
  BY DEF NimMeta
<1>7. /\ st'[s] \in {"closed", "nimrun"} /\ \A t \in Streams \ {s} : st'[t] = st[t]
      /\ st' \in [Streams -> {"unopened", "joining", "tailing", "nim", "nimrun",
                              "nimfinal", "closed"}]
  BY <1>6 DEF Inv, TypeOK
<1>8. nextId \in Nat \ {0} /\ nextId <= nextId' /\ f.id < nextId' /\ nextId' \in Nat
  BY <1>3, <1>4, FrameId
<1>9. StreamOK(s)'
  <2>1. /\ held[s] = {} /\ source = "nim" /\ \A e \in sent[s] : e.type \notin Final /\ e.id < nextId
        /\ \A e \in sent[s] : e.id \in Nat
    BY <1>6, ShownByNim
  <2>2. \A e \in sent'[s] : e.type \notin Final /\ e.id < nextId'
    BY <2>1, <1>4, <1>5, <1>8 DEF Final
  <2> QED
    BY <2>1, <2>2, <1>6, <1>7 DEF StreamOK
<1> QED
  BY <1>1, <1>3, <1>4, <1>5, <1>6, <1>7, <1>9, NimEffect DEF Inv, TypeOK

LEMMA NimTokenInv == ASSUME Inv, NEW s \in Streams, NimToken(s) PROVE Inv'
<1>1. Onward
  BY StreamsOnward DEF Inv, StreamStep
<1> USE DEF UnchangedByStreams, runVars
<1>2. /\ made[s] + 1 \in 0..Tokens /\ made' \in [Writers -> 0..Tokens]
      /\ st[s] = "nimrun" /\ nextId \in Nat \ {0}
  BY ChatStreamAssumption DEF NimToken, Inv, TypeOK, Writers
<1>3. PICK n \in 0..Tokens : n = made[s] + 1
  BY <1>2
<1>4. /\ Stored(nextId, "token", s, n) \in Row /\ Unstored("token", s, n) \in Row
      /\ \A f \in {Stored(nextId, "token", s, n), Unstored("token", s, n)} :
           f.type = "token" /\ f.id \in {0, nextId}
      /\ Stored(nextId, "token", s, n).id = nextId /\ Unstored("token", s, n).id = 0
  BY Frames DEF RowTypes, Inv
<1>5. PICK f \in {Stored(nextId, "token", s, n), Unstored("token", s, n)} :
         /\ Recorded(f) \/ (Unrecorded /\ f.id = 0)
         /\ faults' \in 0..MaxFaults
         /\ Emit(s, f)
  <2>1. CASE InsertNimEvent(s, "token", n) /\ Emit(s, Stored(nextId, "token", s, n))
    BY <1>4, <2>1 DEF InsertNimEvent, Recorded, Inv, TypeOK
  <2>2. CASE NimInsertFails /\ Emit(s, Unstored("token", s, n))
    BY <1>4, <2>2, ChatStreamAssumption DEF NimInsertFails, Unrecorded, Inv, TypeOK
  <2> QED
    BY <2>1, <2>2, <1>3 DEF NimToken
<1>6. f \in Row /\ f.type = "token" /\ f.id \in {0, nextId} /\ Whole(f)'
  BY <1>4 DEF Whole
<1>7. /\ sent' \in [Streams -> SUBSET Row] /\ shut' \subseteq Streams
      /\ \A t \in Streams : t # s => sent'[t] = sent[t]
      /\ sent'[s] \subseteq sent[s] \cup {f}
  BY <1>5, <1>6, EmitFacts DEF Inv
<1>8. /\ UNCHANGED <<source, ins, pc, buf, post, kind, verdict, gone, lastId, held>>
      /\ BreakOff(s) \/ UNCHANGED <<st, outcome>>
  BY DEF NimToken
<1>9. /\ st'[s] \in {"nimrun", "nimfinal"} /\ outcome'[s] \in {outcome[s], "incomplete"}
      /\ \A t \in Streams \ {s} : st'[t] = st[t] /\ outcome'[t] = outcome[t]
      /\ st' \in [Streams -> {"unopened", "joining", "tailing", "nim", "nimrun",
                              "nimfinal", "closed"}]
      /\ outcome' \in [Streams -> {"open", "completed", "incomplete", "failed"}]
  BY <1>2, <1>8 DEF BreakOff, Inv, TypeOK
<1>10. f.id < nextId' /\ nextId <= nextId' /\ nextId' \in Nat
  BY <1>5, <1>6, FrameId
<1>11. StreamOK(s)'
  <2>1. /\ held[s] = {} /\ source = "nim" /\ \A e \in sent[s] : e.type \notin Final /\ e.id < nextId
        /\ \A e \in sent[s] : e.id \in Nat
    BY <1>2, ShownByNim
  <2>2. \A e \in sent'[s] : e.type \notin Final /\ e.id < nextId'
    BY <2>1, <1>2, <1>6, <1>7, <1>10 DEF Final
  <2> QED
    BY <2>1, <2>2, <1>8, <1>9 DEF StreamOK
<1> QED
  BY <1>1, <1>2, <1>5, <1>6, <1>7, <1>8, <1>9, <1>11, NimEffect DEF Inv, TypeOK

LEMMA NimEndsInv ==
    ASSUME Inv, NEW s \in Streams, NimDone(s) \/ NimErrs(s)
    PROVE  Inv'
<1>1. Onward
  BY StreamsOnward DEF Inv, StreamStep
<1> USE DEF UnchangedByStreams, runVars
<1>2. PICK type \in Final, result \in {"completed", "failed"} :
         /\ NimEnds(s, type, result)
         /\ result = IF type = "done" THEN "completed" ELSE "failed"
  BY DEF NimDone, NimErrs, Final
<1>3. PICK upto \in 0..Tokens : upto = IF type = "done" THEN made[s] ELSE 0
  BY ChatStreamAssumption DEF Inv, TypeOK, Writers
<1>4. /\ Stored(nextId, type, s, upto) \in Row /\ Unstored(type, s, upto) \in Row
      /\ \A f \in {Stored(nextId, type, s, upto), Unstored(type, s, upto)} :
           f.type = type /\ f.by = s /\ f.upto = upto /\ f.id \in {0, nextId}
      /\ Stored(nextId, type, s, upto).id = nextId /\ Unstored(type, s, upto).id = 0
  <2>1. type \in RowTypes /\ TypeOK
    BY DEF RowTypes, Inv
  <2> QED
    BY <2>1, Frames
<1>5. PICK f \in {Stored(nextId, type, s, upto), Unstored(type, s, upto)} :
         /\ IF f.id = nextId THEN InsertNimEvent(s, type, upto) ELSE NimInsertFails
         /\ IF kind[s] = "sse" THEN Emit(s, f) /\ UNCHANGED held
            ELSE held' = [held EXCEPT ![s] = {f}] /\ UNCHANGED <<sent, shut>>
  BY <1>2, <1>3 DEF NimEnds
<1>6. /\ f \in Row /\ f.type = type /\ f.by = s /\ f.upto = upto /\ f.id \in {0, nextId}
      /\ f.id = nextId => f = Stored(nextId, type, s, upto)
      /\ nextId \in Nat \ {0}
  BY <1>4 DEF Inv, TypeOK
<1>7. /\ st[s] = "nimrun" /\ st' = [st EXCEPT ![s] = "nimfinal"]
      /\ outcome' = [outcome EXCEPT ![s] = result]
      /\ UNCHANGED <<source, ins, pc, buf, post, kind, verdict, made, gone, lastId>>
  BY <1>2 DEF NimEnds
<1>8. /\ st'[s] = "nimfinal" /\ outcome'[s] = result
      /\ \A t \in Streams \ {s} : st'[t] = st[t] /\ outcome'[t] = outcome[t]
      /\ st' \in [Streams -> {"unopened", "joining", "tailing", "nim", "nimrun",
                              "nimfinal", "closed"}]
      /\ outcome' \in [Streams -> {"open", "completed", "incomplete", "failed"}]
  BY <1>7 DEF Inv, TypeOK
<1>9. Whole(f)'
  <2>1. s \notin Runs
    BY ChatStreamAssumption
  <2> QED
    BY <2>1, <1>3, <1>6, <1>7, <1>8 DEF Whole, Ended
<1>10. /\ Recorded(f) \/ Unrecorded
       /\ faults' \in 0..MaxFaults
       /\ faults' # 0 \/ f \in rows'
  <2>1. CASE f.id = nextId
    <3>1. Recorded(f) /\ faults' = faults
      BY <2>1, <1>5, <1>6 DEF InsertNimEvent, Recorded
    <3>2. f \in rows'
      <4>1. <<f>> \in Seq(Row) /\ Evs(<<f>>) = {f} /\ Published(<<f>>) /\ TypeOK
        BY <3>1, <1>6, OneRow DEF Recorded, Inv
      <4>2. rows' = rows \cup Evs(<<f>>)
        BY <4>1, PublishedFacts
      <4> QED
        BY <4>1, <4>2
    <3> QED
      BY <3>1, <3>2 DEF Inv, TypeOK
  <2>2. CASE f.id # nextId
    BY <2>2, <1>5, ChatStreamAssumption DEF NimInsertFails, Unrecorded, Inv, TypeOK
  <2> QED
    BY <2>1, <2>2
<1>11. /\ sent' \in [Streams -> SUBSET Row] /\ shut' \subseteq Streams
       /\ held' \in [Streams -> SUBSET Row]
       /\ \A t \in Streams \ {s} : sent'[t] = sent[t] /\ held'[t] = held[t]
       /\ \/ sent'[s] \subseteq sent[s] \cup {f} /\ held'[s] = held[s]
          \/ sent'[s] = sent[s] /\ held'[s] = {f}
  <2>1. CASE kind[s] = "sse"
    BY <2>1, <1>5, <1>6, EmitFacts DEF Inv, TypeOK
  <2>2. CASE kind[s] # "sse"
    <3>1. held' = [held EXCEPT ![s] = {f}] /\ UNCHANGED <<sent, shut>>
      BY <2>2, <1>5
    <3>2. /\ held \in [Streams -> SUBSET Row] /\ {f} \in SUBSET Row
          /\ sent \in [Streams -> SUBSET Row] /\ shut \subseteq Streams
      BY <1>6 DEF Inv, TypeOK
    <3> QED
      BY <3>1, <3>2
  <2> QED
    BY <2>1, <2>2
<1>12. StreamOK(s)'
  <2>1. held[s] = {} /\ source = "nim"
    BY <1>7 DEF Inv, SentInv, StreamOK, TypeOK
  <2>2. \A e \in sent[s] : Follows(e, f)
    BY <1>6, <1>7, FrameFollows
  <2>3. \A g \in held'[s] : \A e \in sent'[s] : Follows(e, g)
    BY <2>1, <2>2, <1>11
  <2> QED
    BY <2>1, <2>3, <1>7, <1>8 DEF StreamOK
<1>13. /\ result = "completed" => f.type = "done"
       /\ result = "failed" => f.type = "error"
  BY <1>2, <1>6 DEF Final
<1>14. sent'[s] \cup held'[s] \subseteq sent[s] \cup held[s] \cup {f}
  BY <1>11
<1>15. made' \in [Writers -> 0..Tokens]
  BY <1>7 DEF Inv, TypeOK
<1> QED
  BY <1>1, <1>6, <1>7, <1>8, <1>9, <1>10, <1>11, <1>12, <1>13, <1>14, <1>15, NimEffect

LEMMA NimThrowsInv == ASSUME Inv, NEW s \in Streams, NimThrows(s) PROVE Inv'
<1>1. Onward
  BY StreamsOnward DEF Inv
<1> USE DEF UnchangedByStreams, runVars, nimVars
<1>2. PICK f \in Row : f = Unstored("error", s, 0)
  BY Frames, ChatStreamAssumption DEF RowTypes, Final, Inv
<1>3. f.type = "error" /\ f.id = 0 /\ Whole(f)'
  BY <1>2 DEF Unstored, Stored, Whole
<1>4. /\ st[s] = "nimrun" /\ Unrecorded
      /\ UNCHANGED <<source, ins, pc, buf, post, kind, verdict, made, gone, lastId>>
  BY DEF NimThrows, Unrecorded
<1>5. faults' \in 0..MaxFaults /\ faults' # 0
  BY ChatStreamAssumption DEF NimThrows, Fault, Inv, TypeOK
<1>6. held[s] = {} /\ source = "nim" /\ \A e \in sent[s] : Follows(e, f)
  BY <1>3, <1>4, FrameFollows DEF Inv, SentInv, StreamOK, TypeOK
<1>7. \/ /\ st' = [st EXCEPT ![s] = "closed"] /\ Emit(s, f) /\ UNCHANGED <<outcome, held>>
      \/ /\ st' = [st EXCEPT ![s] = "nimfinal"] /\ outcome' = [outcome EXCEPT ![s] = "incomplete"]
         /\ held' = [held EXCEPT ![s] = {f}] /\ UNCHANGED <<sent, shut>>
  BY <1>2 DEF NimThrows, BreakOff
<1>8. /\ st' \in [Streams -> {"unopened", "joining", "tailing", "nim", "nimrun",
                              "nimfinal", "closed"}]
      /\ outcome' \in [Streams -> {"open", "completed", "incomplete", "failed"}]
      /\ held' \in [Streams -> SUBSET Row]
      /\ sent' \in [Streams -> SUBSET Row] /\ shut' \subseteq Streams
      /\ \A t \in Streams \ {s} : /\ st'[t] = st[t] /\ sent'[t] = sent[t]
                                  /\ held'[t] = held[t] /\ outcome'[t] = outcome[t]
      /\ \/ st'[s] = "closed" /\ sent'[s] \subseteq sent[s] \cup {f} /\ held'[s] = held[s]
         \/ st'[s] = "nimfinal" /\ sent'[s] = sent[s] /\ held'[s] = {f}
  <2>1. CASE /\ st' = [st EXCEPT ![s] = "closed"] /\ Emit(s, f) /\ UNCHANGED <<outcome, held>>
    BY <2>1, EmitFacts DEF Inv, TypeOK
  <2>2. CASE /\ st' = [st EXCEPT ![s] = "nimfinal"]
             /\ outcome' = [outcome EXCEPT ![s] = "incomplete"]
             /\ held' = [held EXCEPT ![s] = {f}] /\ UNCHANGED <<sent, shut>>
    BY <2>2 DEF Inv, TypeOK
  <2> QED
    BY <2>1, <2>2, <1>7
<1>9. StreamOK(s)'
  <2>1. \A g \in held'[s] : \A e \in sent'[s] : Follows(e, g)
    BY <1>6, <1>8
  <2> QED
    BY <2>1, <1>4, <1>6, <1>8 DEF StreamOK
<1>10. /\ sent'[s] \cup held'[s] \subseteq sent[s] \cup held[s] \cup {f}
       /\ made' \in [Writers -> 0..Tokens]
  BY <1>4, <1>8 DEF Inv, TypeOK
<1> QED
  BY <1>1, <1>3, <1>4, <1>5, <1>8, <1>9, <1>10, NimEffect

LEMMA ClosingInv ==
    ASSUME Inv, NEW s \in Streams, FinalizeJob(s) \/ FinalizeFails(s)
    PROVE  Inv'
<1>1. Onward
  BY StreamsOnward DEF Inv, StreamStep
<1> USE DEF UnchangedByStreams, runVars, tailVars
<1>2. Closing(s) /\ verdict' \in {verdict, outcome[s]} /\ faults' \in 0..MaxFaults
  BY ChatStreamAssumption DEF FinalizeJob, FinalizeFails, Fault, Inv, TypeOK
<1>3. /\ st[s] = "nimfinal" /\ st' = [st EXCEPT ![s] = "closed"]
      /\ held' = [held EXCEPT ![s] = {}] /\ outcome' = [outcome EXCEPT ![s] = "open"]
      /\ UNCHANGED <<source, ins, pc, buf, post, kind, rows, nextId, made, gone, lastId, inbox,
                     missed>>
      /\ IF held[s] = {} THEN UNCHANGED <<sent, shut>> ELSE \E f \in held[s] : Emit(s, f)
  BY <1>2 DEF Closing
<1>4. PICK f \in Row : /\ Whole(f)'
                       /\ held[s] = {} \/ f \in held[s]
                       /\ Emit(s, f) \/ UNCHANGED <<sent, shut>>
  <2>1. CASE held[s] = {}
    <3>1. Unstored("error", s, 0) \in Row
      BY Frames, ChatStreamAssumption DEF RowTypes, Final, Inv
    <3>2. Whole(Unstored("error", s, 0))'
      BY DEF Whole, Unstored, Stored
    <3> QED
      BY <2>1, <3>1, <3>2, <1>3
  <2>2. CASE held[s] # {}
    <3>1. PICK f \in held[s] : Emit(s, f)
      BY <2>2, <1>3
    <3>2. f \in Row
      BY DEF Inv, TypeOK
    <3>3. Whole(f)'
      BY <1>1, StaysWhole
    <3> QED
      BY <3>1, <3>2, <3>3
  <2> QED
    BY <2>1, <2>2
<1>5. /\ sent' \in [Streams -> SUBSET Row] /\ shut' \subseteq Streams
      /\ \A t \in Streams : t # s => sent'[t] = sent[t]
      /\ sent'[s] \subseteq sent[s] \cup {f}
  BY <1>4, EmitFacts DEF Inv, TypeOK
<1>6. /\ st'[s] = "closed" /\ held'[s] = {} /\ outcome'[s] = "open"
      /\ \A t \in Streams \ {s} : st'[t] = st[t] /\ held'[t] = held[t] /\ outcome'[t] = outcome[t]
      /\ st' \in [Streams -> {"unopened", "joining", "tailing", "nim", "nimrun",
                              "nimfinal", "closed"}]
      /\ outcome' \in [Streams -> {"open", "completed", "incomplete", "failed"}]
      /\ held' \in [Streams -> SUBSET Row]
  BY <1>3 DEF Inv, TypeOK
<1>7. StreamOK(s)'
  BY <1>3, <1>6 DEF StreamOK
<1>8. Unrecorded /\ made' \in [Writers -> 0..Tokens]
  BY <1>3 DEF Unrecorded, Inv, TypeOK
<1>9. sent'[s] \cup held'[s] \subseteq sent[s] \cup held[s] \cup {f}
  BY <1>5, <1>6
<1> QED
  BY <1>1, <1>2, <1>3, <1>4, <1>5, <1>6, <1>7, <1>8, <1>9, NimEffect

-----------------------------------------------------------------------------
(* The invariant, and the order of what is shown. *)

LEMMA StreamsInv ==
    ASSUME Inv, NEW s \in Streams,
           \/ \E k \in {"sse", "openai"} : Open(s, k)
           \/ StreamStep(s) \/ TimesOut(s) \/ ClientLeaves(s)
           \/ RealtimeDrops(s) \/ NimThrows(s) \/ FinalizeFails(s)
    PROVE  Inv'
BY OpenInv, DeliverInv, TailsInv, NimMetaInv, NimTokenInv, NimEndsInv, NimThrowsInv, ClosingInv
   DEF StreamStep

LEMMA InitInv == Init => Inv
<1> SUFFICES ASSUME Init PROVE Inv
  OBVIOUS
<1> USE DEF Init
<1>1. /\ NoBatch \in Batch /\ NoBatch.at = "free" /\ Evs(NoBatch.evs) = {}
  BY EvsEmpty DEF NoBatch, Batch
<1>2. <<>> \in Seq(Event) /\ <<>> \in Seq(Row) /\ Evs(<<>>) = {}
  BY EvsEmpty
<1>3. ins \in [Slots -> Batch] /\ \A b \in Slots : ins[b] = NoBatch
  BY <1>1
<1>4. TypeOK
  BY <1>2, <1>3, ChatStreamAssumption DEF TypeOK, Batch
<1>5. DoneInv
  BY <1>1, <1>2, <1>3 DEF DoneInv
<1>6. RowInv
  BY <1>1, <1>3 DEF RowInv
<1>7. SentInv
  BY DEF SentInv, StreamOK
<1>8. VerdictInv
  BY DEF VerdictInv, VerdictHasRow
<1>9. GapInv
  BY <1>1, <1>3 DEF GapInv, Posted, Below, Shown
<1> QED
  BY <1>4, <1>5, <1>6, <1>7, <1>8, <1>9 DEF Inv

LEMMA StutterInv == Inv /\ UNCHANGED vars => Inv'
<1> SUFFICES ASSUME Inv, UNCHANGED vars PROVE Inv'
  OBVIOUS
<1> USE DEF vars, dbVars, runVars, clientVars, tailVars, nimVars
<1>1. TypeOK'
  BY DEF Inv, TypeOK
<1>2. DoneInv'
  BY DEF Inv, DoneInv, Whole, Ended
<1>3. RowInv'
  BY DEF Inv, RowInv
<1>4. SentInv'
  BY DEF Inv, SentInv, StreamOK
<1>5. VerdictInv'
  BY DEF Inv, VerdictInv, VerdictHasRow
<1>6. GapInv'
  BY DEF Inv, GapInv, Posted, Below, Shown, RunOnce
<1> QED
  BY <1>1, <1>2, <1>3, <1>4, <1>5, <1>6 DEF Inv

(***************************************************************************)
(* The inductive invariant: whatever runs, batches, streams, clients and   *)
(* faults do, what is under way to a client agrees with what it was shown. *)
(***************************************************************************)
THEOREM Invariance == Spec => []Inv
<1>1. Inv /\ [Next]_vars => Inv'
  <2> SUFFICES ASSUME Inv, Next PROVE Inv'
    BY StutterInv
  <2> QED
    BY RunsInv, InsertsInv, StreamsInv, LostInv DEF Next
<1> QED
  BY <1>1, InitInv, PTL DEF Spec

\* The order of frames in one step.
Ordered == \A s \in Streams : \A e \in sent[s], f \in sent'[s] \ sent[s] : Follows(e, f)

\* One frame more, for one stream.
LEMMA OneFrame ==
    ASSUME Inv, NEW s \in Streams, NEW f \in Row, Emit(s, f), \A e \in sent[s] : Follows(e, f)
    PROVE  Ordered
<1>1. /\ \A t \in Streams : t # s => sent'[t] = sent[t]
      /\ sent'[s] \subseteq sent[s] \cup {f}
  BY EmitFacts DEF Inv
<1> QED
  BY <1>1 DEF Ordered

LEMMA OrderedStep == ASSUME Inv, Next PROVE sent' = sent \/ Ordered
<1> USE DEF UnchangedByRuns, UnchangedByInserts, UnchangedByStreams
<1>1. ASSUME NEW r \in Runs, StartRun(r) \/ RunStep(r) \/ PostTimesOut(r) \/ CompletionFails(r)
      PROVE  sent' = sent
  BY <1>1 DEF StartRun, RunStep, PostTimesOut, CompletionFails, Produce, Finish, EngineErrs,
              EngineDies, LastFlush, FailChatJob, PostAnswered
<1>2. ASSUME NEW b \in Slots, InsertStep(b) \/ PostLost(b) PROVE sent' = sent
  BY <1>2 DEF InsertStep, PostLost, TakeIds, Commit
<1>3. ServerDies => sent' = sent
  BY DEF ServerDies
<1>4. ASSUME NEW s \in Streams, NEW k \in {"sse", "openai"}, Open(s, k) PROVE Ordered
  <2>1. sent[s] = {} /\ \A t \in Streams : t # s => sent'[t] = sent[t]
    BY <1>4 DEF Open, Inv, SentInv, StreamOK, TypeOK
  <2> QED
    BY <2>1 DEF Ordered
<1>5. ASSUME NEW s \in Streams, Joined(s) \/ ClientLeaves(s) \/ RealtimeDrops(s) PROVE sent' = sent
  BY <1>5 DEF Joined, ClientLeaves, RealtimeDrops
<1>6. ASSUME NEW s \in Streams, Deliver(s) PROVE sent' = sent \/ Ordered
  <2>1. PICK e \in Row : e = Head(inbox[s]) /\ st[s] = "tailing"
    BY <1>6, EvsTail DEF Deliver, Inv, TypeOK
  <2>2. CASE e.id > lastId[s]
    <3>1. Emit(s, e)
      BY <1>6, <2>1, <2>2 DEF Deliver
    <3>2. StreamOK(s) /\ lastId[s] \in Nat /\ e.id \in Nat /\ \A f \in sent[s] : f.id \in Nat
      BY DEF Inv, SentInv, TypeOK, Row
    <3>3. \A f \in sent[s] : Follows(f, e)
      BY <2>1, <2>2, <3>2 DEF StreamOK, Follows
    <3> QED
      BY <3>1, <3>3, OneFrame
  <2>3. CASE ~(e.id > lastId[s])
    BY <1>6, <2>1, <2>3 DEF Deliver
  <2> QED
    BY <2>2, <2>3
<1>7. ASSUME NEW s \in Streams, TimesOut(s) PROVE sent' = sent \/ Ordered
  <2>1. PICK f \in Row : f = Unstored("error", s, 0)
    BY Frames, ChatStreamAssumption DEF RowTypes, Final, Inv
  <2>2. sent' = sent \/ Emit(s, f)
    BY <1>7, <2>1 DEF TimesOut
  <2>3. \A e \in sent[s] : e.type \notin Final
    BY <1>7 DEF TimesOut, Inv, SentInv, StreamOK
  <2>4. \A e \in sent[s] : Follows(e, f)
    BY <2>1, <2>3 DEF Follows, Unstored, Stored
  <2> QED
    BY <2>2, <2>4, OneFrame
<1>8. ASSUME NEW s \in Streams, NimMeta(s) \/ NimToken(s) \/ NimDone(s) \/ NimErrs(s) \/ NimThrows(s)
      PROVE  sent' = sent \/ Ordered
  <2>1. /\ st[s] \in {"nim", "nimrun"} /\ TypeOK
        /\ 0 \in 0..Tokens /\ made[s] \in 0..Tokens /\ (made[s] < Tokens => made[s] + 1 \in 0..Tokens)
    BY <1>8, ChatStreamAssumption
       DEF NimMeta, NimToken, NimDone, NimErrs, NimEnds, NimThrows, Inv, TypeOK, Writers
  <2>2. ASSUME NEW type \in RowTypes, NEW upto \in 0..Tokens,
               NEW f \in {Stored(nextId, type, s, upto), Unstored(type, s, upto)}, Emit(s, f)
        PROVE  Ordered
    <3>1. f \in Row /\ f.id \in {0, nextId}
      BY <2>1, <2>2, Frames
    <3> QED
      BY <2>1, <2>2, <3>1, FrameFollows, OneFrame
  <2>3. CASE NimMeta(s)
    BY <2>1, <2>2, <2>3 DEF NimMeta, RowTypes
  <2>4. CASE NimToken(s)
    BY <2>1, <2>2, <2>4 DEF NimToken, RowTypes
  <2>5. CASE NimDone(s) \/ NimErrs(s)
    <3>1. PICK type \in Final, result \in {"completed", "failed"} : NimEnds(s, type, result)
      BY <2>5 DEF NimDone, NimErrs, Final
    <3>2. PICK upto \in 0..Tokens : upto = IF type = "done" THEN made[s] ELSE 0
      BY <2>1
    <3> QED
      BY <3>1, <3>2, <2>2 DEF NimEnds, RowTypes
  <2>6. CASE NimThrows(s)
    BY <2>1, <2>2, <2>6 DEF NimThrows, RowTypes, Final
  <2> QED
    BY <1>8, <2>3, <2>4, <2>5, <2>6
<1>9. ASSUME NEW s \in Streams, FinalizeJob(s) \/ FinalizeFails(s) PROVE sent' = sent \/ Ordered
  <2>1. Closing(s)
    BY <1>9 DEF FinalizeJob, FinalizeFails
  <2>2. CASE held[s] = {}
    BY <2>1, <2>2 DEF Closing
  <2>3. CASE held[s] # {}
    <3>1. PICK f \in held[s] : Emit(s, f)
      BY <2>1, <2>3 DEF Closing
    <3>2. f \in Row
      BY DEF Inv, TypeOK
    <3>3. \A e \in sent[s] : Follows(e, f)
      BY <2>1 DEF Closing, Inv, SentInv, StreamOK
    <3> QED
      BY <3>1, <3>2, <3>3, OneFrame
  <2> QED
    BY <2>2, <2>3
<1> QED
  BY <1>1, <1>2, <1>3, <1>4, <1>5, <1>6, <1>7, <1>8, <1>9 DEF Next, StreamStep

-----------------------------------------------------------------------------
(* Theorems. *)

\* Events, rows, batches and frames keep their shape.
THEOREM TypeCorrect == Spec => []TypeOK
<1>1. Inv => TypeOK
  BY DEF Inv
<1> QED
  BY <1>1, Invariance, PTL

(***************************************************************************)
(* Whatever late inserts, second runs and faults do to job_events, a       *)
(* client is shown stored events in the order of their ids, none twice,    *)
(* and nothing after a final one.                                          *)
(***************************************************************************)
THEOREM EventsInOrder == Spec => InOrder
<1>1. Inv /\ [Next]_vars => [Ordered]_sent
  <2>1. UNCHANGED vars => sent' = sent
    BY DEF vars
  <2> QED
    BY <2>1, OrderedStep
<1>2. Inv /\ [Next]_vars =>
        [\A s \in Streams : \A e \in sent[s], f \in sent'[s] \ sent[s] : Follows(e, f)]_sent
  BY <1>1 DEF Ordered
<1> QED
  BY <1>2, Invariance, PTL DEF Spec, InOrder

(***************************************************************************)
(* A done event that was shown holds the whole answer; without faults a    *)
(* stream of a job that is run once lacks only the rows of the gap before  *)
(* its subscription, and a NIM run's verdict has its row.                  *)
(***************************************************************************)
THEOREM NothingLost == Spec => []NothingElseIsLost
<1>1. Inv => NothingElseIsLost
  <2> SUFFICES ASSUME Inv PROVE NothingElseIsLost
    OBVIOUS
  <2>1. DoneIsWhole
    BY DEF Inv, DoneInv, Whole, DoneIsWhole
  <2>2. OnlyGapIsLost
    <3>1. ASSUME faults = 0, RunOnce, NEW s \in Streams \ gone, NEW e \in rows,
                 source = "p2p", e.id <= lastId[s]
          PROVE  e \in missed[s] \cup sent[s]
      <4>1. Shown(s)
        BY <3>1 DEF Inv, GapInv
      <4>2. e.id \in Nat /\ lastId[s] \in Nat
        BY <3>1 DEF Inv, TypeOK, Row
      <4> QED
        BY <3>1, <4>1, <4>2 DEF Shown
    <3> QED
      BY <3>1 DEF OnlyGapIsLost
  <2>3. VerdictHasRow
    BY DEF Inv, VerdictInv, VerdictHasRow
  <2> QED
    BY <2>1, <2>2, <2>3 DEF NothingElseIsLost, Inv
<1> QED
  BY <1>1, Invariance, PTL

=============================================================================
