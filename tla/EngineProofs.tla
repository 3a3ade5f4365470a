---------------------------- MODULE EngineProofs ----------------------------
(***************************************************************************)
(* What Engine guarantees for any number of jobs, children, tokens and     *)
(* faults: the invariant that ties what a job has read to what is queued   *)
(* for it, to what is still in the child's pipe and to what the engine     *)
(* said.                                                                   *)
(***************************************************************************)
EXTENDS Engine, TLAPS

Early == {"idle", "starting", "ready"}
Reading == {"waiting", "handling"}
Taken(got, vals) == Len(got) + Len(vals)
Received(r) == Taken(r.got, r.vals)

\* The engine numbers a job's events, and says nothing after the last one.
SaidOK(s, j) ==
    /\ \A k \in 1..Len(s) : s[k].at = k /\ s[k].id = j
    /\ \A k \in 1..Len(s) - 1 : ~Over(s[k])

\* What a job has read, and what is queued for it, is what the engine said.
ReadsSaid(got, vals, s) ==
    /\ Taken(got, vals) <= Len(s)
    /\ \A k \in 1..Len(got) : got[k] = s[k]
    /\ \A k \in 1..Len(vals) : vals[k] = s[Len(got) + k]

\* A queue is ended by the last event, and a reader is in step with it.
QueueOK(r, s) ==
    /\ r.pc \in Early => /\ r.queue = "open" /\ r.got = <<>> /\ r.vals = <<>>
                         /\ s = <<>>
    /\ r.pc \in {"idle", "starting"} => r.from = "none"
    /\ r.pc = "waiting" => r.queue = "open" /\ r.vals = <<>>
    /\ r.pc = "handling" => r.got # <<>>
    /\ r.queue = "ended" => Len(s) > 0 /\ Received(r) = Len(s) /\ Over(s[Len(s)])
    /\ r.pc = "done" => /\ r.queue = "ended" /\ r.vals = <<>>
                        /\ r.got # <<>> /\ r.got[Len(r.got)].type = "done"

\* A backend without a child has queued all it said.
ServedOK(r, s) ==
    r.from \in {"stub", "http"} /\ r.queue = "open" /\ r.pc \in Reading =>
        /\ Received(r) = Len(s)
        /\ \A k \in 1..Len(s) : ~Over(s[k])

ReaderOK(r, s, j) == SaidOK(s, j) /\ ReadsSaid(r.got, r.vals, s) /\ QueueOK(r, s)
JobOK(r, s, j) == ReaderOK(r, s, j) /\ ServedOK(r, s)

\* The lines for j in the pipe p of child c continue what j has been given.
PipeOK(p, c, r, s, j) ==
    /\ \A i \in 1..Len(p) : p[i].id = j =>
          r.from = c /\ p[i].at \in 1..Len(s) /\ p[i] = s[p[i].at]
    /\ \A i, k \in 1..Len(p) : i < k /\ p[i].id = j /\ p[k].id = j => p[i].at < p[k].at

StreamOK(p, c, r, s, j) ==
    /\ r.pc \in Reading /\ r.queue = "open" /\ r.from = c
    /\ \A k \in 1..Received(r) : ~Over(s[k])
    /\ \A i \in 1..Len(p) : p[i].id = j => p[i].at > Received(r)
    /\ \A n \in Received(r) + 1..Len(s) : \E i \in 1..Len(p) : p[i].id = j /\ p[i].at = n

\* The lines for j in p are what was said after the n-th event.
Follows(p, n, s, j) ==
    /\ \A i \in 1..Len(p) : p[i].id = j => p[i].at > n
    /\ \A m \in n + 1..Len(s) : \E i \in 1..Len(p) : p[i].id = j /\ p[i].at = m

AskedOK(c, r, s) ==
    /\ r.from = c /\ r.pc \notin Early
    /\ \A k \in 1..Len(s) : ~Over(s[k])

ChildOK(k, c, r, s, j) ==
    /\ PipeOK(k.pipe, c, r, s, j)
    /\ j \in k.streams => StreamOK(k.pipe, c, r, s, j)
    /\ j \in k.asked => AskedOK(c, r, s)

\* A start that is pending is the promise's; a promise that is ready has its engine.
StartInv ==
    /\ \A c \in Children : child[c].ready = "pending" => promise = "pending" /\ cur = c
    /\ promise = "ready" => backend # "none" /\ (backend = "mojo" => cur \in Children)
    /\ daemon = "draining" => promise = "ready"

\* While the daemon is up the promise's child is the only one that serves.
SharedInv ==
    daemon = "up" =>
        \A j \in Jobs : job[j].from \in Children =>
           promise = "ready" /\ backend = "mojo" /\ cur = job[j].from

Jobs_OK == \A j \in Jobs : JobOK(job[j], said[j], j)
Children_OK == \A c \in Children, j \in Jobs : ChildOK(child[c], c, job[j], said[j], j)

TypeInv == TypeOK /\ StartInv

IInv == TypeInv /\ SharedInv /\ Jobs_OK /\ Children_OK

-----------------------------------------------------------------------------
(***************************************************************************)
(* Types.                                                                  *)
(***************************************************************************)
LEMMA AtType ==
  ASSUME NEW r \in JobRecord, NEW pc \in {"idle", "starting", "ready", "waiting", "handling",
                                          "done", "failed"}
  PROVE  /\ At(r, pc) \in JobRecord /\ At(r, pc).pc = pc
         /\ At(r, pc).from = r.from /\ At(r, pc).queue = r.queue
         /\ At(r, pc).vals = r.vals /\ At(r, pc).got = r.got
  BY DEF At, JobRecord

LEMMA WithType ==
  ASSUME NEW r \in JobRecord, NEW from \in {"none", "stub", "http"} \cup Children
  PROVE  /\ With(r, from) \in JobRecord /\ With(r, from).pc = "ready"
         /\ With(r, from).from = from /\ With(r, from).queue = r.queue
         /\ With(r, from).vals = r.vals /\ With(r, from).got = r.got
<1>. DEFINE a == At(r, "ready")
<1>1. /\ a \in JobRecord /\ a.pc = "ready" /\ a.queue = r.queue
      /\ a.vals = r.vals /\ a.got = r.got
  BY AtType
<1>. HIDE DEF a
<1>2. /\ [a EXCEPT !.from = from] \in JobRecord
      /\ [a EXCEPT !.from = from].pc = a.pc /\ [a EXCEPT !.from = from].queue = a.queue
      /\ [a EXCEPT !.from = from].vals = a.vals /\ [a EXCEPT !.from = from].got = a.got
      /\ [a EXCEPT !.from = from].from = from
  BY <1>1 DEF JobRecord
<1>. QED  BY <1>1, <1>2 DEF With, a

LEMMA SeqType ==
  ASSUME NEW r \in JobRecord, NEW q \in Seq(Event)
  PROVE  /\ LET g == [r EXCEPT !.got = q]
            IN  /\ g \in JobRecord /\ g.pc = r.pc /\ g.from = r.from /\ g.queue = r.queue
                /\ g.vals = r.vals /\ g.got = q
         /\ LET v == [r EXCEPT !.vals = q]
            IN  /\ v \in JobRecord /\ v.pc = r.pc /\ v.from = r.from /\ v.queue = r.queue
                /\ v.got = r.got /\ v.vals = q
  BY DEF JobRecord

LEMMA TakesType ==
  ASSUME NEW r \in JobRecord, NEW e \in Event
  PROVE  /\ Takes(r, e) \in JobRecord /\ Takes(r, e).pc = "handling"
         /\ Takes(r, e).from = r.from /\ Takes(r, e).queue = r.queue
         /\ Takes(r, e).vals = r.vals /\ Takes(r, e).got = Append(r.got, e)
<1>. DEFINE g == [r EXCEPT !.got = Append(@, e)]
<1>1. /\ g \in JobRecord /\ g.pc = r.pc /\ g.from = r.from /\ g.queue = r.queue
      /\ g.vals = r.vals /\ g.got = Append(r.got, e)
  <2>1. Append(r.got, e) \in Seq(Event)
    BY DEF JobRecord
  <2>. QED  BY <2>1, SeqType
<1>. HIDE DEF g
<1>2. At(g, "handling") \in JobRecord /\ Takes(r, e) = At(g, "handling")
  BY <1>1, AtType DEF Takes, g
<1>. QED  BY <1>1, <1>2, AtType

LEMMA QueuedType ==
  ASSUME NEW r \in JobRecord, NEW e \in Event
  PROVE  /\ Queued(r, e) \in JobRecord /\ Queued(r, e).pc = r.pc
         /\ Queued(r, e).from = r.from /\ Queued(r, e).queue = r.queue
         /\ Queued(r, e).vals = Append(r.vals, e) /\ Queued(r, e).got = r.got
<1>1. Append(r.vals, e) \in Seq(Event)
  BY DEF JobRecord
<1>. QED  BY <1>1, SeqType DEF Queued

LEMMA ClosedType ==
  ASSUME NEW r \in JobRecord, NEW how \in {"ended", "failed"}
  PROVE  /\ Closed(r, how) \in JobRecord /\ Closed(r, how).pc = r.pc
         /\ Closed(r, how).from = r.from /\ Closed(r, how).queue = how
         /\ Closed(r, how).vals = r.vals /\ Closed(r, how).got = r.got
  BY DEF Closed, JobRecord

LEMMA TailType ==
  ASSUME NEW r \in JobRecord, r.vals # <<>>
  PROVE  LET t == [r EXCEPT !.vals = Tail(@)]
         IN  /\ t \in JobRecord /\ t.pc = r.pc /\ t.from = r.from /\ t.queue = r.queue
             /\ t.vals = Tail(r.vals) /\ t.got = r.got
  BY SMTT(40) DEF JobRecord

\* What a push does to a queue that is open.
LEMMA PushedType ==
  ASSUME NEW r \in JobRecord, NEW e \in Event
  PROVE  /\ Pushed(r, e) \in JobRecord
         /\ Pushed(r, e).from = r.from /\ Pushed(r, e).queue = r.queue
         /\ r.queue # "open" => Pushed(r, e) = r
         /\ r.queue = "open" /\ r.pc = "waiting" =>
              /\ Pushed(r, e).pc = "handling"
              /\ Pushed(r, e).got = Append(r.got, e) /\ Pushed(r, e).vals = r.vals
         /\ r.queue = "open" /\ r.pc # "waiting" =>
              /\ Pushed(r, e).pc = r.pc
              /\ Pushed(r, e).got = r.got /\ Pushed(r, e).vals = Append(r.vals, e)
  BY TakesType, QueuedType DEF Pushed

LEMMA EndedType ==
  ASSUME NEW r \in JobRecord
  PROVE  /\ Ended(r) \in JobRecord
         /\ Ended(r).from = r.from /\ Ended(r).got = r.got /\ Ended(r).vals = r.vals
         /\ r.queue # "open" => Ended(r) = r
         /\ r.queue = "open" => /\ Ended(r).queue = "ended"
                                /\ Ended(r).pc = IF r.pc = "waiting" THEN "done" ELSE r.pc
  BY AtType, ClosedType DEF Ended

LEMMA FailedType ==
  ASSUME NEW r \in JobRecord
  PROVE  /\ Failed(r) \in JobRecord
         /\ Failed(r).from = r.from /\ Failed(r).got = r.got /\ Failed(r).vals = r.vals
         /\ r.queue # "open" => Failed(r) = r
         /\ r.queue = "open" => /\ Failed(r).queue = "failed"
                                /\ Failed(r).pc = IF r.pc = "waiting" THEN "failed" ELSE r.pc
  BY AtType, ClosedType DEF Failed

LEMMA AskedType ==
  ASSUME NEW r \in JobRecord
  PROVE  /\ Asked(r) \in JobRecord
         /\ Asked(r).from = r.from /\ Asked(r).queue = r.queue
         /\ r.vals # <<>> => /\ Asked(r).pc = "handling"
                             /\ Asked(r).got = Append(r.got, Head(r.vals))
                             /\ Asked(r).vals = Tail(r.vals)
         /\ r.vals = <<>> => /\ Asked(r).pc = IF r.queue = "open" THEN "waiting"
                                              ELSE IF r.queue = "ended" THEN "done" ELSE "failed"
                             /\ Asked(r).got = r.got /\ Asked(r).vals = r.vals
<1>1. CASE r.vals = <<>>
  BY <1>1, AtType DEF Asked
<1>2. CASE r.vals # <<>>
  <2>. DEFINE t == [r EXCEPT !.vals = Tail(@)]
  <2>1. /\ t \in JobRecord /\ t.from = r.from /\ t.queue = r.queue
        /\ t.vals = Tail(r.vals) /\ t.got = r.got
    BY <1>2, TailType
  <2>2. Head(r.vals) \in Event
    BY <1>2 DEF JobRecord
  <2>3. Asked(r) = Takes(t, Head(r.vals))
    BY <1>2 DEF Asked
  <2>. HIDE DEF t
  <2>. QED  BY <1>2, <2>1, <2>2, <2>3, TakesType
<1>. QED  BY <1>1, <1>2

LEMMA GivenType ==
  ASSUME NEW r \in JobRecord, NEW e \in Event
  PROVE  Given(r, e) \in JobRecord /\ Given(r, e).from = r.from
  BY PushedType, EndedType DEF Given

LEMMA NextEventType ==
  ASSUME TypeOK, NEW j \in Jobs
  PROVE  /\ NextEvent(j, "error") \in Event /\ NextEvent(j, "done") \in Event
         /\ Regular(j) \in Event
<1>1. said[j] \in Seq(Event)
  BY DEF TypeOK
<1>. QED  BY <1>1 DEF NextEvent, Regular, Event

-----------------------------------------------------------------------------
(***************************************************************************)
(* What each step does to the child's record.                              *)
(***************************************************************************)

\* Same pipe, same requests, same streams.
SameTraffic(m, k) == m.pipe = k.pipe /\ m.asked = k.asked /\ m.streams = k.streams

LEMMA SpawnedType ==
  ASSUME NEW k \in ChildRecord, NEW os \in {"loading", "absent"}
  PROVE  Spawned(k, os) \in ChildRecord /\ SameTraffic(Spawned(k, os), k)
  BY DEF Spawned, ChildRecord, SameTraffic

LEMMA SettledType ==
  ASSUME NEW k \in ChildRecord
  PROVE  Settled(k) \in ChildRecord /\ SameTraffic(Settled(k), k) /\ Settled(k).ready = "settled"
  BY DEF Settled, ChildRecord, SameTraffic

LEMMA UpType ==
  ASSUME NEW k \in ChildRecord
  PROVE  Up(k) \in ChildRecord /\ SameTraffic(Up(k), k) /\ Up(k).ready = k.ready
  BY DEF Up, ChildRecord, SameTraffic

LEMMA ToldType ==
  ASSUME NEW k \in ChildRecord
  PROVE  Told(k) \in ChildRecord /\ SameTraffic(Told(k), k) /\ Told(k).ready = k.ready
  BY DEF Told, ChildRecord, SameTraffic

LEMMA GoneType ==
  ASSUME NEW k \in ChildRecord
  PROVE  /\ Gone(k) \in ChildRecord /\ Gone(k).ready = k.ready
         /\ Gone(k).pipe = k.pipe /\ Gone(k).streams = k.streams /\ Gone(k).asked = {}
  BY DEF Gone, ChildRecord

LEMMA DesertedType ==
  ASSUME NEW k \in ChildRecord
  PROVE  /\ Deserted(k) \in ChildRecord /\ Deserted(k).ready = k.ready
         /\ Deserted(k).pipe = k.pipe /\ Deserted(k).streams = {} /\ Deserted(k).asked = k.asked
  BY DEF Deserted, ChildRecord

LEMMA ServedType ==
  ASSUME NEW k \in ChildRecord, NEW j \in Jobs
  PROVE  /\ Served(k, j) \in ChildRecord /\ Served(k, j).ready = k.ready
         /\ Served(k, j).pipe = k.pipe /\ Served(k, j).streams = k.streams
         /\ Served(k, j).asked = k.asked \ {j}
  BY DEF Served, ChildRecord

LEMMA ForgetsType ==
  ASSUME NEW k \in ChildRecord, NEW j \in Jobs
  PROVE  /\ Forgets(k, j) \in ChildRecord /\ Forgets(k, j).ready = k.ready
         /\ Forgets(k, j).pipe = k.pipe /\ Forgets(k, j).streams = k.streams \ {j}
         /\ Forgets(k, j).asked = k.asked
  BY DEF Forgets, ChildRecord

LEMMA RequestedType ==
  ASSUME NEW k \in ChildRecord, NEW j \in Jobs
  PROVE  /\ Requested(k, j) \in ChildRecord /\ Requested(k, j).ready = k.ready
         /\ Requested(k, j).pipe = k.pipe
         /\ Requested(k, j).streams = k.streams \cup {j}
         /\ Requested(k, j).asked \in {k.asked, k.asked \cup {j}}
<1>. DEFINE a == IF k.os = "exited" THEN k.asked ELSE k.asked \cup {j}
<1>1. a \in SUBSET Jobs /\ k.streams \cup {j} \in SUBSET Jobs /\ a \in {k.asked, k.asked \cup {j}}
  BY DEF ChildRecord
<1>. HIDE DEF a
<1>2. [k EXCEPT !.streams = @ \cup {j}, !.asked = a] \in ChildRecord
  BY <1>1 DEF ChildRecord
<1>3. Requested(k, j) = [k EXCEPT !.streams = @ \cup {j}, !.asked = a]
  BY DEF Requested, a
<1>. QED  BY <1>1, <1>2, <1>3 DEF ChildRecord

LEMMA PipeType ==
  ASSUME NEW k \in ChildRecord, NEW q \in Seq(Line)
  PROVE  LET m == [k EXCEPT !.pipe = q]
         IN  /\ m \in ChildRecord /\ m.ready = k.ready
             /\ m.pipe = q /\ m.asked = k.asked /\ m.streams = k.streams
  BY DEF ChildRecord

LEMMA WroteType ==
  ASSUME NEW k \in ChildRecord, NEW l \in Line
  PROVE  /\ Wrote(k, l) \in ChildRecord /\ Wrote(k, l).ready = k.ready
         /\ Wrote(k, l).pipe = Append(k.pipe, l)
         /\ Wrote(k, l).asked = k.asked /\ Wrote(k, l).streams = k.streams
<1>1. Append(k.pipe, l) \in Seq(Line)
  BY DEF ChildRecord
<1>. QED  BY <1>1, PipeType DEF Wrote

LEMMA ReadType ==
  ASSUME NEW k \in ChildRecord, k.pipe # <<>>
  PROVE  /\ Read(k) \in ChildRecord /\ Read(k).ready = k.ready
         /\ Read(k).pipe = Tail(k.pipe) /\ Head(k.pipe) \in Line
         /\ Read(k).asked = k.asked /\ Read(k).streams = k.streams
<1>1. Tail(k.pipe) \in Seq(Line) /\ Head(k.pipe) \in Line
  BY DEF ChildRecord
<1>. QED  BY <1>1, PipeType DEF Read

LEMMA LineType ==
  /\ EngineLine("ready") \in Line /\ EngineLine("error") \in Line
  /\ Event \subseteq Line
  /\ \A l \in Line : l.id # Null => l \in Event /\ l.id \in Jobs
  BY EngineAssumption DEF EngineLine, Line, Event

-----------------------------------------------------------------------------
(***************************************************************************)
(* Type correctness.                                                       *)
(***************************************************************************)
LEMMA TypeInit == Init => TypeInv
<1>1. NoChild \in ChildRecord /\ NoChild.ready = "unset"
  BY DEF NoChild, ChildRecord
<1>2. [pc |-> "idle", from |-> "none", queue |-> "open", vals |-> <<>>, got |-> <<>>]
        \in JobRecord
  BY DEF JobRecord
<1>3. ASSUME Init PROVE TypeOK
  <2>1. faults \in 0..MaxFaults
    BY <1>3, EngineAssumption DEF Init
  <2>2. server \in BOOLEAN
    BY <1>3 DEF Init
  <2>. QED  BY <1>1, <1>2, <1>3, <2>1, <2>2 DEF Init, TypeOK
<1>4. ASSUME Init PROVE StartInv
  BY <1>1, <1>4 DEF Init, StartInv
<1>. QED  BY <1>3, <1>4 DEF TypeInv

LEMMA FaultType == TypeOK /\ Fault => faults' \in 0..MaxFaults
  BY EngineAssumption DEF TypeOK, Fault

\* Every job that waits for the engine is told the same.
LEMMA SettleTypes ==
  ASSUME TypeOK, NEW from \in {"stub", "http"} \cup Children
  PROVE  Resolved(from) \in [Jobs -> JobRecord] /\ Rejected \in [Jobs -> JobRecord]
  BY WithType, AtType DEF TypeOK, Resolved, Rejected

LEMMA TypeStart ==
  ASSUME TypeInv,
         (\E j \in Jobs : AskEngine(j)) \/ UseServer \/ UseStub \/ NoServer \/ Spawn
  PROVE  TypeInv'
<1>. USE EngineAssumption DEF TypeInv, TypeOK, StartInv
<1>1. ASSUME NEW j \in Jobs, AskEngine(j) PROVE TypeInv'
  <2>1. PICK r \in JobRecord : job' = [job EXCEPT ![j] = r]
    <3>1. CASE promise = "ready"
      <4>1. (IF backend = "mojo" THEN cur ELSE backend) \in {"none", "stub", "http"} \cup Children
        BY <3>1
      <4>. QED  BY <1>1, <3>1, <4>1, WithType DEF AskEngine
    <3>2. CASE promise # "ready"
      <4>1. job' = [job EXCEPT ![j] = At(job[j], "starting")]
        BY <1>1, <3>2 DEF AskEngine
      <4>. QED  BY <4>1, AtType
    <3>. QED  BY <3>1, <3>2
  <2>2. UNCHANGED <<config, server, daemon, backend, child, said, faults>>
    BY <1>1 DEF AskEngine
  <2>3. \/ promise' = "ready" /\ promise = "ready" /\ cur' = cur
        \/ promise' = "pending" /\ promise = "pending" /\ cur' = cur
        \/ promise' = "pending" /\ promise = "none" /\ cur' = Null
    BY <1>1 DEF AskEngine
  <2>. QED  BY <2>1, <2>2, <2>3
<1>2. CASE UseServer \/ UseStub \/ NoServer
  <2>1. job' \in [Jobs -> JobRecord]
    BY <1>2, SettleTypes DEF UseServer, UseStub, NoServer
  <2>2. \A c \in Children : child[c].ready # "pending"
    BY <1>2 DEF UseServer, UseStub, NoServer
  <2>. QED  BY <1>2, <2>1, <2>2 DEF UseServer, UseStub, NoServer
<1>3. CASE Spawn
  <2>1. PICK c \in Children, os \in {"loading", "absent"} :
          /\ cur' = c
          /\ child' = [child EXCEPT ![c] = Spawned(@, os)]
          /\ UNCHANGED faults \/ Fault
    BY <1>3 DEF Spawn, Unborn
  <2>2. faults' \in 0..MaxFaults
    BY <2>1, FaultType
  <2>3. child' \in [Children -> ChildRecord]
    BY <2>1, SpawnedType
  <2>4. \A d \in Children : child'[d].ready = "pending" => d = c
    BY <1>3, <2>1 DEF Spawn
  <2>. QED  BY <1>3, <2>1, <2>2, <2>3, <2>4 DEF Spawn
<1>. QED  BY <1>1, <1>2, <1>3

\* A step of the child changes its record and, if it says something, `said`.
LEMMA TypeChild ==
  ASSUME TypeInv, NEW c \in Children,
         \/ ChildReady(c) \/ ChildBabbles(c) \/ ChildExits(c)
         \/ \E j \in Jobs : ChildAnswers(c, j) \/ ChildRefuses(c, j)
  PROVE  TypeInv'
<1>. USE DEF TypeInv, TypeOK, StartInv
<1>1. faults' \in 0..MaxFaults
  BY FaultType DEF ChildReady, ChildBabbles, ChildExits, ChildAnswers, ChildRefuses
<1>2. UNCHANGED external
  BY DEF ChildReady, ChildBabbles, ChildExits, ChildAnswers, ChildRefuses, ChildSays, external
<1>3. /\ said' \in [Jobs -> Seq(Event)]
      /\ \E k \in ChildRecord : child' = [child EXCEPT ![c] = k] /\ k.ready = child[c].ready
  <2>1. CASE ChildReady(c)
    <3>. DEFINE w == Wrote(child[c], EngineLine("ready"))
    <3>1. w \in ChildRecord /\ w.ready = child[c].ready
      BY LineType, WroteType
    <3>2. child' = [child EXCEPT ![c] = Up(w)] /\ UNCHANGED said
      BY <2>1 DEF ChildReady
    <3>. HIDE DEF w
    <3>. QED  BY <3>1, <3>2, UpType
  <2>2. CASE ChildBabbles(c)
    BY <2>2, LineType, WroteType DEF ChildBabbles
  <2>3. CASE ChildExits(c)
    BY <2>3, GoneType DEF ChildExits
  <2>4. ASSUME NEW j \in Jobs, ChildAnswers(c, j) \/ ChildRefuses(c, j)
        PROVE  /\ said' \in [Jobs -> Seq(Event)]
               /\ \E k \in ChildRecord : child' = [child EXCEPT ![c] = k] /\ k.ready = child[c].ready
    <3>1. PICK e \in Event : ChildSays(c, j, e)
      BY <2>4, NextEventType DEF ChildAnswers, ChildRefuses
    <3>2. e \in Line
      BY LineType
    <3>3. said' \in [Jobs -> Seq(Event)]
      <4>1. Append(said[j], e) \in Seq(Event)
        OBVIOUS
      <4>. QED  BY <3>1, <4>1 DEF ChildSays
    <3>. DEFINE w == Wrote(child[c], e)
    <3>4. w \in ChildRecord /\ w.ready = child[c].ready
      BY <3>2, WroteType
    <3>5. child' = [child EXCEPT ![c] = Served(w, j)] \/ child' = [child EXCEPT ![c] = w]
      BY <3>1 DEF ChildSays
    <3>. HIDE DEF w
    <3>. QED  BY <3>3, <3>4, <3>5, ServedType
  <2>. QED  BY <2>1, <2>2, <2>3, <2>4
<1>. QED  BY <1>1, <1>2, <1>3 DEF external

\* What the daemon's loop learns of the child.
LEMMA TypeLoop ==
  ASSUME TypeInv, NEW c \in Children, ChildError(c) \/ Stdout(c) \/ ExitEvent(c)
  PROVE  TypeInv'
<1>. USE DEF TypeInv, TypeOK, StartInv
<1>1. CASE ChildError(c)
  <2>1. job' \in [Jobs -> JobRecord]
    BY <1>1, SettleTypes DEF ChildError, Rejects
  <2>2. Settled(child[c]) \in ChildRecord /\ Settled(child[c]).ready = "settled"
    BY SettledType
  <2>. QED  BY <1>1, <2>1, <2>2 DEF ChildError, Rejects
<1>2. CASE Stdout(c)
  <2>. DEFINE line == Head(child[c].pipe)
              k == Read(child[c])
  <2>1. k \in ChildRecord /\ k.ready = child[c].ready /\ line \in Line
    BY <1>2, ReadType DEF Stdout
  <2>2. /\ Settled(k) \in ChildRecord /\ Settled(k).ready = "settled"
    BY <2>1, SettledType
  <2>3. CASE /\ child' = [child EXCEPT ![c] = Settled(k)]
             /\ child[c].ready = "pending"
             /\ promise' = "ready" /\ backend' = "mojo" /\ job' = Resolved(c)
    BY <1>2, <2>2, <2>3, SettleTypes DEF Stdout
  <2>4. CASE /\ child' = [child EXCEPT ![c] = Settled(k)]
             /\ child[c].ready = "pending"
             /\ Rejects(c) /\ UNCHANGED backend
    BY <1>2, <2>2, <2>4, SettleTypes DEF Stdout, Rejects
  <2>5. CASE child' = [child EXCEPT ![c] = k] /\ UNCHANGED <<promise, backend, job>>
    BY <1>2, <2>1, <2>5 DEF Stdout
  <2>6. CASE /\ line.id \in child[c].streams
             /\ child' = [child EXCEPT ![c] = IF Over(line) THEN Forgets(k, line.id) ELSE k]
             /\ job' = [job EXCEPT ![line.id] = Given(@, line)]
             /\ UNCHANGED <<promise, backend>>
    <3>1. line.id \in Jobs /\ line \in Event
      <4>1. child[c].streams \subseteq Jobs
        BY DEF ChildRecord
      <4>. QED  BY <2>1, <2>6, <4>1, LineType, EngineAssumption
    <3>2. Given(job[line.id], line) \in JobRecord
      BY <3>1, GivenType
    <3>3. Forgets(k, line.id) \in ChildRecord /\ Forgets(k, line.id).ready = child[c].ready
      BY <2>1, <3>1, ForgetsType
    <3>. HIDE DEF k, line
    <3>. QED  BY <1>2, <2>1, <2>6, <3>1, <3>2, <3>3 DEF Stdout
  <2>. QED  BY <1>2, <2>3, <2>4, <2>5, <2>6 DEF Stdout
<1>3. CASE ExitEvent(c)
  <2>1. job' \in [Jobs -> JobRecord]
    BY <1>3, FailedType, AtType DEF ExitEvent
  <2>2. /\ Settled(Deserted(child[c])) \in ChildRecord
        /\ Settled(Deserted(child[c])).ready = "settled"
    BY DesertedType, SettledType
  <2>3. daemon' \in {"up", "stopping", "draining", "leaving", "dead"}
    BY <1>3 DEF ExitEvent
  <2>4. promise' \in {"none", promise}
    BY <1>3 DEF ExitEvent
  <2>5. child[c].ready = "pending" => promise' = "none"
    BY <1>3 DEF ExitEvent
  <2>6. /\ child' = [child EXCEPT ![c] = Settled(Deserted(child[c]))]
        /\ UNCHANGED <<config, server, backend, cur, said, faults>>
    BY <1>3 DEF ExitEvent
  <2>7. ASSUME NEW d \in Children, child'[d].ready = "pending"
        PROVE  promise' = "pending" /\ cur' = d
    <3>1. d # c /\ child[d].ready = "pending"
      BY <2>2, <2>6, <2>7
    <3>2. promise = "pending" /\ cur = d
      BY <3>1
    <3>3. ~(daemon = "draining" /\ cur = c) /\ child[c].ready # "pending"
      BY <3>1, <3>2
    <3>. QED  BY <1>3, <3>2, <3>3 DEF ExitEvent
  <2>8. promise' = "ready" => promise = "ready"
    BY <2>4
  <2>9. ASSUME daemon' = "draining" PROVE promise' = "ready"
    <3>1. daemon = "draining" /\ cur # c
      BY <1>3, <2>9 DEF ExitEvent
    <3>2. promise = "ready" /\ child[c].ready # "pending"
      BY <3>1
    <3>. QED  BY <1>3, <3>1, <3>2 DEF ExitEvent
  <2>. QED  BY <2>1, <2>2, <2>3, <2>4, <2>6, <2>7, <2>8, <2>9
<1>. QED  BY <1>1, <1>2, <1>3

\* The jobs, and the backends that run in the process.
LEMMA TypeJob ==
  ASSUME TypeInv, NEW j \in Jobs,
         \/ Generate(j) \/ Handled(j)
         \/ StubProduces(j) \/ ServerAnswers(j) \/ ServerFails(j)
  PROVE  TypeInv'
<1>. USE DEF TypeInv, TypeOK, StartInv
<1>1. CASE Generate(j)
  <2>1. job' \in [Jobs -> JobRecord]
    BY <1>1, AtType, AskedType DEF Generate
  <2>2. \/ UNCHANGED child
        \/ \E c \in Children : child' = [child EXCEPT ![c] = Requested(child[c], j)]
    BY <1>1 DEF Generate
  <2>3. daemon' \in {daemon, "dead"} /\ UNCHANGED <<config, server, promise, backend, cur, said, faults>>
    BY <1>1 DEF Generate
  <2>4. \A c \in Children : Requested(child[c], j) \in ChildRecord
                            /\ Requested(child[c], j).ready = child[c].ready
    BY RequestedType
  <2>. QED  BY <2>1, <2>2, <2>3, <2>4
<1>2. CASE Handled(j)
  <2>1. job' \in [Jobs -> JobRecord]
    BY <1>2, AtType, AskedType DEF Handled
  <2>. QED  BY <1>2, <2>1 DEF Handled
<1>3. CASE StubProduces(j) \/ ServerAnswers(j) \/ ServerFails(j)
  <2>1. PICK e \in Event : Produce(j, e)
    BY <1>3, NextEventType DEF StubProduces, ServerAnswers, ServerFails
  <2>2. faults' \in 0..MaxFaults
    BY <1>3, FaultType DEF StubProduces, ServerAnswers, ServerFails
  <2>3. Append(said[j], e) \in Seq(Event) /\ Given(job[j], e) \in JobRecord
    BY GivenType
  <2>. QED  BY <2>1, <2>2, <2>3 DEF Produce
<1>. QED  BY <1>1, <1>2, <1>3

\* The server's comings and goings, and the daemon's shutdown.
LEMMA TypeEnd ==
  ASSUME TypeInv,
         \/ ServerGoes \/ ServerComes
         \/ Signal \/ ShutdownEngine \/ DrainTimesOut \/ Leave
  PROVE  TypeInv'
<1>. USE DEF TypeInv, TypeOK, StartInv
<1>1. CASE ServerGoes \/ ServerComes
  BY <1>1, FaultType DEF ServerGoes, ServerComes
<1>2. CASE Signal \/ Leave
  BY <1>2 DEF Signal, Leave
<1>3. CASE DrainTimesOut
  <2>1. \A c \in Children : child[c].ready = "pending" => promise = "pending"
    OBVIOUS
  <2>. QED  BY <1>3, <2>1 DEF DrainTimesOut
<1>4. CASE ShutdownEngine
  <2>1. \/ UNCHANGED child
        \/ cur \in Children /\ child' = [child EXCEPT ![cur] = Told(child[cur])]
    BY <1>4 DEF ShutdownEngine, HasChild
  <2>2. \A c \in Children : Told(child[c]) \in ChildRecord /\ Told(child[c]).ready = child[c].ready
    BY ToldType
  <2>. QED  BY <1>4, <2>1, <2>2 DEF ShutdownEngine
<1>. QED  BY <1>1, <1>2, <1>3, <1>4
-----------------------------------------------------------------------------
(***************************************************************************)
(* What each step does to a job, its queue and what was said for it.       *)
(***************************************************************************)

\* Sequences: an event that is read at once, one that is queued, one that is taken.
LEMMA ReadNext ==
  ASSUME NEW g \in Seq(Event), NEW v \in Seq(Event), NEW s \in Seq(Event), NEW e \in Event,
         ReadsSaid(g, v, s), Len(v) = 0, Taken(g, v) < Len(s), e = s[Taken(g, v) + 1]
  PROVE  /\ ReadsSaid(Append(g, e), v, s) /\ Append(g, e) # <<>>
         /\ Taken(Append(g, e), v) = Taken(g, v) + 1
<1>. DEFINE h == Append(g, e)
<1>1. Len(h) = Len(g) + 1 /\ h[Len(g) + 1] = e /\ \A k \in 1..Len(g) : h[k] = g[k]
  OBVIOUS
<1>2. Len(g) \in Nat /\ Len(s) \in Nat /\ h # <<>>
  BY SMTT(40)
<1>. HIDE DEF h
<1>. QED  BY <1>1, <1>2 DEF ReadsSaid, Taken, h

LEMMA QueueNext ==
  ASSUME NEW g \in Seq(Event), NEW v \in Seq(Event), NEW s \in Seq(Event), NEW e \in Event,
         ReadsSaid(g, v, s), Taken(g, v) < Len(s), e = s[Taken(g, v) + 1]
  PROVE  /\ ReadsSaid(g, Append(v, e), s)
         /\ Taken(g, Append(v, e)) = Taken(g, v) + 1
<1>. DEFINE h == Append(v, e)
<1>1. Len(h) = Len(v) + 1 /\ h[Len(v) + 1] = e /\ \A k \in 1..Len(v) : h[k] = v[k]
  OBVIOUS
<1>2. Len(g) \in Nat /\ Len(v) \in Nat /\ Len(s) \in Nat
  OBVIOUS
<1>. HIDE DEF h
<1>3. Taken(g, h) = Taken(g, v) + 1 /\ Taken(g, v) = Len(g) + Len(v)
  BY <1>1, <1>2 DEF Taken
<1>4. ASSUME NEW k \in 1..Len(h) PROVE h[k] = s[Len(g) + k]
  <2>1. CASE k \in 1..Len(v)
    BY <1>1, <2>1 DEF ReadsSaid
  <2>2. CASE k = Len(v) + 1
    BY <1>1, <1>2, <1>3, <2>2
  <2>. QED  BY <1>1, <1>2, <2>1, <2>2
<1>5. Taken(g, h) <= Len(s)
  BY <1>2, <1>3
<1>. QED  BY <1>3, <1>4, <1>5 DEF ReadsSaid, h

LEMMA TakeNext ==
  ASSUME NEW g \in Seq(Event), NEW v \in Seq(Event), NEW s \in Seq(Event),
         ReadsSaid(g, v, s), v # <<>>
  PROVE  /\ ReadsSaid(Append(g, Head(v)), Tail(v), s) /\ Append(g, Head(v)) # <<>>
         /\ Taken(Append(g, Head(v)), Tail(v)) = Taken(g, v)
<1>. DEFINE h == Append(g, Head(v))
            t == Tail(v)
<1>1. Head(v) \in Event /\ Head(v) = v[1] /\ Len(v) \in Nat \ {0}
  OBVIOUS
<1>2. Len(h) = Len(g) + 1 /\ h[Len(g) + 1] = v[1] /\ \A k \in 1..Len(g) : h[k] = g[k]
  BY <1>1
<1>3. Len(t) = Len(v) - 1 /\ \A k \in 1..Len(t) : t[k] = v[k + 1]
  OBVIOUS
<1>4. Len(g) \in Nat /\ Len(s) \in Nat /\ h # <<>>
  <2>1. Len(g) \in Nat /\ Len(s) \in Nat
    OBVIOUS
  <2>. QED  BY <1>2, <2>1
<1>. HIDE DEF h, t
<1>5. Taken(h, t) = Taken(g, v)
  BY <1>1, <1>2, <1>3, <1>4 DEF Taken
<1>6. ASSUME NEW k \in 1..Len(h) PROVE h[k] = s[k]
  <2>1. CASE k \in 1..Len(g)
    BY <1>2, <2>1 DEF ReadsSaid
  <2>2. CASE k = Len(g) + 1
    BY <1>1, <1>2, <1>4, <2>2 DEF ReadsSaid
  <2>. QED  BY <1>2, <1>4, <2>1, <2>2
<1>7. ASSUME NEW k \in 1..Len(t) PROVE t[k] = s[Len(h) + k]
  <2>1. k + 1 \in 1..Len(v) /\ Len(h) + k = Len(g) + (k + 1)
    BY <1>1, <1>2, <1>3, <1>4
  <2>. QED  BY <1>3, <2>1 DEF ReadsSaid
<1>. QED  BY <1>4, <1>5, <1>6, <1>7 DEF ReadsSaid, h, t

LEMMA SaidGrows ==
  ASSUME NEW g \in Seq(Event), NEW v \in Seq(Event), NEW s \in Seq(Event), NEW e \in Event,
         ReadsSaid(g, v, s)
  PROVE  ReadsSaid(g, v, Append(s, e))
<1>. DEFINE t == Append(s, e)
<1>1. Len(t) = Len(s) + 1 /\ \A k \in 1..Len(s) : t[k] = s[k]
  OBVIOUS
<1>2. Len(g) \in Nat /\ Len(v) \in Nat /\ Len(s) \in Nat
  OBVIOUS
<1>. HIDE DEF t
<1>. QED  BY <1>1, <1>2 DEF ReadsSaid, Taken, t

LEMMA ReceivedNat ==
  ASSUME NEW r \in JobRecord
  PROVE  r.got \in Seq(Event) /\ r.vals \in Seq(Event) /\ Received(r) \in Nat
<1>1. r.got \in Seq(Event) /\ r.vals \in Seq(Event)
  BY DEF JobRecord
<1>2. ASSUME NEW g \in Seq(Event), NEW v \in Seq(Event) PROVE Taken(g, v) \in Nat
  BY DEF Taken
<1>. QED  BY <1>1, <1>2 DEF Received

\* The next event reaches the queue, or the reader that waits on it.
LEMMA GivenOK ==
  ASSUME NEW r \in JobRecord, NEW s \in Seq(Event), NEW j \in Jobs, NEW e \in Event,
         ReaderOK(r, s, j), r.queue = "open", r.pc \in Reading,
         Received(r) < Len(s), e = s[Received(r) + 1]
  PROVE  /\ ReaderOK(Given(r, e), s, j)
         /\ Given(r, e).pc = "handling" /\ Given(r, e).from = r.from
         /\ Given(r, e).queue = IF Over(e) THEN "ended" ELSE "open"
         /\ Received(Given(r, e)) = Received(r) + 1
<1>. DEFINE q == Pushed(r, e)
<1>1. /\ q \in JobRecord /\ q.from = r.from /\ q.queue = "open" /\ q.pc = "handling"
      /\ \/ q.got = Append(r.got, e) /\ q.vals = r.vals /\ r.vals = <<>>
         \/ q.got = r.got /\ q.vals = Append(r.vals, e) /\ r.got # <<>>
  <2>1. CASE r.pc = "waiting"
    BY <2>1, PushedType DEF ReaderOK, QueueOK
  <2>2. CASE r.pc = "handling"
    BY <2>2, PushedType DEF ReaderOK, QueueOK
  <2>. QED  BY <2>1, <2>2 DEF Reading
<1>. HIDE DEF q
<1>2. r.got \in Seq(Event) /\ r.vals \in Seq(Event) /\ Received(r) \in Nat
  BY ReceivedNat
<1>3. ReadsSaid(q.got, q.vals, s) /\ Received(q) = Received(r) + 1 /\ q.got # <<>>
  <2>1. CASE q.got = Append(r.got, e) /\ q.vals = r.vals /\ r.vals = <<>>
    <3>1. ReadsSaid(r.got, r.vals, s) /\ Taken(r.got, r.vals) = Received(r)
      BY DEF ReaderOK, Received
    <3>2. Len(r.vals) = 0
      BY <2>1
    <3>3. /\ ReadsSaid(Append(r.got, e), r.vals, s) /\ Append(r.got, e) # <<>>
          /\ Taken(Append(r.got, e), r.vals) = Taken(r.got, r.vals) + 1
      BY <1>2, <3>1, <3>2, ReadNext DEF Received
    <3>. QED  BY <2>1, <3>1, <3>3 DEF Received
  <2>2. CASE q.got = r.got /\ q.vals = Append(r.vals, e) /\ r.got # <<>>
    BY <1>2, <2>2, QueueNext DEF ReaderOK, Received
  <2>. QED  BY <1>1, <2>1, <2>2
<1>6. CASE ~Over(e)
  <2>1. Given(r, e) = q
    BY <1>6 DEF Given, q
  <2>. QED  BY <1>1, <1>3, <1>6, <2>1 DEF ReaderOK, QueueOK, Early
<1>7. CASE Over(e)
  <2>1. Given(r, e) = Ended(q)
    BY <1>7 DEF Given, q
  <2>2. Received(r) + 1 = Len(s) /\ Len(s) > 0 /\ Over(s[Len(s)])
    <3>1. Len(s) \in Nat
      OBVIOUS
    <3>2. Received(r) + 1 \notin 1..Len(s) - 1
      BY <1>7 DEF ReaderOK, SaidOK
    <3>. QED  BY <1>2, <1>7, <3>1, <3>2
  <2>3. /\ Ended(q).got = q.got /\ Ended(q).vals = q.vals /\ Ended(q).from = q.from
        /\ Ended(q).queue = "ended" /\ Ended(q).pc = "handling"
    BY <1>1, EndedType
  <2>4. Received(Ended(q)) = Received(q)
    BY <2>3 DEF Received
  <2>5. QueueOK(Ended(q), s)
    BY <1>3, <2>2, <2>3, <2>4 DEF QueueOK, Early
  <2>. QED  BY <1>1, <1>3, <1>7, <2>1, <2>3, <2>4, <2>5 DEF ReaderOK
<1>. QED  BY <1>6, <1>7

\* The engine says one thing more.
LEMMA SaysOK ==
  ASSUME NEW r \in JobRecord, NEW s \in Seq(Event), NEW j \in Jobs, NEW e \in Event,
         ReaderOK(r, s, j), r.pc \notin Early, \A k \in 1..Len(s) : ~Over(s[k]),
         e.at = Len(s) + 1, e.id = j
  PROVE  ReaderOK(r, Append(s, e), j)
<1>. DEFINE t == Append(s, e)
<1>1. /\ t \in Seq(Event) /\ Len(t) = Len(s) + 1 /\ t[Len(s) + 1] = e
      /\ \A k \in 1..Len(s) : t[k] = s[k]
      /\ Len(s) \in Nat
  OBVIOUS
<1>2. ReadsSaid(r.got, r.vals, t)
  BY ReceivedNat, SaidGrows DEF ReaderOK
<1>. HIDE DEF t
<1>3. SaidOK(t, j)
  BY <1>1 DEF ReaderOK, SaidOK
<1>4. QueueOK(r, t)
  <2>1. r.queue # "ended"
    BY <1>1 DEF ReaderOK, QueueOK
  <2>. QED  BY <2>1 DEF ReaderOK, QueueOK
<1>. QED  BY <1>2, <1>3, <1>4 DEF ReaderOK, t

\* The reader is through with an event: it fails, waits, ends or takes the next.
LEMMA AskedOK1 ==
  ASSUME NEW r \in JobRecord, NEW s \in Seq(Event), NEW j \in Jobs,
         ReaderOK(r, s, j), r.pc \in {"ready", "handling"},
         r.pc = "handling" => Last(r.got).type # "error"
  PROVE  /\ ReaderOK(Asked(r), s, j)
         /\ Asked(r).from = r.from /\ Asked(r).queue = r.queue
         /\ Received(Asked(r)) = Received(r)
         /\ Asked(r).pc \notin Early
         /\ r.queue = "open" => Asked(r).pc \in Reading
<1>. DEFINE q == Asked(r)
<1>1. r.got \in Seq(Event) /\ r.vals \in Seq(Event) /\ Received(r) \in Nat
  BY ReceivedNat
<1>2. /\ ReadsSaid(r.got, r.vals, s) /\ SaidOK(s, j) /\ QueueOK(r, s)
  BY DEF ReaderOK
<1>3. CASE r.vals # <<>>
  <2>1. /\ q.pc = "handling" /\ q.got = Append(r.got, Head(r.vals)) /\ q.vals = Tail(r.vals)
        /\ q.from = r.from /\ q.queue = r.queue
    BY <1>3, AskedType
  <2>2. ReadsSaid(q.got, q.vals, s) /\ q.got # <<>> /\ Received(q) = Received(r)
    BY <1>1, <1>2, <1>3, <2>1, TakeNext DEF Received
  <2>. HIDE DEF q
  <2>3. QueueOK(q, s)
    BY <1>2, <2>1, <2>2 DEF QueueOK, Early
  <2>. QED  BY <1>2, <2>1, <2>2, <2>3 DEF ReaderOK, q, Early, Reading
<1>4. CASE r.vals = <<>>
  <2>1. /\ q.pc = IF r.queue = "open" THEN "waiting"
                  ELSE IF r.queue = "ended" THEN "done" ELSE "failed"
        /\ q.got = r.got /\ q.vals = r.vals /\ q.from = r.from /\ q.queue = r.queue
    BY <1>4, AskedType
  <2>2. ReadsSaid(q.got, q.vals, s) /\ Received(q) = Received(r)
    BY <1>2, <2>1 DEF Received
  <2>3. ASSUME r.queue = "ended" PROVE r.got # <<>> /\ r.got[Len(r.got)].type = "done"
    <3>1. r.pc = "handling" /\ r.got # <<>>
      BY <1>2, <2>3 DEF QueueOK, Early
    <3>2. Len(s) > 0 /\ Received(r) = Len(s) /\ Over(s[Len(s)])
      BY <1>2, <2>3 DEF QueueOK
    <3>3. ASSUME NEW g \in Seq(Event), Taken(g, <<>>) = Len(s), ReadsSaid(g, <<>>, s)
          PROVE  g[Len(g)] = s[Len(s)]
      <4>1. Len(g) = Len(s)
        BY <3>3 DEF Taken
      <4>2. Len(g) \in 1..Len(g)
        BY <3>2, <4>1
      <4>. QED  BY <3>3, <4>1, <4>2 DEF ReadsSaid
    <3>4. r.got[Len(r.got)] = s[Len(s)]
      BY <1>1, <1>2, <1>4, <3>2, <3>3 DEF Received
    <3>. QED  BY <3>1, <3>2, <3>4 DEF Over, Last
  <2>. HIDE DEF q
  <2>4. QueueOK(q, s)
    BY <1>2, <1>4, <2>1, <2>2, <2>3 DEF QueueOK, Early
  <2>. QED  BY <1>2, <2>1, <2>2, <2>4 DEF ReaderOK, q, Early, Reading
<1>. QED  BY <1>3, <1>4

LEMMA StopsOK ==
  ASSUME NEW r \in JobRecord, NEW s \in Seq(Event), NEW j \in Jobs, JobOK(r, s, j)
  PROVE  JobOK(At(r, "failed"), s, j) /\ (r.pc \in Reading => JobOK(Failed(r), s, j))
<1>1. JobOK(At(r, "failed"), s, j)
  BY AtType DEF JobOK, ReaderOK, QueueOK, ServedOK, Received, Early, Reading
<1>2. ASSUME r.pc \in Reading PROVE JobOK(Failed(r), s, j)
  BY <1>2, FailedType DEF JobOK, ReaderOK, QueueOK, ServedOK, Received, Early, Reading
<1>. QED  BY <1>1, <1>2

\* An event that was read before the last one does not stop the reader.
LEMMA ReadsOn ==
  ASSUME NEW r \in JobRecord, NEW s \in Seq(Event), NEW j \in Jobs,
         ReaderOK(r, s, j), r.pc = "handling", \A k \in 1..Received(r) : ~Over(s[k])
  PROVE  Last(r.got).type # "error"
<1>1. r.got \in Seq(Event) /\ r.vals \in Seq(Event) /\ r.got # <<>>
  BY ReceivedNat DEF ReaderOK, QueueOK
<1>2. ASSUME NEW g \in Seq(Event), NEW v \in Seq(Event), g # <<>>, ReadsSaid(g, v, s)
      PROVE  g[Len(g)] = s[Len(g)] /\ Len(g) \in 1..Taken(g, v)
  BY <1>2 DEF ReadsSaid, Taken
<1>3. r.got[Len(r.got)] = s[Len(r.got)] /\ Len(r.got) \in 1..Received(r)
  BY <1>1, <1>2 DEF ReaderOK, Received
<1>. QED  BY <1>3 DEF Last, Over

-----------------------------------------------------------------------------
(***************************************************************************)
(* What each step does to a pipe.                                          *)
(***************************************************************************)

\* A line that is not j's, behind the others.
LEMMA PipeOther ==
  ASSUME NEW p \in Seq(Line), NEW c, NEW r, NEW s, NEW j, NEW l \in Line, l.id # j
  PROVE  /\ PipeOK(p, c, r, s, j) => PipeOK(Append(p, l), c, r, s, j)
         /\ StreamOK(p, c, r, s, j) => StreamOK(Append(p, l), c, r, s, j)
<1>. DEFINE q == Append(p, l)
<1>1. Len(p) \in Nat /\ Len(q) = Len(p) + 1 /\ q[Len(p) + 1] = l
  OBVIOUS
<1>2. \A i \in 1..Len(p) : q[i] = p[i] /\ i \in 1..Len(q)
  OBVIOUS
<1>. HIDE DEF q
<1>3. \A i \in 1..Len(q) : q[i].id = j => i \in 1..Len(p)
  BY <1>1
<1>4. PipeOK(p, c, r, s, j) => PipeOK(q, c, r, s, j)
  BY <1>2, <1>3 DEF PipeOK
<1>5. StreamOK(p, c, r, s, j) => StreamOK(q, c, r, s, j)
  <2>1. ASSUME NEW n, NEW i \in 1..Len(p), p[i].id = j, p[i].at = n
        PROVE  \E k \in 1..Len(q) : q[k].id = j /\ q[k].at = n
    BY <1>2, <2>1
  <2>. QED  BY <1>2, <1>3, <2>1 DEF StreamOK
<1>. QED  BY <1>4, <1>5 DEF q

\* The engine's next event for j, behind the others.
LEMMA PipeNext ==
  ASSUME NEW p \in Seq(Line), NEW c, NEW r, NEW s \in Seq(Event), NEW j, NEW e \in Event,
         e.id = j, e.at = Len(s) + 1, r.from = c, Received(r) \in Nat, Received(r) <= Len(s),
         PipeOK(p, c, r, s, j)
  PROVE  /\ PipeOK(Append(p, e), c, r, Append(s, e), j)
         /\ StreamOK(p, c, r, s, j) => StreamOK(Append(p, e), c, r, Append(s, e), j)
<1>. DEFINE q == Append(p, e)
            t == Append(s, e)
<1>1. Len(p) \in Nat /\ Len(q) = Len(p) + 1 /\ q[Len(p) + 1] = e
  BY LineType
<1>2. \A i \in 1..Len(p) : q[i] = p[i]
  BY LineType
<1>3. Len(s) \in Nat /\ Len(t) = Len(s) + 1 /\ t[Len(s) + 1] = e /\ \A k \in 1..Len(s) : t[k] = s[k]
  OBVIOUS
<1>. HIDE DEF q, t
<1>4. \A i \in 1..Len(q) : i \in 1..Len(p) \/ i = Len(p) + 1
  BY <1>1
<1>5. \A i \in 1..Len(p) : i \in 1..Len(q)
  BY <1>1
<1>6. PipeOK(q, c, r, t, j)
  <2>1. ASSUME NEW i \in 1..Len(q), q[i].id = j
        PROVE  q[i].at \in 1..Len(t) /\ q[i] = t[q[i].at]
    <3>1. CASE i \in 1..Len(p)
      <4>1. p[i].at \in 1..Len(s) /\ p[i] = s[p[i].at]
        BY <1>2, <2>1, <3>1 DEF PipeOK
      <4>. QED  BY <1>2, <1>3, <3>1, <4>1
    <3>2. CASE i = Len(p) + 1
      BY <1>1, <1>3, <3>2
    <3>. QED  BY <1>4, <3>1, <3>2
  <2>2. ASSUME NEW i \in 1..Len(q), NEW k \in 1..Len(q), i < k, q[i].id = j, q[k].id = j
        PROVE  q[i].at < q[k].at
    <3>1. i \in 1..Len(p)
      BY <1>1, <2>2
    <3>2. p[i].at \in 1..Len(s)
      BY <1>2, <2>2, <3>1 DEF PipeOK
    <3>3. CASE k \in 1..Len(p)
      BY <1>2, <2>2, <3>1, <3>3 DEF PipeOK
    <3>4. CASE k = Len(p) + 1
      BY <1>1, <1>2, <1>3, <3>1, <3>2, <3>4
    <3>. QED  BY <1>4, <3>3, <3>4
  <2>. QED  BY <2>1, <2>2 DEF PipeOK
<1>7. ASSUME StreamOK(p, c, r, s, j) PROVE StreamOK(q, c, r, t, j)
  <2>1. ASSUME NEW i \in 1..Len(q), q[i].id = j PROVE q[i].at > Received(r)
    <3>1. CASE i \in 1..Len(p)
      BY <1>2, <1>7, <2>1, <3>1 DEF StreamOK
    <3>2. CASE i = Len(p) + 1
      BY <1>1, <1>3, <3>2
    <3>. QED  BY <1>4, <3>1, <3>2
  <2>2. ASSUME NEW n \in Received(r) + 1..Len(t)
        PROVE  \E i \in 1..Len(q) : q[i].id = j /\ q[i].at = n
    <3>1. CASE n = Len(s) + 1
      BY <1>1, <3>1
    <3>2. CASE n \in Received(r) + 1..Len(s)
      <4>1. PICK i \in 1..Len(p) : p[i].id = j /\ p[i].at = n
        BY <1>7, <3>2 DEF StreamOK
      <4>. QED  BY <1>2, <1>5, <4>1
    <3>. QED  BY <1>3, <3>1, <3>2, SMTT(40)
  <2>3. \A k \in 1..Received(r) : ~Over(t[k])
    BY <1>3, <1>7 DEF StreamOK
  <2>. QED  BY <1>7, <2>1, <2>2, <2>3 DEF StreamOK
<1>. QED  BY <1>6, <1>7 DEF q, t

\* The first line is read.  If it is j's, it is the next event of j's stream.
LEMMA PipeRead ==
  ASSUME NEW p \in Seq(Line), p # <<>>, NEW c, NEW r, NEW s \in Seq(Event), NEW j,
         PipeOK(p, c, r, s, j), Received(r) \in Nat
  PROVE  /\ PipeOK(Tail(p), c, r, s, j)
         /\ StreamOK(p, c, r, s, j) /\ Head(p).id # j => StreamOK(Tail(p), c, r, s, j)
         /\ StreamOK(p, c, r, s, j) /\ Head(p).id = j =>
              /\ Received(r) < Len(s) /\ Head(p) = s[Received(r) + 1]
              /\ Follows(Tail(p), Received(r) + 1, s, j)
<1>. DEFINE q == Tail(p)
            h == Head(p)
<1>1. Len(p) \in Nat \ {0} /\ Len(q) = Len(p) - 1 /\ h = p[1] /\ 1 \in 1..Len(p)
  OBVIOUS
<1>2. \A i \in 1..Len(q) : q[i] = p[i + 1] /\ i + 1 \in 1..Len(p) /\ i + 1 > 1
  BY <1>1
<1>3. Len(s) \in Nat
  OBVIOUS
<1>. HIDE DEF q, h
<1>4. ASSUME NEW k \in 1..Len(p), k # 1 PROVE k - 1 \in 1..Len(q) /\ q[k - 1] = p[k]
  <2>1. k - 1 \in 1..Len(q)
    BY <1>1, <1>4
  <2>. QED  BY <1>2, <2>1
<1>5. PipeOK(q, c, r, s, j)
  <2>1. ASSUME NEW i \in 1..Len(q), q[i].id = j
        PROVE  r.from = c /\ q[i].at \in 1..Len(s) /\ q[i] = s[q[i].at]
    BY <1>2, <2>1 DEF PipeOK
  <2>2. ASSUME NEW i \in 1..Len(q), NEW k \in 1..Len(q), i < k, q[i].id = j, q[k].id = j
        PROVE  q[i].at < q[k].at
    <3>1. i + 1 < k + 1 /\ i + 1 \in 1..Len(p) /\ k + 1 \in 1..Len(p)
      BY <1>2, <2>2
    <3>. QED  BY <1>2, <2>2, <3>1 DEF PipeOK
  <2>. QED  BY <2>1, <2>2 DEF PipeOK
<1>6. ASSUME NEW i \in 1..Len(p), p[i].id = j, i # 1
      PROVE  i - 1 \in 1..Len(q) /\ q[i - 1].id = j /\ q[i - 1].at = p[i].at
  BY <1>4, <1>6
<1>7. ASSUME StreamOK(p, c, r, s, j), h.id # j PROVE StreamOK(q, c, r, s, j)
  <2>1. ASSUME NEW n \in Received(r) + 1..Len(s)
        PROVE  \E i \in 1..Len(q) : q[i].id = j /\ q[i].at = n
    <3>1. PICK i \in 1..Len(p) : p[i].id = j /\ p[i].at = n
      BY <1>7 DEF StreamOK
    <3>2. i # 1
      BY <1>1, <1>7, <3>1
    <3>. QED  BY <1>6, <3>1, <3>2
  <2>. QED  BY <1>2, <1>7, <2>1 DEF StreamOK
<1>8. ASSUME StreamOK(p, c, r, s, j), h.id = j
      PROVE  /\ Received(r) < Len(s) /\ h = s[Received(r) + 1]
             /\ Follows(q, Received(r) + 1, s, j)
  <2>1. h.at \in 1..Len(s) /\ h = s[h.at] /\ h.at > Received(r)
    BY <1>1, <1>8 DEF PipeOK, StreamOK
  <2>2. Received(r) + 1 \in Received(r) + 1..Len(s)
    BY <1>3, <2>1
  <2>3. PICK i \in 1..Len(p) : p[i].id = j /\ p[i].at = Received(r) + 1
    BY <1>8, <2>2 DEF StreamOK
  <2>4. i = 1
    <3>1. SUFFICES ASSUME i # 1 PROVE FALSE
      OBVIOUS
    <3>2. 1 < i
      BY <1>1, <3>1
    <3>3. h.at < p[i].at
      BY <1>1, <1>8, <2>3, <3>2 DEF PipeOK
    <3>. QED  BY <2>1, <2>3, <3>3
  <2>5. h.at = Received(r) + 1
    BY <1>1, <2>3, <2>4
  <2>6. ASSUME NEW k \in 1..Len(q), q[k].id = j PROVE q[k].at > Received(r) + 1
    BY <1>1, <1>2, <1>8, <2>5, <2>6 DEF PipeOK
  <2>7. ASSUME NEW n \in Received(r) + 2..Len(s)
        PROVE  \E k \in 1..Len(q) : q[k].id = j /\ q[k].at = n
    <3>1. n \in Received(r) + 1..Len(s) /\ n # Received(r) + 1
      BY <2>7
    <3>2. PICK k \in 1..Len(p) : p[k].id = j /\ p[k].at = n
      BY <1>8, <3>1 DEF StreamOK
    <3>3. k # 1
      BY <1>1, <2>5, <3>1, <3>2
    <3>. QED  BY <1>6, <3>2, <3>3
  <2>8. \A n \in (Received(r) + 1) + 1..Len(s) : n \in Received(r) + 2..Len(s)
    BY <1>3
  <2>. QED  BY <2>1, <2>5, <2>6, <2>7, <2>8 DEF Follows
<1>. QED  BY <1>5, <1>7, <1>8 DEF q, h

-----------------------------------------------------------------------------
(***************************************************************************)
(* Steps that leave a pair of a child and a job as it should be.           *)
(***************************************************************************)

\* The child drops streams or requests.
LEMMA ChildDrops ==
  ASSUME NEW k, NEW m, NEW c, NEW r, NEW s, NEW j, ChildOK(k, c, r, s, j),
         m.pipe = k.pipe, m.streams \subseteq k.streams, m.asked \subseteq k.asked
  PROVE  ChildOK(m, c, r, s, j)
  BY DEF ChildOK

\* Nothing was said for a job that has no generation yet: it may become anything.
LEMMA ChildOfEarly ==
  ASSUME NEW k, NEW c, NEW r, NEW q, NEW j, r.pc \in Early, ChildOK(k, c, r, <<>>, j)
  PROVE  ChildOK(k, c, q, <<>>, j) /\ j \notin k.streams /\ j \notin k.asked
<1>1. j \notin k.streams /\ j \notin k.asked
  BY DEF ChildOK, StreamOK, AskedOK, Early, Reading
<1>2. PipeOK(k.pipe, c, q, <<>>, j)
  BY DEF ChildOK, PipeOK
<1>. QED  BY <1>1, <1>2 DEF ChildOK

\* The reader goes on.
LEMMA ChildOfReader ==
  ASSUME NEW k, NEW c, NEW r, NEW q, NEW s, NEW j, ChildOK(k, c, r, s, j),
         q.from = r.from, q.pc \notin Early,
         j \in k.streams => Received(q) = Received(r) /\ q.queue = r.queue /\ q.pc \in Reading
  PROVE  ChildOK(k, c, q, s, j)
<1>1. PipeOK(k.pipe, c, q, s, j)
  BY DEF ChildOK, PipeOK
<1>2. j \in k.streams => StreamOK(k.pipe, c, q, s, j)
  BY DEF ChildOK, StreamOK
<1>3. j \in k.asked => AskedOK(c, q, s)
  BY DEF ChildOK, AskedOK
<1>. QED  BY <1>1, <1>2, <1>3 DEF ChildOK

LEMMA EarlyOK ==
  ASSUME NEW r \in JobRecord, NEW s \in Seq(Event), NEW j \in Jobs, JobOK(r, s, j),
         r.pc \in {"idle", "starting"}, NEW from \in {"stub", "http"} \cup Children
  PROVE  JobOK(With(r, from), s, j) /\ JobOK(At(r, "starting"), s, j)
<1>1. JobOK(With(r, from), s, j)
  BY WithType DEF JobOK, ReaderOK, QueueOK, ServedOK, Received, Early, Reading
<1>2. JobOK(At(r, "starting"), s, j)
  BY AtType DEF JobOK, ReaderOK, QueueOK, ServedOK, Received, Early, Reading
<1>. QED  BY <1>1, <1>2

\* The promise is settled: the jobs that wait for it move on, the others stay.
LEMMA SettleOK ==
  ASSUME IInv, NEW from \in {"stub", "http"} \cup Children, NEW i \in Jobs
  PROVE  /\ JobOK(Resolved(from)[i], said[i], i) /\ JobOK(Rejected[i], said[i], i)
         /\ \A c \in Children : /\ ChildOK(child[c], c, Resolved(from)[i], said[i], i)
                                /\ ChildOK(child[c], c, Rejected[i], said[i], i)
         /\ Rejected[i].from = job[i].from
         /\ Resolved(from)[i].from \in {job[i].from, from}
<1>1. /\ job[i] \in JobRecord /\ said[i] \in Seq(Event)
      /\ JobOK(job[i], said[i], i)
      /\ \A c \in Children : ChildOK(child[c], c, job[i], said[i], i)
  BY DEF IInv, TypeInv, TypeOK, Jobs_OK, Children_OK
<1>2. CASE job[i].pc = "starting"
  <2>1. Resolved(from)[i] = With(job[i], from) /\ Rejected[i] = At(job[i], "failed")
    BY <1>2 DEF Resolved, Rejected, Starting
  <2>2. job[i].pc \in Early /\ said[i] = <<>>
    BY <1>1, <1>2 DEF JobOK, ReaderOK, QueueOK, Early
  <2>3. JobOK(With(job[i], from), said[i], i) /\ JobOK(At(job[i], "failed"), said[i], i)
    BY <1>1, <1>2, EarlyOK, StopsOK
  <2>4. ASSUME NEW c \in Children, NEW q PROVE ChildOK(child[c], c, q, said[i], i)
    <3>1. ChildOK(child[c], c, job[i], <<>>, i)
      BY <1>1, <2>2
    <3>2. ChildOK(child[c], c, q, <<>>, i)
      BY <2>2, <3>1, ChildOfEarly
    <3>. QED  BY <2>2, <3>2
  <2>5. With(job[i], from).from = from /\ At(job[i], "failed").from = job[i].from
    BY <1>1, WithType, AtType
  <2>. QED  BY <2>1, <2>3, <2>4, <2>5
<1>3. CASE job[i].pc # "starting"
  BY <1>1, <1>3 DEF Resolved, Rejected, Starting
<1>. QED  BY <1>2, <1>3

-----------------------------------------------------------------------------
(***************************************************************************)
(* The invariant, step by step.                                            *)
(***************************************************************************)
Rest == SharedInv /\ Jobs_OK /\ Children_OK

LEMMA RestInit == Init => Rest
<1>. SUFFICES ASSUME Init PROVE Rest
  OBVIOUS
<1>1. SharedInv
  BY EngineAssumption DEF Init, SharedInv
<1>2. ASSUME NEW j \in Jobs
      PROVE  JobOK([pc |-> "idle", from |-> "none", queue |-> "open",
                    vals |-> <<>>, got |-> <<>>], <<>>, j)
  BY DEF JobOK, ReaderOK, SaidOK, ReadsSaid, QueueOK, ServedOK, Received, Taken, Early, Reading
<1>3. ASSUME NEW c \in Children, NEW j \in Jobs, NEW r PROVE ChildOK(NoChild, c, r, <<>>, j)
  BY DEF ChildOK, PipeOK, NoChild
<1>. QED  BY <1>1, <1>2, <1>3 DEF Init, Rest, Jobs_OK, Children_OK

LEMMA RestStart ==
  ASSUME IInv,
         (\E j \in Jobs : AskEngine(j)) \/ UseServer \/ UseStub \/ NoServer \/ Spawn
  PROVE  Rest'
<1>. USE DEF IInv, TypeInv
<1>1. ASSUME NEW j \in Jobs, AskEngine(j) PROVE Rest'
  <2>1. PICK q \in JobRecord :
          /\ job' = [job EXCEPT ![j] = q]
          /\ JobOK(q, said[j], j)
          /\ q.from = job[j].from \/ (promise = "ready" /\ q.from = IF backend = "mojo" THEN cur ELSE backend)
    <3>1. /\ job[j] \in JobRecord /\ said[j] \in Seq(Event) /\ JobOK(job[j], said[j], j)
          /\ job[j].pc = "idle"
      BY <1>1 DEF TypeOK, Jobs_OK, AskEngine
    <3>2. CASE promise = "ready"
      <4>. DEFINE from == IF backend = "mojo" THEN cur ELSE backend
      <4>1. from \in {"stub", "http"} \cup Children
        BY <3>2 DEF TypeOK, StartInv
      <4>2. job' = [job EXCEPT ![j] = With(job[j], from)]
        BY <1>1, <3>2 DEF AskEngine
      <4>. HIDE DEF from
      <4>3. /\ With(job[j], from) \in JobRecord /\ With(job[j], from).from = from
            /\ JobOK(With(job[j], from), said[j], j)
        BY <3>1, <4>1, WithType, EarlyOK
      <4>. QED  BY <3>2, <4>2, <4>3 DEF from
    <3>3. CASE promise # "ready"
      <4>1. job' = [job EXCEPT ![j] = At(job[j], "starting")]
        BY <1>1, <3>3 DEF AskEngine
      <4>2. /\ At(job[j], "starting") \in JobRecord
            /\ At(job[j], "starting").from = job[j].from
            /\ JobOK(At(job[j], "starting"), said[j], j)
        BY <3>1, AtType, EarlyOK
      <4>. QED  BY <4>1, <4>2
    <3>. QED  BY <3>2, <3>3
  <2>2. UNCHANGED <<config, server, daemon, backend, child, said, faults>>
    BY <1>1 DEF AskEngine
  <2>3. /\ promise = "ready" => promise' = "ready" /\ cur' = cur
    BY <1>1 DEF AskEngine
  <2>4. job \in [Jobs -> JobRecord]
    BY DEF TypeOK
  <2>5. SharedInv'
    <3>1. ASSUME daemon = "up", NEW i \in Jobs, job'[i].from \in Children
          PROVE  promise' = "ready" /\ backend = "mojo" /\ cur' = job'[i].from
      <4>1. CASE job'[i].from = job[i].from
        BY <2>3, <3>1, <4>1 DEF SharedInv
      <4>2. CASE i = j /\ promise = "ready" /\ q.from = IF backend = "mojo" THEN cur ELSE backend
        BY <2>1, <2>3, <2>4, <3>1, <4>2, EngineAssumption DEF TypeOK
      <4>. QED  BY <2>1, <2>4, <4>1, <4>2
    <3>. QED  BY <2>2, <3>1 DEF SharedInv
  <2>6. Jobs_OK'
    BY <2>1, <2>2, <2>4 DEF Jobs_OK
  <2>7. Children_OK'
    <3>1. said[j] = <<>> /\ job[j].pc \in Early
      BY <1>1 DEF AskEngine, Jobs_OK, JobOK, ReaderOK, QueueOK, Early
    <3>2. ASSUME NEW c \in Children PROVE ChildOK(child[c], c, q, said[j], j)
      BY <3>1, ChildOfEarly DEF Children_OK
    <3>. QED  BY <2>1, <2>2, <2>4, <3>2 DEF Children_OK
  <2>. QED  BY <2>5, <2>6, <2>7 DEF Rest
<1>2. CASE UseServer \/ UseStub \/ NoServer
  <2>1. /\ \/ \E from \in {"stub", "http"} : job' = Resolved(from)
           \/ job' = Rejected
        /\ UNCHANGED <<daemon, cur, child, said>>
        /\ promise = "pending"
    BY <1>2 DEF UseServer, UseStub, NoServer
  <2>2. SharedInv'
    <3>1. ASSUME daemon = "up", NEW i \in Jobs PROVE job'[i].from \notin Children
      <4>1. job[i].from \notin Children
        BY <2>1, <3>1 DEF SharedInv
      <4>2. job'[i].from \in {job[i].from, "stub", "http"}
        BY <2>1, SettleOK
      <4>. QED  BY <4>1, <4>2, EngineAssumption
    <3>. QED  BY <2>1, <3>1 DEF SharedInv
  <2>3. Jobs_OK'
    BY <2>1, SettleOK DEF Jobs_OK
  <2>4. Children_OK'
    BY <2>1, SettleOK DEF Children_OK
  <2>. QED  BY <2>2, <2>3, <2>4 DEF Rest
<1>3. CASE Spawn
  <2>1. PICK c \in Children, os \in {"loading", "absent"} :
          child' = [child EXCEPT ![c] = Spawned(@, os)]
    BY <1>3 DEF Spawn, Unborn
  <2>2. UNCHANGED <<daemon, promise, backend, job, said>> /\ promise = "pending"
    BY <1>3 DEF Spawn
  <2>3. SharedInv'
    BY <2>2 DEF SharedInv
  <2>4. Jobs_OK'
    BY <2>2 DEF Jobs_OK
  <2>5. SameTraffic(Spawned(child[c], os), child[c])
    BY SpawnedType DEF TypeOK
  <2>6. ASSUME NEW i \in Jobs PROVE ChildOK(Spawned(child[c], os), c, job[i], said[i], i)
    BY <2>5, ChildDrops DEF Children_OK, SameTraffic
  <2>7. Children_OK'
    BY <2>1, <2>2, <2>6 DEF Children_OK, TypeOK
  <2>. QED  BY <2>3, <2>4, <2>7 DEF Rest
<1>. QED  BY <1>1, <1>2, <1>3

LEMMA RestChild ==
  ASSUME IInv, NEW c \in Children,
         \/ ChildReady(c) \/ ChildBabbles(c) \/ ChildExits(c)
         \/ \E j \in Jobs : ChildAnswers(c, j) \/ ChildRefuses(c, j)
  PROVE  Rest'
<1>. USE DEF IInv, TypeInv
<1>1. UNCHANGED external
  BY DEF ChildReady, ChildBabbles, ChildExits, ChildAnswers, ChildRefuses, ChildSays, external
<1>2. SharedInv'
  BY <1>1 DEF SharedInv, external
<1>3. /\ child \in [Children -> ChildRecord] /\ child[c] \in ChildRecord
      /\ child[c].pipe \in Seq(Line)
  BY DEF TypeOK, ChildRecord
<1>4. CASE ChildReady(c) \/ ChildBabbles(c)
  <2>1. PICK l \in Line, m \in ChildRecord :
          /\ l.id = Null
          /\ child' = [child EXCEPT ![c] = m]
          /\ m.pipe = Append(child[c].pipe, l)
          /\ m.streams = child[c].streams /\ m.asked = child[c].asked
    <3>1. CASE ChildReady(c)
      <4>. DEFINE w == Wrote(child[c], EngineLine("ready"))
      <4>1. /\ w \in ChildRecord /\ w.pipe = Append(child[c].pipe, EngineLine("ready"))
            /\ w.streams = child[c].streams /\ w.asked = child[c].asked
        BY <1>3, LineType, WroteType
      <4>2. child' = [child EXCEPT ![c] = Up(w)]
        BY <3>1 DEF ChildReady
      <4>3. EngineLine("ready") \in Line /\ EngineLine("ready").id = Null
        BY LineType DEF EngineLine
      <4>. HIDE DEF w
      <4>4. Up(w) \in ChildRecord /\ SameTraffic(Up(w), w)
        BY <4>1, UpType
      <4>. QED  BY <4>1, <4>2, <4>3, <4>4 DEF SameTraffic
    <3>2. CASE ChildBabbles(c)
      <4>1. EngineLine("error") \in Line /\ EngineLine("error").id = Null
        BY LineType DEF EngineLine
      <4>. DEFINE w == Wrote(child[c], EngineLine("error"))
      <4>2. /\ w \in ChildRecord /\ w.pipe = Append(child[c].pipe, EngineLine("error"))
            /\ w.streams = child[c].streams /\ w.asked = child[c].asked
        BY <1>3, <4>1, WroteType
      <4>3. child' = [child EXCEPT ![c] = w]
        BY <3>2 DEF ChildBabbles
      <4>. HIDE DEF w
      <4>. QED  BY <4>1, <4>2, <4>3
    <3>. QED  BY <1>4, <3>1, <3>2
  <2>2. UNCHANGED said
    BY <1>4 DEF ChildReady, ChildBabbles
  <2>3. ASSUME NEW i \in Jobs PROVE ChildOK(m, c, job[i], said[i], i)
    <3>1. l.id # i
      BY <2>1, EngineAssumption
    <3>2. ChildOK(child[c], c, job[i], said[i], i)
      BY DEF Children_OK
    <3>. QED  BY <1>3, <2>1, <3>1, <3>2, PipeOther DEF ChildOK, AskedOK
  <2>. QED  BY <1>1, <1>2, <1>3, <2>1, <2>2, <2>3 DEF Rest, Jobs_OK, Children_OK, external
<1>5. CASE ChildExits(c)
  <2>1. child' = [child EXCEPT ![c] = Gone(child[c])] /\ UNCHANGED said
    BY <1>5 DEF ChildExits
  <2>2. ASSUME NEW i \in Jobs PROVE ChildOK(Gone(child[c]), c, job[i], said[i], i)
    BY <1>3, GoneType, ChildDrops DEF Children_OK
  <2>. QED  BY <1>1, <1>2, <1>3, <2>1, <2>2 DEF Rest, Jobs_OK, Children_OK, external
<1>6. ASSUME NEW j \in Jobs, ChildAnswers(c, j) \/ ChildRefuses(c, j)
      PROVE  Rest'
  <2>1. PICK e \in Event : ChildSays(c, j, e) /\ e.at = Len(said[j]) + 1 /\ e.id = j
    BY <1>6, NextEventType DEF ChildAnswers, ChildRefuses, NextEvent, Regular
  <2>2. /\ job[j] \in JobRecord /\ said[j] \in Seq(Event)
        /\ JobOK(job[j], said[j], j)
        /\ ChildOK(child[c], c, job[j], said[j], j)
    BY DEF TypeOK, Jobs_OK, Children_OK
  <2>3. /\ j \in child[c].asked
        /\ said' = [said EXCEPT ![j] = Append(said[j], e)]
    BY <2>1 DEF ChildSays
  <2>4. AskedOK(c, job[j], said[j])
    BY <2>2, <2>3 DEF ChildOK
  <2>5. job[j].from \notin {"stub", "http"}
    BY <2>4, EngineAssumption DEF AskedOK
  <2>6. JobOK(job[j], Append(said[j], e), j)
    BY <2>1, <2>2, <2>4, <2>5, SaysOK DEF JobOK, AskedOK, ServedOK
  <2>7. PICK m : /\ child' = [child EXCEPT ![c] = m]
                 /\ m.pipe = Append(child[c].pipe, e)
                 /\ m.streams = child[c].streams
                 /\ m.asked = IF Over(e) THEN child[c].asked \ {j} ELSE child[c].asked
    <3>. DEFINE w == Wrote(child[c], e)
    <3>1. /\ w \in ChildRecord /\ w.pipe = Append(child[c].pipe, e)
          /\ w.streams = child[c].streams /\ w.asked = child[c].asked
      BY <1>3, LineType, WroteType
    <3>2. child' = [child EXCEPT ![c] = IF Over(e) THEN Served(w, j) ELSE w]
      BY <2>1 DEF ChildSays
    <3>. HIDE DEF w
    <3>3. CASE Over(e)
      <4>1. /\ Served(w, j).pipe = w.pipe /\ Served(w, j).streams = w.streams
            /\ Served(w, j).asked = w.asked \ {j}
        BY <3>1, ServedType
      <4>. QED  BY <3>1, <3>2, <3>3, <4>1
    <3>4. CASE ~Over(e)
      BY <3>1, <3>2, <3>4
    <3>. QED  BY <3>3, <3>4
  <2>8. Jobs_OK'
    BY <1>1, <2>3, <2>6 DEF Jobs_OK, TypeOK, external
  <2>9. ASSUME NEW i \in Jobs PROVE ChildOK(m, c, job[i], said'[i], i)
    <3>1. CASE i # j
      <4>1. e \in Line /\ e.id # i /\ said'[i] = said[i]
        BY <2>1, <2>3, <3>1, LineType DEF TypeOK
      <4>2. ChildOK(child[c], c, job[i], said[i], i)
        BY DEF Children_OK
      <4>3. i \in m.asked => i \in child[c].asked
        BY <2>7
      <4>. QED  BY <1>3, <2>7, <4>1, <4>2, <4>3, PipeOther DEF ChildOK
    <3>2. CASE i = j
      <4>1. Received(job[j]) \in Nat /\ Received(job[j]) <= Len(said[j])
        BY <2>2, ReceivedNat DEF JobOK, ReaderOK, ReadsSaid, Received
      <4>2. /\ PipeOK(m.pipe, c, job[j], Append(said[j], e), j)
            /\ j \in m.streams => StreamOK(m.pipe, c, job[j], Append(said[j], e), j)
        BY <1>3, <2>1, <2>2, <2>4, <2>7, <4>1, PipeNext, ZenonT(40) DEF ChildOK, AskedOK
      <4>3. j \in m.asked => AskedOK(c, job[j], Append(said[j], e))
        <5>1. SUFFICES ASSUME ~Over(e) PROVE AskedOK(c, job[j], Append(said[j], e))
          BY <2>7
        <5>2. \A k \in 1..Len(Append(said[j], e)) : ~Over(Append(said[j], e)[k])
          <6>. DEFINE t == Append(said[j], e)
          <6>1. /\ Len(said[j]) \in Nat /\ Len(t) = Len(said[j]) + 1 /\ t[Len(said[j]) + 1] = e
                /\ \A k \in 1..Len(said[j]) : t[k] = said[j][k]
            BY <2>2
          <6>. HIDE DEF t
          <6>2. \A k \in 1..Len(t) : ~Over(t[k])
            BY <2>4, <5>1, <6>1 DEF AskedOK
          <6>. QED  BY <6>2 DEF t
        <5>. QED  BY <2>4, <5>2 DEF AskedOK
      <4>4. said'[j] = Append(said[j], e)
        BY <2>3 DEF TypeOK
      <4>. QED  BY <3>2, <4>2, <4>3, <4>4 DEF ChildOK
    <3>. QED  BY <3>1, <3>2
  <2>10. ASSUME NEW d \in Children, d # c, NEW i \in Jobs
         PROVE  ChildOK(child[d], d, job[i], said'[i], i)
    <3>1. ChildOK(child[d], d, job[i], said[i], i)
      BY DEF Children_OK
    <3>2. CASE i # j
      BY <2>3, <3>1, <3>2 DEF TypeOK
    <3>3. CASE i = j
      <4>1. job[j].from # d
        BY <2>4, <2>10 DEF AskedOK
      <4>. QED  BY <3>1, <3>3, <4>1 DEF ChildOK, PipeOK, StreamOK, AskedOK
    <3>. QED  BY <3>2, <3>3
  <2>11. Children_OK'
    <3>1. UNCHANGED job
      BY <1>1 DEF external
    <3>2. child'[c] = m /\ \A d \in Children : d # c => child'[d] = child[d]
      BY <1>3, <2>7
    <3>. QED  BY <2>9, <2>10, <3>1, <3>2 DEF Children_OK
  <2>. QED  BY <1>2, <2>8, <2>11 DEF Rest
<1>. QED  BY <1>4, <1>5, <1>6

LEMMA RestStdout ==
  ASSUME IInv, NEW c \in Children, Stdout(c)
  PROVE  Rest'
<1>. USE DEF IInv, TypeInv
<1>. DEFINE line == Head(child[c].pipe)
            k == Read(child[c])
<1>1. /\ child \in [Children -> ChildRecord] /\ child[c] \in ChildRecord
      /\ child[c].pipe \in Seq(Line) /\ child[c].pipe # <<>> /\ child[c].streams \subseteq Jobs
  BY DEF TypeOK, ChildRecord, Stdout
<1>2. /\ k \in ChildRecord /\ k.pipe = Tail(child[c].pipe) /\ line \in Line
      /\ k.streams = child[c].streams /\ k.asked = child[c].asked
  BY <1>1, ReadType
<1>3. SameTraffic(Settled(k), k)
  BY <1>2, SettledType
<1>4. UNCHANGED <<daemon, cur, said>>
  BY DEF Stdout
<1>5. ASSUME NEW i \in Jobs
      PROVE  /\ job[i] \in JobRecord /\ said[i] \in Seq(Event) /\ Received(job[i]) \in Nat
             /\ JobOK(job[i], said[i], i)
             /\ \A d \in Children : ChildOK(child[d], d, job[i], said[i], i)
  BY ReceivedNat DEF TypeOK, Jobs_OK, Children_OK
<1>6. ASSUME NEW i \in Jobs, line.id # i \/ i \notin child[c].streams
      PROVE  ChildOK(k, c, job[i], said[i], i) /\ ChildOK(Settled(k), c, job[i], said[i], i)
  <2>1. ChildOK(child[c], c, job[i], said[i], i)
    BY <1>5
  <2>2. PipeOK(k.pipe, c, job[i], said[i], i)
    BY <1>1, <1>2, <1>5, <2>1, PipeRead DEF ChildOK
  <2>3. ASSUME i \in k.streams PROVE StreamOK(k.pipe, c, job[i], said[i], i)
    <3>1. Head(child[c].pipe).id # i /\ StreamOK(child[c].pipe, c, job[i], said[i], i)
      BY <1>2, <1>6, <2>1, <2>3 DEF ChildOK
    <3>2. PipeOK(child[c].pipe, c, job[i], said[i], i)
      BY <2>1 DEF ChildOK
    <3>3. StreamOK(Tail(child[c].pipe), c, job[i], said[i], i)
      BY <1>1, <1>5, <3>1, <3>2, PipeRead
    <3>. QED  BY <1>2, <3>3
  <2>4. ChildOK(k, c, job[i], said[i], i)
    BY <1>2, <2>1, <2>2, <2>3 DEF ChildOK
  <2>. QED  BY <1>3, <2>4, ChildDrops DEF SameTraffic
<1>. HIDE DEF k, line
<1>7. CASE /\ line = EngineLine("ready") /\ child[c].ready = "pending"
           /\ child' = [child EXCEPT ![c] = Settled(k)]
           /\ promise' = "ready" /\ backend' = "mojo" /\ job' = Resolved(c)
  <2>1. promise = "pending" /\ cur = c
    BY <1>7 DEF StartInv
  <2>2. \A i \in Jobs : line.id # i
    BY <1>7, EngineAssumption DEF EngineLine
  <2>3. SharedInv'
    <3>1. ASSUME daemon = "up", NEW i \in Jobs, job'[i].from \in Children
          PROVE  job'[i].from = c
      <4>1. job[i].from \notin Children
        BY <2>1, <3>1 DEF SharedInv
      <4>2. job'[i].from \in {job[i].from, c}
        BY <1>7, SettleOK
      <4>. QED  BY <3>1, <4>1, <4>2
    <3>. QED  BY <1>4, <1>7, <2>1, <3>1 DEF SharedInv
  <2>4. Jobs_OK'
    BY <1>4, <1>7, SettleOK DEF Jobs_OK
  <2>5. ASSUME NEW i \in Jobs PROVE ChildOK(Settled(k), c, Resolved(c)[i], said[i], i)
    <3>1. CASE job[i].pc = "starting"
      <4>1. said[i] = <<>> /\ job[i].pc \in Early
        BY <1>5, <3>1 DEF JobOK, ReaderOK, QueueOK, Early
      <4>2. ChildOK(Settled(k), c, job[i], <<>>, i)
        BY <1>6, <2>2, <4>1
      <4>3. ChildOK(Settled(k), c, Resolved(c)[i], <<>>, i)
        BY <4>1, <4>2, ChildOfEarly
      <4>. QED  BY <4>1, <4>3
    <3>2. CASE job[i].pc # "starting"
      BY <1>6, <2>2, <3>2 DEF Resolved, Starting
    <3>. QED  BY <3>1, <3>2
  <2>6. Children_OK'
    BY <1>1, <1>4, <1>7, <2>5, SettleOK DEF Children_OK
  <2>. QED  BY <2>3, <2>4, <2>6 DEF Rest
<1>8. CASE /\ line = EngineLine("error") /\ child[c].ready = "pending"
           /\ child' = [child EXCEPT ![c] = Settled(k)]
           /\ Rejects(c) /\ UNCHANGED backend
  <2>1. promise = "pending" /\ cur = c
    BY <1>8 DEF StartInv
  <2>2. \A i \in Jobs : line.id # i
    BY <1>8, EngineAssumption DEF EngineLine
  <2>3. job' = Rejected
    BY <1>8 DEF Rejects
  <2>4. SharedInv'
    <3>1. ASSUME daemon = "up", NEW i \in Jobs PROVE job'[i].from \notin Children
      BY <2>1, <2>3, <3>1, SettleOK DEF SharedInv
    <3>. QED  BY <1>4, <3>1 DEF SharedInv
  <2>5. Jobs_OK'
    BY <1>4, <2>3, SettleOK DEF Jobs_OK
  <2>6. ASSUME NEW i \in Jobs PROVE ChildOK(Settled(k), c, Rejected[i], said[i], i)
    <3>1. CASE job[i].pc = "starting"
      <4>1. said[i] = <<>> /\ job[i].pc \in Early
        BY <1>5, <3>1 DEF JobOK, ReaderOK, QueueOK, Early
      <4>2. ChildOK(Settled(k), c, job[i], <<>>, i)
        BY <1>6, <2>2, <4>1
      <4>3. ChildOK(Settled(k), c, Rejected[i], <<>>, i)
        BY <4>1, <4>2, ChildOfEarly
      <4>. QED  BY <4>1, <4>3
    <3>2. CASE job[i].pc # "starting"
      BY <1>6, <2>2, <3>2 DEF Rejected, Starting
    <3>. QED  BY <3>1, <3>2
  <2>7. Children_OK'
    BY <1>1, <1>4, <1>8, <2>3, <2>6, SettleOK DEF Children_OK
  <2>. QED  BY <2>4, <2>5, <2>7 DEF Rest
<1>9. CASE /\ IF line.id = Null THEN child[c].ready # "pending"
              ELSE line.id \notin child[c].streams
           /\ child' = [child EXCEPT ![c] = k]
           /\ UNCHANGED <<promise, backend, job>>
  <2>1. SharedInv' /\ Jobs_OK'
    BY <1>4, <1>9 DEF SharedInv, Jobs_OK
  <2>2. \A i \in Jobs : line.id # i \/ i \notin child[c].streams
    BY <1>9, EngineAssumption
  <2>3. Children_OK'
    BY <1>1, <1>4, <1>6, <1>9, <2>2 DEF Children_OK
  <2>. QED  BY <2>1, <2>3 DEF Rest
<1>10. CASE /\ line.id \in child[c].streams
            /\ child' = [child EXCEPT ![c] = IF Over(line) THEN Forgets(k, line.id) ELSE k]
            /\ job' = [job EXCEPT ![line.id] = Given(@, line)]
            /\ UNCHANGED <<promise, backend>>
  <2>. DEFINE j == line.id
  <2>1. j \in Jobs /\ line \in Event /\ j \in child[c].streams
    BY <1>1, <1>2, <1>10, LineType, EngineAssumption
  <2>. HIDE DEF j
  <2>2. /\ PipeOK(child[c].pipe, c, job[j], said[j], j)
        /\ StreamOK(child[c].pipe, c, job[j], said[j], j)
    BY <1>5, <2>1 DEF ChildOK
  <2>3. line.id = j /\ line = Head(child[c].pipe)
    BY DEF j, line
  <2>4. /\ PipeOK(k.pipe, c, job[j], said[j], j)
        /\ Received(job[j]) < Len(said[j]) /\ line = said[j][Received(job[j]) + 1]
        /\ Follows(k.pipe, Received(job[j]) + 1, said[j], j)
    <3>. DEFINE p == child[c].pipe
                r == job[j]
                s == said[j]
    <3>1. Head(p).id = j /\ Head(p) = line /\ k.pipe = Tail(p)
      BY <1>2, <2>3
    <3>2. p \in Seq(Line) /\ p # <<>> /\ s \in Seq(Event) /\ Received(r) \in Nat
      BY <1>1, <1>5, <2>1
    <3>3. PipeOK(p, c, r, s, j) /\ StreamOK(p, c, r, s, j)
      BY <2>2
    <3>. HIDE DEF p, r, s
    <3>4. /\ PipeOK(Tail(p), c, r, s, j)
          /\ Received(r) < Len(s) /\ Head(p) = s[Received(r) + 1]
          /\ Follows(Tail(p), Received(r) + 1, s, j)
      BY <3>1, <3>2, <3>3, PipeRead
    <3>. QED  BY <3>1, <3>4 DEF r, s
  <2>5. job[j].queue = "open" /\ job[j].pc \in Reading /\ job[j].from = c
        /\ \A n \in 1..Received(job[j]) : ~Over(said[j][n])
    BY <2>2 DEF StreamOK
  <2>. DEFINE q == Given(job[j], line)
  <2>6. /\ ReaderOK(q, said[j], j) /\ q.pc = "handling" /\ q.from = job[j].from
        /\ q.queue = IF Over(line) THEN "ended" ELSE "open"
        /\ Received(q) = Received(job[j]) + 1
    <3>. DEFINE r == job[j]
                s == said[j]
    <3>1. /\ r \in JobRecord /\ s \in Seq(Event) /\ ReaderOK(r, s, j)
          /\ r.queue = "open" /\ r.pc \in Reading
          /\ Received(r) < Len(s) /\ line = s[Received(r) + 1]
      BY <1>5, <2>1, <2>4, <2>5 DEF JobOK
    <3>. HIDE DEF r, s
    <3>2. /\ ReaderOK(Given(r, line), s, j)
          /\ Given(r, line).pc = "handling" /\ Given(r, line).from = r.from
          /\ Given(r, line).queue = IF Over(line) THEN "ended" ELSE "open"
          /\ Received(Given(r, line)) = Received(r) + 1
      BY <2>1, <3>1, GivenOK
    <3>. QED  BY <3>2 DEF r, s
  <2>7. JobOK(q, said[j], j)
    BY <2>5, <2>6, EngineAssumption DEF JobOK, ServedOK
  <2>8. job' = [job EXCEPT ![j] = q] /\ child' = [child EXCEPT ![c] = IF Over(line) THEN Forgets(k, j) ELSE k]
    BY <1>10, <2>3
  <2>. HIDE DEF q
  <2>9. SharedInv'
    BY <1>4, <1>10, <2>1, <2>6, <2>8 DEF SharedInv, TypeOK
  <2>10. Jobs_OK'
    BY <1>4, <2>7, <2>8 DEF Jobs_OK, TypeOK
  <2>11. PipeOK(k.pipe, c, q, said[j], j)
    BY <2>4, <2>6 DEF PipeOK
  <2>12. ~Over(line) => StreamOK(k.pipe, c, q, said[j], j)
    <3>1. SUFFICES ASSUME ~Over(line) PROVE StreamOK(k.pipe, c, q, said[j], j)
      OBVIOUS
    <3>2. Received(job[j]) \in Nat /\ Received(q) = Received(job[j]) + 1
      BY <1>5, <2>1, <2>6
    <3>3. Follows(k.pipe, Received(q), said[j], j)
      BY <2>4, <3>2
    <3>4. ASSUME NEW n \in 1..Received(q) PROVE ~Over(said[j][n])
      <4>1. n \in 1..Received(job[j]) \/ n = Received(job[j]) + 1
        BY <3>2
      <4>. QED  BY <2>4, <2>5, <3>1, <4>1
    <3>. QED  BY <2>4, <2>5, <2>6, <3>1, <3>2, <3>3, <3>4 DEF StreamOK, Follows, Reading
  <2>13. ASSUME j \in child[c].asked PROVE AskedOK(c, q, said[j])
    BY <1>5, <2>1, <2>6, <2>13 DEF ChildOK, AskedOK, Early
  <2>14. ChildOK(IF Over(line) THEN Forgets(k, j) ELSE k, c, q, said[j], j)
    <3>1. CASE Over(line)
      <4>1. /\ Forgets(k, j).pipe = k.pipe /\ Forgets(k, j).streams = k.streams \ {j}
            /\ Forgets(k, j).asked = k.asked
        BY <1>2, <2>1, ForgetsType
      <4>. QED  BY <1>2, <2>11, <2>13, <3>1, <4>1 DEF ChildOK
    <3>2. CASE ~Over(line)
      BY <1>2, <2>11, <2>12, <2>13, <3>2 DEF ChildOK
    <3>. QED  BY <3>1, <3>2
  <2>15. ASSUME NEW i \in Jobs, i # j
         PROVE  ChildOK(IF Over(line) THEN Forgets(k, j) ELSE k, c, job[i], said[i], i)
    <3>1. ChildOK(k, c, job[i], said[i], i)
      BY <1>6, <2>3, <2>15
    <3>2. CASE Over(line)
      <4>1. /\ Forgets(k, j).pipe = k.pipe /\ Forgets(k, j).streams \subseteq k.streams
            /\ Forgets(k, j).asked = k.asked
        BY <1>2, <2>1, ForgetsType
      <4>. QED  BY <3>1, <3>2, <4>1, ChildDrops
    <3>3. CASE ~Over(line)
      BY <3>1, <3>3
    <3>. QED  BY <3>2, <3>3
  <2>16. ASSUME NEW d \in Children, d # c PROVE ChildOK(child[d], d, q, said[j], j)
    <3>1. ChildOK(child[d], d, job[j], said[j], j)
      BY <1>5, <2>1
    <3>2. j \notin child[d].streams
      BY <2>5, <2>16, <3>1 DEF ChildOK, StreamOK
    <3>3. q.pc \notin Early /\ q.from = job[j].from
      BY <2>6 DEF Early
    <3>. QED  BY <3>1, <3>2, <3>3, ChildOfReader
  <2>17. Children_OK'
    <3>1. ASSUME NEW d \in Children, NEW i \in Jobs
          PROVE  ChildOK(child'[d], d, job'[i], said[i], i)
      <4>1. CASE d = c /\ i = j
        BY <1>1, <2>1, <2>8, <2>14, <4>1 DEF TypeOK
      <4>2. CASE d = c /\ i # j
        BY <1>1, <2>1, <2>8, <2>15, <4>2 DEF TypeOK
      <4>3. CASE d # c /\ i = j
        BY <1>1, <2>1, <2>8, <2>16, <4>3 DEF TypeOK
      <4>4. CASE d # c /\ i # j
        BY <1>1, <1>5, <2>1, <2>8, <4>4 DEF TypeOK
      <4>. QED  BY <4>1, <4>2, <4>3, <4>4
    <3>. QED  BY <1>4, <3>1 DEF Children_OK
  <2>. QED  BY <2>9, <2>10, <2>17 DEF Rest
<1>. QED  BY <1>7, <1>8, <1>9, <1>10 DEF Stdout, line, k

\* The loop learns that the child was never there, or that it is gone.
LEMMA RestLoop ==
  ASSUME IInv, NEW c \in Children, ChildError(c) \/ ExitEvent(c)
  PROVE  Rest'
<1>. USE DEF IInv, TypeInv
<1>1. child \in [Children -> ChildRecord] /\ child[c] \in ChildRecord
  BY DEF TypeOK
<1>2. ASSUME NEW i \in Jobs
      PROVE  /\ job[i] \in JobRecord /\ said[i] \in Seq(Event)
             /\ JobOK(job[i], said[i], i)
             /\ \A d \in Children : ChildOK(child[d], d, job[i], said[i], i)
  BY DEF TypeOK, Jobs_OK, Children_OK
<1>3. CASE ChildError(c)
  <2>1. /\ promise = "pending" /\ job' = Rejected
        /\ child' = [child EXCEPT ![c] = Settled(child[c])]
        /\ UNCHANGED <<daemon, backend, cur, said>>
    BY <1>3 DEF ChildError, Rejects, StartInv
  <2>2. SharedInv'
    <3>1. ASSUME daemon = "up", NEW i \in Jobs PROVE job'[i].from \notin Children
      BY <2>1, <3>1, SettleOK DEF SharedInv
    <3>. QED  BY <2>1, <3>1 DEF SharedInv
  <2>3. Jobs_OK'
    BY <2>1, SettleOK DEF Jobs_OK
  <2>4. ASSUME NEW i \in Jobs PROVE ChildOK(Settled(child[c]), c, Rejected[i], said[i], i)
    <3>1. ChildOK(child[c], c, Rejected[i], said[i], i)
      BY SettleOK
    <3>. QED  BY <1>1, <3>1, SettledType, ChildDrops DEF SameTraffic
  <2>5. Children_OK'
    BY <1>1, <2>1, <2>4, SettleOK DEF Children_OK
  <2>. QED  BY <2>2, <2>3, <2>5 DEF Rest
<1>4. CASE ExitEvent(c)
  <2>. DEFINE m == Settled(Deserted(child[c]))
  <2>1. m.pipe = child[c].pipe /\ m.streams = {} /\ m.asked = child[c].asked
    <3>. DEFINE w == Deserted(child[c])
    <3>1. /\ w \in ChildRecord /\ w.pipe = child[c].pipe /\ w.streams = {}
          /\ w.asked = child[c].asked
      BY <1>1, DesertedType
    <3>. HIDE DEF w
    <3>2. SameTraffic(Settled(w), w)
      BY <3>1, SettledType
    <3>. QED  BY <3>1, <3>2 DEF SameTraffic, w
  <2>2. /\ child' = [child EXCEPT ![c] = m]
        /\ UNCHANGED <<backend, cur, said>>
        /\ daemon' = "up" => daemon = "up"
    BY <1>4 DEF ExitEvent
  <2>. HIDE DEF m
  <2>3. ASSUME NEW i \in Jobs
        PROVE  job'[i] = IF i \in child[c].streams THEN Failed(job[i])
                         ELSE IF child[c].ready = "pending" /\ job[i].pc = "starting"
                         THEN At(job[i], "failed") ELSE job[i]
    BY <1>4 DEF ExitEvent, Starting
  <2>4. ASSUME NEW i \in Jobs PROVE job'[i].from = job[i].from
    BY <1>2, <2>3, FailedType, AtType
  <2>5. SharedInv'
    <3>1. ASSUME daemon = "up", NEW i \in Jobs, job[i].from \in Children
          PROVE  promise = "ready" /\ backend = "mojo" /\ cur = job[i].from /\ promise' = promise
      <4>1. promise = "ready" /\ backend = "mojo" /\ cur = job[i].from
        BY <3>1 DEF SharedInv
      <4>2. child[c].ready # "pending"
        BY <4>1 DEF StartInv
      <4>. QED  BY <1>4, <3>1, <4>1, <4>2 DEF ExitEvent
    <3>. QED  BY <2>2, <2>4, <3>1 DEF SharedInv
  <2>6. ASSUME NEW i \in Jobs, i \in child[c].streams
        PROVE  job[i].pc \in Reading /\ job[i].from = c
    BY <1>2, <2>6 DEF ChildOK, StreamOK
  <2>7. Jobs_OK'
    <3>1. ASSUME NEW i \in Jobs PROVE JobOK(job'[i], said[i], i)
      <4>1. CASE i \in child[c].streams
        BY <1>2, <2>3, <2>6, <4>1, StopsOK
      <4>2. CASE i \notin child[c].streams
        BY <1>2, <2>3, <4>2, StopsOK
      <4>. QED  BY <4>1, <4>2
    <3>. QED  BY <2>2, <3>1 DEF Jobs_OK
  <2>8. ASSUME NEW i \in Jobs, NEW d \in Children
        PROVE  ChildOK(child'[d], d, job[i], said[i], i) /\ (d = c => i \notin child'[d].streams)
    <3>1. CASE d = c
      <4>1. child'[d] = m
        BY <1>1, <2>2, <3>1
      <4>. QED  BY <1>2, <2>1, <3>1, <4>1, ChildDrops
    <3>2. CASE d # c
      BY <1>1, <1>2, <2>2, <3>2
    <3>. QED  BY <3>1, <3>2
  <2>9. ASSUME NEW i \in Jobs, NEW d \in Children
        PROVE  ChildOK(child'[d], d, job'[i], said[i], i)
    <3>1. CASE i \in child[c].streams
      <4>1. job'[i] = Failed(job[i])
        BY <2>3, <3>1
      <4>2. Failed(job[i]).from = job[i].from /\ Failed(job[i]).pc \notin Early
        BY <1>2, <2>6, <3>1, FailedType DEF Early, Reading
      <4>3. i \notin child'[d].streams
        <5>1. CASE d = c
          BY <2>8, <5>1
        <5>2. CASE d # c
          BY <2>6, <2>8, <3>1, <5>2 DEF ChildOK, StreamOK
        <5>. QED  BY <5>1, <5>2
      <4>. QED  BY <2>8, <4>1, <4>2, <4>3, ChildOfReader
    <3>2. CASE i \notin child[c].streams /\ child[c].ready = "pending" /\ job[i].pc = "starting"
      <4>1. said[i] = <<>> /\ job[i].pc \in Early
        BY <1>2, <3>2 DEF JobOK, ReaderOK, QueueOK, Early
      <4>2. ChildOK(child'[d], d, job[i], <<>>, i)
        BY <2>8, <4>1
      <4>3. ChildOK(child'[d], d, job'[i], <<>>, i)
        BY <4>1, <4>2, ChildOfEarly
      <4>. QED  BY <4>1, <4>3
    <3>3. CASE i \notin child[c].streams /\ ~(child[c].ready = "pending" /\ job[i].pc = "starting")
      BY <2>3, <2>8, <3>3
    <3>. QED  BY <3>1, <3>2, <3>3
  <2>10. Children_OK'
    BY <2>2, <2>9 DEF Children_OK
  <2>. QED  BY <2>5, <2>7, <2>10 DEF Rest
<1>. QED  BY <1>3, <1>4

LEMMA RestGenerate ==
  ASSUME IInv, NEW j \in Jobs, Generate(j)
  PROVE  Rest'
<1>. USE DEF IInv, TypeInv
<1>. DEFINE r == job[j]
<1>1. /\ job \in [Jobs -> JobRecord] /\ child \in [Children -> ChildRecord]
      /\ r \in JobRecord /\ JobOK(r, said[j], j)
      /\ r.pc = "ready"
      /\ \A d \in Children : ChildOK(child[d], d, r, said[j], j)
  BY DEF TypeOK, Jobs_OK, Children_OK, Generate
<1>2. /\ UNCHANGED <<promise, backend, cur, said>>
      /\ daemon' = "up" => daemon = "up"
  BY DEF Generate
<1>3. /\ said[j] = <<>> /\ r.pc \in Early /\ r.queue = "open" /\ Received(r) = 0
  <2>1. said[j] = <<>> /\ r.pc \in Early /\ r.queue = "open" /\ r.got = <<>> /\ r.vals = <<>>
    BY <1>1 DEF JobOK, ReaderOK, QueueOK, Early
  <2>. QED  BY <2>1 DEF Received, Taken
<1>4. /\ ReaderOK(Asked(r), <<>>, j) /\ Asked(r).from = r.from /\ Asked(r).queue = "open"
      /\ Received(Asked(r)) = 0 /\ Asked(r).pc \in Reading
  <2>1. ReaderOK(r, <<>>, j) /\ r.pc \in {"ready", "handling"} /\ r.pc # "handling"
    BY <1>1, <1>3 DEF JobOK
  <2>2. <<>> \in Seq(Event)
    OBVIOUS
  <2>. HIDE DEF r
  <2>3. /\ ReaderOK(Asked(r), <<>>, j) /\ Asked(r).from = r.from
        /\ Asked(r).queue = r.queue /\ Received(Asked(r)) = Received(r)
        /\ r.queue = "open" => Asked(r).pc \in Reading
    BY <1>1, <2>1, <2>2, AskedOK1
  <2>. QED  BY <1>3, <2>3
<1>5. JobOK(Asked(r), <<>>, j)
  BY <1>4 DEF JobOK, ServedOK
<1>6. /\ At(r, "failed").from = r.from /\ JobOK(At(r, "failed"), <<>>, j)
  <2>1. JobOK(r, <<>>, j) /\ <<>> \in Seq(Event)
    BY <1>1, <1>3
  <2>. HIDE DEF r
  <2>. QED  BY <1>1, <2>1, AtType, StopsOK
<1>7. ASSUME NEW d \in Children
      PROVE  /\ ChildOK(child[d], d, Asked(r), <<>>, j)
             /\ ChildOK(child[d], d, At(r, "failed"), <<>>, j)
             /\ PipeOK(child[d].pipe, d, Asked(r), <<>>, j)
  <2>1. ChildOK(child[d], d, r, <<>>, j)
    BY <1>1, <1>3
  <2>2. /\ ChildOK(child[d], d, Asked(r), <<>>, j)
        /\ ChildOK(child[d], d, At(r, "failed"), <<>>, j)
    BY <1>3, <2>1, ChildOfEarly
  <2>. QED  BY <2>2 DEF ChildOK
<1>8. ASSUME r.from \in Children
      PROVE  /\ ChildOK(Requested(child[r.from], j), r.from, Asked(r), <<>>, j)
             /\ \A i \in Jobs \ {j} :
                   ChildOK(Requested(child[r.from], j), r.from, job[i], said[i], i)
  <2>. DEFINE c == r.from
              m == Requested(child[c], j)
  <2>1. /\ m.pipe = child[c].pipe /\ m.streams = child[c].streams \cup {j}
        /\ m.asked \in {child[c].asked, child[c].asked \cup {j}}
    BY <1>1, <1>8, RequestedType
  <2>2. PipeOK(m.pipe, c, Asked(r), <<>>, j)
    BY <1>7, <1>8, <2>1
  <2>3. ASSUME NEW i \in Jobs, i # j PROVE ChildOK(child[c], c, job[i], said[i], i)
    BY <1>8 DEF Children_OK
  <2>. HIDE DEF c, m
  <2>4. StreamOK(m.pipe, c, Asked(r), <<>>, j)
    <3>1. Asked(r).from = c
      BY <1>4 DEF c
    <3>2. \A i \in 1..Len(m.pipe) : m.pipe[i].id # j
      BY <2>2 DEF PipeOK
    <3>. QED  BY <1>4, <3>1, <3>2 DEF StreamOK
  <2>5. AskedOK(c, Asked(r), <<>>)
    BY <1>4 DEF AskedOK, Early, Reading, c
  <2>6. ChildOK(m, c, Asked(r), <<>>, j)
    BY <2>2, <2>4, <2>5 DEF ChildOK
  <2>7. ASSUME NEW i \in Jobs, i # j PROVE ChildOK(m, c, job[i], said[i], i)
    BY <2>1, <2>3, <2>7 DEF ChildOK
  <2>. QED  BY <2>6, <2>7 DEF c, m
<1>9. /\ job' = [job EXCEPT ![j] = Asked(r)] \/ job' = [job EXCEPT ![j] = At(r, "failed")]
      /\ \/ UNCHANGED child
         \/ /\ job' = [job EXCEPT ![j] = Asked(r)] /\ r.from \in Children
            /\ child' = [child EXCEPT ![r.from] = Requested(child[r.from], j)]
  BY DEF Generate
<1>. HIDE DEF r
<1>10. ASSUME NEW i \in Jobs PROVE i # j => job'[i] = job[i]
  BY <1>1, <1>9
<1>11. job'[j] \in {Asked(r), At(r, "failed")}
  BY <1>1, <1>9
<1>12. SharedInv'
  <2>1. ASSUME NEW i \in Jobs PROVE job'[i].from = job[i].from
    BY <1>4, <1>6, <1>10, <1>11 DEF r
  <2>. QED  BY <1>2, <2>1 DEF SharedInv
<1>13. Jobs_OK'
  BY <1>2, <1>3, <1>5, <1>6, <1>10, <1>11 DEF Jobs_OK
<1>14. ASSUME NEW d \in Children, NEW i \in Jobs PROVE ChildOK(child'[d], d, job'[i], said[i], i)
  <2>1. CASE UNCHANGED child
    BY <1>3, <1>7, <1>10, <1>11, <2>1 DEF Children_OK
  <2>2. CASE /\ job' = [job EXCEPT ![j] = Asked(r)] /\ r.from \in Children
             /\ child' = [child EXCEPT ![r.from] = Requested(child[r.from], j)]
    <3>1. job'[j] = Asked(r)
      BY <1>1, <2>2
    <3>2. CASE d = r.from
      <4>1. child'[d] = Requested(child[r.from], j)
        BY <1>1, <2>2, <3>2
      <4>. QED  BY <1>3, <1>8, <1>10, <2>2, <3>1, <3>2, <4>1
    <3>3. CASE d # r.from
      <4>1. child'[d] = child[d]
        BY <1>1, <2>2, <3>3
      <4>. QED  BY <1>3, <1>7, <1>10, <3>1, <4>1 DEF Children_OK
    <3>. QED  BY <3>2, <3>3
  <2>. QED  BY <1>9, <2>1, <2>2
<1>15. Children_OK'
  BY <1>2, <1>14 DEF Children_OK
<1>. QED  BY <1>12, <1>13, <1>15 DEF Rest

LEMMA RestHandled ==
  ASSUME IInv, NEW j \in Jobs, Handled(j)
  PROVE  Rest'
<1>. USE DEF IInv, TypeInv
<1>. DEFINE r == job[j]
            s == said[j]
<1>1. /\ job \in [Jobs -> JobRecord]
      /\ r \in JobRecord /\ s \in Seq(Event) /\ JobOK(r, s, j) /\ r.pc = "handling"
      /\ \A d \in Children : ChildOK(child[d], d, r, s, j)
  BY DEF TypeOK, Jobs_OK, Children_OK, Handled
<1>2. UNCHANGED <<daemon, promise, backend, cur, child, said>>
  BY DEF Handled
<1>3. \/ /\ Last(r.got).type = "error"
         /\ job' = [job EXCEPT ![j] = At(r, "failed")]
      \/ /\ Last(r.got).type # "error"
         /\ job' = [job EXCEPT ![j] = Asked(r)]
  BY DEF Handled
<1>. HIDE DEF r, s
<1>4. PICK q : /\ job' = [job EXCEPT ![j] = q]
               /\ q.from = r.from /\ q.pc \notin Early /\ JobOK(q, s, j)
               /\ Last(r.got).type # "error" =>
                     /\ Received(q) = Received(r) /\ q.queue = r.queue
                     /\ r.queue = "open" => q.pc \in Reading
  <2>1. CASE Last(r.got).type = "error"
    BY <1>1, <1>3, <2>1, AtType, StopsOK DEF Early
  <2>2. CASE Last(r.got).type # "error"
    <3>1. /\ ReaderOK(Asked(r), s, j)
          /\ Asked(r).from = r.from /\ Asked(r).queue = r.queue
          /\ Received(Asked(r)) = Received(r)
          /\ Asked(r).pc \notin Early
          /\ r.queue = "open" => Asked(r).pc \in Reading
      BY <1>1, <2>2, AskedOK1 DEF JobOK
    <3>2. ServedOK(Asked(r), s)
      BY <1>1, <3>1 DEF JobOK, ServedOK, Reading
    <3>. QED  BY <1>3, <2>2, <3>1, <3>2 DEF JobOK
  <2>. QED  BY <2>1, <2>2
<1>5. ASSUME NEW d \in Children PROVE ChildOK(child[d], d, q, s, j)
  <2>1. ASSUME j \in child[d].streams
        PROVE  Received(q) = Received(r) /\ q.queue = r.queue /\ q.pc \in Reading
    <3>1. r.queue = "open" /\ \A k \in 1..Received(r) : ~Over(s[k])
      BY <1>1, <2>1 DEF ChildOK, StreamOK
    <3>2. Last(r.got).type # "error"
      BY <1>1, <3>1, ReadsOn DEF JobOK
    <3>. QED  BY <1>4, <3>1, <3>2
  <2>. QED  BY <1>1, <1>4, <2>1, ChildOfReader
<1>6. SharedInv'
  BY <1>1, <1>2, <1>4 DEF SharedInv, r
<1>7. Jobs_OK'
  BY <1>1, <1>2, <1>4 DEF Jobs_OK, s
<1>8. Children_OK'
  BY <1>1, <1>2, <1>4, <1>5 DEF Children_OK, s
<1>. QED  BY <1>6, <1>7, <1>8 DEF Rest

\* A backend without a child says something more.
LEMMA RestProduce ==
  ASSUME IInv, NEW j \in Jobs, StubProduces(j) \/ ServerAnswers(j) \/ ServerFails(j)
  PROVE  Rest'
<1>. USE DEF IInv, TypeInv
<1>. DEFINE r == job[j]
            s == said[j]
<1>1. PICK e \in Event : Produce(j, e) /\ e.at = Len(s) + 1 /\ e.id = j
  BY NextEventType DEF StubProduces, ServerAnswers, ServerFails, NextEvent, Regular
<1>2. r.from \in {"stub", "http"}
  BY DEF StubProduces, ServerAnswers, ServerFails
<1>3. /\ job \in [Jobs -> JobRecord] /\ said \in [Jobs -> Seq(Event)]
      /\ r \in JobRecord /\ s \in Seq(Event) /\ JobOK(r, s, j)
      /\ \A d \in Children : ChildOK(child[d], d, r, s, j)
  BY DEF TypeOK, Jobs_OK, Children_OK
<1>4. /\ r.pc \in Reading /\ r.queue = "open"
      /\ said' = [said EXCEPT ![j] = Append(s, e)]
      /\ job' = [job EXCEPT ![j] = Given(r, e)]
      /\ UNCHANGED <<daemon, promise, backend, cur, child>>
  BY <1>1 DEF Produce, Begun, Reading
<1>. HIDE DEF r, s
<1>. DEFINE t == Append(s, e)
            q == Given(r, e)
<1>5. Received(r) = Len(s) /\ \A k \in 1..Len(s) : ~Over(s[k])
  BY <1>2, <1>3, <1>4 DEF JobOK, ServedOK
<1>6. /\ t \in Seq(Event) /\ Len(s) \in Nat /\ Len(t) = Len(s) + 1 /\ t[Len(s) + 1] = e
      /\ \A k \in 1..Len(s) : t[k] = s[k]
  BY <1>3
<1>7. ReaderOK(r, t, j)
  BY <1>1, <1>3, <1>4, <1>5, SaysOK DEF JobOK, Early, Reading
<1>. HIDE DEF t
<1>8. /\ ReaderOK(q, t, j) /\ q.from = r.from
      /\ q.queue = IF Over(e) THEN "ended" ELSE "open"
      /\ Received(q) = Len(t)
  <2>1. Received(r) < Len(t) /\ e = t[Received(r) + 1]
    BY <1>5, <1>6
  <2>2. /\ ReaderOK(Given(r, e), t, j) /\ Given(r, e).from = r.from
        /\ Given(r, e).queue = IF Over(e) THEN "ended" ELSE "open"
        /\ Received(Given(r, e)) = Received(r) + 1
    BY <1>1, <1>3, <1>4, <1>6, <1>7, <2>1, GivenOK, ZenonT(40)
  <2>. QED  BY <1>5, <1>6, <2>2
<1>. HIDE DEF q
<1>9. JobOK(q, t, j)
  <2>1. ASSUME q.queue = "open" PROVE \A k \in 1..Len(t) : ~Over(t[k])
    <3>1. ~Over(e)
      BY <1>8, <2>1
    <3>. QED  BY <1>5, <1>6, <3>1
  <2>. QED  BY <1>8, <2>1 DEF JobOK, ServedOK
<1>10. ASSUME NEW d \in Children PROVE ChildOK(child[d], d, q, t, j)
  <2>1. r.from # d /\ ChildOK(child[d], d, r, s, j)
    BY <1>2, <1>3, EngineAssumption
  <2>2. /\ \A i \in 1..Len(child[d].pipe) : child[d].pipe[i].id # j
        /\ j \notin child[d].streams /\ j \notin child[d].asked
    BY <2>1 DEF ChildOK, PipeOK, StreamOK, AskedOK
  <2>. QED  BY <2>2 DEF ChildOK, PipeOK
<1>11. /\ job'[j] = q /\ said'[j] = t
       /\ \A i \in Jobs \ {j} : job'[i] = job[i] /\ said'[i] = said[i]
  BY <1>3, <1>4 DEF q, t
<1>12. SharedInv'
  BY <1>2, <1>4, <1>8, <1>11, EngineAssumption DEF SharedInv
<1>13. Jobs_OK'
  BY <1>9, <1>11 DEF Jobs_OK
<1>14. Children_OK'
  BY <1>4, <1>10, <1>11 DEF Children_OK
<1>. QED  BY <1>12, <1>13, <1>14 DEF Rest

LEMMA RestEnd ==
  ASSUME IInv,
         \/ ServerGoes \/ ServerComes
         \/ Signal \/ ShutdownEngine \/ DrainTimesOut \/ Leave
  PROVE  Rest'
<1>. USE DEF IInv, TypeInv
<1>1. UNCHANGED <<cur, backend, job, said>>
  BY DEF ServerGoes, ServerComes, Signal, ShutdownEngine, DrainTimesOut, Leave
<1>2. daemon' # "up" \/ UNCHANGED <<daemon, promise>>
  BY DEF ServerGoes, ServerComes, Signal, ShutdownEngine, DrainTimesOut, Leave
<1>3. SharedInv'
  BY <1>1, <1>2 DEF SharedInv
<1>4. Jobs_OK'
  BY <1>1 DEF Jobs_OK
<1>5. \/ UNCHANGED child
      \/ cur \in Children /\ child' = [child EXCEPT ![cur] = Told(child[cur])]
  BY DEF ServerGoes, ServerComes, Signal, ShutdownEngine, DrainTimesOut, Leave, HasChild, StartInv
<1>6. ASSUME NEW d \in Children, NEW i \in Jobs PROVE ChildOK(Told(child[d]), d, job[i], said[i], i)
  <2>1. child[d] \in ChildRecord /\ ChildOK(child[d], d, job[i], said[i], i)
    BY DEF TypeOK, Children_OK
  <2>. QED  BY <2>1, ToldType, ChildDrops DEF SameTraffic
<1>7. Children_OK'
  BY <1>1, <1>5, <1>6 DEF Children_OK, TypeOK
<1>. QED  BY <1>3, <1>4, <1>7 DEF Rest

LEMMA Invariance == IInv /\ [Next]_vars => IInv'
<1>. SUFFICES ASSUME IInv, [Next]_vars PROVE TypeInv' /\ Rest'
  BY DEF IInv, Rest
<1>1. CASE UNCHANGED vars
  BY <1>1 DEF vars, IInv, TypeInv, TypeOK, StartInv, SharedInv, Jobs_OK, Children_OK, Rest
<1>2. ASSUME NEW j \in Jobs, JobStep(j) \/ StubProduces(j) \/ ServerAnswers(j) \/ ServerFails(j)
      PROVE  TypeInv' /\ Rest'
  <2>1. CASE AskEngine(j)
    BY <2>1, TypeStart, RestStart DEF IInv
  <2>2. CASE Generate(j)
    BY <2>2, TypeJob, RestGenerate DEF IInv
  <2>3. CASE Handled(j)
    BY <2>3, TypeJob, RestHandled DEF IInv
  <2>4. CASE StubProduces(j) \/ ServerAnswers(j) \/ ServerFails(j)
    BY <2>4, TypeJob, RestProduce DEF IInv
  <2>. QED  BY <1>2, <2>1, <2>2, <2>3, <2>4 DEF JobStep
<1>3. ASSUME NEW c \in Children, ChildError(c) \/ Stdout(c) \/ ExitEvent(c)
      PROVE  TypeInv' /\ Rest'
  BY <1>3, TypeLoop, RestLoop, RestStdout DEF IInv
<1>4. ASSUME NEW c \in Children,
             \/ ChildReady(c) \/ ChildBabbles(c) \/ ChildExits(c)
             \/ \E j \in Jobs : ChildAnswers(c, j) \/ ChildRefuses(c, j)
      PROVE  TypeInv' /\ Rest'
  BY <1>4, TypeChild, RestChild DEF IInv
<1>5. CASE UseServer \/ UseStub \/ NoServer \/ Spawn
  BY <1>5, TypeStart, RestStart DEF IInv
<1>6. CASE \/ ServerGoes \/ ServerComes
           \/ Signal \/ ShutdownEngine \/ DrainTimesOut \/ Leave
  BY <1>6, TypeEnd, RestEnd DEF IInv
<1>. QED  BY <1>1, <1>2, <1>3, <1>4, <1>5, <1>6 DEF Next

-----------------------------------------------------------------------------
(***************************************************************************)
(* What follows from the invariant.                                        *)
(***************************************************************************)
LEMMA InvariantHolds == Spec => []IInv
<1>1. Init => IInv
  BY TypeInit, RestInit DEF IInv, Rest
<1>. QED  BY <1>1, Invariance, PTL DEF Spec

LEMMA PrefixOfSaid ==
  ASSUME NEW g \in Seq(Event), NEW v \in Seq(Event), NEW s \in Seq(Event), ReadsSaid(g, v, s)
  PROVE  IsPrefix(g \o v, s)
<1>. DEFINE h == g \o v
<1>1. /\ h \in Seq(Event) /\ Len(h) = Len(g) + Len(v)
      /\ \A k \in 1..Len(h) : h[k] = IF k <= Len(g) THEN g[k] ELSE v[k - Len(g)]
  OBVIOUS
<1>2. Len(g) \in Nat /\ Len(v) \in Nat /\ Len(s) \in Nat
  OBVIOUS
<1>. HIDE DEF h
<1>3. Len(h) <= Len(s)
  BY <1>1 DEF ReadsSaid, Taken
<1>4. ASSUME NEW k \in 1..Len(h) PROVE h[k] = s[k]
  <2>1. CASE k <= Len(g)
    <3>1. k \in 1..Len(g)
      BY <1>2, <2>1
    <3>. QED  BY <1>1, <2>1, <3>1 DEF ReadsSaid
  <2>2. CASE ~(k <= Len(g))
    <3>1. k - Len(g) \in 1..Len(v) /\ Len(g) + (k - Len(g)) = k
      BY <1>1, <1>2, <2>2
    <3>. QED  BY <1>1, <2>2, <3>1 DEF ReadsSaid
  <2>. QED  BY <2>1, <2>2
<1>5. SubSeq(s, 1, Len(h)) = h
  BY <1>1, <1>2, <1>3, <1>4
<1>. QED  BY <1>1, <1>2, <1>3, <1>4, <1>5 DEF IsPrefix, h

\* Every variable keeps its type, whatever the jobs, the child and the daemon do.
THEOREM TypeCorrect == Spec => []TypeOK
<1>1. IInv => TypeOK
  BY DEF IInv, TypeInv
<1>. QED  BY <1>1, InvariantHolds, PTL

\* AsyncQueue never leaves a reader asleep with a value for it, or after the
\* queue was ended or failed (packages/engine/src/async-queue.js).
THEOREM NoLostWakeups == Spec => []NoLostWakeup
<1>1. IInv => NoLostWakeup
  BY DEF IInv, Jobs_OK, JobOK, ReaderOK, QueueOK, NoLostWakeup
<1>. QED  BY <1>1, InvariantHolds, PTL

\* What a job has read from its generation, and what is queued for it, is a
\* prefix of what the engine said for that job: EngineProcess gives every
\* line to the stream of its id, in order and once.
THEOREM ReadsPrefixes == Spec => []ReadsAPrefix
<1>1. IInv => ReadsAPrefix
  <2>1. SUFFICES ASSUME IInv, NEW j \in Jobs PROVE IsPrefix(job[j].got \o job[j].vals, said[j])
    BY DEF ReadsAPrefix
  <2>2. job[j] \in JobRecord /\ said[j] \in Seq(Event)
    BY <2>1 DEF IInv, TypeInv, TypeOK
  <2>3. ReadsSaid(job[j].got, job[j].vals, said[j])
    BY <2>1 DEF IInv, Jobs_OK, JobOK, ReaderOK
  <2>. QED  BY <2>2, <2>3, ReceivedNat, PrefixOfSaid
<1>. QED  BY <1>1, InvariantHolds, PTL

\* A job completes only after the engine's done event, with all that the
\* engine said: a child that dies in mid-answer fails the job.
THEOREM CompletedJobsWereEnded == Spec => []CompletedWasEnded
<1>1. IInv => CompletedWasEnded
  <2>1. SUFFICES ASSUME IInv, NEW j \in Jobs, job[j].pc = "done"
                 PROVE  /\ job[j].got # <<>> /\ Last(job[j].got).type = "done"
                        /\ job[j].got = said[j]
    BY DEF CompletedWasEnded
  <2>2. /\ job[j] \in JobRecord /\ said[j] \in Seq(Event)
        /\ ReadsSaid(job[j].got, job[j].vals, said[j]) /\ QueueOK(job[j], said[j])
    BY <2>1 DEF IInv, TypeInv, TypeOK, Jobs_OK, JobOK, ReaderOK
  <2>3. /\ job[j].vals = <<>> /\ job[j].got # <<>>
        /\ job[j].got[Len(job[j].got)].type = "done"
        /\ Received(job[j]) = Len(said[j])
    BY <2>1, <2>2 DEF QueueOK
  <2>4. ASSUME NEW g \in Seq(Event), NEW s \in Seq(Event),
               ReadsSaid(g, <<>>, s), Taken(g, <<>>) = Len(s)
        PROVE  g = s
    <3>1. Len(g) = Len(s) /\ \A k \in 1..Len(g) : g[k] = s[k]
      BY <2>4 DEF ReadsSaid, Taken
    <3>. QED  BY <2>4, <3>1
  <2>5. job[j].got = said[j]
    BY <2>2, <2>3, <2>4, ReceivedNat DEF Received
  <2>. QED  BY <2>3, <2>5 DEF Last
<1>. QED  BY <1>1, InvariantHolds, PTL

\* While the daemon is up the jobs share one engine: getEngine assigns its
\* promise before the start, so no second start begins while one is pending.
THEOREM OneEngineShared == Spec => []OneEngine
<1>1. IInv => OneEngine
  BY DEF IInv, TypeInv, StartInv, SharedInv, OneEngine
<1>. QED  BY <1>1, InvariantHolds, PTL

\* Both of the above: whatever a reader was given or told is what the server said.
THEOREM AnswersHold == Spec => []AnswersAreTrue
BY ReadsPrefixes, CompletedJobsWereEnded, PTL DEF AnswersAreTrue
=============================================================================
