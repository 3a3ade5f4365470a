------------------------------- MODULE Routing -------------------------------
(***************************************************************************)
(* Which node gets a chat, and what nodes say of themselves.               *)
(*                                                                         *)
(* A daemon heartbeats what it can serve, from a cache of its own that it  *)
(* refreshes now and then, and how busy it is (apps/cli/commands/start.js, *)
(* register.js).  The control plane picks the node of a chat from the rows *)
(* of the last two minutes and lists models from those of the last ten     *)
(* (lib/data/chat.js).                                                     *)
(***************************************************************************)
EXTENDS Integers, Sequences, FiniteSets

CONSTANTS
    Nodes, ChatModels,
    Heavy,      \* models that do not fit the machines (filterFittingModels)
    Chosen,     \* config.engine.model of the machines
    Disliked,   \* nodes whose reputation has gone to 0
    Clients,    \* chats at a time (bound)
    Slots,      \* DEFAULT_CONCURRENCY_CAP of the picker
    Nothing

ASSUME RoutingAssumption ==
    /\ Slots \in Nat \ {0} /\ IsFiniteSet(Clients)
    /\ Heavy \subseteq ChatModels /\ Nothing \notin Nodes \cup ChatModels

VARIABLES
    (* machines *)
    onDisk,     \* models Ollama has
    awake,      \* machines whose daemon runs
    specsCache, \* cachedSpecs.served_models of a daemon
    busy,       \* chats a daemon works on: activeJobIds
    (* control plane *)
    ad,         \* rows of providers
    chat        \* a chat: what was asked, the rows read, the node

machineVars == <<onDisk, awake, specsCache, busy>>
routingVars == <<machineVars, ad, chat>>

\* How long ago the row was touched: within 2 minutes, within 10, before.
Ages == {"now", "minutes", "old"}
Ad == [status : {"available", "offline"}, age : Ages, served : SUBSET ChatModels,
       load : 0..Cardinality(Clients), known : BOOLEAN]

RoutingTypeOK ==
    /\ onDisk \in [Nodes -> SUBSET ChatModels]
    /\ awake \subseteq Nodes
    /\ specsCache \in [Nodes -> (SUBSET ChatModels) \cup {Nothing}]
    /\ busy \in [Nodes -> SUBSET Clients]
    /\ ad \in [Nodes -> Ad \cup {Nothing}]
    /\ chat \in [Clients -> [at : {"quiet", "picking", "assigned", "elsewhere"},
                             model : ChatModels \cup {Nothing},
                             read : SUBSET Nodes, node : Nodes \cup {Nothing}]]

Quiet == [at |-> "quiet", model |-> Nothing, read |-> {}, node |-> Nothing]

RoutingInit ==
    /\ onDisk = [n \in Nodes |-> {}] /\ awake = {}
    /\ specsCache = [n \in Nodes |-> Nothing]
    /\ busy = [n \in Nodes |-> {}]
    /\ ad = [n \in Nodes |-> Nothing]
    /\ chat = [c \in Clients |-> Quiet]

-----------------------------------------------------------------------------
(* The machines. *)

\* filterFittingModels: what fits, and the configured model whether it fits or not.
Fitting(models) == models \ Heavy
GatherCoarseSpecs(n) == Fitting(onDisk[n]) \cup (onDisk[n] \cap {Chosen})

\* `infernet register`: of the specs the server keeps the gpus (sanitizeSpecs).
RegisterAd(n) ==
    /\ ad' = [ad EXCEPT ![n] = [status |-> "available", age |-> "now", served |-> {},
                                load |-> 0, known |-> FALSE]]
    /\ UNCHANGED <<machineVars, chat>>

StartDaemon(n) ==
    /\ n \notin awake /\ awake' = awake \cup {n}
    /\ UNCHANGED <<onDisk, specsCache, busy, ad, chat>>

\* Mutation: the specs are gathered once.
GatheredOnce(n) == IF specsCache[n] = Nothing THEN {GatherCoarseSpecs(n)} ELSE {specsCache[n]}

\* freshSpecs: the cache while its five minutes last.
FreshSpecs(n) == {GatherCoarseSpecs(n)} \cup ({specsCache[n]} \ {Nothing})

\* Mutation: a daemon counts one chat too many.
LoadAndOne(n) == Cardinality(busy[n]) + 1
LiveLoad(n) == Cardinality(busy[n])

\* A heartbeat, which the server takes as it is; without a row it is refused.
HeartbeatWith(n, s) ==
    /\ n \in awake
    /\ s \in FreshSpecs(n)
    /\ specsCache' = [specsCache EXCEPT ![n] = s]
    /\ ad' = IF ad[n] = Nothing THEN ad
             ELSE [ad EXCEPT ![n] = [@ EXCEPT !.status = "available", !.age = "now",
                     !.served = s, !.load = LiveLoad(n), !.known = TRUE]]
    /\ UNCHANGED <<onDisk, awake, busy, chat>>

BeatFresh(n) == HeartbeatWith(n, GatherCoarseSpecs(n))
BeatCached(n) == \E s \in SUBSET ChatModels : HeartbeatWith(n, s)

\* The daemon ends, after its last heartbeat or without one; its chats are lost.
StopDaemon(n) ==
    /\ n \in awake /\ awake' = awake \ {n}
    /\ specsCache' = [specsCache EXCEPT ![n] = Nothing]
    /\ busy' = [busy EXCEPT ![n] = {}]
    /\ chat' = [c \in Clients |-> IF c \in busy[n] THEN Quiet ELSE chat[c]]
    /\ \/ UNCHANGED ad
       \/ ad[n] # Nothing /\ ad' = [ad EXCEPT ![n].status = "offline", ![n].age = "now"]
    /\ UNCHANGED onDisk

Pull(n, m) ==
    /\ onDisk' = [onDisk EXCEPT ![n] = @ \cup {m}]
    /\ UNCHANGED <<awake, specsCache, busy, ad, chat>>
Remove(n, m) ==
    /\ m \in onDisk[n] /\ onDisk' = [onDisk EXCEPT ![n] = @ \ {m}]
    /\ UNCHANGED <<awake, specsCache, busy, ad, chat>>

Older(age) == IF age = "now" THEN "minutes" ELSE "old"

\* Minutes pass without a heartbeat of n.
Silence(n) ==
    /\ ad[n] # Nothing /\ ad[n].age # "old"
    /\ ad' = [ad EXCEPT ![n].age = Older(@)]
    /\ UNCHANGED <<machineVars, chat>>

-----------------------------------------------------------------------------
(* The picker. *)

Rows(ages) == {n \in Nodes : ad[n] # Nothing /\ ad[n].status = "available" /\ ad[n].age \in ages}
NotSaturated(n) == ad[n].load < Slots

Candidates(m) ==
    {n \in Rows({"now"}) : (m # Nothing => m \in ad[n].served) /\ NotSaturated(n)}

\* Reputation, 50 by default, and headroom, both at least 1; the speed is left out.
Floor(x) == IF x < 1 THEN 1 ELSE x
Headroom(n) == IF ad[n].known THEN Floor(Slots - ad[n].load) ELSE 1
Weight(n) == Floor(IF n \in Disliked THEN 0 ELSE 50) * Headroom(n)

\* reputationWeightedPick: those on which some draw falls.
Drawn(S) == IF Cardinality(S) = 1 THEN S ELSE {n \in S : Weight(n) > 0}

\* What a client may choose from; with nothing advertised, the models table.
Advertised == UNION {ad[n].served : n \in Rows({"now", "minutes"})}
ListChatModels == IF Advertised = {} THEN ChatModels ELSE Advertised

\* createChatJob for a model of the list, or for any (null).
Ask(c) ==
    /\ chat[c].at = "quiet"
    /\ \E m \in ListChatModels \cup {Nothing} :
         chat' = [chat EXCEPT ![c] = [at |-> "picking", model |-> m,
                                      read |-> Drawn(Candidates(m)), node |-> Nothing]]
    /\ UNCHANGED <<machineVars, ad>>

\* The draw, and the job's row.
Assign(c, n) ==
    /\ chat[c].at = "picking" /\ n \in chat[c].read
    /\ chat' = [chat EXCEPT ![c] = [@ EXCEPT !.at = "assigned", !.read = {}, !.node = n]]
    /\ UNCHANGED <<machineVars, ad>>

\* Nobody: NIM, or a 503 and a row that stays pending.
NoCandidate(c) ==
    /\ chat[c].at = "picking" /\ chat[c].read = {}
    /\ chat' = [chat EXCEPT ![c].at = "elsewhere"]
    /\ UNCHANGED <<machineVars, ad>>

\* A daemon polls, whatever it has at work; a chat it works on is not taken twice.
PollChat(n, c) ==
    /\ n \in awake /\ chat[c].at = "assigned" /\ chat[c].node = n /\ c \notin busy[n]
    /\ busy' = [busy EXCEPT ![n] = @ \cup {c}]
    /\ UNCHANGED <<onDisk, awake, specsCache, ad, chat>>

\* It answers, or fails: a model it has not got.
ChatOver(c) ==
    /\ chat[c].at = "elsewhere" \/ \E n \in Nodes : c \in busy[n]
    /\ chat' = [chat EXCEPT ![c] = Quiet]
    /\ busy' = [n \in Nodes |-> busy[n] \ {c}]
    /\ UNCHANGED <<onDisk, awake, specsCache, ad>>

-----------------------------------------------------------------------------
RoutingNext ==
    \/ \E n \in Nodes : \/ RegisterAd(n) \/ StartDaemon(n) \/ BeatCached(n)
                        \/ StopDaemon(n) \/ Silence(n)
    \/ \E n \in Nodes, m \in ChatModels : Pull(n, m) \/ Remove(n, m)
    \/ \E c \in Clients : Ask(c) \/ NoCandidate(c) \/ ChatOver(c)
    \/ \E c \in Clients, n \in Nodes : Assign(c, n) \/ PollChat(n, c)

RoutingSpec == RoutingInit /\ [][RoutingNext]_routingVars

\* A daemon heartbeats when it starts and then every 30 seconds, its cache lives
\* five minutes, and minutes pass while it is down: it is neither up for ever
\* without a heartbeat of fresh specs, nor up and down without one or the other.
\* A request runs to its end.
RoutingFairness ==
    /\ \A n \in Nodes : SF_routingVars(BeatFresh(n) \/ (n \notin awake /\ Silence(n)))
    /\ \A c \in Clients : /\ WF_routingVars(NoCandidate(c))
                          /\ WF_routingVars(\E n \in Nodes : Assign(c, n))

RoutingFairSpec == RoutingSpec /\ RoutingFairness

-----------------------------------------------------------------------------
(* Properties. *)

\* Chats stop going to a machine for a model that is no longer on it: the removal
\* reaches the picker through the cache of the daemon, its heartbeats and the age
\* of the row, however they are interleaved with registrations and restarts.
GoneModelFades == \A n \in Nodes, m \in ChatModels :
    <>[](m \notin onDisk[n]) =>
        <>[](\A c \in Clients : chat[c].at = "picking" /\ chat[c].model = m => n \notin chat[c].read)
=============================================================================
