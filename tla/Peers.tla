-------------------------------- MODULE Peers --------------------------------
(***************************************************************************)
(* The peers a node knows when it starts (IPIP-0006): /api/peers lists the *)
(* providers that were heard of in the last ten minutes                    *)
(* (apps/web/lib/data/peers.js); bootstrapPeers asks one control plane     *)
(* after the other, keeps the answer in peers.json and reads that file     *)
(* when nobody answers (apps/cli/lib/peers.js).                            *)
(***************************************************************************)
EXTENDS Integers, FiniteSets

CONSTANTS
    Providers,
    PeerLimit,    \* MAX_LIMIT of the list
    Seeds,        \* config's seedNodes, a number
    MaxCrashes    \* of a process that bootstraps (bound)

ASSUME PeersAssumption == /\ Seeds \in Nat /\ MaxCrashes \in Nat
                          /\ PeerLimit \in Nat \ {0}

VARIABLES
    heard,      \* rows of providers: how long ago the last heartbeat came
    boot,       \* bootstrapPeers
    peersFile,  \* peers.json
    tmpFile,    \* peers.json.tmp
    kept,       \* history: the last list that was saved
    crashes

peersVars == <<heard, boot, peersFile, tmpFile, kept, crashes>>

Lists == SUBSET Providers
File == [is : {"none", "torn", "whole"}, peers : Lists]
Whole(peers) == [is |-> "whole", peers |-> peers]
NoFile == [is |-> "none", peers |-> {}]
Torn == [is |-> "torn", peers |-> {}]
Off == [at |-> "off", seed |-> 0, peers |-> {}, source |-> "empty"]

PeersTypeOK ==
    /\ heard \in [Providers -> {"now", "minutes", "long", "offline"}]
    /\ boot \in [at : {"off", "asking", "writing", "renaming", "over"}, seed : 0..Seeds + 1,
                 peers : Lists, source : {"fetch", "cache", "empty"}]
    /\ {peersFile, tmpFile, kept} \subseteq File
    /\ crashes \in 0..MaxCrashes

PeersInit ==
    /\ heard = [p \in Providers |-> "offline"]
    /\ boot = Off /\ peersFile = NoFile /\ tmpFile = NoFile /\ kept = NoFile
    /\ crashes = 0

\* Heartbeats come and stay away.
Heard(p) ==
    /\ \E h \in {"now", "minutes", "long", "offline"} : heard' = [heard EXCEPT ![p] = h]
    /\ UNCHANGED <<boot, peersFile, tmpFile, kept, crashes>>

\* listOnlinePeers: those of the last ten minutes, at most the limit, the latest
\* first.
Live == {p \in Providers : heard[p] \in {"now", "minutes"}}
ListOnlinePeers == {S \in SUBSET Live :
    /\ Cardinality(S) = IF Cardinality(Live) < PeerLimit THEN Cardinality(Live) ELSE PeerLimit
    /\ \A p \in S, q \in Live \ S : heard[q] = "now" => heard[p] = "now"}

BootstrapPeers ==
    /\ boot.at \in {"off", "over"}
    /\ boot' = [Off EXCEPT !.at = "asking", !.seed = 1]
    /\ UNCHANGED <<heard, peersFile, tmpFile, kept, crashes>>

\* Mutation: one seed too many.
FetchPastEnd ==
    /\ boot.at = "asking" /\ boot.seed <= Seeds + 1
    /\ boot' = [boot EXCEPT !.seed = @ + 1]
    /\ UNCHANGED <<heard, peersFile, tmpFile, kept, crashes>>

\* fetchPeers: a list, or no answer in time, an error, something else.
FetchPeers ==
    /\ boot.at = "asking" /\ boot.seed <= Seeds
    /\ \/ \E S \in ListOnlinePeers :
            boot' = [boot EXCEPT !.at = "writing", !.peers = S, !.source = "fetch"]
       \/ boot' = [boot EXCEPT !.seed = @ + 1]
    /\ UNCHANGED <<heard, peersFile, tmpFile, kept, crashes>>

\* Mutation: peers.json itself is written.
WriteInPlace ==
    /\ boot.at = "writing"
    /\ peersFile' = Torn /\ tmpFile' = Whole(boot.peers)
    /\ boot' = [boot EXCEPT !.at = "renaming"]
    /\ UNCHANGED <<heard, kept, crashes>>

\* saveCachedPeers writes the other file; that it fails is ignored.
WriteTmp ==
    /\ boot.at = "writing"
    /\ \/ tmpFile' = Whole(boot.peers) /\ boot' = [boot EXCEPT !.at = "renaming"]
       \/ tmpFile' = Torn /\ boot' = [boot EXCEPT !.at = "over"]
    /\ UNCHANGED <<heard, peersFile, kept, crashes>>

RenameTmp ==
    /\ boot.at = "renaming"
    /\ peersFile' = tmpFile /\ tmpFile' = NoFile /\ kept' = Whole(boot.peers)
    /\ boot' = [boot EXCEPT !.at = "over"]
    /\ UNCHANGED <<heard, crashes>>

\* loadCachedPeers, when no seed answered; an empty list is none.
LoadCachedPeers ==
    /\ boot.at = "asking" /\ boot.seed > Seeds
    /\ boot' = IF peersFile.peers = {} THEN [boot EXCEPT !.at = "over"]
               ELSE [boot EXCEPT !.at = "over", !.peers = peersFile.peers, !.source = "cache"]
    /\ UNCHANGED <<heard, peersFile, tmpFile, kept, crashes>>

\* The process dies, perhaps while it writes.
BootCrashes ==
    /\ crashes < MaxCrashes /\ crashes' = crashes + 1
    /\ boot.at \in {"asking", "writing", "renaming"} /\ boot' = Off
    /\ tmpFile' \in {tmpFile} \cup (IF boot.at = "writing" THEN {Torn} ELSE {})
    /\ UNCHANGED <<heard, peersFile, kept>>

PeersNext ==
    \/ \E p \in Providers : Heard(p)
    \/ BootstrapPeers \/ FetchPeers \/ WriteTmp \/ RenameTmp \/ LoadCachedPeers \/ BootCrashes

PeersSpec == PeersInit /\ [][PeersNext]_peersVars

\* peers.json is the last list that was saved, whole, whatever process died while
\* it wrote: a node that once heard of peers finds them when no seed answers.
HeardIsKept ==
    /\ peersFile = kept
    /\ boot.at = "over" /\ boot.source = "empty" => kept.peers = {}
=============================================================================
