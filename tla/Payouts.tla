------------------------------- MODULE Payouts -------------------------------
(***************************************************************************)
(* Where a provider wants its earnings: `infernet payout set` and the      *)
(* provider_payouts table.  setPayoutForNode takes the mark "default" off  *)
(* every row of the provider and then upserts the new row with the mark:   *)
(* two statements, and two calls may interleave.                           *)
(***************************************************************************)
EXTENDS Integers, Sequences, FiniteSets

CONSTANTS
    Nodes,       \* providers rows
    Addresses,   \* wallet addresses
    MaxSets,     \* calls of setPayoutForNode, numbered as they arrive (bound)
    MaxMishaps,  \* faults that may happen in a behaviour (bound)
    Nil

VARIABLES
    listed,   \* the providers rows that exist
    payout,   \* provider_payouts: a row per provider, coin and address
    set,      \* a call of setPayoutForNode
    spoilt,   \* history: providers whose last calls overlapped or failed half-way
    mishaps

payoutVars == <<listed, payout, set, spoilt, mishaps>>

\* PAYMENT_COINS, a coin per number of networks.
PaymentCoins == <<[code |-> "BTC", network |-> "bitcoin"],
                  [code |-> "USDT", network |-> "ethereum"],
                  [code |-> "USDT", network |-> "polygon"]>>
Codes == {PaymentCoins[n].code : n \in DOMAIN PaymentCoins}
Networks == {PaymentCoins[n].network : n \in DOMAIN PaymentCoins}

\* pickNetwork: the network that was asked for if the coin has it, without a
\* request the first of the coin.
PickNetwork(coin, asked) ==
    LET of == {n \in DOMAIN PaymentCoins : PaymentCoins[n].code = coin}
        hit == {n \in of : asked \in {Nil, PaymentCoins[n].network}}
    IN  IF hit = {} THEN Nil
        ELSE PaymentCoins[CHOOSE n \in hit : \A m \in hit : n <= m].network

\* `infernet payout set` sends nothing that has no network.
RunSet(coin, asked) == PickNetwork(coin, asked) # Nil

Keys == Codes \X Addresses
Row == [network : Networks, default : BOOLEAN]
Sets == 1..MaxSets

ASSUME PayoutsAssumption ==
    /\ MaxSets \in Nat /\ MaxMishaps \in Nat
    /\ Nil \notin Row

Rows(p) == {k \in Keys : payout[p][k] # Nil}
Defaults(p) == {k \in Rows(p) : payout[p][k].default}

PayoutTypeOK ==
    /\ listed \subseteq Nodes
    /\ payout \in [Nodes -> [Keys -> Row \cup {Nil}]]
    /\ set \in [Sets -> [at : {"idle", "demoted", "done"}, of : Nodes \cup {Nil},
                         key : Keys \cup {Nil}, network : Networks \cup {Nil},
                         alone : BOOLEAN]]
    /\ spoilt \subseteq Nodes
    /\ mishaps \in 0..MaxMishaps

PayoutInit ==
    /\ listed = Nodes
    /\ payout = [p \in Nodes |-> [k \in Keys |-> Nil]]
    /\ set = [c \in Sets |-> [at |-> "idle", of |-> Nil, key |-> Nil,
                              network |-> Nil, alone |-> TRUE]]
    /\ spoilt = {}
    /\ mishaps = 0

Under(p) == {c \in Sets : set[c].at = "demoted" /\ set[c].of = p}

\* Mutation: the old default is not demoted.
DemoteNothing(c) ==
    /\ set[c].at = "idle"
    /\ \E p \in listed : \E k \in Keys : \E asked \in Networks \cup {Nil} :
         /\ RunSet(k[1], asked)
         /\ set' = [d \in Sets |->
                      IF d = c
                      THEN [at |-> "demoted", of |-> p, key |-> k,
                            network |-> PickNetwork(k[1], asked), alone |-> Under(p) = {}]
                      ELSE [set[d] EXCEPT !.alone = @ /\ d \notin Under(p)]]
    /\ UNCHANGED <<listed, payout, spoilt, mishaps>>

\* The command line checks coin and network; the handler finds the provider,
\* else 404, and takes the mark off its rows.
DemoteDefaults(c) ==
    /\ \A d \in Sets : set[d].at = "idle" <=> d >= c
    /\ \E p \in listed : \E k \in Keys : \E asked \in Networks \cup {Nil} :
         /\ RunSet(k[1], asked)
         /\ payout' = [payout EXCEPT ![p] =
                         [q \in Keys |-> IF q \in Defaults(p)
                                         THEN [@[q] EXCEPT !.default = FALSE] ELSE @[q]]]
         /\ set' = [d \in Sets |->
                      IF d = c
                      THEN [at |-> "demoted", of |-> p, key |-> k,
                            network |-> PickNetwork(k[1], asked), alone |-> Under(p) = {}]
                      ELSE [set[d] EXCEPT !.alone = @ /\ d \notin Under(p)]]
    /\ UNCHANGED <<listed, spoilt, mishaps>>

\* The upsert on (provider, coin, address) sets the network and the mark.  It
\* fails on its foreign key once the provider is gone.
UpsertPayout(c) ==
    /\ set[c].at = "demoted"
    /\ LET p == set[c].of IN
       /\ payout' = IF p \in listed
                    THEN [payout EXCEPT ![p][set[c].key] =
                            [network |-> set[c].network, default |-> TRUE]]
                    ELSE payout
       /\ spoilt' = IF set[c].alone THEN spoilt \ {p} ELSE spoilt \cup {p}
    /\ set' = [set EXCEPT ![c].at = "done"]
    /\ UNCHANGED <<listed, mishaps>>

\* The upsert fails, or the handler dies before it.
UpsertFails(c) ==
    /\ mishaps < MaxMishaps
    /\ mishaps' = mishaps + 1
    /\ set[c].at = "demoted"
    /\ set' = [set EXCEPT ![c].at = "done"]
    /\ spoilt' = spoilt \cup {set[c].of}
    /\ UNCHANGED <<listed, payout>>

\* removeNode; the rows go with the provider (on delete cascade).
NodeLeaves(p) ==
    /\ p \in listed
    /\ listed' = listed \ {p}
    /\ payout' = [payout EXCEPT ![p] = [k \in Keys |-> Nil]]
    /\ UNCHANGED <<set, spoilt, mishaps>>

PayoutNext ==
    \/ \E c \in Sets : DemoteDefaults(c) \/ UpsertPayout(c) \/ UpsertFails(c)
    \/ \E p \in Nodes : NodeLeaves(p)

PayoutSpec == PayoutInit /\ [][PayoutNext]_payoutVars

(***************************************************************************)
(* A provider that has payout rows has one default among them, which is    *)
(* where its earnings go: unless a call is between its two statements, or  *)
(* the last ones overlapped or failed.  A later call by itself repairs     *)
(* what they left (setPayoutForNode demotes all defaults, not the last).   *)
(***************************************************************************)
OneDefault ==
    \A p \in Nodes :
        Rows(p) = {} \/ p \in spoilt \/ Under(p) # {} \/ Cardinality(Defaults(p)) = 1
=============================================================================
