----------------------------- MODULE SignedLinks -----------------------------
(***************************************************************************)
(* Signed requests, and the one that links a node's key to an account.     *)
(*                                                                         *)
(* A node signs every request with its key: method, path, body, time and a *)
(* nonce.  The control plane takes a request whose time is within a window *)
(* of its own and whose nonce its process has not seen; it keeps nonces    *)
(* for two windows, and no more than a maximum of them.  A request may be  *)
(* delivered twice (a proxy or a client that repeats it), to any process.  *)
(*                                                                         *)
(* POST /api/v1/user/pubkey/link takes such a request together with a      *)
(* bearer token, looks for the link and inserts it, in two statements.     *)
(***************************************************************************)
EXTENDS Integers, Sequences, FiniteSets

CONSTANTS
    Accounts,     \* users
    NodeKeys,     \* pairs of public key and role
    Servers,      \* processes of the control plane, each with its ReplayCache
    Window,       \* REPLAY_WINDOW_SECONDS
    CacheMax,     \* entries a ReplayCache holds
    MaxRequests,  \* requests that are signed (bound)
    MaxCalls,     \* deliveries, numbered as they arrive (bound)
    MaxTime,      \* length of a behaviour in half seconds (bound)
    Nobody

ASSUME LinksAssumption ==
    /\ Window \in Nat \ {0} /\ CacheMax \in Nat \ {0}
    /\ MaxRequests \in Nat /\ MaxCalls \in Nat /\ MaxTime \in Nat
    /\ Nobody \notin Accounts

VARIABLES
    now,       \* the clock of the control plane, in half seconds
    request,   \* the signed requests
    seen,      \* the ReplayCache of a process
    call,      \* a delivery of a request
    link,      \* pubkey_links: the account of a key
    secret,    \* the INFERNET_CLI_SESSION_SECRET in force
    told,      \* history: what 2xx answers said is linked
    taken,     \* history: when a process took a request
    evicted    \* history: entries that were pushed out of a full cache

linkVars == <<now, request, seen, call, link, secret, told, taken, evicted>>

Requests == 1..MaxRequests
Calls == 1..MaxCalls
Secrets == {"old", "new"}

\* Times are milliseconds in the cache and whole seconds in the envelope; half
\* seconds are enough to tell the two apart.
Second(t) == t \div 2
Ttl == 2 * (2 * Window)

LinksTypeOK ==
    /\ now \in 0..MaxTime
    /\ request \in Seq([account : Accounts, key : NodeKeys, created : 0..Second(MaxTime),
                        secret : Secrets])
    /\ seen \in [Servers -> SUBSET [nonce : Requests, until : Nat]]
    /\ call \in [Calls -> [at : {"idle", "insert", "done"}, req : Requests \cup {0}]]
    /\ link \in [NodeKeys -> Accounts \cup {Nobody}]
    /\ secret \in Secrets
    /\ told \subseteq Accounts \X NodeKeys
    /\ taken \in [Servers -> [Requests -> Seq(0..MaxTime)]]
    /\ evicted \subseteq Servers \X Requests

LinksInit ==
    /\ now = 0
    /\ request = << >>
    /\ seen = [p \in Servers |-> {}]
    /\ call = [c \in Calls |-> [at |-> "idle", req |-> 0]]
    /\ link = [k \in NodeKeys |-> Nobody]
    /\ secret = "old"
    /\ told = {}
    /\ taken = [p \in Servers |-> [q \in Requests |-> << >>]]
    /\ evicted = {}

\* signRequest: the envelope has the second at which it was made.  What the
\* request carries besides is a bearer token made with the secret of the time.
Signed(a, k, t) == [account |-> a, key |-> k, created |-> t, secret |-> secret]

\* `infernet pubkey link` on a machine that holds a key and an account's token;
\* its clock is its own.
Sign ==
    /\ Len(request) < MaxRequests
    /\ \E a \in Accounts, k \in NodeKeys, t \in 0..Second(MaxTime) :
         request' = Append(request, Signed(a, k, t))
    /\ UNCHANGED <<now, seen, call, link, secret, told, taken, evicted>>

\* A new secret makes every token issued so far invalid.
RotateSecret ==
    /\ secret = "old"
    /\ secret' = "new"
    /\ UNCHANGED <<now, request, seen, call, link, told, taken, evicted>>

Tick ==
    /\ now < MaxTime
    /\ now' = now + 1
    /\ UNCHANGED <<request, seen, call, link, secret, told, taken, evicted>>

-----------------------------------------------------------------------------
(* verifySignedNextRequest. *)

\* verifySignedRequest: no more than a window ahead or behind, in seconds.
InWindow(q) == LET created == request[q].created IN
    /\ created - Second(now) <= Window
    /\ Second(now) - created <= Window

\* has: an entry whose time is over is taken out.
Has(p, q) == \E e \in seen[p] : e.nonce = q /\ e.until >= now
Remaining(p, q) == {e \in seen[p] : e.nonce # q \/ e.until >= now}

\* A full cache gives up its first entry, which is the one that ends first.
PushedOut(left) ==
    IF Cardinality(left) < CacheMax THEN {{}}
    ELSE {{e} : e \in {f \in left : \A g \in left : f.until <= g.until}}

\* Mutation: a nonce is kept for one window.
BriefEntry(q) == [nonce |-> q, until |-> now + 2 * Window]

Entry(q) == [nonce |-> q, until |-> now + Ttl]

\* verifyBearer compares the signature that the secret in force gives.
BearerHolds(q) == request[q].secret = secret

\* The bearer token and the signed request are in order.  (Else 401.)
Admits(p, q) ==
    /\ BearerHolds(q)
    /\ InWindow(q)
    /\ ~Has(p, q)

\* What a process remembers of a request it takes; nothing is awaited between
\* `has` and `add`.
Take(p, q) == LET left == Remaining(p, q) IN
    /\ \E out \in PushedOut(left) :
         /\ seen' = [seen EXCEPT ![p] = (left \ out) \cup {Entry(q)}]
         /\ evicted' = evicted \cup {<<p, e.nonce>> : e \in out}
    /\ taken' = [taken EXCEPT ![p][q] = Append(@, now)]

-----------------------------------------------------------------------------
(* The route /api/v1/user/pubkey/link. *)

Arrival(c) == \A d \in Calls : call[d].at = "idle" <=> d >= c

\* The link is there and of this account: only the label may change.
LinkedAlready(c, q) ==
    /\ link[request[q].key] = request[q].account
    /\ told' = told \cup {<<request[q].account, request[q].key>>}
    /\ call' = [call EXCEPT ![c] = [at |-> "done", req |-> q]]

\* It is of another account: a 409.
LinkedElsewhere(c, q) ==
    /\ link[request[q].key] \notin {request[q].account, Nobody}
    /\ call' = [call EXCEPT ![c] = [at |-> "done", req |-> q]]
    /\ UNCHANGED told

NotLinked(c, q) ==
    /\ link[request[q].key] = Nobody
    /\ call' = [call EXCEPT ![c] = [at |-> "insert", req |-> q]]
    /\ UNCHANGED told

Deliver(c) ==
    /\ Arrival(c)
    /\ \E p \in Servers : \E q \in DOMAIN request :
         /\ Admits(p, q)
         /\ Take(p, q)
         /\ LinkedAlready(c, q) \/ LinkedElsewhere(c, q) \/ NotLinked(c, q)
    /\ UNCHANGED <<now, request, link, secret>>

\* The insert, or a 500 when (pubkey, role) has been linked in between.
InsertLink(c) ==
    LET r == request[call[c].req] IN
    /\ call[c].at = "insert"
    /\ IF link[r.key] = Nobody
       THEN /\ link' = [link EXCEPT ![r.key] = r.account]
            /\ told' = told \cup {<<r.account, r.key>>}
       ELSE UNCHANGED <<link, told>>
    /\ call' = [call EXCEPT ![c].at = "done"]
    /\ UNCHANGED <<now, request, seen, secret, taken, evicted>>

LinksNext ==
    \/ Sign \/ RotateSecret \/ Tick
    \/ \E c \in Calls : Deliver(c) \/ InsertLink(c)

LinksSpec == LinksInit /\ [][LinksNext]_linkVars

-----------------------------------------------------------------------------
(* Properties. *)

(***************************************************************************)
(* A process takes a signed request once, however often it is delivered:   *)
(* as long as the nonce is not pushed out of a full cache, and unless the  *)
(* request came a whole window before its own time, to the second.  Then   *)
(* the window, in seconds, is open half a second after the entry is gone.  *)
(***************************************************************************)
TakenOnce ==
    \A p \in Servers : \A q \in Requests :
        Len(taken[p][q]) > 1 =>
            \/ <<p, q>> \in evicted
            \/ taken[p][q][1] = 2 * (request[q].created - Window)

(***************************************************************************)
(* What an answer said is linked stays linked: two accounts that claim a   *)
(* key at a time are not both told that they have it.                      *)
(***************************************************************************)
LinkedAsTold == \A t \in told : link[t[2]] = t[1]

\* What the server does with signed requests.
LinksAreTrue == TakenOnce /\ LinkedAsTold
=============================================================================
