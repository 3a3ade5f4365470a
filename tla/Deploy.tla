-------------------------------- MODULE Deploy --------------------------------
(***************************************************************************)
(* Renting machines: `infernet deploy`, the provider adapters and the      *)
(* deploy page.  A command works from what it has read: the keys it found, *)
(* the token it had minted for the account that was signed in, the offers  *)
(* it was shown.  Between any two of its calls offers change or are taken  *)
(* by others, somebody else signs in, a key is removed; and the answer to  *)
(* the call that spends money can get lost.                                *)
(*                                                                         *)
(* The rented machine fetches its script with the token that was put into  *)
(* its user data, and the token lasts a day.                               *)
(***************************************************************************)
EXTENDS Integers, Sequences, FiniteSets

CONSTANTS
    Users,
    Gpus,         \* GPU models
    KnownGpus,    \* the ones gpu-normalize has a name for
    Prices,       \* prices per hour
    Offers,       \* asks on Vast.ai
    Commands,     \* runs of `infernet deploy`
    PodLimit,     \* pods one address may create in an hour
    MaxMachines,  \* machines that are rented (bound)
    MaxShifts,    \* changes of the market, the session and the keys (bound)
    MaxSlips,     \* calls that fail (bound)
    Unset

ASSUME DeployAssumption ==
    /\ KnownGpus \subseteq Gpus /\ Prices \subseteq Nat
    /\ PodLimit \in Nat /\ MaxMachines \in Nat /\ MaxShifts \in Nat /\ MaxSlips \in Nat
    /\ Unset \notin Users \cup Gpus \cup Offers \cup Prices

VARIABLES
    creds,     \* config.cloudCredentials: providers there is a key for
    session,   \* config.auth: the account that is signed in
    market,    \* what Vast.ai has
    cmd,       \* a run of `infernet deploy up` or of a preset
    machine,   \* what has been rented or set up by hand
    pods,      \* pods asked for in this hour
    shifts, slips

deployVars == <<creds, session, market, cmd, machine, pods, shifts, slips>>

Adapters == {"digitalocean", "vast", "runpod"}
\* The adapters that can be asked for offers.
Searchable == {"vast"}
Presets == [cheap      |-> [price |-> 70, reliability |-> 10, dx |-> 10, availability |-> 10],
            production |-> [price |-> 15, reliability |-> 50, dx |-> 20, availability |-> 15]]
ProviderScores == [vast |-> [reliability |-> 65, dx |-> 65]]

\* --strict-model-fit with --model, the size in billions of parameters.
Models == {Unset, 7}
Caps == Prices \cup {Unset}
Bearers == Users \cup {Unset}
UpArgs == [sub : {"up"}, provider : {"vast"}, gpu : Gpus, cap : Caps, offer : {Unset},
           bearer : Bearers, model : {Unset}]
          \cup [sub : {"up"}, provider : {"vast"}, gpu : {Unset}, cap : {Unset}, offer : Offers,
                bearer : Bearers, model : {Unset}]
          \cup [sub : {"up"}, provider : Adapters \ {"vast"}, gpu : Gpus, cap : {Unset},
                offer : {Unset}, bearer : Bearers, model : {Unset}]
\* A preset refuses a GPU that canonicalize has no name for.
PresetArgs == [sub : DOMAIN Presets, provider : {Unset}, gpu : KnownGpus, cap : Caps,
               offer : {Unset}, bearer : Bearers, model : Models]
Args == [sub : {"up"} \cup DOMAIN Presets, provider : Adapters \cup {Unset},
         gpu : Gpus \cup {Unset}, cap : Caps, offer : Offers \cup {Unset}, bearer : Bearers,
         model : Models]

Listing == [offer : Offers, gpu : Gpus, price : Prices]
\* A machine, and as history the command that rented it: what it was given and
\* what it had been shown.
Machine == [provider : Adapters \cup {"own"}, gpu : Gpus \cup {Unset}, token : Bearers,
            at : {"rented", "script", "bare", "joined"}, owner : Bearers,
            args : Args \cup {Unset}, shown : Listing \cup {Unset}]

DeployTypeOK ==
    /\ creds \subseteq Adapters
    /\ session \in Users \cup {Unset}
    /\ market \in [Offers -> [gpu : Gpus, price : Prices, free : BOOLEAN]]
    /\ \A c \in Commands :
         /\ cmd[c].at \in {"idle", "compare", "prompt", "resolve", "search", "create", "done"}
         /\ cmd[c].args \in Args \cup {Unset}
         /\ cmd[c].pick \in Listing \cup {Unset} /\ cmd[c].token \in Bearers
    /\ machine \in Seq(Machine)
    /\ pods \in 0..PodLimit
    /\ shifts \in 0..MaxShifts /\ slips \in 0..MaxSlips

DeployInit ==
    /\ creds \in {{}, Adapters}
    /\ session \in Users \cup {Unset}
    /\ market \in [Offers -> [gpu : Gpus, price : Prices, free : {TRUE}]]
    /\ cmd = [c \in Commands |-> [at |-> "idle", args |-> Unset, pick |-> Unset, token |-> Unset]]
    /\ machine = << >>
    /\ pods = 0 /\ shifts = 0 /\ slips = 0

Slips == slips < MaxSlips /\ slips' = slips + 1
Holds == UNCHANGED slips
Room == Len(machine) < MaxMachines
World == <<creds, session, market, shifts>>

Ends(c) == cmd' = [cmd EXCEPT ![c] = [at |-> "done", args |-> Unset, pick |-> Unset, token |-> Unset]]

-----------------------------------------------------------------------------
(* What a command computes. *)

CeilDiv(a, b) == (a + b - 1) \div b

\* estimateModelVramGb without quantization, checkModelFit.
RequiredVramGb(billions) == CeilDiv(billions * 24, 10)
ModelFits(billions, vramGb) == 10 * vramGb >= 11 * RequiredVramGb(billions)

\* searchOffers: offers that can be rented, of one GPU and no dearer than the cap
\* when these are asked for.
SearchOffers(gpu, cap) ==
    {[offer |-> o, gpu |-> market[o].gpu, price |-> market[o].price] :
        o \in {x \in Offers : /\ market[x].free
                              /\ gpu \in {Unset, market[x].gpu}
                              /\ cap = Unset \/ market[x].price <= cap}}

\* collectOffersAcrossProviders: what a preset asks for is called gpu and
\* maxPricePerHour, which searchOffers does not take.
CollectOffers == IF creds \cap Searchable = {} THEN {} ELSE SearchOffers(Unset, Unset)

\* rankOffers: scores over a common denominator, 100 * range.
Range_(found) == LET prices == {o.price : o \in found}
                     hi == CHOOSE p \in prices : \A q \in prices : q <= p
                     lo == CHOOSE p \in prices : \A q \in prices : p <= q
                 IN  [lo |-> lo, width |-> IF hi = lo THEN 1 ELSE hi - lo]
Score(o, preset, found) ==
    LET w == Presets[preset]
        s == ProviderScores["vast"]
        r == Range_(found)
    IN  w.price * 100 * (r.width - (o.price - r.lo))
          + r.width * (w.reliability * s.reliability + w.dx * s.dx + 100 * w.availability)

\* Mutation: the cap is left to the search.
EveryOffer(found, cap) == found

Eligible(found, cap) == {o \in found : cap = Unset \/ o.price <= cap}

Winners(found, preset, cap) ==
    LET left == Eligible(found, cap)
    IN  {o \in left : \A q \in left : Score(q, preset, left) <= Score(o, preset, left)}

\* resolveApiKey.
HasKey(p) == p \in creds

\* buildUserData: the token that was given, or one for the account that is
\* signed in.
Bearer(c) == IF cmd[c].args.bearer # Unset THEN cmd[c].args.bearer ELSE session

\* makeProviderArgsFromOffer: what `up` gets from a preset.  --bearer is not
\* among the flags that are passed on.
ArgsFromOffer(a, o) == [a EXCEPT !.sub = "up", !.provider = "vast", !.offer = o.offer,
                                 !.bearer = Unset, !.model = Unset]

\* The vramGb of an offer: searchOffers reports none.
OfferVramGb == 0
Refused(a) == a.model # Unset /\ ~ModelFits(a.model, OfferVramGb)

-----------------------------------------------------------------------------
(* `infernet deploy auth`. *)

AuthSet(p) ==
    /\ shifts < MaxShifts /\ shifts' = shifts + 1
    /\ creds' = creds \cup {p}
    /\ creds' # creds
    /\ UNCHANGED <<session, market, cmd, machine, pods, slips>>

AuthRemove(p) ==
    /\ shifts < MaxShifts /\ shifts' = shifts + 1
    /\ p \in creds
    /\ creds' = creds \ {p}
    /\ UNCHANGED <<session, market, cmd, machine, pods, slips>>

-----------------------------------------------------------------------------
(* `infernet deploy up`, and the presets in front of it. *)

Begin(c) ==
    /\ cmd[c].at = "idle"
    /\ \E a \in UpArgs \cup PresetArgs :
         cmd' = [cmd EXCEPT ![c].args = a,
                            ![c].at = IF a.sub = "up" THEN "resolve" ELSE "compare"]
    /\ UNCHANGED <<machine, pods, slips, World>>

\* presetSubcommand: ask, rank, pick the first; a provider that fails to answer
\* is passed over, and nothing is left of it.
Compare(c) ==
    /\ cmd[c].at = "compare"
    /\ LET a == cmd[c].args
           best == Winners(CollectOffers, a.sub, a.cap)
       IN  \/ /\ best = {} \/ Refused(a)
              /\ Ends(c) /\ Holds
           \/ /\ Slips
              /\ Ends(c)
           \/ /\ ~Refused(a)
              /\ \E o \in best : cmd' = [cmd EXCEPT ![c].at = "prompt", ![c].pick = o]
              /\ Holds
    /\ UNCHANGED <<machine, pods, World>>

\* The operator looks at the table and the cost.
Confirm(c) ==
    /\ cmd[c].at = "prompt"
    /\ \/ cmd' = [cmd EXCEPT ![c].at = "resolve",
                             ![c].args = ArgsFromOffer(cmd[c].args, cmd[c].pick)]
       \/ Ends(c)
    /\ UNCHANGED <<machine, pods, slips, World>>

\* upSubcommand up to the adapter.  POST /api/v1/user/deploy/provision mints for
\* whoever the CLI's own token belongs to.
Resolve(c) ==
    /\ cmd[c].at = "resolve"
    /\ LET a == cmd[c].args IN
       \/ /\ ~HasKey(a.provider) \/ Bearer(c) = Unset
          /\ Ends(c) /\ Holds
       \/ /\ a.bearer = Unset /\ Slips
          /\ Ends(c)
       \/ /\ HasKey(a.provider) /\ Bearer(c) # Unset
          /\ cmd' = [cmd EXCEPT ![c].token = Bearer(c),
                                ![c].at = IF a.provider = "vast" /\ a.offer = Unset
                                          THEN "search" ELSE "create"]
          /\ Holds
    /\ UNCHANGED <<machine, pods, World>>

\* --dry-run.
DryRun(c) ==
    /\ cmd[c].at \in {"search", "create"}
    /\ Ends(c)
    /\ UNCHANGED <<machine, pods, slips, World>>

\* runVastUp: the cheapest of the offers.
Search(c) ==
    /\ cmd[c].at = "search"
    /\ LET found == SearchOffers(cmd[c].args.gpu, cmd[c].args.cap)
       IN  \/ found = {} /\ Ends(c) /\ Holds
           \/ Slips /\ Ends(c)
           \/ \E o \in found : /\ \A q \in found : o.price <= q.price
                               /\ cmd' = [cmd EXCEPT ![c].at = "create", ![c].pick = o,
                                                     ![c].args.offer = o.offer]
                               /\ Holds
    /\ UNCHANGED <<machine, pods, World>>

New(provider, gpu, token) ==
    [provider |-> provider, gpu |-> gpu, token |-> token, at |-> "rented", owner |-> Unset,
     args |-> Unset, shown |-> Unset]
Rented(c, gpu) ==
    Append(machine, [New(cmd[c].args.provider, gpu, cmd[c].token) EXCEPT
                         !.args = cmd[c].args, !.shown = cmd[c].pick])

\* createDeployment of vast.js: PUT /asks/<id>/.  An offer that is gone is refused.
CreateVast(c) == LET o == cmd[c].args.offer IN
    /\ cmd[c].at = "create" /\ cmd[c].args.provider = "vast"
    /\ \/ /\ ~market[o].free
          /\ Ends(c) /\ Holds
          /\ UNCHANGED <<market, machine>>
       \/ /\ market[o].free /\ Room
          /\ market' = [market EXCEPT ![o].free = FALSE]
          /\ Ends(c)
          /\ machine' = Rented(c, market[o].gpu)
          /\ Holds \/ Slips                        \* the answer is lost
       \/ /\ Slips                                 \* the call is
          /\ Ends(c)
          /\ UNCHANGED <<market, machine>>
    /\ UNCHANGED <<creds, session, pods, shifts>>

\* createDeployment of digitalocean.js: a droplet of the size that was named.
CreateDroplet(c) ==
    /\ cmd[c].at = "create" /\ cmd[c].args.provider = "digitalocean"
    /\ \/ /\ Room
          /\ Ends(c)
          /\ machine' = Rented(c, cmd[c].args.gpu)
          /\ Holds \/ Slips
       \/ /\ Slips
          /\ Ends(c)
          /\ UNCHANGED machine
    /\ UNCHANGED <<pods, World>>

\* createDeployment of runpod.js wants the address and key of a database in the
\* environment, and runRunpodUp gives it user data only.
CreatePodFails(c) ==
    /\ cmd[c].at = "create" /\ cmd[c].args.provider = "runpod"
    /\ Ends(c)
    /\ UNCHANGED <<machine, pods, slips, World>>

-----------------------------------------------------------------------------
(* The web routes. *)

\* POST /api/deploy/runpod: a pod with the keys that came with the request.  It
\* carries no token.
DeployPod ==
    /\ pods < PodLimit /\ Room
    /\ pods' = pods + 1
    /\ \/ /\ \E g \in Gpus : machine' = Append(machine, New("runpod", g, Unset))
          /\ Holds
       \/ Slips /\ UNCHANGED machine
    /\ UNCHANGED <<cmd, World>>

HourEnds ==
    /\ pods > 0
    /\ pods' = 0
    /\ UNCHANGED <<cmd, machine, slips, World>>

\* The deploy page: a user mints a token, or skips it, and pastes the line.
PasteOneLiner ==
    /\ Room
    /\ \E u \in Bearers : machine' = Append(machine, New("own", Unset, u))
    /\ UNCHANGED <<cmd, pods, slips, World>>

\* GET /api/deploy/cloud-init: a token that is over by the time the machine boots
\* is left out of the script.
CloudInit(i) ==
    /\ machine[i].at = "rented" /\ machine[i].provider # "runpod"
    /\ \/ machine[i].token # Unset /\ machine' = [machine EXCEPT ![i].at = "script"]
       \/ machine' = [machine EXCEPT ![i].at = "bare"]
    /\ UNCHANGED <<cmd, pods, slips, World>>

\* The script logs in with the token and `infernet setup` links the key
\* (Onboarding), or the token is over before that.
Bootstrap(i) ==
    /\ machine[i].at = "script"
    /\ \E u \in {machine[i].token, Unset} :
         machine' = [machine EXCEPT ![i].at = "joined", ![i].owner = u]
    /\ UNCHANGED <<cmd, pods, slips, World>>

-----------------------------------------------------------------------------
(* Around them. *)

\* Offers are taken by others, return and change their price.
MarketMoves ==
    /\ shifts < MaxShifts /\ shifts' = shifts + 1
    /\ \E o \in Offers, p \in Prices, f \in BOOLEAN :
         /\ market' = [market EXCEPT ![o].price = p, ![o].free = f]
         /\ market' # market
    /\ UNCHANGED <<creds, session, cmd, machine, pods, slips>>

\* `infernet login` and `logout`, in another terminal.
SessionMoves ==
    /\ shifts < MaxShifts /\ shifts' = shifts + 1
    /\ session' \in (Users \cup {Unset}) \ {session}
    /\ UNCHANGED <<creds, market, cmd, machine, pods, slips>>

DeployNext ==
    \/ \E p \in Adapters : AuthSet(p) \/ AuthRemove(p)
    \/ \E c \in Commands :
         \/ Begin(c) \/ Compare(c) \/ Confirm(c) \/ Resolve(c) \/ DryRun(c) \/ Search(c)
         \/ CreateVast(c) \/ CreateDroplet(c) \/ CreatePodFails(c)
    \/ DeployPod \/ HourEnds \/ PasteOneLiner
    \/ \E i \in DOMAIN machine : CloudInit(i) \/ Bootstrap(i)
    \/ MarketMoves \/ SessionMoves

DeploySpec == DeployInit /\ [][DeployNext]_deployVars

-----------------------------------------------------------------------------
(* Properties. *)

CliMachines == {machine[i] : i \in {j \in DOMAIN machine : machine[j].args # Unset}}

\* What the operator was shown is what is created: on Vast.ai a machine is the
\* offer that was picked, no dearer than --max-price when it was shown, whatever
\* the market did since the offers were read.
RentedAsShown == \A m \in CliMachines :
    m.shown # Unset => /\ m.args.offer = m.shown.offer
                       /\ m.gpu = m.shown.gpu
                       /\ m.args.cap # Unset => m.shown.price <= m.args.cap

\* The CLI pays for no machine that cannot join an account, and a machine joins
\* the account its own command was for: the one --bearer names, or else the one
\* that was signed in when the token was minted, whoever is signed in when the
\* machine boots.
OwnersAreRight == \A m \in CliMachines :
    /\ m.token # Unset
    /\ m.owner \in {Unset, m.token}
    /\ m.args.bearer # Unset => m.token = m.args.bearer

\* Both: what the operator agreed to is what there is.
RentalsAreTrue == RentedAsShown /\ OwnersAreRight
=============================================================================
