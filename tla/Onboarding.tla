------------------------------ MODULE Onboarding ------------------------------
(***************************************************************************)
(* A machine becomes a node: `infernet setup` and the commands it runs as  *)
(* children (init, register, stop and start, pubkey link), and the ones an *)
(* operator runs beside it (login, model, service, upgrade, doctor).       *)
(*                                                                         *)
(* All of them keep their results in one config file, which each reads     *)
(* whole, changes in memory and writes whole.  setup reads it first and    *)
(* writes it after an installation and a download; register reads it       *)
(* before and writes it after two calls.  setup goes on when registration  *)
(* or the start of the daemon fail, and ends with code 0; it can be        *)
(* interrupted anywhere and run again.                                     *)
(***************************************************************************)
EXTENDS Integers, Sequences, FiniteSets

CONSTANTS
    Owners,
    Urls,        \* control planes
    DefaultUrl,  \* DEFAULT_CONTROL_PLANE
    Hosts,       \* machines, with GB of VRAM and of RAM
    MaxKeys,     \* key pairs that are generated (bound)
    MaxTurns,    \* commands besides setup, crashes and steps that fail (bound)
    Absent

ASSUME OnboardingAssumption ==
    /\ DefaultUrl \in Urls /\ Absent \notin Owners \cup Urls
    /\ Hosts \subseteq [vram : Nat, ram : Nat]
    /\ MaxKeys \in Nat /\ MaxTurns \in Nat

VARIABLES
    host,     \* what the machine has
    ollama,   \* "absent", "stopped" or "running"
    pulled,   \* models Ollama has
    config,   \* config.json
    daemon,   \* the identity the daemon runs with, and who started it
    service,  \* the systemd unit
    rows,     \* control planes: nodes that are registered
    owned,     \* control planes: keys that belong to an account
    run,      \* the command of a terminal
    keys,     \* key pairs generated so far
    report,   \* the last verdict of `infernet doctor`
    turns

onboardVars == <<host, ollama, pulled, config, daemon, service, rows, owned, run, keys,
                 report, turns>>

-----------------------------------------------------------------------------
(* Models and machines. *)

\* MODEL_SUGGESTIONS by their size, in tenths of a GB.
Suggestions == <<4, 20, 44, 90, 200, 400>>
Suggested == DOMAIN Suggestions

\* modelFits, and checkFits of `infernet model pull`: 85 % of VRAM, or 60 % of
\* RAM without a GPU.
Fits(m) ==
    IF host.vram > 0 THEN Suggestions[m] * 10 <= host.vram * 85
    ELSE host.ram > 0 => Suggestions[m] <= host.ram * 6

\* chooseModel: the largest that fits, or else the first of the list.
DefaultModel ==
    LET fitting == {m \in Suggested : Fits(m)}
    IN  IF fitting = {} THEN 1 ELSE CHOOSE m \in fitting : \A n \in fitting : n <= m

-----------------------------------------------------------------------------
(* State. *)

KeyPairs == 1..MaxKeys
\* Two terminals: setup is run in one, init and register in the other.
Runs == {"setup", "beside"}
Config == [key : KeyPairs \cup {0}, url : Urls \cup {Absent}, auth : Owners \cup {Absent},
           model : Suggested \cup {0}, id : BOOLEAN]
NoConfig == [key |-> 0, url |-> Absent, auth |-> Absent, model |-> 0, id |-> FALSE]
Places == {"idle", "ollama", "model", "save", "init", "saveinit", "register", "saverow",
           "daemon", "link"}
Run == [cmd : {"none", "setup", "init", "register"}, at : Places, yes : BOOLEAN,
        force : BOOLEAN, url : Urls \cup {Absent}, model : Suggested \cup {0},
        seen : Config, signedIn : BOOLEAN]
Idle == [cmd |-> "none", at |-> "idle", yes |-> FALSE, force |-> FALSE, url |-> Absent,
         model |-> 0, seen |-> NoConfig, signedIn |-> FALSE]

OnboardTypeOK ==
    /\ host \in Hosts
    /\ ollama \in {"absent", "stopped", "running"}
    /\ pulled \subseteq Suggested
    /\ config \in Config
    /\ daemon \in [key : KeyPairs, url : Urls, by : {"cli", "systemd"}] \cup {Absent}
    /\ service \in {"none", "written", "enabled"}
    /\ rows \subseteq Urls \X KeyPairs
    /\ owned \subseteq Urls \X KeyPairs \X Owners
    /\ run \in [Runs -> Run]
    /\ keys \in 0..MaxKeys
    /\ report \in [row : {"none", "ok", "skip"}, passed : BOOLEAN]
    /\ turns \in 0..MaxTurns

OnboardInit ==
    /\ host \in Hosts
    /\ ollama \in {"absent", "running"}
    /\ pulled = {}
    /\ config = NoConfig
    /\ daemon = Absent /\ service = "none"
    /\ rows = {} /\ owned = {}
    /\ run = [p \in Runs |-> Idle]
    /\ keys = 0
    /\ report = [row |-> "none", passed |-> FALSE]
    /\ turns = 0

HasIdentity(c) == c.key # 0 /\ c.url # Absent
\* Something else than the next step of setup going well.
Turns == turns < MaxTurns /\ turns' = turns + 1
KeepsTurns == UNCHANGED turns
machineState == <<host, ollama, pulled, daemon, service>>
Plane == <<rows, owned>>

GoesTo(p, place) == run' = [run EXCEPT ![p].at = place]
GoesWith(p, place, c) == run' = [run EXCEPT ![p].at = place, ![p].seen = c]
\* The command of a terminal is over, or was interrupted.
CommandEnds(p) == run' = [run EXCEPT ![p] = Idle]

-----------------------------------------------------------------------------
(* `infernet setup` up to the config. *)

BeginSetup ==
    /\ run.setup.at = "idle"
    /\ \E yes \in BOOLEAN, m \in {0, 1} :
         run' = [run EXCEPT !.setup = [Idle EXCEPT !.cmd = "setup", !.at = "ollama", !.yes = yes,
                                                 !.model = m, !.seen = config]]
    /\ UNCHANGED <<config, keys, report, turns, machineState, Plane>>

\* installOllama and startOllama, each if it is needed, and what comes of it.
Installed == IF ollama = "absent" THEN {"absent", "stopped", "running"} ELSE {ollama}
Served(o) == IF o = "stopped" THEN {"stopped", "running"} ELSE {o}

BringUpOllama(p) ==
    /\ run[p].at = "ollama"
    /\ \E o \in Installed : ollama' \in Served(o)
    /\ \/ ollama' = "running" /\ GoesTo(p, "model") /\ KeepsTurns
       \/ ollama' # "running" /\ CommandEnds(p) /\ Turns
    /\ UNCHANGED <<host, pulled, config, daemon, service, keys, report, Plane>>

\* The model step: --model, or without a question what is already there, or the
\* suggestion, or what the operator picks; an operator may pick one that does
\* not fit and pull it anyway.
Choices(r) ==
    IF r.model # 0 THEN {r.model}
    ELSE IF r.yes /\ pulled # {} THEN pulled
    ELSE IF r.yes THEN {DefaultModel}
    ELSE {DefaultModel, 1}

\* pullModel and verifyModelPulled.
PullModel(p) ==
    /\ run[p].at = "model"
    /\ \/ /\ ollama = "running"
          /\ \E m \in Choices(run[p]) :
               /\ pulled' = pulled \cup {m}
               /\ run' = [run EXCEPT ![p].at = "save", ![p].model = m]
          /\ KeepsTurns
       \/ /\ ollama # "running"
          /\ CommandEnds(p) /\ KeepsTurns
          /\ UNCHANGED pulled
       \/ /\ Turns
          /\ CommandEnds(p)
          /\ UNCHANGED pulled
    /\ UNCHANGED <<host, ollama, config, daemon, service, keys, report, Plane>>

\* Mutation: only the engine's section is written.
EngineOnly(seen, m) == [NoConfig EXCEPT !.model = m]

\* `merged`: the config as it was read at the start.
Merged(seen, m) == [seen EXCEPT !.model = m]

\* Mutation: a config with a key or a URL counts as finished.
HalfIdentity(c) == c.key = 0 /\ c.url = Absent

NeedsInit(c) == ~HasIdentity(c)

\* The config is saved and read back; whether somebody is signed in is looked up
\* there, or after init.
SaveSettings(p) ==
    /\ run[p].at = "save"
    /\ config' = Merged(run[p].seen, run[p].model)
    /\ run' = [run EXCEPT ![p].at = IF NeedsInit(config') THEN "init" ELSE "register",
                          ![p].signedIn = config'.auth # Absent]
    /\ UNCHANGED <<keys, report, turns, machineState, Plane>>

-----------------------------------------------------------------------------
(* `infernet init`. *)

BeginInit ==
    /\ run.beside.at = "idle" /\ Turns
    /\ \E yes \in BOOLEAN, force \in BOOLEAN, u \in Urls \cup {Absent} :
         run' = [run EXCEPT !.beside = [Idle EXCEPT !.cmd = "init", !.at = "init", !.yes = yes,
                                                    !.force = force, !.url = u]]
    /\ UNCHANGED <<config, keys, report, machineState, Plane>>

Upgrades(r, c) == HasIdentity(c) /\ r.yes /\ ~r.force

\* A complete config is left alone unless --yes or --force is given.
InitReads(p) == LET r == run[p] IN
    /\ r.at = "init"
    /\ IF HasIdentity(config) /\ ~r.yes /\ ~r.force
       THEN CommandEnds(p)
       ELSE GoesWith(p, "saveinit", config)
    /\ UNCHANGED <<config, keys, report, turns, machineState, Plane>>

\* Only an upgrade in place keeps the keys and the URL; otherwise both are new.
Identity(r, u) == IF Upgrades(r, r.seen)
                  THEN [r.seen EXCEPT !.url = IF r.url # Absent THEN r.url ELSE @]
                  ELSE [r.seen EXCEPT !.key = keys + 1, !.url = u]

\* The URL is the flag's, or the answer to a question whose default is the public
\* control plane.
InitSaves(p) == LET r == run[p] IN
    /\ r.at = "saveinit"
    /\ \E u \in IF r.url # Absent THEN {r.url} ELSE IF r.yes THEN {DefaultUrl} ELSE Urls :
         config' = Identity(r, u)
    /\ config'.key <= MaxKeys
    /\ keys' = IF config'.key > keys THEN config'.key ELSE keys
    /\ IF r.cmd = "init" THEN CommandEnds(p)
       ELSE run' = [run EXCEPT ![p].at = "register", ![p].signedIn = config'.auth # Absent]
    /\ UNCHANGED <<report, turns, machineState, Plane>>

-----------------------------------------------------------------------------
(* `infernet register`, the rest of `infernet setup`. *)

\* register, and `infernet upgrade` after the installer.
BeginRegister ==
    /\ run.beside.at = "idle" /\ Turns
    /\ run' = [run EXCEPT !.beside = [Idle EXCEPT !.cmd = "register", !.at = "register"]]
    /\ UNCHANGED <<config, keys, report, machineState, Plane>>

\* What comes after register: for setup the daemon, whatever the exit code.
AfterRegister(p) == IF run[p].cmd = "setup" THEN GoesTo(p, "daemon") ELSE CommandEnds(p)

RegisterSends(p) ==
    /\ run[p].at = "register"
    /\ \/ /\ HasIdentity(config)
          /\ rows' = rows \cup {<<config.url, config.key>>}
          /\ GoesWith(p, "saverow", config) /\ KeepsTurns
       \/ /\ ~HasIdentity(config)
          /\ AfterRegister(p) /\ KeepsTurns /\ UNCHANGED rows
       \/ /\ Turns
          /\ AfterRegister(p)
          /\ rows' \in {rows, rows \cup ({<<config.url, config.key>>} \cap (Urls \X KeyPairs))}
    /\ UNCHANGED <<config, owned, keys, report, machineState>>

RegisterSaves(p) ==
    /\ run[p].at = "saverow"
    /\ config' = [run[p].seen EXCEPT !.id = TRUE]
    /\ AfterRegister(p)
    /\ UNCHANGED <<keys, report, turns, machineState, Plane>>

Started(c, who) ==
    IF HasIdentity(c) THEN [key |-> c.key, url |-> c.url, by |-> who] ELSE Absent

\* stop, 800 ms, start.  A daemon that needs longer to stop is still there when
\* start looks, start refuses, and then it is gone.
RestartDaemon(p) ==
    /\ run[p].at = "daemon"
    /\ \/ daemon' = Started(config, "cli") /\ KeepsTurns
       \/ daemon' = Absent /\ Turns
    /\ IF run[p].signedIn THEN GoesTo(p, "link") ELSE CommandEnds(p)
    /\ UNCHANGED <<host, ollama, pulled, service, config, keys, report, Plane>>

\* autoLinkPubkey and `infernet pubkey link`: a key that has an account keeps it.
Linked(c) ==
    IF c.key = 0 \/ c.url = Absent \/ c.auth = Absent
         \/ \E u \in Owners : <<c.url, c.key, u>> \in owned
    THEN owned ELSE owned \cup {<<c.url, c.key, c.auth>>}

LinkKey(p) ==
    /\ run[p].at = "link"
    /\ \/ owned' = Linked(config) /\ KeepsTurns
       \/ UNCHANGED owned /\ Turns
    /\ CommandEnds(p)
    /\ UNCHANGED <<config, rows, keys, report, machineState>>

Interrupt(p) ==
    /\ run[p].at # "idle" /\ Turns
    /\ CommandEnds(p)
    /\ UNCHANGED <<config, keys, report, machineState, Plane>>

-----------------------------------------------------------------------------
(* Commands beside it, each short enough to be a step. *)

\* `infernet login`, with the link that follows; `logout`; `login --url`.
Login ==
    /\ Turns
    /\ \E u \in Owners : config' = [config EXCEPT !.auth = u]
    /\ owned' \in {owned, Linked(config')}
    /\ UNCHANGED <<run, rows, keys, report, machineState>>

EditConfig ==
    /\ Turns
    /\ \/ config' = [config EXCEPT !.auth = Absent]
       \/ \E u \in Urls : config' = [config EXCEPT !.url = u]
    /\ config' # config
    /\ UNCHANGED <<run, keys, report, machineState, Plane>>

\* `infernet model`: a model that does not fit is pulled with --force or --yes only.
ModelPull ==
    /\ Turns /\ ollama = "running"
    /\ \E m \in {1, 2}, force \in BOOLEAN :
         /\ Fits(m) \/ force
         /\ pulled' = pulled \cup {m}
    /\ UNCHANGED <<host, ollama, config, daemon, service, run, keys, report, Plane>>

\* The model goes first; whether the config names it is looked up after that.
ModelRemove ==
    /\ Turns /\ ollama = "running"
    /\ \E m \in pulled :
         /\ pulled' = pulled \ {m}
         /\ \/ config' = [config EXCEPT !.model = IF @ = m THEN 0 ELSE @]
            \/ UNCHANGED config                          \* interrupted
    /\ UNCHANGED <<host, ollama, daemon, service, run, keys, report, Plane>>

ModelUse ==
    /\ Turns /\ ollama = "running"
    /\ \E m \in pulled : config' = [config EXCEPT !.model = m]
    /\ config' # config
    /\ UNCHANGED <<run, keys, report, machineState, Plane>>

\* `infernet service`.  (What two daemons do to each other is NodeHost's.)
Enabled(c) == IF daemon = Absent THEN Started(c, "systemd") ELSE daemon

ServiceInstall ==
    /\ Turns /\ service = "none"
    /\ \/ service' = "written" /\ UNCHANGED daemon
       \/ service' = "enabled" /\ daemon' = Enabled(config)       \* --enable-after
    /\ UNCHANGED <<host, ollama, pulled, config, run, keys, report, Plane>>

ServiceEnable ==
    /\ Turns /\ service = "written"
    /\ service' = "enabled" /\ daemon' = Enabled(config)
    /\ UNCHANGED <<host, ollama, pulled, config, run, keys, report, Plane>>

\* uninstall stops and disables the unit before it deletes it.
ServiceUninstall ==
    /\ Turns /\ service = "enabled"
    /\ service' \in {"written", "none"}
    /\ daemon' = IF daemon # Absent /\ daemon.by = "systemd" THEN Absent ELSE daemon
    /\ UNCHANGED <<host, ollama, pulled, config, run, keys, report, Plane>>

\* The daemon or Ollama dies.  systemd starts its own again.
Crash ==
    /\ Turns
    /\ \/ /\ ollama = "running" /\ ollama' = "stopped"
          /\ UNCHANGED daemon
       \/ /\ daemon # Absent
          /\ daemon' = IF daemon.by = "systemd" /\ service = "enabled"
                       THEN Started(config, "systemd") ELSE Absent
          /\ UNCHANGED ollama
    /\ UNCHANGED <<host, pulled, config, service, run, keys, report, Plane>>

\* `infernet doctor`: each check answers "ok", "warn", "fail" or "skip".
CheckConfig == IF HasIdentity(config) THEN "ok" ELSE "fail"
CheckEngine ==
    IF ollama # "running" THEN "fail"
    ELSE IF config.model = 0 THEN "warn"
    ELSE IF config.model \in pulled THEN "ok" ELSE "fail"
\* A daemon may not have beaten yet, or not for a minute.
CheckDaemon == IF daemon = Absent THEN {"warn"} ELSE {"ok", "warn", "fail"}
\* What is behind the URL is not ours.
CheckControlPlane == IF config.url = Absent THEN {"fail"} ELSE {"ok", "fail"}
CheckEndToEnd == IF config.url = Absent THEN {"skip"} ELSE {"ok", "fail"}
\* Any answer of /me is taken for the row, and /me answers {row: null} when there
\* is none.
CheckProviderRow == IF HasIdentity(config) THEN "ok" ELSE "skip"

Doctor ==
    /\ Turns
    /\ \E d \in CheckDaemon, u \in CheckControlPlane, e \in CheckEndToEnd :
         report' = [row |-> CheckProviderRow,
                    passed |-> "fail" \notin {CheckConfig, CheckEngine, CheckProviderRow,
                                             d, u, e}]
    /\ UNCHANGED <<config, run, keys, machineState, Plane>>

OnboardNext ==
    \/ BeginSetup \/ BeginInit \/ BeginRegister
    \/ \E p \in Runs :
         \/ BringUpOllama(p) \/ PullModel(p) \/ SaveSettings(p)
         \/ InitReads(p) \/ InitSaves(p) \/ RegisterSends(p) \/ RegisterSaves(p)
         \/ RestartDaemon(p) \/ LinkKey(p) \/ Interrupt(p)
    \/ Login \/ EditConfig
    \/ ModelPull \/ ModelRemove \/ ModelUse
    \/ ServiceInstall \/ ServiceEnable \/ ServiceUninstall
    \/ Crash \/ Doctor

OnboardSpec == OnboardInit /\ [][OnboardNext]_onboardVars

\* The node is up: it has an identity and a model it can serve, its daemon runs
\* with that identity, the control plane knows it, and an account has it if
\* somebody is signed in.
Serving ==
    /\ HasIdentity(config)
    /\ ollama = "running" /\ config.model \in pulled
    /\ daemon # Absent /\ daemon.key = config.key /\ daemon.url = config.url
    /\ <<config.url, config.key>> \in rows
    /\ config.auth # Absent => \E u \in Owners : <<config.url, config.key, u>> \in owned

\* The operator runs setup again while the node is not up and no other command
\* runs.
RunsAgain == ~Serving /\ run.beside.at = "idle" /\ BeginSetup
Proceeds(p) ==
    BringUpOllama(p) \/ PullModel(p) \/ SaveSettings(p) \/ InitReads(p) \/ InitSaves(p)
    \/ RegisterSends(p) \/ RegisterSaves(p) \/ RestartDaemon(p) \/ LinkKey(p)

\* A command that was started goes on.
OnboardFairness == WF_onboardVars(RunsAgain) /\ \A p \in Runs : WF_onboardVars(Proceeds(p))
OnboardFairSpec == OnboardSpec /\ OnboardFairness

-----------------------------------------------------------------------------
(* Properties. *)

Writes(p) == run[p].at \in {"save", "saveinit", "saverow"} /\ run'[p] # run[p]
Unread(f) == \E p \in Runs : Writes(p) /\ run[p].seen[f] # config[f]

\* A command that writes the config writes its own fields: the settings another
\* command wrote before it read the file survive it.  The key of the node goes
\* only where init is told --force; nothing but what a command had not yet seen
\* gets lost.
SettingsSurvive == [][
    /\ config.key # 0 /\ config'.key # config.key =>
         Unread("key") \/ \E p \in Runs : Writes(p) /\ run[p].force
    /\ \A p \in Runs : Writes(p) =>
         /\ config'.auth # config.auth => Unread("auth")
         /\ config'.model # config.model => Unread("model") \/ run[p].at = "save"
         /\ config'.url # config.url => Unread("url") \/ run[p].at = "saveinit"
    ]_onboardVars

\* Setup that is run again while the node is not up brings it up in the end:
\* whatever failed or was interrupted before, and whatever other commands wrote
\* over each other.
SetupSettles == <>[]Serving
=============================================================================
