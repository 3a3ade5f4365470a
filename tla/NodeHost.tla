------------------------------ MODULE NodeHost ------------------------------
(***************************************************************************)
(* The life of the daemon on a node's machine.                             *)
(*                                                                         *)
(* Processes meet through two files of the config directory, daemon.pid    *)
(* and daemon.sock, and through the node's row at the control plane.  The  *)
(* commands of the CLI (`start`, `stop`, `register`, `remove`) are         *)
(* processes of their own that read and remove those files without any     *)
(* lock; `stop` returns as soon as the daemon has answered, long before    *)
(* the daemon is gone (apps/cli/commands/{start,stop,register,remove}.js,  *)
(* apps/cli/lib/{ipc,daemonize}.js).  A heartbeat is a request that the    *)
(* network may delay past the sender's 15 s limit, past a later heartbeat  *)
(* and past the sender's life (apps/cli/lib/node-client.js).               *)
(***************************************************************************)
EXTENDS Integers, FiniteSets

CONSTANTS
    Pids,         \* process ids daemons may get, in the order they are given out
    Clis,         \* terminals, scripts and cloud-init runs that issue commands
    CliCommands,  \* the commands they issue
    None

AllCommands == {"start", "stop", "force", "restart", "register", "remove"}

ASSUME NodeHostAssumption ==
    /\ Pids \subseteq Nat
    /\ CliCommands \subseteq AllCommands
    /\ None \notin Pids

VARIABLES
    (* the machine *)
    pidFile,   \* what daemon.pid says
    sock,      \* the process whose listener daemon.sock was bound by
    home,      \* config.json is there
    (* daemons *)
    stage,     \* how far a process is in runDaemon() and shutdown()
    serving,   \* processes whose ipcServer accepts connections
    asked,     \* processes with a pending SIGTERM or setImmediate(shutdown)
    heart,     \* where heartbeat() is
    (* commands *)
    cli,
    (* the control plane *)
    beats,     \* statuses of the heartbeat requests under way
    row,       \* status of the node's row, "none" without one
    (* history *)
    calm       \* commands have kept out of each other's way so far

files == <<pidFile, sock, home>>
procs == <<stage, serving, asked, heart>>
plane == <<beats, row>>
hostVars == <<files, procs, cli, plane, calm>>

Booting == {"forked", "named", "cleared"}
Handling == {"up", "leaving", "closing", "unlinking"}  \* SIGTERM is handled
Dead == {"unused", "gone", "killed"}

Live(p) == stage[p] \in Booting \cup Handling
NobodyLives == \A p \in Pids : ~Live(p)
NobodyBoots == \A p \in Pids : stage[p] \notin Booting

Idle == [cmd |-> "none", at |-> "idle", pid |-> None]
OthersIdle(c) == \A d \in Clis \ {c} : cli[d] = Idle

\* loadConfig() finds one.
LoadConfig == home

\* isDaemonAlive(): daemon.sock exists and a connection is accepted.
IsDaemonAlive == sock \in serving

NextPid(p) == stage[p] = "unused" /\ \A q \in Pids : q < p => stage[q] # "unused"

\* What the control plane does to the row of the node.
UpsertRow == row' = "available"
\* Mutant: the status of a row is only touched while it is available.
PatchAvailableRow(s) == row' = IF row = "available" THEN s ELSE row
PatchRow(s) == row' = IF row = "none" THEN "none" ELSE s
DeleteRow == row' = "none"

HostInit ==
    /\ pidFile = None
    /\ sock = None
    /\ home = TRUE
    /\ stage = [p \in Pids |-> "unused"]
    /\ serving = {}
    /\ asked = {}
    /\ heart = [p \in Pids |-> "idle"]
    /\ cli = [c \in Clis |-> Idle]
    /\ beats = {}
    /\ row = "none"
    /\ calm = TRUE

-----------------------------------------------------------------------------
(* runDaemon() *)

\* Loading config.json fails, or the directory is no longer there to write in.
BootFails(p) ==
    /\ stage[p] = "forked"
    /\ ~LoadConfig
    /\ stage' = [stage EXCEPT ![p] = "gone"]
    /\ UNCHANGED <<files, serving, asked, heart, cli, plane, calm>>

WritePidFile(p) ==
    /\ stage[p] = "forked"
    /\ LoadConfig
    /\ pidFile' = p
    /\ stage' = [stage EXCEPT ![p] = "named"]
    /\ UNCHANGED <<sock, home, serving, asked, heart, cli, plane, calm>>

\* Mutant: a socket file that is there is left there.
ClearSocketNot(p) ==
    /\ stage[p] = "named"
    /\ stage' = [stage EXCEPT ![p] = "cleared"]
    /\ UNCHANGED <<files, serving, asked, heart, cli, plane, calm>>
ClearSocket(p) ==
    /\ stage[p] = "named"
    /\ sock' = None
    /\ stage' = [stage EXCEPT ![p] = "cleared"]
    /\ UNCHANGED <<pidFile, home, serving, asked, heart, cli, plane, calm>>

\* The signal handlers are in place; a daemon that cannot bind runs without IPC.
StartIpcServer(p) ==
    /\ stage[p] = "cleared"
    /\ stage' = [stage EXCEPT ![p] = "up"]
    /\ \/ /\ sock = None /\ home
          /\ sock' = p
          /\ serving' = serving \cup {p}
       \/ /\ sock # None \/ ~home
          /\ UNCHANGED <<sock, serving>>
    /\ UNCHANGED <<pidFile, home, asked, heart, cli, plane, calm>>

\* heartbeat(), first at start and then from its interval: it gathers specs ...
HeartbeatStart(p) ==
    /\ stage[p] = "up"
    /\ heart[p] = "idle"
    /\ heart' = [heart EXCEPT ![p] = "gathering"]
    /\ UNCHANGED <<files, stage, serving, asked, cli, plane, calm>>

\* ... and posts them, without a look at shuttingDown.  The answer, or its
\* absence, only counts in stats.
HeartbeatSend(p) ==
    /\ stage[p] \in Handling
    /\ heart[p] = "gathering"
    /\ heart' = [heart EXCEPT ![p] = "idle"]
    /\ beats' = beats \cup {"available"}
    /\ UNCHANGED <<files, stage, serving, asked, cli, row, calm>>

-----------------------------------------------------------------------------
(* shutdown() *)

\* SIGTERM, or setImmediate(shutdown) of handleIpc(), is pending; once
\* shuttingDown is set it does nothing.
Asked(p) == asked' = IF stage[p] \in {"cleared", "up"} THEN asked \cup {p} ELSE asked

\* The timers are cleared and the offline heartbeat is posted.
Shutdown(p) ==
    /\ p \in asked
    /\ stage[p] = "up"
    /\ stage' = [stage EXCEPT ![p] = "leaving"]
    /\ asked' = asked \ {p}
    /\ beats' = beats \cup {"offline"}
    /\ UNCHANGED <<files, serving, heart, cli, row, calm>>

\* After the answer or timeoutMs; closing the listener unlinks the path it was
\* bound to, whatever is there by now.
\* Mutant: the offline heartbeat has no time limit.
CloseServersWhenHeard(p) ==
    /\ stage[p] = "leaving"
    /\ row = "offline"
    /\ stage' = [stage EXCEPT ![p] = "closing"]
    /\ serving' = serving \ {p}
    /\ sock' = IF p \in serving THEN None ELSE sock
    /\ UNCHANGED <<pidFile, home, asked, heart, cli, plane, calm>>
CloseServers(p) ==
    /\ stage[p] = "leaving"
    /\ stage' = [stage EXCEPT ![p] = "closing"]
    /\ serving' = serving \ {p}
    /\ sock' = IF p \in serving THEN None ELSE sock
    /\ UNCHANGED <<pidFile, home, asked, heart, cli, plane, calm>>

\* shutdownEngine() has returned.
RemoveSocketFile(p) ==
    /\ stage[p] = "closing"
    /\ stage' = [stage EXCEPT ![p] = "unlinking"]
    /\ sock' = None
    /\ UNCHANGED <<pidFile, home, serving, asked, heart, cli, plane, calm>>

\* What is left of a process: no listener, no signal, no request to send.
Vanish(p, how) ==
    /\ stage' = [stage EXCEPT ![p] = how]
    /\ serving' = serving \ {p}
    /\ asked' = asked \ {p}
    /\ heart' = [heart EXCEPT ![p] = "idle"]

RemovePidFile(p) ==
    /\ stage[p] = "unlinking"
    /\ pidFile' = None
    /\ Vanish(p, "gone")
    /\ UNCHANGED <<sock, home, cli, plane, calm>>

\* SIGKILL, the out-of-memory killer, a crash.
Killed(p) ==
    /\ Live(p)
    /\ Vanish(p, "killed")
    /\ UNCHANGED <<files, cli, plane, calm>>

-----------------------------------------------------------------------------
(* Requests at the control plane: heartbeatNode() and the network *)

HeartbeatNode(b) ==
    /\ b \in beats
    /\ beats' = beats \ {b}
    /\ PatchRow(b)
    /\ UNCHANGED <<files, procs, cli, calm>>

BeatLost(b) ==
    /\ b \in beats
    /\ beats' = beats \ {b}
    /\ UNCHANGED <<files, procs, cli, row, calm>>

-----------------------------------------------------------------------------
(* Commands *)

\* Whether a command begins apart from every other: none is under way, no
\* daemon is booting, and nothing is started or removed over a living daemon.
Apart(c, cmd) ==
    /\ OthersIdle(c)
    /\ NobodyBoots
    /\ cmd \in {"start", "remove"} => NobodyLives

Goes(c, at) == cli' = [cli EXCEPT ![c].at = at]
GoesWith(c, at, p) == cli' = [cli EXCEPT ![c].at = at, ![c].pid = p]
Ends(c) == cli' = [cli EXCEPT ![c] = Idle]

FirstStep == [start |-> "check", stop |-> "probe", restart |-> "probe",
              force |-> "read", register |-> "post", remove |-> "deregister"]

Begin(c, cmd) ==
    /\ cli[c] = Idle
    /\ cmd \in {"start", "register"} => LoadConfig
    /\ cli' = [cli EXCEPT ![c] = [cmd |-> cmd, at |-> FirstStep[cmd], pid |-> None]]
    /\ calm' = (calm /\ Apart(c, cmd))
    /\ UNCHANGED <<files, procs, plane>>

\* `infernet start --foreground`, by a supervisor or by hand: nothing is checked.
StartForeground(p) ==
    /\ NextPid(p)
    /\ LoadConfig
    /\ stage' = [stage EXCEPT ![p] = "forked"]
    /\ calm' = (calm /\ NobodyLives /\ \A c \in Clis : cli[c] = Idle)
    /\ UNCHANGED <<files, serving, asked, heart, cli, plane>>

\* `infernet start`: spawnAndReturn() refuses while a daemon answers ...
StartCheck(c) ==
    /\ cli[c].at = "check"
    /\ IF IsDaemonAlive \/ ~LoadConfig THEN Ends(c) ELSE Goes(c, "spawn")
    /\ UNCHANGED <<files, procs, plane, calm>>

\* ... and otherwise removes the socket file and forks a daemon.
SpawnDetachedDaemon(c) ==
    /\ cli[c].at = "spawn"
    /\ sock' = None
    /\ \E p \in Pids : NextPid(p) /\ stage' = [stage EXCEPT ![p] = "forked"]
    /\ Ends(c)
    /\ UNCHANGED <<pidFile, home, serving, asked, heart, plane, calm>>

\* Bound: there is no process id left.
SpawnFails(c) ==
    /\ cli[c].at = "spawn"
    /\ \A p \in Pids : stage[p] # "unused"
    /\ Ends(c)
    /\ UNCHANGED <<files, procs, plane, calm>>

\* `infernet stop` has done its part: that of `stop && start` goes on to start.
StopDone(c) ==
    IF cli[c].cmd = "restart"
    THEN /\ cli' = [cli EXCEPT ![c] = [cmd |-> "start", at |-> "check", pid |-> None]]
         /\ calm' = (calm /\ Apart(c, "start"))
    ELSE Ends(c) /\ UNCHANGED calm

StopProbe(c) ==
    /\ cli[c].at = "probe"
    /\ Goes(c, IF IsDaemonAlive THEN "ask" ELSE "read")
    /\ UNCHANGED <<files, procs, plane, calm>>

\* sendToDaemon('shutdown') connects anew: to whoever serves by now.
StopAsk(c) ==
    /\ cli[c].at = "ask"
    /\ IF IsDaemonAlive THEN GoesWith(c, "asked", sock) ELSE Goes(c, "read")
    /\ UNCHANGED <<files, procs, plane, calm>>

\* handleIpc() answers and leaves shutdown() to setImmediate.
HandleIpc(c) ==
    /\ cli[c].at = "asked"
    /\ stage[cli[c].pid] \in Handling
    /\ Asked(cli[c].pid)
    /\ StopDone(c)
    /\ UNCHANGED <<files, stage, serving, heart, plane>>

\* The connection closes or five seconds pass; the request may be served all the
\* same, and its answer be ignored.
StopUnanswered(c) ==
    /\ cli[c].at = "asked"
    /\ \/ UNCHANGED asked
       \/ /\ stage[cli[c].pid] \in Handling
          /\ Asked(cli[c].pid)
    /\ GoesWith(c, "read", None)
    /\ UNCHANGED <<files, stage, serving, heart, plane, calm>>

StopReadPid(c) ==
    /\ cli[c].at = "read"
    /\ IF pidFile = None THEN Ends(c) ELSE GoesWith(c, "kill", pidFile)
    /\ UNCHANGED <<files, procs, plane, calm>>

\* process.kill(pid, signal); before its handlers are in place SIGTERM ends a
\* daemon on the spot.
StopSignal(c) ==
    /\ cli[c].at = "kill"
    /\ LET p == cli[c].pid IN
        \/ /\ Live(p)
           /\ cli[c].cmd = "force" \/ stage[p] \in {"forked", "named"}
           /\ Vanish(p, "killed")
           /\ StopDone(c)
        \/ /\ Live(p)
           /\ cli[c].cmd # "force" /\ stage[p] \notin {"forked", "named"}
           /\ Asked(p)
           /\ StopDone(c)
           /\ UNCHANGED <<stage, serving, heart>>
        \/ /\ ~Live(p)
           /\ Goes(c, "unlink")
           /\ UNCHANGED <<procs, calm>>
    /\ UNCHANGED <<files, plane>>

\* ESRCH: the stale pid file is removed, without reading it again.
StopUnlinkPid(c) ==
    /\ cli[c].at = "unlink"
    /\ pidFile' = None
    /\ Ends(c)
    /\ UNCHANGED <<sock, home, procs, plane, calm>>

\* registerNode() upserts the row as available, whether a daemon runs or not.
RegisterNode(c) ==
    /\ cli[c].at = "post"
    /\ \/ UpsertRow /\ Goes(c, "save")
       \/ UNCHANGED row /\ Ends(c)
    /\ UNCHANGED <<files, procs, beats, calm>>

SaveConfig(c) ==
    /\ cli[c].at = "save"
    /\ home' = TRUE
    /\ Ends(c)
    /\ UNCHANGED <<pidFile, sock, procs, plane, calm>>

\* `infernet remove` goes on when the control plane cannot be reached, and
\* leaves a running daemon alone.
RemoveNode(c) ==
    /\ cli[c].at = "deregister"
    /\ \/ LoadConfig /\ DeleteRow
       \/ UNCHANGED row
    /\ \/ Goes(c, "wipe")
       \/ Ends(c)             \* --keep-config
    /\ UNCHANGED <<files, procs, beats, calm>>

RemoveConfigDir(c) ==
    /\ cli[c].at = "wipe"
    /\ pidFile' = None
    /\ sock' = None
    /\ home' = FALSE
    /\ Ends(c)
    /\ UNCHANGED <<procs, plane, calm>>

-----------------------------------------------------------------------------
Daemon(p) ==
    \/ BootFails(p) \/ WritePidFile(p) \/ ClearSocket(p) \/ StartIpcServer(p)
    \/ Shutdown(p) \/ CloseServers(p) \/ RemoveSocketFile(p) \/ RemovePidFile(p)

Heartbeat(p) == HeartbeatStart(p) \/ HeartbeatSend(p)

Command(c) ==
    \/ StartCheck(c) \/ SpawnDetachedDaemon(c) \/ SpawnFails(c)
    \/ StopProbe(c) \/ StopAsk(c) \/ HandleIpc(c) \/ StopUnanswered(c)
    \/ StopReadPid(c) \/ StopSignal(c) \/ StopUnlinkPid(c)
    \/ RegisterNode(c) \/ SaveConfig(c) \/ RemoveNode(c) \/ RemoveConfigDir(c)

Beats == {"available", "offline"}

HostNext ==
    \/ \E p \in Pids : Daemon(p) \/ Heartbeat(p) \/ Killed(p) \/ StartForeground(p)
    \/ \E b \in Beats : HeartbeatNode(b) \/ BeatLost(b)
    \/ \E c \in Clis : Command(c) \/ \E cmd \in CliCommands : Begin(c, cmd)

HostSpec == HostInit /\ [][HostNext]_hostVars

(***************************************************************************)
(* Fairness.  Every await of a daemon ends: requests have a time limit,    *)
(* shutdownEngine() ends its child (Engine, ShutdownEnds), and heartbeats  *)
(* come from an interval timer.  The network does not lose every           *)
(* heartbeat.  Nothing is asked of operators or of their commands.         *)
(***************************************************************************)
HostFairness ==
    /\ \A p \in Pids : WF_hostVars(Daemon(p)) /\ WF_hostVars(Heartbeat(p))
    /\ SF_hostVars(HeartbeatNode("available"))

HostFairSpec == HostSpec /\ HostFairness
-----------------------------------------------------------------------------
HostTypeOK ==
    /\ pidFile \in Pids \cup {None}
    /\ sock \in Pids \cup {None}
    /\ home \in BOOLEAN
    /\ stage \in [Pids -> Booting \cup Handling \cup Dead]
    /\ serving \subseteq Pids
    /\ asked \subseteq Pids
    /\ heart \in [Pids -> {"idle", "gathering"}]
    /\ cli \in [Clis -> [cmd : AllCommands \cup {"none"},
                         at : {"idle", "check", "spawn", "probe", "ask", "asked",
                               "read", "kill", "unlink", "post", "save",
                               "deregister", "wipe"},
                         pid : Pids \cup {None}]]
    /\ beats \subseteq Beats
    /\ row \in {"none", "available", "offline"}
    /\ calm \in BOOLEAN

\* Only a daemon that was killed leaves its name in daemon.pid or daemon.sock:
\* one that left by shutdown(), or never got to write them, is named by neither,
\* whatever other daemons and commands did meanwhile, so that the pid `stop`
\* signals is never that of an unrelated process which got a retired id.
NoStaleFiles ==
    \A p \in Pids : stage[p] = "gone" => pidFile # p /\ sock # p

\* As long as commands keep out of each other's way, the running daemon can be
\* reached both ways `stop` knows: daemon.pid names it and daemon.sock is its
\* own, after any number of crashes, restarts, stale files and lost answers.
Reachable ==
    calm => \A p \in Pids :
        stage[p] = "up" => pidFile = p /\ sock = p /\ p \in serving

\* A daemon that was told to stop is gone in the end, also when the control
\* plane never answers the offline heartbeat.
StopEnds == \A p \in Pids : p \in asked ~> ~Live(p)

\* A node whose daemon keeps running is listed again and again, although a late
\* offline heartbeat of an earlier daemon may hide it for a while.
RunningIsListed ==
    \A p \in Pids :
        <>[](stage[p] = "up" /\ row # "none") => []<>(row = "available")

\* What the files of the daemon say, of one that is gone and of one that is there.
FilesAreTrue == NoStaleFiles /\ Reachable
=============================================================================
