----------------------------- MODULE NodeProofs -----------------------------
(***************************************************************************)
(* What holds of a node on its machine and of the commands it is sent, for *)
(* any number of daemons and command lines, of commands, passes and faults.*)
(* Each section has the inductive invariant of one component.              *)
(***************************************************************************)
EXTENDS NodeHost, NodeCommands, FiniteSetTheorems, TLAPS

-----------------------------------------------------------------------------
(* The daemon on its machine: daemon.pid and daemon.sock name no daemon    *)
(* that left in order, and name the one that runs while commands keep      *)
(* apart.                                                                  *)

\* Where a command that has begun is, and which process it is busy with.
CommandsInv ==
    \A c \in Clis :
        /\ cli[c].at = "idle" <=> cli[c] = Idle
        /\ cli[c].at \in {"asked", "kill"} => cli[c].pid \in Pids

\* A file names a process only from the time it was written to the time its
\* process removes it, or for ever if that process is killed.
FilesInv ==
    /\ \A p \in Pids :
        /\ pidFile = p => stage[p] \in {"named", "cleared", "killed"} \cup Handling
        /\ sock = p => stage[p] \in {"up", "leaving", "closing", "killed"}
        /\ p \in serving => stage[p] \in {"up", "leaving"}

\* While commands keep apart there is one daemon and one command at most, ...
OneAtATime ==
    /\ \A p, q \in Pids : Live(p) /\ Live(q) => p = q
    /\ \A c, d \in Clis : cli[c] # Idle /\ cli[d] # Idle => c = d
    /\ \A c \in Clis : cli[c] # Idle => NobodyBoots

\* ... files are removed from outside only when nobody lives, ...
RemovedInPeace ==
    \A c \in Clis :
        /\ cli[c].at \in {"check", "spawn", "unlink", "deregister", "wipe"} => NobodyLives
        /\ cli[c].at = "spawn" => home
        /\ cli[c].at = "kill" => \A p \in Pids : Live(p) => cli[c].pid = p

\* ... and so a living daemon keeps the files it has written.
FilesKept ==
    \A p \in Pids :
        /\ Live(p) => home
        /\ stage[p] \in {"named", "cleared"} \cup Handling => pidFile = p
        /\ stage[p] = "cleared" => sock = None
        /\ stage[p] = "up" => sock = p /\ p \in serving

CalmInv == calm => OneAtATime /\ RemovedInPeace /\ FilesKept

HostInv == HostTypeOK /\ CommandsInv /\ FilesInv /\ CalmInv

LEMMA HostInvInit == HostInit => HostInv
BY NodeHostAssumption
   DEF HostInit, HostInv, HostTypeOK, CommandsInv, FilesInv, CalmInv, OneAtATime, RemovedInPeace,
       FilesKept, Live, Booting, Handling, Dead, Idle, AllCommands, Beats

-----------------------------------------------------------------------------
LEMMA StopDoneLeavesOthers ==
    ASSUME HostTypeOK, NEW c \in Clis, StopDone(c)
    PROVE  \A d \in Clis : d # c => cli'[d] = cli[d]
<1>1. CASE cli[c].cmd = "restart"
  BY <1>1 DEF HostTypeOK, StopDone
<1>2. CASE cli[c].cmd # "restart"
  BY <1>2 DEF HostTypeOK, StopDone, Ends
<1> QED
  BY <1>1, <1>2

LEMMA HostTypeStep ==
    ASSUME HostTypeOK, CommandsInv, [HostNext]_hostVars
    PROVE  HostTypeOK'
<1> USE NodeHostAssumption DEF HostTypeOK, CommandsInv, Booting, Handling, Dead, Beats, Live, AllCommands, files, procs, plane, hostVars
<1>1. ASSUME NEW p \in Pids, BootFails(p) PROVE HostTypeOK'
  BY <1>1 DEF BootFails, LoadConfig
<1>2. ASSUME NEW p \in Pids, WritePidFile(p) PROVE HostTypeOK'
  BY <1>2 DEF WritePidFile, LoadConfig
<1>3. ASSUME NEW p \in Pids, ClearSocket(p) PROVE HostTypeOK'
  BY <1>3 DEF ClearSocket
<1>4. ASSUME NEW p \in Pids, StartIpcServer(p) PROVE HostTypeOK'
  BY <1>4 DEF StartIpcServer
<1>5. ASSUME NEW p \in Pids, Shutdown(p) PROVE HostTypeOK'
  BY <1>5 DEF Shutdown
<1>6. ASSUME NEW p \in Pids, CloseServers(p) PROVE HostTypeOK'
  BY <1>6 DEF CloseServers
<1>7. ASSUME NEW p \in Pids, RemoveSocketFile(p) PROVE HostTypeOK'
  BY <1>7 DEF RemoveSocketFile
<1>8. ASSUME NEW p \in Pids, RemovePidFile(p) PROVE HostTypeOK'
  BY <1>8 DEF RemovePidFile, Vanish
<1>9. ASSUME NEW p \in Pids, HeartbeatStart(p) PROVE HostTypeOK'
  BY <1>9 DEF HeartbeatStart
<1>10. ASSUME NEW p \in Pids, HeartbeatSend(p) PROVE HostTypeOK'
  BY <1>10 DEF HeartbeatSend
<1>11. ASSUME NEW p \in Pids, Killed(p) PROVE HostTypeOK'
  BY <1>11 DEF Killed, Vanish
<1>12. ASSUME NEW p \in Pids, StartForeground(p) PROVE HostTypeOK'
  BY <1>12 DEF StartForeground, NextPid, LoadConfig
<1>13. ASSUME NEW b \in Beats, HeartbeatNode(b) PROVE HostTypeOK'
  BY <1>13 DEF HeartbeatNode, PatchRow, Beats
<1>14. ASSUME NEW b \in Beats, BeatLost(b) PROVE HostTypeOK'
  BY <1>14 DEF BeatLost, Beats
<1>15. ASSUME NEW c \in Clis, StartCheck(c) PROVE HostTypeOK'
  BY <1>15 DEF StartCheck, IsDaemonAlive, LoadConfig, Goes, GoesWith, Ends, Idle
<1>16. ASSUME NEW c \in Clis, SpawnDetachedDaemon(c) PROVE HostTypeOK'
  BY <1>16 DEF SpawnDetachedDaemon, NextPid, Goes, GoesWith, Ends, Idle
<1>17. ASSUME NEW c \in Clis, SpawnFails(c) PROVE HostTypeOK'
  BY <1>17 DEF SpawnFails, Goes, GoesWith, Ends, Idle
<1>18. ASSUME NEW c \in Clis, StopProbe(c) PROVE HostTypeOK'
  BY <1>18 DEF StopProbe, IsDaemonAlive, Goes, GoesWith, Ends, Idle
<1>19. ASSUME NEW c \in Clis, StopAsk(c) PROVE HostTypeOK'
  BY <1>19 DEF StopAsk, IsDaemonAlive, Goes, GoesWith, Ends, Idle
<1>20. ASSUME NEW c \in Clis, HandleIpc(c) PROVE HostTypeOK'
<2>1. calm' \in BOOLEAN
  BY <1>20 DEF HandleIpc, StopDone
<2>2. cli' \in [Clis -> [cmd : AllCommands \cup {"none"},
                         at : {"idle", "check", "spawn", "probe", "ask", "asked",
                               "read", "kill", "unlink", "post", "save",
                               "deregister", "wipe"},
                         pid : Pids \cup {None}]]
  BY <1>20 DEF HandleIpc, StopDone, Goes, Ends, Idle
<2>3. /\ stage' \in [Pids -> Booting \cup Handling \cup Dead]
      /\ serving' \subseteq Pids
      /\ asked' \subseteq Pids
      /\ heart' \in [Pids -> {"idle", "gathering"}]
  BY <1>20, ZenonT(40) DEF HandleIpc, Asked, Vanish
<2> QED
  BY <1>20, <2>1, <2>2, <2>3 DEF HandleIpc
<1>21. ASSUME NEW c \in Clis, StopUnanswered(c) PROVE HostTypeOK'
  BY <1>21 DEF StopUnanswered, Asked, Goes, GoesWith, Ends, Idle
<1>22. ASSUME NEW c \in Clis, StopReadPid(c) PROVE HostTypeOK'
  BY <1>22 DEF StopReadPid, Goes, GoesWith, Ends, Idle
<1>23. ASSUME NEW c \in Clis, StopSignal(c) PROVE HostTypeOK'
<2>1. calm' \in BOOLEAN
  BY <1>23 DEF StopSignal, StopDone
<2>2. cli' \in [Clis -> [cmd : AllCommands \cup {"none"},
                         at : {"idle", "check", "spawn", "probe", "ask", "asked",
                               "read", "kill", "unlink", "post", "save",
                               "deregister", "wipe"},
                         pid : Pids \cup {None}]]
  BY <1>23 DEF StopSignal, StopDone, Goes, Ends, Idle
<2>3. /\ stage' \in [Pids -> Booting \cup Handling \cup Dead]
      /\ serving' \subseteq Pids
      /\ asked' \subseteq Pids
      /\ heart' \in [Pids -> {"idle", "gathering"}]
  <3> DEFINE p == cli[c].pid
  <3>1. p \in Pids
    BY <1>23 DEF StopSignal
  <3>2. CASE Vanish(p, "killed")
    BY <3>1, <3>2 DEF Vanish
  <3>3. CASE Asked(p) /\ UNCHANGED <<stage, serving, heart>>
    BY <3>1, <3>3 DEF Asked
  <3>4. CASE UNCHANGED procs
    BY <3>4
  <3> QED
    BY <1>23, <3>2, <3>3, <3>4 DEF StopSignal
<2> QED
  BY <1>23, <2>1, <2>2, <2>3 DEF StopSignal
<1>24. ASSUME NEW c \in Clis, StopUnlinkPid(c) PROVE HostTypeOK'
  BY <1>24 DEF StopUnlinkPid, Goes, GoesWith, Ends, Idle
<1>25. ASSUME NEW c \in Clis, RegisterNode(c) PROVE HostTypeOK'
  BY <1>25 DEF RegisterNode, UpsertRow, Goes, GoesWith, Ends, Idle
<1>26. ASSUME NEW c \in Clis, SaveConfig(c) PROVE HostTypeOK'
  BY <1>26 DEF SaveConfig, Goes, GoesWith, Ends, Idle
<1>27. ASSUME NEW c \in Clis, RemoveNode(c) PROVE HostTypeOK'
  BY <1>27 DEF RemoveNode, DeleteRow, LoadConfig, Goes, GoesWith, Ends, Idle
<1>28. ASSUME NEW c \in Clis, RemoveConfigDir(c) PROVE HostTypeOK'
  BY <1>28 DEF RemoveConfigDir, Goes, GoesWith, Ends, Idle
<1>29. ASSUME NEW c \in Clis, NEW cmd \in CliCommands, Begin(c, cmd) PROVE HostTypeOK'
  BY <1>29 DEF Begin, Apart, FirstStep, AllCommands, LoadConfig, Idle
<1>30. CASE UNCHANGED hostVars
  BY <1>30
<1> QED
  BY <1>1, <1>2, <1>3, <1>4, <1>5, <1>6, <1>7, <1>8, <1>9, <1>10, <1>11, <1>12, <1>13, <1>14, <1>15, <1>16, <1>17, <1>18, <1>19, <1>20, <1>21, <1>22, <1>23, <1>24, <1>25, <1>26, <1>27, <1>28, <1>29, <1>30, ZenonT(40) DEF HostNext, Daemon, Heartbeat, Command

LEMMA CommandsStep ==
    ASSUME HostTypeOK, CommandsInv, [HostNext]_hostVars
    PROVE  CommandsInv'
<1> USE NodeHostAssumption DEF HostTypeOK, CommandsInv, Booting, Handling, Dead, Live, files, procs, plane, hostVars
<1>1. ASSUME NEW p \in Pids, BootFails(p) PROVE CommandsInv'
  BY <1>1 DEF BootFails, LoadConfig
<1>2. ASSUME NEW p \in Pids, WritePidFile(p) PROVE CommandsInv'
  BY <1>2 DEF WritePidFile, LoadConfig
<1>3. ASSUME NEW p \in Pids, ClearSocket(p) PROVE CommandsInv'
  BY <1>3 DEF ClearSocket
<1>4. ASSUME NEW p \in Pids, StartIpcServer(p) PROVE CommandsInv'
  BY <1>4 DEF StartIpcServer
<1>5. ASSUME NEW p \in Pids, Shutdown(p) PROVE CommandsInv'
  BY <1>5 DEF Shutdown
<1>6. ASSUME NEW p \in Pids, CloseServers(p) PROVE CommandsInv'
  BY <1>6 DEF CloseServers
<1>7. ASSUME NEW p \in Pids, RemoveSocketFile(p) PROVE CommandsInv'
  BY <1>7 DEF RemoveSocketFile
<1>8. ASSUME NEW p \in Pids, RemovePidFile(p) PROVE CommandsInv'
  BY <1>8 DEF RemovePidFile, Vanish
<1>9. ASSUME NEW p \in Pids, HeartbeatStart(p) PROVE CommandsInv'
  BY <1>9 DEF HeartbeatStart
<1>10. ASSUME NEW p \in Pids, HeartbeatSend(p) PROVE CommandsInv'
  BY <1>10 DEF HeartbeatSend
<1>11. ASSUME NEW p \in Pids, Killed(p) PROVE CommandsInv'
  BY <1>11 DEF Killed, Vanish
<1>12. ASSUME NEW p \in Pids, StartForeground(p) PROVE CommandsInv'
  BY <1>12 DEF StartForeground, NextPid, LoadConfig
<1>13. ASSUME NEW b \in Beats, HeartbeatNode(b) PROVE CommandsInv'
  BY <1>13 DEF HeartbeatNode, PatchRow, Beats
<1>14. ASSUME NEW b \in Beats, BeatLost(b) PROVE CommandsInv'
  BY <1>14 DEF BeatLost, Beats
<1>15. ASSUME NEW c \in Clis, StartCheck(c) PROVE CommandsInv'
  BY <1>15 DEF StartCheck, IsDaemonAlive, LoadConfig, Goes, GoesWith, Ends, Idle
<1>16. ASSUME NEW c \in Clis, SpawnDetachedDaemon(c) PROVE CommandsInv'
  BY <1>16 DEF SpawnDetachedDaemon, NextPid, Goes, GoesWith, Ends, Idle
<1>17. ASSUME NEW c \in Clis, SpawnFails(c) PROVE CommandsInv'
  BY <1>17 DEF SpawnFails, Goes, GoesWith, Ends, Idle
<1>18. ASSUME NEW c \in Clis, StopProbe(c) PROVE CommandsInv'
  BY <1>18 DEF StopProbe, IsDaemonAlive, Goes, GoesWith, Ends, Idle
<1>19. ASSUME NEW c \in Clis, StopAsk(c) PROVE CommandsInv'
  BY <1>19 DEF StopAsk, IsDaemonAlive, Goes, GoesWith, Ends, Idle
<1>20. ASSUME NEW c \in Clis, HandleIpc(c) PROVE CommandsInv'
  BY <1>20 DEF HandleIpc, StopDone, Asked, Apart, Goes, GoesWith, Ends, Idle
<1>21. ASSUME NEW c \in Clis, StopUnanswered(c) PROVE CommandsInv'
  BY <1>21 DEF StopUnanswered, Asked, Goes, GoesWith, Ends, Idle
<1>22. ASSUME NEW c \in Clis, StopReadPid(c) PROVE CommandsInv'
  BY <1>22 DEF StopReadPid, Goes, GoesWith, Ends, Idle
<1>23. ASSUME NEW c \in Clis, StopSignal(c) PROVE CommandsInv'
  BY <1>23 DEF StopSignal, StopDone, Asked, Apart, Vanish, Goes, GoesWith, Ends, Idle
<1>24. ASSUME NEW c \in Clis, StopUnlinkPid(c) PROVE CommandsInv'
  BY <1>24 DEF StopUnlinkPid, Goes, GoesWith, Ends, Idle
<1>25. ASSUME NEW c \in Clis, RegisterNode(c) PROVE CommandsInv'
  BY <1>25 DEF RegisterNode, UpsertRow, Goes, GoesWith, Ends, Idle
<1>26. ASSUME NEW c \in Clis, SaveConfig(c) PROVE CommandsInv'
  BY <1>26 DEF SaveConfig, Goes, GoesWith, Ends, Idle
<1>27. ASSUME NEW c \in Clis, RemoveNode(c) PROVE CommandsInv'
  BY <1>27 DEF RemoveNode, DeleteRow, LoadConfig, Goes, GoesWith, Ends, Idle
<1>28. ASSUME NEW c \in Clis, RemoveConfigDir(c) PROVE CommandsInv'
  BY <1>28 DEF RemoveConfigDir, Goes, GoesWith, Ends, Idle
<1>29. ASSUME NEW c \in Clis, NEW cmd \in CliCommands, Begin(c, cmd) PROVE CommandsInv'
  BY <1>29 DEF Begin, Apart, FirstStep, AllCommands, LoadConfig, Idle
<1>30. CASE UNCHANGED hostVars
  BY <1>30
<1> QED
  BY <1>1, <1>2, <1>3, <1>4, <1>5, <1>6, <1>7, <1>8, <1>9, <1>10, <1>11, <1>12, <1>13, <1>14, <1>15, <1>16, <1>17, <1>18, <1>19, <1>20, <1>21, <1>22, <1>23, <1>24, <1>25, <1>26, <1>27, <1>28, <1>29, <1>30 DEF HostNext, Daemon, Heartbeat, Command

LEMMA FilesStep ==
    ASSUME HostTypeOK, CommandsInv, FilesInv, [HostNext]_hostVars
    PROVE  FilesInv'
<1> USE NodeHostAssumption DEF HostTypeOK, CommandsInv, FilesInv, Booting, Handling, Dead, Live, files, procs, plane, hostVars
<1>1. ASSUME NEW p \in Pids, BootFails(p) PROVE FilesInv'
  BY <1>1 DEF BootFails, LoadConfig
<1>2. ASSUME NEW p \in Pids, WritePidFile(p) PROVE FilesInv'
  BY <1>2 DEF WritePidFile, LoadConfig
<1>3. ASSUME NEW p \in Pids, ClearSocket(p) PROVE FilesInv'
  BY <1>3 DEF ClearSocket
<1>4. ASSUME NEW p \in Pids, StartIpcServer(p) PROVE FilesInv'
  BY <1>4 DEF StartIpcServer
<1>5. ASSUME NEW p \in Pids, Shutdown(p) PROVE FilesInv'
  BY <1>5 DEF Shutdown
<1>6. ASSUME NEW p \in Pids, CloseServers(p) PROVE FilesInv'
  BY <1>6 DEF CloseServers
<1>7. ASSUME NEW p \in Pids, RemoveSocketFile(p) PROVE FilesInv'
  BY <1>7 DEF RemoveSocketFile
<1>8. ASSUME NEW p \in Pids, RemovePidFile(p) PROVE FilesInv'
  BY <1>8 DEF RemovePidFile, Vanish
<1>9. ASSUME NEW p \in Pids, HeartbeatStart(p) PROVE FilesInv'
  BY <1>9 DEF HeartbeatStart
<1>10. ASSUME NEW p \in Pids, HeartbeatSend(p) PROVE FilesInv'
  BY <1>10 DEF HeartbeatSend
<1>11. ASSUME NEW p \in Pids, Killed(p) PROVE FilesInv'
  BY <1>11 DEF Killed, Vanish
<1>12. ASSUME NEW p \in Pids, StartForeground(p) PROVE FilesInv'
  BY <1>12 DEF StartForeground, NextPid, LoadConfig
<1>13. ASSUME NEW b \in Beats, HeartbeatNode(b) PROVE FilesInv'
  BY <1>13 DEF HeartbeatNode, PatchRow, Beats
<1>14. ASSUME NEW b \in Beats, BeatLost(b) PROVE FilesInv'
  BY <1>14 DEF BeatLost, Beats
<1>15. ASSUME NEW c \in Clis, StartCheck(c) PROVE FilesInv'
  BY <1>15 DEF StartCheck, IsDaemonAlive, LoadConfig, Goes, GoesWith, Ends, Idle
<1>16. ASSUME NEW c \in Clis, SpawnDetachedDaemon(c) PROVE FilesInv'
  BY <1>16 DEF SpawnDetachedDaemon, NextPid, Goes, GoesWith, Ends, Idle
<1>17. ASSUME NEW c \in Clis, SpawnFails(c) PROVE FilesInv'
  BY <1>17 DEF SpawnFails, Goes, GoesWith, Ends, Idle
<1>18. ASSUME NEW c \in Clis, StopProbe(c) PROVE FilesInv'
  BY <1>18 DEF StopProbe, IsDaemonAlive, Goes, GoesWith, Ends, Idle
<1>19. ASSUME NEW c \in Clis, StopAsk(c) PROVE FilesInv'
  BY <1>19 DEF StopAsk, IsDaemonAlive, Goes, GoesWith, Ends, Idle
<1>20. ASSUME NEW c \in Clis, HandleIpc(c) PROVE FilesInv'
  BY <1>20 DEF HandleIpc, StopDone, Asked, Apart, Goes, GoesWith, Ends, Idle
<1>21. ASSUME NEW c \in Clis, StopUnanswered(c) PROVE FilesInv'
  BY <1>21 DEF StopUnanswered, Asked, Goes, GoesWith, Ends, Idle
<1>22. ASSUME NEW c \in Clis, StopReadPid(c) PROVE FilesInv'
  BY <1>22 DEF StopReadPid, Goes, GoesWith, Ends, Idle
<1>23. ASSUME NEW c \in Clis, StopSignal(c) PROVE FilesInv'
  BY <1>23 DEF StopSignal, StopDone, Asked, Apart, Vanish, Goes, GoesWith, Ends, Idle
<1>24. ASSUME NEW c \in Clis, StopUnlinkPid(c) PROVE FilesInv'
  BY <1>24 DEF StopUnlinkPid, Goes, GoesWith, Ends, Idle
<1>25. ASSUME NEW c \in Clis, RegisterNode(c) PROVE FilesInv'
  BY <1>25 DEF RegisterNode, UpsertRow, Goes, GoesWith, Ends, Idle
<1>26. ASSUME NEW c \in Clis, SaveConfig(c) PROVE FilesInv'
  BY <1>26 DEF SaveConfig, Goes, GoesWith, Ends, Idle
<1>27. ASSUME NEW c \in Clis, RemoveNode(c) PROVE FilesInv'
  BY <1>27 DEF RemoveNode, DeleteRow, LoadConfig, Goes, GoesWith, Ends, Idle
<1>28. ASSUME NEW c \in Clis, RemoveConfigDir(c) PROVE FilesInv'
  BY <1>28 DEF RemoveConfigDir, Goes, GoesWith, Ends, Idle
<1>29. ASSUME NEW c \in Clis, NEW cmd \in CliCommands, Begin(c, cmd) PROVE FilesInv'
  BY <1>29 DEF Begin, Apart, FirstStep, AllCommands, LoadConfig, Idle
<1>30. CASE UNCHANGED hostVars
  BY <1>30
<1> QED
  BY <1>1, <1>2, <1>3, <1>4, <1>5, <1>6, <1>7, <1>8, <1>9, <1>10, <1>11, <1>12, <1>13, <1>14, <1>15, <1>16, <1>17, <1>18, <1>19, <1>20, <1>21, <1>22, <1>23, <1>24, <1>25, <1>26, <1>27, <1>28, <1>29, <1>30 DEF HostNext, Daemon, Heartbeat, Command

LEMMA CalmStep ==
    ASSUME HostTypeOK, CommandsInv, FilesInv, CalmInv, [HostNext]_hostVars
    PROVE  CalmInv'
<1> USE NodeHostAssumption DEF HostTypeOK, CommandsInv, FilesInv, CalmInv, OneAtATime, RemovedInPeace, FilesKept, NobodyLives, NobodyBoots, OthersIdle, Booting, Handling, Dead, Live, files, procs, plane, hostVars
<1>1. ASSUME NEW p \in Pids, BootFails(p) PROVE CalmInv'
  BY <1>1 DEF BootFails, LoadConfig
<1>2. ASSUME NEW p \in Pids, WritePidFile(p) PROVE CalmInv'
  BY <1>2 DEF WritePidFile, LoadConfig
<1>3. ASSUME NEW p \in Pids, ClearSocket(p) PROVE CalmInv'
  BY <1>3 DEF ClearSocket
<1>4. ASSUME NEW p \in Pids, StartIpcServer(p) PROVE CalmInv'
  BY <1>4 DEF StartIpcServer
<1>5. ASSUME NEW p \in Pids, Shutdown(p) PROVE CalmInv'
  BY <1>5 DEF Shutdown
<1>6. ASSUME NEW p \in Pids, CloseServers(p) PROVE CalmInv'
  BY <1>6 DEF CloseServers
<1>7. ASSUME NEW p \in Pids, RemoveSocketFile(p) PROVE CalmInv'
  BY <1>7 DEF RemoveSocketFile
<1>8. ASSUME NEW p \in Pids, RemovePidFile(p) PROVE CalmInv'
  BY <1>8 DEF RemovePidFile, Vanish
<1>9. ASSUME NEW p \in Pids, HeartbeatStart(p) PROVE CalmInv'
  BY <1>9 DEF HeartbeatStart
<1>10. ASSUME NEW p \in Pids, HeartbeatSend(p) PROVE CalmInv'
  BY <1>10 DEF HeartbeatSend
<1>11. ASSUME NEW p \in Pids, Killed(p) PROVE CalmInv'
  BY <1>11 DEF Killed, Vanish
<1>12. ASSUME NEW p \in Pids, StartForeground(p) PROVE CalmInv'
<2> SUFFICES ASSUME calm'
             PROVE  OneAtATime' /\ RemovedInPeace' /\ FilesKept'
  BY DEF CalmInv
<2>1. calm /\ NobodyLives /\ \A c \in Clis : cli[c] = Idle
  BY <1>12 DEF StartForeground
<2>2. OneAtATime /\ RemovedInPeace /\ FilesKept
  BY <2>1 DEF CalmInv
<2>3. OneAtATime'
  BY <1>12, <2>1, <2>2 DEF StartForeground, NextPid, LoadConfig, Idle
<2>4. RemovedInPeace'
  BY <1>12, <2>1, <2>2 DEF StartForeground, NextPid, LoadConfig, Idle
<2>5. FilesKept'
  BY <1>12, <2>1, <2>2 DEF StartForeground, NextPid, LoadConfig, Idle
<2> QED
  BY <2>3, <2>4, <2>5
<1>13. ASSUME NEW b \in Beats, HeartbeatNode(b) PROVE CalmInv'
  BY <1>13 DEF HeartbeatNode, PatchRow, Beats
<1>14. ASSUME NEW b \in Beats, BeatLost(b) PROVE CalmInv'
  BY <1>14 DEF BeatLost, Beats
<1>15. ASSUME NEW c \in Clis, StartCheck(c) PROVE CalmInv'
  BY <1>15 DEF StartCheck, IsDaemonAlive, LoadConfig, Goes, GoesWith, Ends, Idle
<1>16. ASSUME NEW c \in Clis, SpawnDetachedDaemon(c) PROVE CalmInv'
  BY <1>16 DEF SpawnDetachedDaemon, NextPid, Goes, GoesWith, Ends, Idle
<1>17. ASSUME NEW c \in Clis, SpawnFails(c) PROVE CalmInv'
  BY <1>17 DEF SpawnFails, Goes, GoesWith, Ends, Idle
<1>18. ASSUME NEW c \in Clis, StopProbe(c) PROVE CalmInv'
  BY <1>18 DEF StopProbe, IsDaemonAlive, Goes, GoesWith, Ends, Idle
<1>19. ASSUME NEW c \in Clis, StopAsk(c) PROVE CalmInv'
  BY <1>19 DEF StopAsk, IsDaemonAlive, Goes, GoesWith, Ends, Idle
<1>20. ASSUME NEW c \in Clis, HandleIpc(c) PROVE CalmInv'
<2> SUFFICES ASSUME calm'
             PROVE  OneAtATime' /\ RemovedInPeace' /\ FilesKept'
  BY DEF CalmInv
<2>1. calm /\ OneAtATime /\ RemovedInPeace /\ FilesKept
  BY <1>20 DEF CalmInv, HandleIpc, StopDone
<2>2. cli[c] # Idle
  BY <1>20 DEF HandleIpc, Idle
<2>3. \A d \in Clis : d # c => cli'[d] = Idle
  <3>1. \A d \in Clis : d # c => cli[d] = Idle
    BY <2>1, <2>2
  <3>2. \A d \in Clis : d # c => cli'[d] = cli[d]
    BY <1>20, StopDoneLeavesOthers DEF HandleIpc
  <3> QED
    BY <3>1, <3>2
<2>4. NobodyBoots
  BY <2>1, <2>2
<2>5. cli'[c] = Idle \/ (cli'[c].at = "check" /\ NobodyLives)
  <3>1. CASE cli[c].cmd = "restart"
    <4>1. Apart(c, "start")
      BY <1>20, <3>1 DEF HandleIpc, StopDone
    <4>2. cli'[c].at = "check"
      BY <1>20, <3>1 DEF HandleIpc, StopDone
    <4> QED
      BY <4>1, <4>2 DEF Apart
  <3>2. CASE cli[c].cmd # "restart"
    BY <1>20, <3>2 DEF HandleIpc, StopDone, Ends
  <3> QED
    BY <3>1, <3>2
<2>6. UNCHANGED <<stage, serving, files>>
  BY <1>20 DEF HandleIpc
<2>8. OneAtATime'
  BY <2>1, <2>3, <2>4, <2>6
<2>9. RemovedInPeace'
  BY <2>3, <2>5, <2>6 DEF Idle
<2>10. FilesKept'
  BY <2>1, <2>6
<2> QED
  BY <2>8, <2>9, <2>10
<1>21. ASSUME NEW c \in Clis, StopUnanswered(c) PROVE CalmInv'
  BY <1>21 DEF StopUnanswered, Asked, Goes, GoesWith, Ends, Idle
<1>22. ASSUME NEW c \in Clis, StopReadPid(c) PROVE CalmInv'
  BY <1>22 DEF StopReadPid, Goes, GoesWith, Ends, Idle
<1>23. ASSUME NEW c \in Clis, StopSignal(c) PROVE CalmInv'
<2> SUFFICES ASSUME calm'
             PROVE  OneAtATime' /\ RemovedInPeace' /\ FilesKept'
  BY DEF CalmInv
<2>1. calm /\ OneAtATime /\ RemovedInPeace /\ FilesKept
  BY <1>23 DEF CalmInv, StopSignal, StopDone
<2>2. cli[c] # Idle
  BY <1>23 DEF StopSignal, Idle
<2>3. \A d \in Clis : d # c => cli'[d] = Idle
  <3>1. \A d \in Clis : d # c => cli[d] = Idle
    BY <2>1, <2>2
  <3>2. \A d \in Clis : d # c => cli'[d] = cli[d]
    <4>1. CASE StopDone(c)
      BY <4>1, StopDoneLeavesOthers
    <4>2. CASE Goes(c, "unlink")
      BY <4>2 DEF Goes
    <4> QED
      BY <1>23, <4>1, <4>2 DEF StopSignal
  <3> QED
    BY <3>1, <3>2
<2>4. NobodyBoots
  BY <2>1, <2>2
<2>5. \/ cli'[c] = Idle
      \/ cli'[c].at = "check" /\ NobodyLives
      \/ cli'[c].at = "unlink" /\ ~ Live(cli[c].pid)
  <3>1. CASE StopDone(c) /\ cli[c].cmd = "restart"
    <4>1. Apart(c, "start")
      BY <3>1 DEF StopDone
    <4>2. cli'[c].at = "check"
      BY <1>23, <3>1 DEF StopDone
    <4> QED
      BY <4>1, <4>2 DEF Apart
  <3>2. CASE StopDone(c) /\ cli[c].cmd # "restart"
    BY <1>23, <3>2 DEF StopDone, Ends
  <3>3. CASE ~ Live(cli[c].pid) /\ Goes(c, "unlink")
    BY <1>23, <3>3 DEF Goes
  <3> QED
    BY <1>23, <3>1, <3>2, <3>3 DEF StopSignal
<2>6. UNCHANGED files /\ cli[c].at = "kill" /\ cli[c].pid \in Pids
  BY <1>23 DEF StopSignal
<2>7. \A p \in Pids : \/ stage'[p] = "killed"
                      \/ stage'[p] = stage[p] /\ (p \in serving => p \in serving')
  <3>1. CASE Vanish(cli[c].pid, "killed")
    <4> TAKE p \in Pids
    <4>1. CASE p = cli[c].pid
      <5>1. stage' = [stage EXCEPT ![cli[c].pid] = "killed"]
        BY <3>1 DEF Vanish
      <5>2. stage'[cli[c].pid] = "killed"
        BY <2>6, <5>1
      <5> QED
        BY <4>1, <5>2
    <4>2. CASE p # cli[c].pid
      BY <3>1, <4>2 DEF Vanish
    <4> QED
      BY <4>1, <4>2
  <3>2. CASE UNCHANGED <<stage, serving>>
    BY <3>2
  <3> QED
    BY <1>23, <3>1, <3>2 DEF StopSignal
<2>8. OneAtATime'
  BY <2>1, <2>3, <2>4, <2>7
<2>9. RemovedInPeace'
  BY <2>1, <2>3, <2>5, <2>6, <2>7 DEF Idle
<2>10. FilesKept'
  BY <2>1, <2>6, <2>7
<2> QED
  BY <2>8, <2>9, <2>10
<1>24. ASSUME NEW c \in Clis, StopUnlinkPid(c) PROVE CalmInv'
  BY <1>24 DEF StopUnlinkPid, Goes, GoesWith, Ends, Idle
<1>25. ASSUME NEW c \in Clis, RegisterNode(c) PROVE CalmInv'
  BY <1>25 DEF RegisterNode, UpsertRow, Goes, GoesWith, Ends, Idle
<1>26. ASSUME NEW c \in Clis, SaveConfig(c) PROVE CalmInv'
  BY <1>26 DEF SaveConfig, Goes, GoesWith, Ends, Idle
<1>27. ASSUME NEW c \in Clis, RemoveNode(c) PROVE CalmInv'
  BY <1>27 DEF RemoveNode, DeleteRow, LoadConfig, Goes, GoesWith, Ends, Idle
<1>28. ASSUME NEW c \in Clis, RemoveConfigDir(c) PROVE CalmInv'
  BY <1>28 DEF RemoveConfigDir, Goes, GoesWith, Ends, Idle
<1>29. ASSUME NEW c \in Clis, NEW cmd \in CliCommands, Begin(c, cmd) PROVE CalmInv'
<2> SUFFICES ASSUME calm'
             PROVE  OneAtATime' /\ RemovedInPeace' /\ FilesKept'
  BY DEF CalmInv
<2>1. calm /\ Apart(c, cmd)
  BY <1>29 DEF Begin
<2>2. OneAtATime /\ RemovedInPeace /\ FilesKept
  BY <2>1 DEF CalmInv
<2>3. OneAtATime'
  BY <1>29, <2>1, <2>2 DEF Begin, Apart, FirstStep, AllCommands, LoadConfig, Idle
<2>4. RemovedInPeace'
  BY <1>29, <2>1, <2>2 DEF Begin, Apart, FirstStep, AllCommands, LoadConfig, Idle
<2>5. FilesKept'
  BY <1>29, <2>1, <2>2 DEF Begin, Apart, FirstStep, AllCommands, LoadConfig, Idle
<2> QED
  BY <2>3, <2>4, <2>5
<1>30. CASE UNCHANGED hostVars
  BY <1>30
<1> QED
  BY <1>1, <1>2, <1>3, <1>4, <1>5, <1>6, <1>7, <1>8, <1>9, <1>10, <1>11, <1>12, <1>13, <1>14, <1>15, <1>16, <1>17, <1>18, <1>19, <1>20, <1>21, <1>22, <1>23, <1>24, <1>25, <1>26, <1>27, <1>28, <1>29, <1>30 DEF HostNext, Daemon, Heartbeat, Command

-----------------------------------------------------------------------------
LEMMA HostInvHolds == HostSpec => []HostInv
<1>1. HostInv /\ [HostNext]_hostVars => HostInv'
  BY HostTypeStep, CommandsStep, FilesStep, CalmStep DEF HostInv
<1> QED
  BY HostInvInit, <1>1, PTL DEF HostSpec

\* Every variable keeps its type.
THEOREM HostTyped == HostSpec => []HostTypeOK
<1>1. HostInv => HostTypeOK
  BY DEF HostInv
<1> QED
  BY HostInvHolds, <1>1, PTL

\* A daemon that left by shutdown() is named by neither file, whatever other
\* daemons and commands did meanwhile.
THEOREM NothingStale == HostSpec => []NoStaleFiles
<1>1. HostInv => NoStaleFiles
  BY DEF HostInv, FilesInv, NoStaleFiles, Handling
<1> QED
  BY HostInvHolds, <1>1, PTL

\* While commands keep out of each other's way, the running daemon is named by
\* its pid file and listens on the socket that is there.
THEOREM DaemonReachable == HostSpec => []Reachable
<1>1. HostInv => Reachable
  BY DEF HostInv, CalmInv, FilesKept, Reachable, Handling
<1> QED
  BY HostInvHolds, <1>1, PTL

\* Both of the above: no file speaks of a daemon that is gone or hides one.
THEOREM FilesHold == HostSpec => []FilesAreTrue
BY NothingStale, DaemonReachable, PTL DEF FilesAreTrue

-----------------------------------------------------------------------------
USE NodeCommandsAssumption

Unclaimed == {"absent", "pending"}
Busy == {"running", "completing", "erring", "failing"}

\* A claimed command that nobody has started.
Fresh(c) == status[c] \notin Unclaimed /\ execs[c] = 0

\* A report is about a command that was run, a good one about a success.
CallInv ==
    \A s \in Slots : call[s].op = "complete" =>
        /\ call[s].job \in Commands
        /\ call[s].body \in Finished
        /\ execs[call[s].job] > 0
        /\ call[s].body = "completed" => call[s].job \in succeeded

\* A pass that is busy runs a command.
CurInv ==
    \A p \in Passes : pc[p] \in Busy => cur[p] \in Commands /\ execs[cur[p]] > 0

\* A claimed command is in one place only: the answer of one poll, the list of
\* one pass, or neither.  An unclaimed one was never run.
HeldInv ==
    \A c \in Commands :
        /\ \A s \in Slots : c \in call[s].got => Fresh(c)
        /\ \A p \in Passes : c \in todo[p] => Fresh(c)
        /\ \A s, t \in Slots : c \in call[s].got /\ c \in call[t].got => s = t
        /\ \A p, q \in Passes : c \in todo[p] /\ c \in todo[q] => p = q
        /\ \A s \in Slots, p \in Passes : ~ (c \in call[s].got /\ c \in todo[p])
        /\ status[c] \in Unclaimed => execs[c] = 0

Inv == TypeOK /\ CallInv /\ CurInv /\ HeldInv /\ RunsAtMostOnce /\ ReportsAreTrue

LEMMA FreeSlotType ==
    /\ FreeSlot \in CallType
    /\ FreeSlot.op = "none" /\ FreeSlot.got = {}
BY DEF FreeSlot, CallType

LEMMA RankType == Cardinality({d \in Commands : status[d] # "absent"}) \in Nat
<1>1. IsFiniteSet({d \in Commands : status[d] # "absent"})
  BY FS_Subset
<1> QED
  BY <1>1, FS_CardinalityType

LEMMA RepliedType ==
    ASSUME TypeOK, NEW s \in Slots, NEW ok \in BOOLEAN
    PROVE  /\ Replied(s, ok) \in CallType
           /\ \/ Replied(s, ok) = FreeSlot
              \/ /\ Replied(s, ok).op = call[s].op
                 /\ Replied(s, ok).job = call[s].job
                 /\ Replied(s, ok).body = call[s].body
                 /\ Replied(s, ok).got = call[s].got
<1>1. call[s] \in CallType
  BY DEF TypeOK
<1>2. CASE Awaited(s)
  BY <1>1, <1>2 DEF Replied, CallType
<1>3. CASE ~ Awaited(s)
  BY <1>3, FreeSlotType DEF Replied
<1> QED
  BY <1>2, <1>3

LEMMA InitInv == Init => Inv
BY FreeSlotType
   DEF Init, Inv, TypeOK, CallInv, CurInv, HeldInv, RunsAtMostOnce, ReportsAreTrue,
       Unclaimed, Busy, Fresh

-----------------------------------------------------------------------------
\* What Inv says of one request.
CallOK(c) ==
    c.op = "complete" =>
        /\ c.job \in Commands
        /\ c.body \in Finished
        /\ execs[c.job] > 0
        /\ c.body = "completed" => c.job \in succeeded

\* The owner issues a command.
LEMMA IssueInv ==
    ASSUME Inv, NEW c \in Commands, NEW n \in Nodes,
           IssueCommand(c, n)
    PROVE  Inv'
<1> USE DEF Inv, IssueCommand, passVars
<1>1. TypeOK'
  BY RankType DEF TypeOK
<1>2. CallInv' /\ CurInv' /\ RunsAtMostOnce' /\ ReportsAreTrue'
  BY DEF TypeOK, CallInv, CurInv, RunsAtMostOnce, ReportsAreTrue
<1>3. HeldInv'
  BY DEF TypeOK, HeldInv, Fresh, Unclaimed
<1> QED
  BY <1>1, <1>2, <1>3

\* A request is replaced by one that holds no more commands; the tables stay.
LEMMA SlotInv ==
    ASSUME Inv, NEW s \in Slots, NEW c \in CallType, CallOK(c),
           c.got \subseteq call[s].got,
           call' = [call EXCEPT ![s] = c], faults' \in 0..MaxFaults,
           UNCHANGED tableVars, UNCHANGED passVars, UNCHANGED execs, UNCHANGED succeeded
    PROVE  Inv'
<1> USE DEF Inv, tableVars, passVars
<1>1. TypeOK'
  BY DEF TypeOK
<1>2. CallInv'
  BY DEF TypeOK, CallInv, CallOK
<1>3. HeldInv'
  <2>1. \A t \in Slots : call'[t].got \subseteq call[t].got
    BY DEF TypeOK
  <2> QED
    BY <2>1 DEF TypeOK, HeldInv, Fresh
<1> QED
  BY <1>1, <1>2, <1>3 DEF CurInv, RunsAtMostOnce, ReportsAreTrue

LEMMA RepliedOK ==
    ASSUME Inv, NEW s \in Slots, NEW ok \in BOOLEAN
    PROVE  /\ Replied(s, ok) \in CallType
           /\ CallOK(Replied(s, ok))
           /\ Replied(s, ok).got \subseteq call[s].got
BY RepliedType, FreeSlotType DEF Inv, CallInv, CallOK

\* The poll reads, answers, or is cut short.
LEMMA PollInv ==
    ASSUME Inv, NEW s \in Slots,
           PeekPending(s) \/ ReplyClaimed(s) \/ RequestDies(s) \/ ClaimFails(s)
    PROVE  Inv'
<1> USE DEF Inv
<1>0. /\ call[s] \in CallType /\ CallOK(call[s]) /\ faults \in 0..MaxFaults
  BY DEF TypeOK, CallInv, CallOK
<1>1. CASE PeekPending(s)
  <2>1. PICK rows \in SUBSET Commands :
            call' = [call EXCEPT ![s].at = "claim", ![s].rows = rows]
    <3> DEFINE mine == PendingOf(call[s].by)
               rows == {c \in mine :
                          Cardinality({d \in mine : issued[d] < issued[c]}) < Limit}
    <3>1. call' = [call EXCEPT ![s].at = "claim", ![s].rows = rows]
      BY <1>1 DEF PeekPending
    <3>2. rows \in SUBSET Commands
      BY DEF PendingOf
    <3> HIDE DEF rows
    <3> QED
      BY <3>1, <3>2
  <2> DEFINE c == [call[s] EXCEPT !.at = "claim", !.rows = rows]
  <2>2. call' = [call EXCEPT ![s] = c]
    BY <2>1 DEF TypeOK
  <2>3. c \in CallType /\ CallOK(c) /\ c.got = call[s].got
    BY <1>0 DEF CallType, CallOK
  <2> HIDE DEF c
  <2> QED
    BY <1>0, <1>1, <2>2, <2>3, SlotInv DEF PeekPending
<1>2. CASE ReplyClaimed(s)
  BY <1>0, <1>2, RepliedOK, SlotInv DEF ReplyClaimed
<1>3. CASE RequestDies(s)
  <2>1. faults' \in 0..MaxFaults
    BY <1>0, <1>3 DEF RequestDies, Fault
  <2> QED
    BY <1>3, <2>1, RepliedOK, SlotInv DEF RequestDies
<1>4. CASE ClaimFails(s)
  <2>1. PICK d : call' = [call EXCEPT ![s].rows = @ \ {d}]
    BY <1>4 DEF ClaimFails
  <2> DEFINE c == [call[s] EXCEPT !.rows = @ \ {d}]
  <2>2. call' = [call EXCEPT ![s] = c]
    BY <2>1 DEF TypeOK
  <2>3. c \in CallType /\ CallOK(c) /\ c.got = call[s].got
    BY <1>0 DEF CallType, CallOK
  <2>4. faults' \in 0..MaxFaults
    BY <1>0, <1>4 DEF ClaimFails, Fault
  <2> HIDE DEF c
  <2> QED
    BY <1>4, <2>2, <2>3, <2>4, SlotInv DEF ClaimFails
<1> QED
  BY <1>1, <1>2, <1>3, <1>4

\* The claim: a pending command is in nobody's hands, and then in one answer.
LEMMA ClaimInv ==
    ASSUME Inv, NEW s \in Slots, ClaimRow(s)
    PROVE  Inv'
<1> USE DEF Inv, passVars
<1>0. /\ call \in [Slots -> CallType] /\ call[s] \in CallType /\ CallOK(call[s])
      /\ status \in [Commands -> {"absent", "pending", "running"} \cup Finished]
      /\ faults \in 0..MaxFaults
  BY DEF TypeOK, CallInv, CallOK
<1>1. PICK c \in call[s].rows :
          IF status[c] = "pending"
          THEN /\ status' = [status EXCEPT ![c] = "running"]
               /\ call' = [call EXCEPT ![s].rows = @ \ {c}, ![s].got = @ \cup {c}]
          ELSE /\ call' = [call EXCEPT ![s].rows = @ \ {c}]
               /\ UNCHANGED status
  BY DEF ClaimRow, Oldest
<1>2. /\ c \in Commands
      /\ UNCHANGED <<target, issued>> /\ UNCHANGED passVars
      /\ UNCHANGED execs /\ UNCHANGED succeeded /\ UNCHANGED faults
  BY <1>0, <1>1 DEF ClaimRow, CallType
<1>3. CASE status[c] # "pending"
  <2> DEFINE r == [call[s] EXCEPT !.rows = @ \ {c}]
  <2>1. call' = [call EXCEPT ![s] = r]
    BY <1>0, <1>1, <1>3
  <2>2. r \in CallType /\ CallOK(r) /\ r.got = call[s].got
    BY <1>0 DEF CallType, CallOK
  <2> HIDE DEF r
  <2> QED
    BY <1>0, <1>1, <1>2, <1>3, <2>1, <2>2, SlotInv DEF tableVars
<1>4. CASE status[c] = "pending"
  <2> DEFINE r == [call[s] EXCEPT !.rows = @ \ {c}, !.got = @ \cup {c}]
  <2>1. call' = [call EXCEPT ![s] = r] /\ status' = [status EXCEPT ![c] = "running"]
    BY <1>0, <1>1, <1>4
  <2>2. /\ r \in CallType /\ r.op = call[s].op /\ r.job = call[s].job
        /\ r.body = call[s].body /\ r.got = call[s].got \cup {c}
    BY <1>0, <1>2 DEF CallType
  <2> HIDE DEF r
  <2>3. TypeOK'
    BY <1>2, <2>1, <2>2 DEF TypeOK
  <2>4. CallInv'
    BY <1>0, <1>2, <2>1, <2>2 DEF CallInv
  <2>5. /\ \A t \in Slots : call'[t].got = IF t = s THEN call[s].got \cup {c} ELSE call[t].got
        /\ \A d \in Commands : status'[d] = IF d = c THEN "running" ELSE status[d]
    BY <1>0, <1>2, <2>1, <2>2
  <2>6. /\ \A t \in Slots : c \notin call[t].got
        /\ \A p \in Passes : c \notin todo[p]
        /\ execs[c] = 0
    BY <1>2, <1>4 DEF HeldInv, Fresh, Unclaimed
  <2>7. HeldInv'
    BY <1>2, <2>5, <2>6 DEF HeldInv, Fresh, Unclaimed
  <2>8. CurInv' /\ RunsAtMostOnce' /\ ReportsAreTrue'
    BY <1>2, <2>5 DEF CurInv, RunsAtMostOnce, ReportsAreTrue
  <2> QED
    BY <2>3, <2>4, <2>7, <2>8
<1> QED
  BY <1>3, <1>4

\* The report of an outcome.
LEMMA CompleteInv ==
    ASSUME Inv, NEW s \in Slots, CompleteCommand(s)
    PROVE  Inv'
<1> USE DEF Inv
<1> DEFINE j == call[s].job
           mine == target[j] = call[s].by
           c == Replied(s, mine)
<1>1. /\ j \in Commands /\ call[s].body \in Finished /\ execs[j] > 0
      /\ call[s].body = "completed" => j \in succeeded
  BY DEF CompleteCommand, CallInv
<1>2. c \in CallType /\ CallOK(c) /\ c.got \subseteq call[s].got
  BY RepliedOK
<1>3. /\ call' = [call EXCEPT ![s] = c]
      /\ status' = IF mine THEN [status EXCEPT ![j] = call[s].body] ELSE status
      /\ UNCHANGED <<target, issued>> /\ UNCHANGED passVars
      /\ UNCHANGED execs /\ UNCHANGED succeeded /\ UNCHANGED faults
  BY DEF CompleteCommand
<1> HIDE DEF c, mine
<1>4. TypeOK'
  BY <1>1, <1>2, <1>3 DEF TypeOK, passVars
<1>5. CallInv'
  BY <1>1, <1>2, <1>3 DEF TypeOK, CallInv, CallOK
<1>6. CurInv' /\ RunsAtMostOnce'
  BY <1>3 DEF CurInv, RunsAtMostOnce, passVars
<1>7. /\ \A t \in Slots : call'[t].got \subseteq call[t].got
      /\ \A d \in Commands : status'[d] = status[d] \/ (d = j /\ status'[d] = call[s].body)
  BY <1>1, <1>2, <1>3 DEF TypeOK
<1>8. HeldInv'
  BY <1>1, <1>3, <1>7 DEF HeldInv, Fresh, Unclaimed, Finished, passVars
<1>9. ReportsAreTrue'
  BY <1>1, <1>3, <1>7 DEF ReportsAreTrue
<1> QED
  BY <1>4, <1>5, <1>6, <1>8, <1>9

\* What a step of a pass does to its requests.
Requests(p) ==
    \/ UNCHANGED <<call, req>>
    \/ \E s \in Slots : \E r \in CallType :
         Send(p, s, r) /\ r.got = {} /\ CallOK(r)'
    \/ Answer(p)
    \/ req' = [req EXCEPT ![p] = Null] /\ UNCHANGED call

LEMMA RequestsInv ==
    ASSUME Inv, NEW p \in Passes, Requests(p),
           execs' \in [Commands -> Nat], \A c \in Commands : execs'[c] >= execs[c],
           succeeded \subseteq succeeded'
    PROVE  /\ call' \in [Slots -> CallType] /\ req' \in [Passes -> Slots \cup {Null}]
           /\ \A s \in Slots : call'[s].got \subseteq call[s].got
           /\ CallInv'
<1> USE DEF Inv
<1>0. /\ call \in [Slots -> CallType] /\ req \in [Passes -> Slots \cup {Null}]
      /\ execs \in [Commands -> Nat]
  BY DEF TypeOK
<1>2. CASE UNCHANGED <<call, req>>
  BY <1>0, <1>2 DEF CallInv
<1>3. CASE \E s \in Slots : \E r \in CallType :
             Send(p, s, r) /\ r.got = {} /\ CallOK(r)'
  <2>1. PICK s \in Slots, r \in CallType : Send(p, s, r) /\ r.got = {} /\ CallOK(r)'
    BY <1>3
  <2>2. \A t \in Slots : call'[t] = IF t = s THEN r ELSE call[t]
    BY <1>0, <2>1 DEF Send
  <2>3. CallInv'
    BY <1>0, <2>1, <2>2 DEF CallInv, CallOK
  <2> QED
    BY <1>0, <2>1, <2>2, <2>3 DEF Send
<1>4. CASE Answer(p)
  <2>1. \A t \in Slots : call'[t] \in {call[t], FreeSlot}
    BY <1>0, <1>4 DEF Answer
  <2>2. CallInv'
    BY <1>0, <2>1, FreeSlotType DEF CallInv
  <2> QED
    BY <1>0, <1>4, <2>1, <2>2, FreeSlotType DEF Answer
<1>5. CASE req' = [req EXCEPT ![p] = Null] /\ UNCHANGED call
  BY <1>0, <1>5 DEF CallInv
<1> QED
  BY <1>2, <1>3, <1>4, <1>5 DEF Requests

Places == {"idle", "polling", "next"} \cup Busy

\* A step of one pass that starts no command: it may drop commands of its list.
LEMMA PassInv ==
    ASSUME Inv, NEW p \in Passes, Requests(p), UNCHANGED tableVars,
           UNCHANGED execs, succeeded' \in SUBSET Commands, succeeded \subseteq succeeded',
           faults' \in 0..MaxFaults,
           pc' \in [Passes -> Places],
           todo' \in [Passes -> SUBSET Commands],
           cur' \in [Passes -> Commands \cup {Null}],
           \A q \in Passes : q # p => pc'[q] = pc[q] /\ cur'[q] = cur[q],
           pc'[p] \in Busy => cur'[p] \in Commands /\ execs[cur'[p]] > 0,
           \A q \in Passes : todo'[q] \subseteq todo[q]
    PROVE  Inv'
<1> USE DEF Inv, tableVars
<1>1. /\ call' \in [Slots -> CallType] /\ req' \in [Passes -> Slots \cup {Null}]
      /\ \A s \in Slots : call'[s].got \subseteq call[s].got
      /\ CallInv'
  BY RequestsInv DEF TypeOK
<1>2. TypeOK'
  BY <1>1 DEF TypeOK, Places, Busy
<1>3. CurInv'
  BY DEF TypeOK, CurInv
<1>4. HeldInv'
  BY <1>1 DEF HeldInv, Fresh
<1>5. RunsAtMostOnce' /\ ReportsAreTrue'
  BY DEF RunsAtMostOnce, ReportsAreTrue
<1> QED
  BY <1>1, <1>2, <1>3, <1>4, <1>5

\* The steps of a pass that start no command and take none over.
LEMMA PassStepInv ==
    ASSUME Inv, NEW p \in Passes,
           \/ StartPass(p) \/ EndPass(p) \/ CommandSucceeds(p) \/ CommandFails(p)
           \/ ReportFailure(p) \/ CompletionAnswered(p) \/ FailureAnswered(p)
           \/ Timeout(p)
    PROVE  Inv'
<1> USE DEF Inv
<1>0. /\ pc \in [Passes -> Places] /\ todo \in [Passes -> SUBSET Commands]
      /\ cur \in [Passes -> Commands \cup {Null}]
      /\ succeeded \in SUBSET Commands /\ faults \in 0..MaxFaults
      /\ Node(p) \in Nodes /\ execs \in [Commands -> Nat]
      /\ pc[p] \in Busy => cur[p] \in Commands /\ execs[cur[p]] > 0
  BY DEF TypeOK, CurInv, Places, Busy, Passes, Node
<1>1. CASE StartPass(p)
  <2>1. ASSUME NEW r, r = PollRequest(Node(p))
        PROVE  r \in CallType /\ r.got = {} /\ CallOK(r)'
    BY <1>0, <2>1 DEF PollRequest, FreeSlot, CallType, CallOK
  <2>2. Requests(p)
    BY <1>1, <2>1 DEF StartPass, Requests
  <2> QED
    BY <1>0, <1>1, <2>2, PassInv DEF StartPass, Goto, Places, Busy
<1>2. CASE EndPass(p)
  BY <1>0, <1>2, PassInv DEF EndPass, Goto, Requests, Places, Busy
<1>3. CASE CommandSucceeds(p)
  <2>1. cur[p] \in Commands /\ execs[cur[p]] > 0
    BY <1>0, <1>3 DEF CommandSucceeds, Goto, Busy
  <2>2. ASSUME NEW r, r = CompleteRequest(Node(p), cur[p], "completed")
        PROVE  r \in CallType /\ r.got = {} /\ CallOK(r)'
    BY <1>0, <1>3, <2>1, <2>2
    DEF CommandSucceeds, CompleteRequest, FreeSlot, CallType, CallOK, Finished
  <2>3. Requests(p)
    BY <1>3, <2>2 DEF CommandSucceeds, Requests
  <2> QED
    BY <1>0, <1>3, <2>1, <2>3, PassInv DEF CommandSucceeds, Goto, Places, Busy
<1>4. CASE CommandFails(p)
  BY <1>0, <1>4, PassInv DEF CommandFails, Goto, Requests, Places, Busy
<1>5. CASE ReportFailure(p)
  <2>1. cur[p] \in Commands /\ execs[cur[p]] > 0
    BY <1>0, <1>5 DEF ReportFailure, Goto, Busy
  <2>2. ASSUME NEW r, r = CompleteRequest(Node(p), cur[p], "failed")
        PROVE  r \in CallType /\ r.got = {} /\ CallOK(r)'
    BY <1>0, <1>5, <2>1, <2>2
    DEF ReportFailure, CompleteRequest, FreeSlot, CallType, CallOK, Finished
  <2>3. Requests(p)
    BY <1>5, <2>2 DEF ReportFailure, Requests
  <2> QED
    BY <1>0, <1>5, <2>1, <2>3, PassInv DEF ReportFailure, Goto, Places, Busy
<1>6. CASE CompletionAnswered(p)
  <2>1. Requests(p) /\ pc[p] = "completing"
    BY <1>6 DEF CompletionAnswered, Requests, Goto
  <2>2. /\ pc' \in [Passes -> Places] /\ cur' \in [Passes -> Commands \cup {Null}]
        /\ \A q \in Passes : q # p => pc'[q] = pc[q] /\ cur'[q] = cur[q]
        /\ pc'[p] \in Busy => cur'[p] = cur[p]
    BY <1>0, <1>6 DEF CompletionAnswered, Goto, Places, Busy
  <2> QED
    BY <1>0, <1>6, <2>1, <2>2, PassInv DEF CompletionAnswered, Busy
<1>7. CASE FailureAnswered(p)
  <2>1. Requests(p)
    BY <1>7 DEF FailureAnswered, Requests
  <2> QED
    BY <1>0, <1>7, <2>1, PassInv DEF FailureAnswered, Goto, Places, Busy
<1>8. CASE Timeout(p)
  <2>1. Requests(p)
    BY <1>8 DEF Timeout, Requests, Answer
  <2>2. /\ pc' \in [Passes -> Places] /\ cur' \in [Passes -> Commands \cup {Null}]
        /\ \A q \in Passes : q # p => pc'[q] = pc[q] /\ cur'[q] = cur[q]
        /\ pc'[p] \in Busy => pc[p] \in Busy /\ cur'[p] = cur[p]
    BY <1>0, <1>8 DEF Timeout, Places, Busy
  <2>3. faults' \in 0..MaxFaults
    BY <1>0, <1>8 DEF Timeout, Fault
  <2> QED
    BY <1>0, <1>8, <2>1, <2>2, <2>3, PassInv DEF Timeout
<1> QED
  BY <1>1, <1>2, <1>3, <1>4, <1>5, <1>6, <1>7, <1>8

\* The answer of a poll hands its commands over to the pass.
LEMMA PollAnsweredInv ==
    ASSUME Inv, NEW p \in Passes, PollAnswered(p)
    PROVE  Inv'
<1> USE DEF Inv, PollAnswered
<1> DEFINE s == req[p]
           got == IF call[s].ok THEN call[s].got ELSE {}
<1>0. /\ s \in Slots /\ call[s] \in CallType /\ got \in SUBSET Commands
      /\ call \in [Slots -> CallType] /\ todo \in [Passes -> SUBSET Commands]
      /\ pc \in [Passes -> Places]
  BY DEF TypeOK, Answer, CallType, Places, Busy
<1>1. /\ \A t \in Slots : call'[t] = IF t = s THEN FreeSlot ELSE call[t]
      /\ \A q \in Passes : todo'[q] = IF q = p THEN got ELSE todo[q]
      /\ todo' \in [Passes -> SUBSET Commands]
      /\ \A t \in Slots : t # s => call'[t].got = call[t].got
      /\ call'[s].got = {}
  BY <1>0, FreeSlotType DEF Answer
<1>2. /\ UNCHANGED tableVars /\ UNCHANGED cur /\ UNCHANGED execs
      /\ UNCHANGED succeeded /\ UNCHANGED faults
  OBVIOUS
<1>3. /\ pc' \in [Passes -> Places] /\ pc'[p] \in {"next", "idle"}
      /\ \A q \in Passes : q # p => pc'[q] = pc[q]
  BY <1>0 DEF Goto, Places
<1>4. Requests(p)
  BY DEF Requests
<1>5. /\ call' \in [Slots -> CallType] /\ req' \in [Passes -> Slots \cup {Null}] /\ CallInv'
  BY <1>2, <1>4, RequestsInv DEF TypeOK
<1>6. TypeOK'
  BY <1>1, <1>2, <1>3, <1>5 DEF TypeOK, tableVars, Places, Busy
<1>7. CurInv'
  BY <1>2, <1>3 DEF CurInv, Busy
<1>8. HeldInv'
  <2>1. got \subseteq call[s].got
    OBVIOUS
  <2> HIDE DEF got
  <2> QED
    BY <1>0, <1>1, <1>2, <2>1 DEF HeldInv, Fresh, tableVars
<1>9. RunsAtMostOnce' /\ ReportsAreTrue'
  BY <1>2 DEF RunsAtMostOnce, ReportsAreTrue, tableVars
<1> QED
  BY <1>5, <1>6, <1>7, <1>8, <1>9

\* A command leaves the only list it is in and is run for the first time.
LEMMA RunCommandInv ==
    ASSUME Inv, NEW p \in Passes, RunCommand(p)
    PROVE  Inv'
<1> USE DEF Inv
<1>1. PICK c \in todo[p] : /\ todo' = [todo EXCEPT ![p] = @ \ {c}]
                           /\ cur' = [cur EXCEPT ![p] = c]
                           /\ execs' = [execs EXCEPT ![c] = @ + 1]
  BY DEF RunCommand, Oldest
<1>2. /\ c \in Commands /\ execs[c] = 0 /\ status[c] \notin Unclaimed
      /\ \A q \in Passes : c \in todo[q] => q = p
      /\ \A s \in Slots : c \notin call[s].got
  BY <1>1 DEF TypeOK, HeldInv, Fresh
<1>3. /\ UNCHANGED tableVars /\ UNCHANGED call /\ UNCHANGED req
      /\ UNCHANGED succeeded /\ UNCHANGED faults
      /\ pc' = [pc EXCEPT ![p] = "running"]
  BY DEF RunCommand, Goto
<1>4. /\ \A d \in Commands : execs'[d] = IF d = c THEN 1 ELSE execs[d]
      /\ \A q \in Passes : todo'[q] = IF q = p THEN todo[p] \ {c} ELSE todo[q]
      /\ execs' \in [Commands -> Nat]
  BY <1>1, <1>2 DEF TypeOK
<1>5. TypeOK'
  BY <1>1, <1>2, <1>3, <1>4 DEF TypeOK, tableVars
<1>6. CallInv' /\ CurInv'
  <2>1. \A d \in Commands : execs[d] > 0 => execs'[d] > 0
    BY <1>4
  <2> QED
    BY <1>1, <1>2, <1>3, <1>4, <2>1 DEF TypeOK, CallInv, CurInv, Busy
<1>7. HeldInv'
  <2>1. \A q \in Passes : todo'[q] \subseteq todo[q] /\ c \notin todo'[q]
    BY <1>2, <1>4
  <2>2. \A d \in Commands : d # c /\ Fresh(d) => Fresh(d)'
    BY <1>3, <1>4 DEF Fresh, tableVars
  <2> QED
    BY <1>2, <1>3, <1>4, <2>1, <2>2 DEF HeldInv, tableVars
<1>8. RunsAtMostOnce'
  BY <1>4 DEF RunsAtMostOnce
<1>9. ReportsAreTrue'
  BY <1>3, <1>4 DEF ReportsAreTrue, tableVars
<1> QED
  BY <1>5, <1>6, <1>7, <1>8, <1>9

\* A daemon exits: its passes forget what they held.
LEMMA StopInv ==
    ASSUME Inv, NEW n \in Nodes, DaemonStops(n)
    PROVE  Inv'
<1> USE DEF Inv
<1>1. PICK ps \in SUBSET ({n} \X PassIds) :
         /\ pc' = [p \in Passes |-> IF p \in ps THEN "idle" ELSE pc[p]]
         /\ todo' = [p \in Passes |-> IF p \in ps THEN {} ELSE todo[p]]
         /\ cur' = [p \in Passes |-> IF p \in ps THEN Null ELSE cur[p]]
         /\ req' = [p \in Passes |-> IF p \in ps THEN Null ELSE req[p]]
         /\ call' = [s \in Slots |->
                       IF call[s].at = "replied" /\ \E p \in ps : req[p] = s
                       THEN FreeSlot ELSE call[s]]
  BY DEF DaemonStops
<1>2. /\ UNCHANGED tableVars /\ UNCHANGED execs /\ UNCHANGED succeeded
      /\ faults' \in 0..MaxFaults
  BY DEF DaemonStops, Fault, TypeOK
<1>3. /\ \A s \in Slots : call'[s] \in {call[s], FreeSlot}
      /\ \A p \in Passes : todo'[p] \subseteq todo[p]
  BY <1>1
<1>4. TypeOK'
  BY <1>1, <1>2, FreeSlotType DEF TypeOK, tableVars
<1>5. CallInv'
  BY <1>2, <1>3, FreeSlotType DEF CallInv
<1>6. CurInv'
  BY <1>1, <1>2 DEF CurInv, Busy
<1>7. HeldInv'
  <2>1. \A s \in Slots : call'[s].got \subseteq call[s].got
    BY <1>3, FreeSlotType
  <2> QED
    BY <1>2, <1>3, <2>1 DEF HeldInv, Fresh, tableVars
<1>8. RunsAtMostOnce' /\ ReportsAreTrue'
  BY <1>2 DEF RunsAtMostOnce, ReportsAreTrue, tableVars
<1> QED
  BY <1>4, <1>5, <1>6, <1>7, <1>8

LEMMA NextInv == Inv /\ [Next]_vars => Inv'
<1> SUFFICES ASSUME Inv, [Next]_vars PROVE Inv'
  OBVIOUS
<1>1. CASE UNCHANGED vars
  BY <1>1 DEF vars, tableVars, passVars, Inv, TypeOK, CallInv, CurInv, HeldInv, Fresh,
              RunsAtMostOnce, ReportsAreTrue
<1>2. CASE Next
  BY <1>2, IssueInv, PollInv, ClaimInv, CompleteInv, PassStepInv, PollAnsweredInv,
     RunCommandInv, StopInv
  DEF Next, ServeStep, PassStep
<1> QED
  BY <1>1, <1>2

LEMMA InvHolds == Spec => []Inv
BY InitInv, NextInv, PTL DEF Spec

-----------------------------------------------------------------------------
(***************************************************************************)
(* The claim of pollCommandsForNode works: no command is run twice, for    *)
(* any number of overlapping passes, daemons with one key and faults.      *)
(***************************************************************************)
THEOREM CommandsRunAtMostOnce == Spec => []RunsAtMostOnce
BY InvHolds, PTL DEF Inv

(***************************************************************************)
(* The status of a row is backed by what a daemon did.                     *)
(***************************************************************************)
THEOREM OutcomesAreTrue == Spec => []ReportsAreTrue
BY InvHolds, PTL DEF Inv

(***************************************************************************)
(* Every row, request and pass keeps its type.                             *)
(***************************************************************************)
THEOREM TypeCorrect == Spec => []TypeOK
BY InvHolds, PTL DEF Inv

\* A command runs at most once, and its row says what came of it.
THEOREM CommandsHold == Spec => []CommandsAreTrue
BY CommandsRunAtMostOnce, OutcomesAreTrue, PTL DEF CommandsAreTrue
=============================================================================
