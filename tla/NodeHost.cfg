\* Two daemons at most; the CLI runs one command at a time, a supervisor may
\* start a daemon in the foreground at any moment.
SPECIFICATION HostFairSpec
CONSTANTS
    Pids = {1, 2}
    Clis = {c1}
    CliCommands = {"start", "stop", "force", "restart", "register", "remove"}
    None = None
INVARIANTS
    FilesAreTrue
PROPERTIES
    StopEnds
    RunningIsListed
