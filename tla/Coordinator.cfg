\* Two workers, of which w1 may lose a connection; one job is started: data-parallel, a pipeline, or of no strategy.
SPECIFICATION FairSpec
CONSTANTS
    w1 = w1
    w2 = w2
    jd = jd
    jp = jp
    jn = jn
    Null = Null
    Workers = {w1, w2}
    MaxConns = 2
    Jobs = {jd, jp, jn}
    DataJobs = {jd}
    PipelineJobs = {jp}
    TensorJobs = {}
    NumWorkers = 2
    MaxJobs = 1
    MaxStarts = 1
    Flaky = {w1}
    MaxLosses = 1
    MaxFaults = 1
INVARIANTS
    NothingLeaks
    OutcomesEarned
PROPERTIES
    BooksClear
CHECK_DEADLOCK FALSE
