\* One process: two epochs of three batches, three runs, one failing write; and
\* three ranks over six batches with one failure.
SPECIFICATION MCSpec
CONSTANTS
    Batches = 3
    Epochs = 2
    GradAccums = {1, 2}
    LogEvery = 2
    CkptEverys = {1, 2}
    Patience = 2
    SaveBest = TRUE
    Asyncs = {TRUE, FALSE}
    MaxEma = 2
    MaxRuns = 3
    MaxFailures = 1
    AllowNoResume = TRUE
    Absent = Absent
    StopJob = StopJob
    World = 3
    RunBatches = 6
    GradAccum = 2
    LogPeriod = 1
    CkptEvery = 1
    MaxFaults = 1
INVARIANTS ResumeExact ExportedBest NoSilentLoss RanksAgree
PROPERTIES NewestStays EveryRunEnds
