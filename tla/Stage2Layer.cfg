\* Stage 2 on its layers: the profiles, the assignment in seven configurations, the healing.
SPECIFICATION LayerSpec
CONSTANTS
    Inf = 9
    NE = 4
    Depth = 2
    TopK = 2
    Options <- MCConfigs
    Setups <- MCSetups
    Costs <- MCCosts
    Scale = 12
    HistoryMin = 1
    SigmaPct = 20
    BumpPct = 34
    GatePct = 40
    Writers = {"nemo", "xd"}
    Groups <- MCGroups
    Corpora <- MCCorpora
    Pool <- MCPool
    ShardRows = 2
    TrainPct = 80
    Minibatch = 2
    MaxSteps = 5
    EvalInterval = 2
    Patience = 1
    DeltaPct = 10
    DistillSteps = 2
    PlateauSteps = 1
    TrainRouter = TRUE
    KeepShards = FALSE
    MaxKills = 2
    Losses = {100, 95, 80}
    NaN = NaN
    NumMoe = 3
    NumSeqs = 4
    Requested = 3
    HitSets <- MCHitSets
    Alignments = {FALSE, TRUE}
    Reservoirs = {TRUE}
    MaxFaults = 2
INVARIANTS AssignmentSound BumpsHonest HealSound ProfilesSound
PROPERTY LayerEnds
