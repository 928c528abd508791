\* Two runs on two or three replicas.
SPECIFICATION CovSpec
CONSTANTS
    NumCovLayers = 2
    NumSeqs = 3
    Window = 1
    CovReplicaChoices = {2, 3}
    MaxConfigs = 1
    MaxCovRuns = 2
    MaxOoms = 1
INVARIANT FactorInputsExact
