\* Stage 3: its covariances; its factorization of two layers with three alphas, and Stage 4.
SPECIFICATION Stage3Spec
CONSTANTS
    NumLayers = 2
    NumExperts = 3
    Shape <- MCShape
    NumAlphas = 3
    Inf = 1000
    Configs <- MCConfigs
    ReplicaChoices = {1, 2}
    MaxRuns = 3
    NumCovLayers = 2
    NumSeqs = 3
    Window = 1
    CovReplicaChoices = {1, 2}
    MaxConfigs = 2
    MaxCovRuns = 3
    MaxOoms = 1
INVARIANTS CovarianceSound RanksFair BestAlpha LayersOnce
PROPERTY Recovers
