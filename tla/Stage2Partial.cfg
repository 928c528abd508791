\* Two layers, the first without neuron means; three runs, any of them with --no-resume;
\* the partial directory is removed after publication.
SPECIFICATION FairSpec
CONSTANTS
    NumLayers = 2
    MaxRuns = 3
    Merging <- MCLayers
    Covered <- MCLayers
    Sampled <- MCNotFirst
    Settings <- MCSettings
    AllowNoResume = TRUE
    KeepPartial = FALSE
INVARIANTS
    CompletedWhole
    ReplayFaithful
    StackCoherent
    AuditedPairWhole
    PublishedMerged
PROPERTIES
    CommittedKept
    Recovers
