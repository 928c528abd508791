\* Four prompts in chunks of two: one forced, one that is too long for the
\* replay and that the Hugging Face engine does not answer; two or three shards.
SPECIFICATION FairSpec
CONSTANTS
    Rows = 4
    Signals = 2
    MaxFailures = 2
    Forced = {2}
    Unanswered = {4}
    ChunkSize = 2
    Ladders <- MCWhole
    Engines = {"hf", "vllm"}
    TooLong = {4}
    Demanded <- MCDemanded
    ReplayChunk = 1
    ShardCounts = {2, 3}
    Layers = 3
    Fingerprints <- MCFingerprints
    Windows = {1, 2}
VIEW MCView
CHECK_DEADLOCK FALSE
INVARIANT CapturesExact
PROPERTIES SavedAfterSync Merges
