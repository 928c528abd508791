\* One process generates four prompts for one signal and is killed once.
SPECIFICATION Spec
CONSTANTS
    Rows = 4
    Signals = 1
    MaxFailures = 1
    Forced = {2}
    Unanswered = {}
    ChunkSize = 2
    Ladders <- MCWhole
    Engines = {"vllm"}
    TooLong = {}
    Demanded <- MCDemanded
    ReplayChunk = 1
    ShardCounts = {2}
    Layers = 3
    Fingerprints <- MCFingerprints
    Windows = {1, 2}
CHECK_DEADLOCK FALSE
INVARIANTS DivergenceFails
