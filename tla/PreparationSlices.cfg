\* Two processes generate two prompts each; nothing goes down.
SPECIFICATION Spec
CONSTANTS
    Rows = 4
    Signals = 1
    MaxFailures = 0
    Forced = {2}
    Unanswered = {}
    ChunkSize = 2
    Ladders <- MCSliced
    Engines = {"vllm"}
    TooLong = {}
    Demanded <- MCDemanded
    ReplayChunk = 1
    ShardCounts = {2}
    Layers = 3
    Fingerprints <- MCFingerprints
    Windows = {1, 2}
CHECK_DEADLOCK FALSE
INVARIANTS SlicesConcatenate
