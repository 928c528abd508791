\* An artifact: three saves, two of one size, two loads at a time, two faults.
\* The driver: two killed processes, one command that does not just resume.
SPECIFICATION MCSpec
CONSTANTS
    Readers = {r1, r2}
    r1 = r1
    r2 = r2
    MaxSaves = 3
    MaxFaults = 2
    SizeOf <- MCSizeOf
    Commands <- MCCommands
    NumLayers = 2
    Common <- MCCommon
    MaxRuns = 6
    MaxCrashes = 2
    MaxRewinds = 1
CHECK_DEADLOCK FALSE
INVARIANTS
    StagesOnce
    HandedOverExact
PROPERTIES
    IsRegister
    Recovers
