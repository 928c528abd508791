\* The jobs of Sweep.cfg with one failure: a volume is lost, and a fresh one meets
\* what the bucket has.
SPECIFICATION JobsSpec
CONSTANTS
    Table <- MCTable
    Baseline = "A0"
    SplitRow = "SH"
    Artifacts = 2
    Plans <- MCPlans
    MaxSessions = 2
    MaxMachines = 4
    MaxFaults = 1
CHECK_DEADLOCK FALSE
INVARIANT RowsComparable
