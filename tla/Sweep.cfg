\* Jobs: two rows, two artifacts of Stage 1, two commands, four machines, two
\* failures.  Stage 1: two layers of four experts, eight configurations.  Stage 6
\* and the thermometer: nine configurations, two processes.
SPECIFICATION SweepSpec
CONSTANTS
    Table <- MCTable
    Baseline = "A0"
    SplitRow = "SH"
    Artifacts = 2
    Plans <- MCPlans
    MaxSessions = 2
    MaxMachines = 4
    MaxFaults = 2
    NL = 2
    NE = 4
    Inf = 1000000
    Inputs <- MCInputs
    Rest = 2
    MaxEp = 600
    MaxSp = 400
    Tolerance = 20
    Rounds = 20
    Samples = 4
    StartBatch = {1, 4}
    FloorBatch = 2
    Costs = {0, 1, 2}
    Group = 2
    NonFinite = 9999
    Configs <- MCConfigs
    Revisions <- MCRevisions
    Students <- MCStudents
    StudentNumber <- MCStudentNumber
    TeacherNumber <- MCTeacherNumber
    Saved <- MCSaved
    NumPrompts = 5
    NumRows = 4
    MaxRuns = 2
INVARIANTS RowsHonest MachinesHeld CountsExact BudgetsSound ImatrixSound MeasuredAlike ReportHonest
PROPERTY SweepEnds
