SPECIFICATION Spec
CONSTANTS
    Inputs <- MCInputs
    MaxRuns = 3
INVARIANTS
    TypeOK
    BackupsByAge
    SuccessMeansWhole
    DescriptionsAgree
PROPERTIES
    HistoryIsKept
