SPECIFICATION Spec
CONSTANTS
    Inputs <- MCInputs
    Extractors = {"pdf"}
    MaxObjects = 2
\* The scan of a dataset ends.
CHECK_DEADLOCK FALSE
\* One of BadExportDegrades, LegibleIsFlagged and CutFileIsFlagged at a time.
INVARIANTS
    BadExportDegrades
