SPECIFICATION Spec
CONSTANTS
    Names = {"data", "database"}
    Regions = {"r1", "r2"}
    Blocks <- LiteralBlocks
    MaxBlocks = 3
    MaxFiles = 1
\* The walk ends with the last file.
CHECK_DEADLOCK FALSE
INVARIANTS
    CautiousAccess
