SPECIFICATION Spec
CONSTANTS
    Names = {"data", "database"}
    Regions = {"r1", "r2"}
    Blocks <- ScanBlocks
    MaxBlocks = 3
    MaxFiles = 2
\* The walk ends with the last file.
CHECK_DEADLOCK FALSE
INVARIANTS
    ErrorsStayInTheirFile
    ClearFilesAreReadRight
    RegionIsDeclared
