SPECIFICATION FairSpec
CONSTANTS
    logs = logs
    web = web
    hosted = hosted
    listed = listed
    abroad = abroad
    Destinations = {hosted, listed, abroad}
    QualifiedPairs = {hosted}
    AdequateNames = {listed}
    Names = {logs, web}
    Pipelines = {p1}
    Scans <- PlainScans
    Locks = {"sensitive_hosting_required"}
    Mandates = {FALSE}
    MaxFaults = 0
PROPERTIES DeclaredLockHolds
