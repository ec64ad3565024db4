SPECIFICATION Spec
CONSTANTS
    logs = logs
    web = web
    hosted = hosted
    listed = listed
    abroad = abroad
    Destinations = {hosted, listed, abroad}
    QualifiedPairs = {hosted}
    AdequateNames = {listed}
    Names = {logs, web}
    Pipelines = {p1}
    Scans <- BadTagScans
    Locks = {"none"}
    Mandates = {FALSE}
    MaxFaults = 0
INVARIANTS PassMeansAllowed
