SPECIFICATION FairSpec
CONSTANTS
    logs = logs
    web = web
    hosted = hosted
    listed = listed
    abroad = abroad
    Destinations = {hosted, listed, abroad}
    QualifiedPairs = {hosted}
    AdequateNames = {listed}
    Names = {logs, web}
    Pipelines = {p1}
    Scans <- AnyScan
    Locks = {"none", "sensitive_hosting_required"}
    Mandates = {TRUE, FALSE}
    MaxFaults = 1
INVARIANTS PassIsSound ErrorsBlock
    MandateBindsTheGate
PROPERTIES
    GateEnds
