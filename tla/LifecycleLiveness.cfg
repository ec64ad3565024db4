SPECIFICATION PollingSpec
CONSTANTS
    Destinations = {abroad}
    QualifiedPairs = {}
    AdequateNames = {}
    Entities = {e1}
    Transfers = {t1, t2}
    Handlers = {h1, h2}
    KnownClauses = {}
    IngestedLocks = {"none"}
    Mandates = {FALSE}
    Rulings = {"APPROVED", "REJECTED"}
    MaxSchemas = 1
    MaxCrashes = 0
PROPERTIES
    ExpiryFailsClosed
    RulingIsRecorded
