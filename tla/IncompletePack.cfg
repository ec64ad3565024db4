SPECIFICATION PackSpec
CONSTANTS
    Destinations = {abroad, listed}
    QualifiedPairs = {}
    AdequateNames = {listed}
    Entities = {e1}
    Transfers = {t1, t2}
    Handlers = {h1}
    KnownClauses = {}
    IngestedLocks = {"none"}
    Mandates = {FALSE}
    Rulings = {}
    MaxSchemas = 1
    MaxCrashes = 0
    MaxPacks = 1
PROPERTIES PackIsComplete
