SPECIFICATION Spec
CONSTANTS
    Destinations = {abroad}
    QualifiedPairs = {}
    AdequateNames = {}
    Entities = {e1}
    Transfers = {t1}
    Handlers = {h1}
    KnownClauses = {}
    IngestedLocks = {"none", "sensitive_hosting_required"}
    Mandates = {FALSE}
    Rulings = {}
    MaxSchemas = 2
    MaxCrashes = 0
INVARIANTS DecisionIsReproducible
