SPECIFICATION Spec
CONSTANTS
    Destinations = {abroad}
    QualifiedPairs = {}
    AdequateNames = {}
    Entities = {e1}
    Transfers = {t1}
    Handlers = {h1, h2}
    KnownClauses = {}
    IngestedLocks = {"none"}
    Mandates = {FALSE}
    Rulings = {"APPROVED"}
    MaxSchemas = 1
    MaxCrashes = 0
SYMMETRY Symmetry
PROPERTIES CompletedIsFinal
