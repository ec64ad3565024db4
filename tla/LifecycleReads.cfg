SPECIFICATION Spec
CONSTANTS
    Destinations = {abroad, listed, hosted}
    QualifiedPairs = {hosted}
    AdequateNames = {listed}
    Entities = {e1}
    Transfers = {t1}
    Handlers = {h1, h2}
    KnownClauses = {"decree_2.24.921"}
    IngestedLocks = {"none", "sensitive_hosting_required", "oiv_hosting_required"}
    Mandates = {TRUE, FALSE}
    Rulings = {}
    MaxSchemas = 2
    MaxCrashes = 0
SYMMETRY Symmetry
INVARIANTS LockIsHardGate
