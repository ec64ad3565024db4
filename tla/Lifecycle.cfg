SPECIFICATION Spec
CONSTANTS
    Destinations = {abroad, listed}
    QualifiedPairs = {}
    AdequateNames = {listed}
    Entities = {e1}
    Transfers = {t1, t2}
    Handlers = {h1, h2}
    KnownClauses = {"art_43_loi_09-08"}
    IngestedLocks = {"none"}
    Mandates = {FALSE}
    Rulings = {"APPROVED", "REJECTED"}
    MaxSchemas = 1
    MaxCrashes = 1
SYMMETRY Symmetry
INVARIANTS
    TypeOK
    ClearedBeforeDeployment
    AllowedIsJustified
    OneRulingPerReview
    OneCurrentPerTransfer
    AnswerIsComplete
PROPERTIES
    ReviewIsFinal
    HistoryOnlyGrows
    SettledStaysSettled
    ImplementsAuthority
