SPECIFICATION Spec
CONSTANTS
    app = app
    cache = cache
    db = db
    Entities = {app}
    Requests <- Single
    Handlers = {h1}
    MaxRequests = 1
    MaxFaults = 1
SYMMETRY Symmetry
INVARIANTS FailedMeansNothingPersisted
CHECK_DEADLOCK FALSE
