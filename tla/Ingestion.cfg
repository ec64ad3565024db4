SPECIFICATION Spec
CONSTANTS
    app = app
    cache = cache
    db = db
    Entities = {app, cache, db}
    Requests <- Stack
    Handlers = {h1, h2}
    MaxRequests = 4
    MaxFaults = 1
SYMMETRY Symmetry
INVARIANTS TypeOK GraphIsBacked LatestIsBounded AnswerIsTrue RerunLinks
CHECK_DEADLOCK FALSE
