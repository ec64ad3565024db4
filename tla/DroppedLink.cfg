SPECIFICATION Spec
CONSTANTS
    app = app
    cache = cache
    db = db
    Entities = {app, db}
    Requests <- Pair
    Handlers = {h1, h2}
    MaxRequests = 2
    MaxFaults = 0
SYMMETRY Symmetry
INVARIANTS LinkedOrLogged
CHECK_DEADLOCK FALSE
