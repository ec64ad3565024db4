SPECIFICATION Spec
CONSTANTS
    app = app
    cache = cache
    db = db
    Entities = {app}
    Requests <- Single
    Handlers = {h1, h2}
    MaxRequests = 2
    MaxFaults = 0
SYMMETRY Symmetry
INVARIANTS NodesAreUnique
CHECK_DEADLOCK FALSE
