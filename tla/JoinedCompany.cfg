SPECIFICATION Spec
CONSTANTS
    Names = {acme}
    Emails = {ann, bob, seed}
    SeedName = acme
    SeedEmail = seed
    CompanyIds = {c1}
    UserIds = {u1, u2}
    KeyIds = {}
    Handlers = {h1}
    RequestedRoles = {"viewer"}
    MaxTokens = 1
    MaxCrashes = 0
    Null = Null
SYMMETRY Symmetry
PROPERTIES
    OnlyInviteesJoin
