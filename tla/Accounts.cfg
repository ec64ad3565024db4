SPECIFICATION Spec
CONSTANTS
    Names = {acme, other}
    Emails = {ann, seed}
    SeedName = acme
    SeedEmail = seed
    CompanyIds = {c1, c2}
    UserIds = {u1, u2}
    KeyIds = {k1}
    Handlers = {h1, h2}
    RequestedRoles = {"viewer", "owner"}
    MaxTokens = 1
    MaxCrashes = 1
    Null = Null
SYMMETRY Symmetry
INVARIANTS
    TypeOK
    AccountsAreSound
    ClaimsAreBacked
    KeyActsForItsCompany
PROPERTIES
    RevocationIsFinal
    MandateIsTheAdmins
