CONSTANTS
    Ids <- TwoIds
    TrimTx <- TrimTwo
    Payloads <- MCBoth
    NoPayload = NoPayload
    Requests = {r1, r2}
    Clients = {}
    Calls = {r1, r2}
    ScreenResults = {"clear"}
    Users = {"sam", "rea"}
    NoUser = "nobody"
    RoleOf <- MCRoleOf
    Endpoints = {"create", "submit", "approve", "reject", "evaluate", "screen", "prove"}
    MaxEvaluations = 1
    Faults = TRUE
SPECIFICATION Spec
INVARIANTS
    TypeOK
    ReviewedBeforeScreening
    ScreenedHasEvidence
    ScreeningLinkedOnce
    ProofSetComplete
PROPERTIES
    StrandedForever
    TrailKept
SYMMETRY RequestSymmetry
