CONSTANTS
    Ids <- OneId
    TrimTx <- TrimOne
    Payloads <- MCGarbled
    NoPayload = NoPayload
    Requests = {r1, r2}
    Clients = {}
    Calls = {r1, r2}
    ScreenResults = {"match", "clear"}
    Users = {"ada"}
    NoUser = "nobody"
    RoleOf <- MCAdminRole
    Endpoints = {"create", "submit", "approve", "reject", "evaluate", "screen", "prove"}
    MaxEvaluations = 1
    Faults = FALSE
SPECIFICATION FairSpec
PROPERTIES
    EveryRequestEnds
    AcceptedScreeningLands
