CONSTANTS
    Ids <- OneId
    TrimTx <- TrimOne
    Payloads <- MCPlain
    NoPayload = NoPayload
    Requests = {r1}
    Clients = {}
    Calls = {r1}
    ScreenResults = {"match", "clear"}
    Users = {"sam", "rea"}
    NoUser = "nobody"
    RoleOf <- MCRoleOf
    Endpoints = {"create", "approve", "reject", "screen"}
    MaxEvaluations = 1
    Faults = FALSE
SPECIFICATION Spec
PROPERTIES
    ScreenedFromApproved
