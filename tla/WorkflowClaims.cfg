CONSTANTS
    Ids <- OneId
    TrimTx <- TrimOne
    Payloads <- MCBlank
    NoPayload = NoPayload
    Requests = {r1}
    Clients = {c1}
    Calls = {r1, c1}
    ScreenResults = {"match", "clear"}
    Users = {"sam", "rea"}
    NoUser = "nobody"
    RoleOf <- MCRoleOf
    Endpoints = {"create", "submit", "approve", "evaluate", "screen", "prove", "direct_submit", "direct_generate"}
    MaxEvaluations = 2
    Faults = TRUE
SPECIFICATION Spec
INVARIANTS
    WorkflowProofsHold
    ProofsSound
    ScreenedHasEvidence
