SPECIFICATION FairSpec
CONSTANTS
    NoEmail = "nobody"
    Orgs = {"bank_a", "platform"}
    OrgType <- MCOrgType
    PlatformOrg = "platform"
    Seeds = {"root"}
    Emails = {"root", "ann"}
    RoleInputs = {"transaction_submitter"}
    Handlers = {h1, h2}
    Faults = TRUE
INVARIANTS TypeOK RequestsMatchAccounts TokensFollowApproval
PROPERTY DecisionsStand StaleTokensEnd
CHECK_DEADLOCK FALSE
