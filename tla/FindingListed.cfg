SPECIFICATION Spec
CONSTANTS
    NoEmail = "nobody"
    Orgs = {"bank_a", "platform"}
    OrgType <- MCOrgType
    PlatformOrg = "platform"
    Seeds = {"root"}
    Emails = {"root", "ann"}
    RoleInputs = {"transaction_submitter", "auditor"}
    Handlers = {"h1", "h2"}
    Faults = FALSE
INVARIANT ListedCanBeApproved
