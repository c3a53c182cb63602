SPECIFICATION Spec
CONSTANTS
    Ids = {"t1"}
    Payloads = {}
    Calls = {h1, h2}
    CaseIds = {c1, c2}
    Orgs <- MCOrgs
    UnknownOrg = "nowhere"
    IdLists <- MCIdLists
    Involved <- MCInvolved
    Users <- MCUsers
    NoUser = "nobody"
    RoleOf <- MCRoleOf
    OrgOf <- MCOrgOf
    RuleSets <- MCRuleSets
    Faults = TRUE
INVARIANTS TypeOK CasesAccountedFor AnswersFromOwnBank
PROPERTY NoticesMoveForward
SYMMETRY CaseSymmetry
