CONSTANTS
    ann = ann
    ben = ben
    NoUser = NoUser
    Users = {ann, ben}
    Tabs = {t1, t2}
    RoleOf <- MCRoleOf
    Visited <- MCVisited
SPECIFICATION FairSpec
INVARIANTS TypeOK LaggingTabsAreTold MenuPagesMayLoad
PROPERTIES RedirectOnce LogoutReachesEveryTab
