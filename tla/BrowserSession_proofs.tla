------------------------ MODULE BrowserSession_proofs ------------------------
(***************************************************************************)
(* Proofs about BrowserSession, for any number of tabs, any users and      *)
(* roles, and any set of paths they open by themselves.                    *)
(***************************************************************************)
EXTENDS BrowserSession, PageTable_proofs

(* The routing table *)

LEMMA RouteFacts ==
    /\ \A r \in GuardedRoutes : r.path \notin PublicPaths
    /\ \A r \in GuardedRoutes : r.path \notin LegacyPaths \union {UnknownPath}
<1>1. \A r \in InstitutionRoutes :
        r.path \notin PublicPaths \union LegacyPaths \union {UnknownPath}
  BY DEF InstitutionRoutes, Route, PublicPaths, LegacyPaths, UnknownPath
<1>2. \A r \in RegulatorRoutes :
        r.path \notin PublicPaths \union LegacyPaths \union {UnknownPath}
  BY DEF RegulatorRoutes, Route, PublicPaths, LegacyPaths, UnknownPath
<1>3. \A r \in SuperAdminRoutes :
        r.path \notin PublicPaths \union LegacyPaths \union {UnknownPath}
  BY DEF SuperAdminRoutes, Route, PublicPaths, LegacyPaths, UnknownPath
<1> QED
  BY <1>1, <1>2, <1>3 DEF GuardedRoutes

\* The four kinds of paths have nothing in common.
LEMMA PathKinds ==
    /\ GuardedPaths \union PublicPaths \subseteq Paths
    /\ GuardedPaths \intersect (PublicPaths \union LegacyPaths
                                  \union {UnknownPath}) = {}
    /\ PublicPaths \intersect (LegacyPaths \union {UnknownPath}) = {}
BY RouteFacts DEF GuardedPaths, Paths, PublicPaths, LegacyPaths, UnknownPath

\* Every role has a dashboard it may open, behind which is a page; only the
\* old role admin is sent to the first page.
LEMMA DashboardOpens ==
    ASSUME NEW role \in RoleNames
    PROVE  \/ dashboardForRole(role) = "/"
           \/ /\ dashboardForRole(role) \in GuardedPaths
              /\ dashboardForRole(role) # "/admin"
              /\ MayOpen(role, dashboardForRole(role))
<1>1. ASSUME NEW r \in GuardedRoutes, r.path # "/admin", role \in r.allowed,
             dashboardForRole(role) = r.path
      PROVE  /\ dashboardForRole(role) \in GuardedPaths
             /\ dashboardForRole(role) # "/admin"
             /\ MayOpen(role, dashboardForRole(role))
  BY <1>1 DEF GuardedPaths, MayOpen
<1>2. CASE role = "super_admin"
  <2> DEFINE r == Route("/super-admin/dashboard", "SuperAdminDashboardPage",
                        roleGroups.superAdmin)
  <2>1. r \in GuardedRoutes
    BY DEF GuardedRoutes, SuperAdminRoutes
  <2>2. r.path = "/super-admin/dashboard" /\ role \in r.allowed
    BY <1>2 DEF Route, roleGroups
  <2> QED
    BY <1>1, <1>2, <2>1, <2>2 DEF dashboardForRole
<1>3. CASE role = "institution_admin"
  <2> DEFINE r == Route("/institution/dashboard", "InstitutionDashboardPage",
                        roleGroups.institutionManagement)
  <2>1. r \in GuardedRoutes
    BY DEF GuardedRoutes, InstitutionRoutes
  <2>2. r.path = "/institution/dashboard" /\ role \in r.allowed
    BY <1>3 DEF Route, roleGroups
  <2> QED
    BY <1>1, <1>3, <2>1, <2>2 DEF dashboardForRole
<1>4. CASE role = "transaction_submitter"
  <2> DEFINE r == Route("/institution/transactions/new", "NewTransactionPage",
                        roleGroups.transactionSubmission)
  <2>1. r \in GuardedRoutes
    BY DEF GuardedRoutes, InstitutionRoutes
  <2>2. r.path = "/institution/transactions/new" /\ role \in r.allowed
    BY <1>4 DEF Route, roleGroups
  <2> QED
    BY <1>1, <1>4, <2>1, <2>2 DEF dashboardForRole
<1>5. CASE role = "transaction_reviewer"
  <2> DEFINE r == Route("/institution/reviews", "TransactionQueuePage",
                        roleGroups.transactionReview)
  <2>1. r \in GuardedRoutes
    BY DEF GuardedRoutes, InstitutionRoutes
  <2>2. r.path = "/institution/reviews" /\ role \in r.allowed
    BY <1>5 DEF Route, roleGroups
  <2> QED
    BY <1>1, <1>5, <2>1, <2>2 DEF dashboardForRole
<1>6. CASE role = "regulator"
  <2> DEFINE r == Route("/regulator/dashboard", "RegulatorDashboardPage",
                        roleGroups.regulatorFull)
  <2>1. r \in GuardedRoutes
    BY DEF GuardedRoutes, RegulatorRoutes
  <2>2. r.path = "/regulator/dashboard" /\ role \in r.allowed
    BY <1>6 DEF Route, roleGroups
  <2> QED
    BY <1>1, <1>6, <2>1, <2>2 DEF dashboardForRole
<1>7. CASE role = "auditor"
  <2> DEFINE r == Route("/regulator/audit", "AuditPage",
                        roleGroups.regulatorEvidenceReadOnly)
  <2>1. r \in GuardedRoutes
    BY DEF GuardedRoutes, RegulatorRoutes
  <2>2. r.path = "/regulator/audit" /\ role \in r.allowed
    BY <1>7 DEF Route, roleGroups
  <2> QED
    BY <1>1, <1>7, <2>1, <2>2 DEF dashboardForRole
<1>8. CASE role = "admin"
  BY <1>8 DEF dashboardForRole
<1> QED
  BY <1>2, <1>3, <1>4, <1>5, <1>6, <1>7, <1>8 DEF RoleNames

LEMMA DashboardPath ==
    ASSUME NEW role \in RoleNames
    PROVE  dashboardForRole(role) \in Paths
BY DashboardOpens, PathKinds DEF PublicPaths

(* Types *)

\* A tab that waits for a login knows where the login will lead.
SoundTab == {tab \in Tab : tab.login # NoUser => tab.target \in Paths}

TypeInv == storage \in MaybeUser /\ tabs \in [Tabs -> SoundTab]

LEMMA StartedType ==
    ASSUME NEW path \in Paths, NEW returnTo \in Paths \union {NoPath},
           NEW user \in MaybeUser
    PROVE  Started(path, returnTo, user) \in SoundTab
<1>1. Mounted(path, user) \subseteq Copies
  BY DEF Mounted, Copies
<1> QED
  BY <1>1 DEF Started, SoundTab, Tab, MaybeUser

LEMMA TypeInit == Init => TypeInv
<1>1. "/" \in Paths /\ NoUser \in MaybeUser
  BY PathKinds DEF PublicPaths, MaybeUser
<1> QED
  BY <1>1, StartedType DEF Init, TypeInv

\* What a rendering makes of a tab, field by field.
NewIn(tab, path, heard) ==
    Mounted(path, heard["layout"]) \ Kept(tab, heard["layout"])

CopiesIn(tab, path, heard, user) ==
    [c \in Copies |->
       CASE c \notin Mounted(path, heard["layout"]) -> NoUser
         [] c \in NewIn(tab, path, heard) -> user
         [] OTHER -> heard[c]]

MissedIn(tab, path, heard) ==
    tab.missed \intersect
      (Mounted(path, heard["layout"]) \ NewIn(tab, path, heard))

LEMMA RenderedFields ==
    ASSUME NEW tab \in SoundTab, NEW path \in Paths,
           NEW heard \in [Copies -> MaybeUser], NEW user \in MaybeUser
    PROVE  /\ Rendered(tab, path, heard, user) \in SoundTab
           /\ Rendered(tab, path, heard, user).path = path
           /\ Rendered(tab, path, heard, user).copy =
                CopiesIn(tab, path, heard, user)
           /\ Rendered(tab, path, heard, user).missed =
                MissedIn(tab, path, heard)
           /\ Rendered(tab, path, heard, user).told = tab.told
           /\ Rendered(tab, path, heard, user).login = tab.login
           /\ Rendered(tab, path, heard, user).target = tab.target
<1>1. /\ NewIn(tab, path, heard) \subseteq Copies
      /\ MissedIn(tab, path, heard) \subseteq Copies
  BY DEF NewIn, MissedIn, Mounted, Copies
<1>2. CopiesIn(tab, path, heard, user) \in [Copies -> MaybeUser]
  BY DEF CopiesIn, MaybeUser
<1>3. tab \in Tab /\ (tab.login # NoUser => tab.target \in Paths)
  BY DEF SoundTab
<1>4. Rendered(tab, path, heard, user) =
        [tab EXCEPT !.path = path, !.copy = CopiesIn(tab, path, heard, user),
                    !.deaf = NewIn(tab, path, heard),
                    !.missed = MissedIn(tab, path, heard)]
  BY <1>3 DEF Rendered, NewIn, CopiesIn, MissedIn, Tab
<1> QED
  BY <1>1, <1>2, <1>3, <1>4 DEF SoundTab, Tab

LEMMA MovedFields ==
    ASSUME TypeInv, NEW tab \in SoundTab, NEW path \in Paths
    PROVE  LET next == Moved(tab, path)
               drawn == Rendered(tab, path, tab.copy, storage)
           IN  /\ next \in SoundTab /\ drawn \in SoundTab
               /\ next.path = path /\ next.copy = drawn.copy
               /\ next.missed = drawn.missed /\ next.told = tab.told
<1> DEFINE drawn == Rendered(tab, path, tab.copy, storage)
           target == IF tab.login = NoUser THEN NoPath ELSE tab.target
<1>1. tab \in Tab /\ (tab.login # NoUser => tab.target \in Paths)
  BY DEF SoundTab
<1>2. tab.copy \in [Copies -> MaybeUser] /\ storage \in MaybeUser
  BY <1>1 DEF Tab, TypeInv
<1>3. /\ drawn \in SoundTab /\ drawn.path = path
      /\ drawn.told = tab.told /\ drawn.login = tab.login
  BY <1>2, RenderedFields
<1>4. Moved(tab, path) = [drawn EXCEPT !.returnTo = NoPath, !.target = target]
  BY DEF Moved
<1>5. /\ target \in Paths \union {NoPath}
      /\ tab.login # NoUser => target \in Paths
  BY <1>1 DEF Tab
<1> HIDE DEF drawn, target
<1>6. /\ Moved(tab, path) \in SoundTab
      /\ Moved(tab, path).path = path
      /\ Moved(tab, path).copy = drawn.copy
      /\ Moved(tab, path).missed = drawn.missed
      /\ Moved(tab, path).told = tab.told
  BY <1>3, <1>4, <1>5 DEF SoundTab, Tab
<1> QED
  BY <1>3, <1>6 DEF drawn

\* The copies of a tab after an event, and those that it passed by.
HeardBy(tab, user) ==
    [c \in Copies |-> IF c \in Listening(tab) THEN user ELSE tab.copy[c]]

Passed(tab, user) ==
    [tab EXCEPT !.missed = {c \in tab.deaf : tab.copy[c] # user}]

LEMMA PassedFields ==
    ASSUME NEW tab \in SoundTab, NEW user \in MaybeUser
    PROVE  /\ HeardBy(tab, user) \in [Copies -> MaybeUser]
           /\ Passed(tab, user) \in SoundTab
           /\ Passed(tab, user).path = tab.path
           /\ Passed(tab, user).copy = tab.copy
           /\ Passed(tab, user).told = tab.told
           /\ Passed(tab, user).login = tab.login
           /\ Passed(tab, user).target = tab.target
           /\ Passed(tab, user).missed = {c \in tab.deaf : tab.copy[c] # user}
<1> DEFINE missed == {c \in tab.deaf : tab.copy[c] # user}
<1>1. tab \in Tab /\ (tab.login # NoUser => tab.target \in Paths)
  BY DEF SoundTab
<1>2. missed \in SUBSET Copies
  BY <1>1 DEF Tab
<1>3. Passed(tab, user) = [tab EXCEPT !.missed = missed]
  BY DEF Passed
<1>4. HeardBy(tab, user) \in [Copies -> MaybeUser]
  BY <1>1 DEF HeardBy, Tab
<1> HIDE DEF missed
<1>5. /\ Passed(tab, user) \in SoundTab
      /\ Passed(tab, user).path = tab.path
      /\ Passed(tab, user).copy = tab.copy
      /\ Passed(tab, user).told = tab.told
      /\ Passed(tab, user).login = tab.login
      /\ Passed(tab, user).target = tab.target
      /\ Passed(tab, user).missed = missed
  BY <1>1, <1>2, <1>3 DEF SoundTab, Tab
<1> QED
  BY <1>4, <1>5 DEF missed

LEMMA SyncedCases ==
    ASSUME NEW tab, NEW user
    PROVE  \/ /\ HeardBy(tab, user) = tab.copy
              /\ Synced(tab, user) = Passed(tab, user)
           \/ Synced(tab, user) =
                Rendered(Passed(tab, user), tab.path, HeardBy(tab, user), user)
BY DEF Synced, HeardBy, Passed

LEMMA SyncedType ==
    ASSUME NEW tab \in SoundTab, NEW user \in MaybeUser
    PROVE  /\ Synced(tab, user) \in SoundTab
           /\ Synced(tab, user).target = tab.target
<1> DEFINE passed == Passed(tab, user)
           heard == HeardBy(tab, user)
<1>1. /\ tab.path \in Paths /\ heard \in [Copies -> MaybeUser]
      /\ passed \in SoundTab /\ passed.target = tab.target
  BY PassedFields DEF SoundTab, Tab
<1>2. \/ Synced(tab, user) = passed
      \/ Synced(tab, user) = Rendered(passed, tab.path, heard, user)
  BY SyncedCases
<1> HIDE DEF passed, heard
<1>3. /\ Rendered(passed, tab.path, heard, user) \in SoundTab
      /\ Rendered(passed, tab.path, heard, user).target = tab.target
  BY <1>1, RenderedFields
<1> QED
  BY <1>1, <1>2, <1>3

LEMMA StoredType ==
    ASSUME TypeInv, NEW t \in Tabs, NEW user \in MaybeUser
    PROVE  Stored(t, user) \in [Tabs -> SoundTab]
<1>1. \A s \in Tabs : [tabs[s] EXCEPT !.told = TRUE] \in SoundTab
  BY DEF TypeInv, SoundTab, Tab
<1> QED
  BY <1>1, SyncedType DEF Stored, TypeInv

\* A redirect leads to a public page, or from a guarded page to the dashboard
\* of a user who may not see it.
LEMMA RedirectLeads ==
    ASSUME NEW tab \in Tab, Redirects(tab)
    PROVE  \/ RedirectTarget(tab) \in PublicPaths
           \/ /\ Guarded(tab.path) /\ tab.copy["guard"] \in Users
              /\ RedirectTarget(tab) = dashboardForRole(RoleOf[tab.copy["guard"]])
<1>1. tab.copy["guard"] \in MaybeUser
  BY DEF Tab, Copies
<1> QED
  BY <1>1 DEF Redirects, RedirectTarget, Guarded, PublicPaths, MaybeUser

LEMMA RedirectPath ==
    ASSUME TypeInv, NEW t \in Tabs, Redirects(tabs[t])
    PROVE  tabs[t] \in SoundTab /\ RedirectTarget(tabs[t]) \in Paths
<1>1. tabs[t] \in SoundTab /\ tabs[t] \in Tab
  BY DEF TypeInv, SoundTab
<1> QED
  BY <1>1, RedirectLeads, PathKinds, DashboardPath, SessionAssumption

LEMMA TypeNext == TypeInv /\ [Next]_vars => TypeInv'
<1> SUFFICES ASSUME TypeInv, [Next]_vars PROVE TypeInv'
  OBVIOUS
<1> USE DEF TypeInv
<1>1. CASE UNCHANGED vars
  BY <1>1 DEF vars
<1>2. ASSUME NEW t \in Tabs, Reload(t) \/ \E path \in Visited : Open(t, path)
      PROVE  TypeInv'
  <2>1. PICK path \in Paths, returnTo \in Paths \union {NoPath} :
          /\ tabs' = [tabs EXCEPT ![t] = Started(path, returnTo, storage)]
          /\ storage' = storage
    BY <1>2, SessionAssumption DEF Open, Reload, SoundTab, Tab
  <2> QED
    BY <2>1, StartedType
<1>3. ASSUME NEW t \in Tabs, Arrive(t) \/ \E path \in Visited : Follow(t, path)
      PROVE  TypeInv'
  <2>1. PICK path \in Paths : /\ tabs' = [tabs EXCEPT ![t] = Moved(tabs[t], path)]
                              /\ storage' = storage
    BY <1>3, SessionAssumption DEF Follow, Arrive, SoundTab, Tab
  <2> QED
    BY <2>1, MovedFields
<1>4. ASSUME NEW t \in Tabs, Redirect(t)
      PROVE  TypeInv'
  <2> DEFINE moved == Moved(tabs[t], RedirectTarget(tabs[t]))
  <2>1. moved \in SoundTab
    BY <1>4, RedirectPath, MovedFields DEF Redirect
  <2>2. PICK from \in Paths \union {NoPath} :
          /\ tabs' = [tabs EXCEPT ![t] = [moved EXCEPT !.returnTo = from]]
          /\ storage' = storage
    BY <1>4 DEF Redirect, SoundTab, Tab
  <2> HIDE DEF moved
  <2>3. [moved EXCEPT !.returnTo = from] \in SoundTab
    BY <2>1 DEF SoundTab, Tab
  <2> QED
    BY <2>2, <2>3
<1>5. ASSUME NEW t \in Tabs, StorageEvent(t)
      PROVE  TypeInv'
  <2>1. Synced(tabs[t], storage) \in SoundTab
    BY SyncedType
  <2>2. \A more \in BOOLEAN :
          [Synced(tabs[t], storage) EXCEPT !.told = more] \in SoundTab
    BY <2>1 DEF SoundTab, Tab
  <2> QED
    BY <1>5, <2>2 DEF StorageEvent
<1>6. ASSUME NEW t \in Tabs, NEW user \in Users, SubmitLogin(t, user)
      PROVE  TypeInv'
  <2> DEFINE target == IF tabs[t].returnTo # NoPath THEN tabs[t].returnTo
                       ELSE dashboardForRole(RoleOf[user])
  <2>1. tabs[t] \in Tab
    BY DEF SoundTab
  <2>2. target \in Paths
    BY <2>1, DashboardPath, SessionAssumption DEF Tab
  <2>3. [tabs[t] EXCEPT !.login = user, !.deaf = {}, !.target = target]
          \in SoundTab
    BY <2>1, <2>2 DEF SoundTab, Tab, MaybeUser
  <2> QED
    BY <1>6, <2>3 DEF SubmitLogin
<1>7. ASSUME NEW t \in Tabs, LoginAnswered(t)
      PROVE  TypeInv'
  <2> DEFINE own == Stored(t, tabs[t].login)[t]
  <2>1. tabs[t].login \in MaybeUser
    BY DEF SoundTab, Tab
  <2>2. Stored(t, tabs[t].login) \in [Tabs -> SoundTab] /\ own \in SoundTab
    BY <2>1, StoredType
  <2>3. /\ storage' = tabs[t].login
        /\ tabs' = [Stored(t, tabs[t].login) EXCEPT ![t] =
                      [own EXCEPT !.login = NoUser]]
    BY <1>7 DEF LoginAnswered
  <2> HIDE DEF own
  <2>4. [own EXCEPT !.login = NoUser] \in SoundTab
    BY <2>2 DEF SoundTab, Tab, MaybeUser
  <2> QED
    BY <2>1, <2>2, <2>3, <2>4
<1>8. ASSUME NEW t \in Tabs, LoginFailed(t)
      PROVE  TypeInv'
  <2>1. [tabs[t] EXCEPT !.login = NoUser, !.target = NoPath] \in SoundTab
    BY DEF SoundTab, Tab, MaybeUser
  <2> QED
    BY <1>8, <2>1 DEF LoginFailed
<1>9. ASSUME NEW t \in Tabs, Logout(t)
      PROVE  TypeInv'
  BY <1>9, StoredType, SyncedType DEF Logout, MaybeUser
<1>10. ASSUME NEW t \in Tabs, Subscribe(t)
       PROVE  TypeInv'
  <2>1. [tabs[t] EXCEPT !.deaf = {}] \in SoundTab
    BY DEF SoundTab, Tab
  <2> QED
    BY <1>10, <2>1 DEF Subscribe
<1> QED
  BY <1>1, <1>2, <1>3, <1>4, <1>5, <1>6, <1>7, <1>8, <1>9, <1>10 DEF Next

\* The stored session and every tab's copies, paths and logins stay in their
\* domains, for any number of tabs and users.
THEOREM TypeCorrect == Spec => []TypeOK
<1>1. TypeInv => TypeOK
  BY DEF TypeInv, TypeOK, SoundTab
<1> QED
  BY <1>1, TypeInit, TypeNext, PTL DEF Spec

(* Copies of the session *)

\* Each copy in a tab is of user's session, or was passed by.
Fresh(tab, user) ==
    \A c \in Mounted(tab.path, tab.copy["layout"]) :
      tab.copy[c] = user \/ c \in tab.missed

LEMMA FreshBy ==
    ASSUME NEW tab, NEW other, NEW user, Fresh(tab, user),
           other.path = tab.path, other.copy = tab.copy,
           other.missed = tab.missed
    PROVE  Fresh(other, user)
BY DEF Fresh

LEMMA StartedFresh ==
    ASSUME NEW path, NEW returnTo, NEW user
    PROVE  Fresh(Started(path, returnTo, user), user)
<1> DEFINE tab == Started(path, returnTo, user)
<1>1. /\ tab.path = path
      /\ tab.copy = [c \in Copies |->
                       IF c \in Mounted(path, user) THEN user ELSE NoUser]
  BY DEF Started
<1>2. /\ Mounted(path, user) \subseteq Copies
      /\ "layout" \in Mounted(path, user)
  BY DEF Mounted, Copies
<1> HIDE DEF tab
<1>3. /\ tab.copy["layout"] = user
      /\ \A c \in Mounted(path, user) : tab.copy[c] = user
  BY <1>1, <1>2
<1>4. Fresh(tab, user)
  BY <1>1, <1>3 DEF Fresh
<1> QED
  BY <1>4 DEF tab

\* A rendering leaves a tab's copies fresh if those that live on were.
LEMMA RenderedFresh ==
    ASSUME NEW tab \in SoundTab, NEW path \in Paths,
           NEW heard \in [Copies -> MaybeUser], NEW user \in MaybeUser,
           \A c \in Kept(tab, heard["layout"]) :
             heard[c] = user \/ c \in tab.missed
    PROVE  Fresh(Rendered(tab, path, heard, user), user)
<1> DEFINE next == Rendered(tab, path, heard, user)
           now  == Mounted(path, heard["layout"])
           new  == NewIn(tab, path, heard)
<1>1. /\ next.path = path
      /\ next.copy = CopiesIn(tab, path, heard, user)
      /\ next.missed = MissedIn(tab, path, heard)
  BY RenderedFields
<1>2. /\ now \subseteq Copies /\ "layout" \in now
      /\ "layout" \in Kept(tab, heard["layout"])
      /\ new = now \ Kept(tab, heard["layout"])
  BY DEF Mounted, Copies, Kept, NewIn
<1>3. \A c \in now : next.copy[c] = IF c \in new THEN user ELSE heard[c]
  BY <1>1, <1>2 DEF CopiesIn
<1>4. next.missed = tab.missed \intersect (now \ new)
  BY <1>1 DEF MissedIn
<1> HIDE DEF next, now, new
<1>5. next.copy["layout"] = heard["layout"]
  BY <1>2, <1>3
<1>6. \A c \in now : next.copy[c] = user \/ c \in next.missed
  BY <1>2, <1>3, <1>4
<1>7. now = Mounted(next.path, next.copy["layout"])
  BY <1>1, <1>5 DEF now
<1>8. Fresh(next, user)
  BY <1>6, <1>7 DEF Fresh
<1> QED
  BY <1>8 DEF next

LEMMA MovedFresh ==
    ASSUME TypeInv, NEW tab \in SoundTab, NEW path \in Paths,
           Fresh(tab, storage)
    PROVE  Fresh(Moved(tab, path), storage)
<1>1. tab.copy \in [Copies -> MaybeUser] /\ storage \in MaybeUser
  BY DEF SoundTab, Tab, TypeInv
<1>2. Kept(tab, tab.copy["layout"]) = Mounted(tab.path, tab.copy["layout"])
  BY DEF Kept
<1>3. Fresh(Rendered(tab, path, tab.copy, storage), storage)
  BY <1>1, <1>2, RenderedFresh DEF Fresh
<1>4. Rendered(tab, path, tab.copy, storage).path = path
  BY <1>1, RenderedFields
<1> QED
  BY <1>3, <1>4, MovedFields, FreshBy

\* An event renews the copies that listen and is noted by those that do not.
LEMMA SyncedFresh ==
    ASSUME NEW tab \in SoundTab, NEW user \in MaybeUser
    PROVE  Fresh(Synced(tab, user), user)
<1> DEFINE there == Mounted(tab.path, tab.copy["layout"])
           heard == HeardBy(tab, user)
           passed == Passed(tab, user)
<1>1. there \subseteq Copies /\ Listening(tab) = there \ tab.deaf
  BY DEF Mounted, Copies, Listening
<1>2. /\ heard \in [Copies -> MaybeUser]
      /\ passed \in SoundTab /\ tab.path \in Paths
      /\ passed.path = tab.path /\ passed.copy = tab.copy
      /\ passed.missed = {c \in tab.deaf : tab.copy[c] # user}
  BY PassedFields DEF SoundTab, Tab
<1>3. \A c \in there : heard[c] = user \/ c \in passed.missed
  BY <1>1, <1>2 DEF HeardBy
<1>4. CASE heard = tab.copy /\ Synced(tab, user) = passed
  BY <1>2, <1>3, <1>4 DEF Fresh
<1>5. CASE Synced(tab, user) = Rendered(passed, tab.path, heard, user)
  <2>1. Kept(passed, heard["layout"]) \subseteq there
    BY <1>2 DEF Kept, Mounted
  <2> HIDE DEF there, heard, passed
  <2>2. Fresh(Rendered(passed, tab.path, heard, user), user)
    BY <1>2, <1>3, <2>1, RenderedFresh
  <2> QED
    BY <1>5, <2>2
<1> QED
  BY <1>4, <1>5, SyncedCases

\* A tab that lags will be told, or was told before it listened.
InStep(tab, user) == tab.told \/ Fresh(tab, user)

LEMMA LaggingIsInStep ==
    LaggingTabsAreTold <=> \A t \in Tabs : InStep(tabs[t], storage)
BY DEF LaggingTabsAreTold, InStep, Fresh

LEMMA StoredInStep ==
    ASSUME TypeInv, NEW t \in Tabs, NEW user \in MaybeUser
    PROVE  \A s \in Tabs : InStep(Stored(t, user)[s], user)
<1> TAKE s \in Tabs
<1>1. CASE s = t
  BY <1>1, SyncedFresh DEF Stored, InStep, TypeInv
<1>2. CASE s # t
  <2>1. [tabs[s] EXCEPT !.told = TRUE].told
    BY DEF TypeInv, SoundTab, Tab
  <2> QED
    BY <1>2, <2>1 DEF Stored, InStep
<1> QED
  BY <1>1, <1>2

LEMMA LaggingNext ==
    TypeInv /\ LaggingTabsAreTold /\ [Next]_vars => LaggingTabsAreTold'
<1> SUFFICES ASSUME TypeInv, \A t \in Tabs : InStep(tabs[t], storage),
                    [Next]_vars
             PROVE  \A s \in Tabs : InStep(tabs'[s], storage')
  BY LaggingIsInStep DEF LaggingTabsAreTold, InStep, Fresh
<1> USE DEF TypeInv
<1>1. CASE UNCHANGED vars
  BY <1>1 DEF vars
<1>2. ASSUME NEW t \in Tabs, Reload(t) \/ \E path \in Visited : Open(t, path)
      PROVE  \A s \in Tabs : InStep(tabs'[s], storage')
  BY <1>2, StartedFresh DEF Open, Reload, InStep
<1>3. ASSUME NEW t \in Tabs, Arrive(t) \/ \E path \in Visited : Follow(t, path)
      PROVE  \A s \in Tabs : InStep(tabs'[s], storage')
  <2>1. PICK path \in Paths : /\ tabs' = [tabs EXCEPT ![t] = Moved(tabs[t], path)]
                              /\ storage' = storage
    BY <1>3, SessionAssumption DEF Follow, Arrive, SoundTab, Tab
  <2>2. InStep(Moved(tabs[t], path), storage)
    BY MovedFresh, MovedFields DEF InStep
  <2> QED
    BY <2>1, <2>2
<1>4. ASSUME NEW t \in Tabs, Redirect(t)
      PROVE  \A s \in Tabs : InStep(tabs'[s], storage')
  <2> DEFINE moved == Moved(tabs[t], RedirectTarget(tabs[t]))
  <2>1. moved \in SoundTab /\ InStep(moved, storage)
    BY <1>4, RedirectPath, MovedFresh, MovedFields DEF Redirect, InStep
  <2>2. PICK from :
          /\ tabs' = [tabs EXCEPT ![t] = [moved EXCEPT !.returnTo = from]]
          /\ storage' = storage
    BY <1>4 DEF Redirect
  <2> HIDE DEF moved
  <2>3. InStep([moved EXCEPT !.returnTo = from], storage)
    BY <2>1, FreshBy DEF InStep, SoundTab, Tab
  <2> QED
    BY <2>2, <2>3
<1>5. ASSUME NEW t \in Tabs, StorageEvent(t)
      PROVE  \A s \in Tabs : InStep(tabs'[s], storage')
  <2> DEFINE synced == Synced(tabs[t], storage)
  <2>1. synced \in SoundTab /\ Fresh(synced, storage)
    BY SyncedType, SyncedFresh
  <2>2. PICK more \in BOOLEAN :
          /\ tabs' = [tabs EXCEPT ![t] = [synced EXCEPT !.told = more]]
          /\ storage' = storage
    BY <1>5 DEF StorageEvent
  <2> HIDE DEF synced
  <2>3. Fresh([synced EXCEPT !.told = more], storage)
    BY <2>1, FreshBy DEF SoundTab, Tab
  <2> QED
    BY <2>2, <2>3 DEF InStep
<1>6. ASSUME NEW t \in Tabs,
             Subscribe(t) \/ LoginFailed(t) \/ \E u \in Users : SubmitLogin(t, u)
      PROVE  \A s \in Tabs : InStep(tabs'[s], storage')
  <2>1. tabs[t] \in Tab
    BY DEF SoundTab
  <2>2. /\ tabs'[t].path = tabs[t].path /\ tabs'[t].copy = tabs[t].copy
        /\ tabs'[t].told = tabs[t].told /\ tabs'[t].missed = tabs[t].missed
        /\ storage' = storage
        /\ \A s \in Tabs \ {t} : tabs'[s] = tabs[s]
    <3>1. CASE Subscribe(t)
      BY <2>1, <3>1 DEF Subscribe, Tab
    <3>2. CASE LoginFailed(t)
      BY <2>1, <3>2 DEF LoginFailed, Tab
    <3>3. ASSUME NEW u \in Users, SubmitLogin(t, u)
          PROVE  \E n, target : /\ storage' = storage
                                /\ tabs' = [tabs EXCEPT ![t] =
                                     [tabs[t] EXCEPT !.login = n, !.deaf = {},
                                                     !.target = target]]
      BY <3>3 DEF SubmitLogin
    <3> QED
      BY <1>6, <2>1, <3>1, <3>2, <3>3 DEF Tab
  <2>3. InStep(tabs'[t], storage)
    BY <2>2, FreshBy DEF InStep
  <2> QED
    BY <2>2, <2>3
<1>7. ASSUME NEW t \in Tabs, LoginAnswered(t)
      PROVE  \A s \in Tabs : InStep(tabs'[s], storage')
  <2> DEFINE user == tabs[t].login
             stored == Stored(t, user)
  <2>1. user \in MaybeUser
    BY DEF SoundTab, Tab
  <2>2. /\ stored \in [Tabs -> SoundTab]
        /\ \A s \in Tabs : InStep(stored[s], user)
    BY <2>1, StoredType, StoredInStep
  <2>3. /\ storage' = user
        /\ tabs' = [stored EXCEPT ![t] = [stored[t] EXCEPT !.login = NoUser]]
    BY <1>7 DEF LoginAnswered
  <2> HIDE DEF user, stored
  <2>4. InStep([stored[t] EXCEPT !.login = NoUser], user)
    BY <2>2, FreshBy DEF InStep, SoundTab, Tab
  <2> QED
    BY <2>2, <2>3, <2>4
<1>8. ASSUME NEW t \in Tabs, Logout(t)
      PROVE  \A s \in Tabs : InStep(tabs'[s], storage')
  <2>1. NoUser \in MaybeUser
    BY DEF MaybeUser
  <2>2. CASE storage = NoUser
    <3>1. /\ tabs' = [tabs EXCEPT ![t] = Synced(tabs[t], NoUser)]
          /\ storage' = storage
      BY <1>8, <2>2 DEF Logout
    <3>2. InStep(Synced(tabs[t], NoUser), NoUser)
      BY <2>1, SyncedFresh DEF InStep
    <3> QED
      BY <2>2, <3>1, <3>2
  <2>3. CASE storage # NoUser
    BY <1>8, <2>1, <2>3, StoredInStep DEF Logout
  <2> QED
    BY <2>2, <2>3
<1> QED
  BY <1>1, <1>2, <1>3, <1>4, <1>5, <1>6, <1>7, <1>8 DEF Next

\* A tab with a copy of the session that is not the stored one has a storage
\* event on its way to it, or one passed before that copy listened: in any
\* number of tabs, whatever the order of logins, logouts, navigation, reloads,
\* renderings, effects and events.
THEOREM LaggingTold == Spec => []LaggingTabsAreTold
<1>1. Init => LaggingTabsAreTold
  BY StartedFresh, LaggingIsInStep DEF Init, InStep
<1> QED
  BY <1>1, TypeInit, TypeNext, LaggingNext, PTL DEF Spec

(* Redirects *)

\* The guard that redirects lives on in the page it redirects to.
LEMMA GuardLivesOn ==
    ASSUME TypeInv, NEW tab \in SoundTab, NEW path \in Paths,
           Guarded(tab.path), Guarded(path)
    PROVE  Moved(tab, path).copy["guard"] = tab.copy["guard"]
<1>1. tab.copy \in [Copies -> MaybeUser] /\ storage \in MaybeUser
  BY DEF SoundTab, Tab, TypeInv
<1>2. Moved(tab, path).copy = CopiesIn(tab, path, tab.copy, storage)
  BY <1>1, MovedFields, RenderedFields
<1>3. /\ "guard" \in Copies /\ "guard" \in Mounted(path, tab.copy["layout"])
      /\ "guard" \notin NewIn(tab, path, tab.copy)
  BY DEF Copies, Mounted, NewIn, Kept
<1> QED
  BY <1>2, <1>3 DEF CopiesIn

LEMMA Arrived ==
    ASSUME TypeInv, NEW t \in Tabs, Redirect(t)
    PROVE  ~ Redirects(tabs'[t])
<1> DEFINE tab == tabs[t]
           path == RedirectTarget(tab)
           user == tab.copy["guard"]
<1>1. tab \in SoundTab /\ tab \in Tab /\ path \in Paths /\ Redirects(tab)
  BY RedirectPath DEF Redirect, SoundTab
<1>2. tabs'[t].path = path /\ tabs'[t].copy = Moved(tab, path).copy
  <2> DEFINE moved == Moved(tab, path)
  <2>1. /\ moved \in SoundTab /\ moved.path = path
        /\ moved.copy = Moved(tab, path).copy
    BY <1>1, MovedFields
  <2>2. PICK from : tabs' = [tabs EXCEPT ![t] = [moved EXCEPT !.returnTo = from]]
    BY DEF Redirect
  <2> HIDE DEF moved
  <2> QED
    BY <2>1, <2>2 DEF TypeInv, SoundTab, Tab
<1>3. CASE path \in PublicPaths
  BY <1>2, <1>3, PathKinds DEF Redirects, Guarded
<1>4. CASE path \notin PublicPaths
  <2>1. Guarded(tab.path) /\ user \in Users /\ path = dashboardForRole(RoleOf[user])
    BY <1>1, <1>4, RedirectLeads
  <2>2. RoleOf[user] \in RoleNames /\ "/" \in PublicPaths
    BY <2>1, SessionAssumption DEF PublicPaths
  <2>3. Guarded(path) /\ path # "/admin" /\ MayOpen(RoleOf[user], path)
    BY <1>4, <2>1, <2>2, DashboardOpens DEF Guarded
  <2>4. tabs'[t].copy["guard"] = user
    BY <1>1, <1>2, <2>1, <2>3, GuardLivesOn
  <2> HIDE DEF path, user
  <2> QED
    BY <1>2, <2>1, <2>3, <2>4, PathKinds DEF Redirects, PageShown, Guarded
<1> QED
  BY <1>3, <1>4

\* No redirect leads to a page that redirects again, whatever the session it
\* was decided on, and whatever the session that is stored by then.
THEOREM RedirectsEnd == Spec => RedirectOnce
<1>1. TypeInv /\ [Next]_vars
        => [\A t \in Tabs : Redirect(t) => ~ Redirects(tabs'[t])]_vars
  BY Arrived DEF Redirects, PageShown, RedirectTarget, Guarded
<1> QED
  BY <1>1, TypeInit, TypeNext, PTL DEF Spec, RedirectOnce

(* The menu *)

\* The pages in the menus of banks, behind their paths.
LEMMA InstitutionPagesAt ==
    ASSUME NEW r \in GuardedRoutes
    PROVE  /\ r.path = "/institution/dashboard"
                => r.page = "InstitutionDashboardPage"
           /\ r.path = "/institution/transactions/new"
                => r.page = "NewTransactionPage"
           /\ r.path = "/institution/transactions"
                => r.page = "TransactionQueuePage"
           /\ r.path = "/institution/suspicious-transactions"
                => r.page = "SuspiciousTransactionsPage"
           /\ r.path = "/institution/risk-evaluation"
                => r.page = "RiskEvaluationPage"
           /\ r.path = "/institution/transactions/approved"
                => r.page = "ApprovedTransactionsPage"
           /\ r.path = "/institution/screening-results"
                => r.page = "ScreeningResultsPage"
           /\ r.path = "/institution/anomaly-notices"
                => r.page = "BankAnomalyNoticesPage"
<1>1. CASE r \in InstitutionRoutes
  BY <1>1 DEF InstitutionRoutes, Route
<1>2. CASE r \in RegulatorRoutes
  BY <1>2 DEF RegulatorRoutes, Route
<1>3. CASE r \in SuperAdminRoutes
  BY <1>3 DEF SuperAdminRoutes, Route
<1> QED
  BY <1>1, <1>2, <1>3 DEF GuardedRoutes

\* The pages in the menus of the regulator, the auditor and the super admin.
LEMMA OversightPagesAt ==
    ASSUME NEW r \in GuardedRoutes
    PROVE  /\ r.path = "/regulator/dashboard"
                => r.page = "RegulatorDashboardPage"
           /\ r.path = "/regulator/proofs" => r.page = "ProofsPage"
           /\ r.path = "/regulator/three-bank-smpc-demo"
                => r.page = "ThreeBankSmpcDemoPage"
           /\ r.path = "/regulator/anomaly-cases"
                => r.page = "AnomalyCasesPage"
           /\ r.path = "/regulator/audit" => r.page = "AuditPage"
           /\ r.path = "/regulator/performance"
                => r.page = "RegulatorPerformancePage"
           /\ r.path = "/regulator/compliance-report"
                => r.page = "RegulatorComplianceReportPage"
           /\ r.path = "/super-admin/dashboard"
                => r.page = "SuperAdminDashboardPage"
           /\ r.path = "/super-admin/users" => r.page = "UserManagementPage"
           /\ r.path = "/super-admin/pending-users"
                => r.page = "PendingUsersPage"
           /\ r.path = "/super-admin/organizations"
                => r.page = "OrganizationManagementPage"
           /\ r.path = "/super-admin/roles" => r.page = "RoleManagementPage"
<1>1. CASE r \in InstitutionRoutes
  BY <1>1 DEF InstitutionRoutes, Route
<1>2. CASE r \in RegulatorRoutes
  BY <1>2 DEF RegulatorRoutes, Route
<1>3. CASE r \in SuperAdminRoutes
  BY <1>3 DEF SuperAdminRoutes, Route
<1> QED
  BY <1>1, <1>2, <1>3 DEF GuardedRoutes

LEMMA CallsAtPage ==
    ASSUME NEW path \in GuardedPaths, NEW page,
           \A r \in GuardedRoutes : r.path = path => r.page = page
    PROVE  CallsAt(path) = IF page \in DOMAIN Pages THEN MountCalls(page) ELSE {}
<1> DEFINE r == CHOOSE r \in GuardedRoutes : r.path = path
<1>1. \E q \in GuardedRoutes : q.path = path
  BY DEF GuardedPaths
<1>2. r \in GuardedRoutes /\ r.path = path
  BY <1>1
<1>3. r.page = page
  BY <1>2
<1> QED
  BY <1>3 DEF CallsAt

\* Opened with this role, the page makes only calls that the server answers.
MayLoad(role, path) == \A c \in CallsAt(path) : role \in Call[c].roles

LEMMA MenuOfBankLoads ==
    ASSUME NEW role \in {"institution_admin", "transaction_submitter",
                         "transaction_reviewer"},
           NEW path \in MenuOf(role), path \in GuardedPaths
    PROVE  MayLoad(role, path)
<1>1. role \in WorkflowReaders
  BY DEF WorkflowReaders
<1>2. path = "/institution/dashboard" => role = "institution_admin"
  BY DEF MenuOf
<1>3. path = "/institution/anomaly-notices" => role # "transaction_submitter"
  BY DEF MenuOf
<1>4. path \in {"/institution/dashboard", "/institution/transactions/new",
                "/institution/transactions",
                "/institution/suspicious-transactions",
                "/institution/risk-evaluation",
                "/institution/transactions/approved",
                "/institution/screening-results",
                "/institution/anomaly-notices"}
  BY DEF MenuOf
<1>5. CASE path = "/institution/dashboard"
  <2>1. CallsAt(path) = {"risk.listTransactions", "cases.listBankNotices"}
    BY <1>5, InstitutionPagesAt, CallsAtPage, OpeningCalls, PageNamed
  <2> QED
    BY <1>1, <1>2, <1>5, <2>1, ServerAnswers, CaseReaders DEF MayLoad
<1>6. CASE path \in {"/institution/transactions/new",
                     "/institution/screening-results"}
  <2>1. CallsAt(path) = {}
    BY <1>6, InstitutionPagesAt, CallsAtPage, OpeningCalls
  <2> QED
    BY <2>1 DEF MayLoad
<1>7. CASE path \in {"/institution/transactions",
                     "/institution/transactions/approved"}
  <2>1. CallsAt(path) = {"workflow.list"}
    BY <1>7, InstitutionPagesAt, CallsAtPage, OpeningCalls, PageNamed
  <2> QED
    BY <1>1, <2>1, ServerAnswers DEF MayLoad
<1>8. CASE path \in {"/institution/suspicious-transactions",
                     "/institution/risk-evaluation"}
  <2>1. CallsAt(path) \subseteq {"risk.listSuspiciousTransactions",
                                 "risk.getTransaction"}
    BY <1>8, InstitutionPagesAt, CallsAtPage, OpeningCalls, PageNamed
  <2> QED
    BY <1>1, <2>1, ServerAnswers DEF MayLoad
<1>9. CASE path = "/institution/anomaly-notices"
  <2>1. CallsAt(path) = {"cases.listBankNotices"}
    BY <1>9, InstitutionPagesAt, CallsAtPage, OpeningCalls, PageNamed
  <2> QED
    BY <1>3, <1>9, <2>1, ServerAnswers, CaseReaders DEF MayLoad
<1> QED
  BY <1>4, <1>5, <1>6, <1>7, <1>8, <1>9

LEMMA MenuOfOversightLoads ==
    ASSUME NEW role \in {"regulator", "auditor"},
           NEW path \in MenuOf(role), path \in GuardedPaths
    PROVE  MayLoad(role, path)
<1>1. role \in RoleNames
  BY DEF RoleNames
<1>2. path \in {"/regulator/dashboard", "/regulator/proofs",
                "/regulator/three-bank-smpc-demo", "/regulator/anomaly-cases",
                "/regulator/audit", "/regulator/performance",
                "/regulator/compliance-report"}
  <2>1. CASE role = "auditor"
    BY <2>1 DEF MenuOf
  <2>2. CASE role = "regulator"
    BY <2>2 DEF MenuOf, RegulatorRoutes, Route
  <2> QED
    BY <2>1, <2>2
<1>3. path = "/regulator/dashboard" => role = "regulator"
  BY DEF MenuOf
<1>4. CASE path = "/regulator/dashboard"
  <2>1. CallsAt(path) = {"dashboard.proofs", "cases.listCases"}
    BY <1>4, OversightPagesAt, CallsAtPage, OpeningCalls, PageNamed
  <2> QED
    BY <1>3, <1>4, <2>1, ServerAnswers, CaseReaders DEF MayLoad
<1>5. CASE path \in {"/regulator/proofs", "/regulator/audit"}
  <2>1. CallsAt(path) = {}
    BY <1>5, OversightPagesAt, CallsAtPage, OpeningCalls
  <2> QED
    BY <2>1 DEF MayLoad
<1>6. CASE path = "/regulator/three-bank-smpc-demo"
  <2>1. CallsAt(path) = {"smpc.status"}
    BY <1>6, OversightPagesAt, CallsAtPage, OpeningCalls, PageNamed
  <2> QED
    BY <1>1, <2>1, ServerAnswers DEF MayLoad
<1>7. CASE path = "/regulator/anomaly-cases"
  <2>1. CallsAt(path) = {"cases.listCases"}
    BY <1>7, OversightPagesAt, CallsAtPage, OpeningCalls, PageNamed
  <2> QED
    BY <2>1, ServerAnswers, CaseReaders DEF MayLoad
<1>8. CASE path \in {"/regulator/performance", "/regulator/compliance-report"}
  <2>1. /\ "RegulatorPerformancePage" \notin DOMAIN Pages
        /\ "RegulatorComplianceReportPage" \notin DOMAIN Pages
    BY PageNamed
  <2>2. CallsAt(path) = {}
    BY <1>8, <2>1, OversightPagesAt, CallsAtPage
  <2> QED
    BY <2>2 DEF MayLoad
<1> QED
  BY <1>2, <1>4, <1>5, <1>6, <1>7, <1>8

LEMMA MenuOfSuperAdminLoads ==
    ASSUME NEW path \in MenuOf("super_admin"), path \in GuardedPaths
    PROVE  MayLoad("super_admin", path)
<1>1. path \in {"/super-admin/dashboard", "/super-admin/users",
                "/super-admin/pending-users", "/super-admin/organizations",
                "/super-admin/roles"}
  BY DEF MenuOf, SuperAdminRoutes, Route
<1>2. CallsAt(path) \subseteq {"admin.listPendingUsers", "admin.listUsers",
                               "admin.listOrganizations", "admin.listRoles"}
  <2>1. CASE path = "/super-admin/dashboard"
    BY <2>1, OversightPagesAt, CallsAtPage, OpeningCalls, PageNamed
  <2>2. CASE path = "/super-admin/users"
    BY <2>2, OversightPagesAt, CallsAtPage, OpeningCalls, PageNamed
  <2>3. CASE path = "/super-admin/pending-users"
    BY <2>3, OversightPagesAt, CallsAtPage, OpeningCalls, PageNamed
  <2>4. CASE path = "/super-admin/organizations"
    BY <2>4, OversightPagesAt, CallsAtPage, OpeningCalls, PageNamed
  <2>5. CASE path = "/super-admin/roles"
    BY <2>5, OversightPagesAt, CallsAtPage, OpeningCalls, PageNamed
  <2> QED
    BY <1>1, <2>1, <2>2, <2>3, <2>4, <2>5
<1> QED
  BY <1>2, ServerAnswers DEF MayLoad

\* A page in the menu of the role it is shown to makes, when it is opened, only
\* calls that the server answers, as long as no storage event is on its way and
\* the guard has missed none.
THEOREM MenuPagesLoad == Spec => []MenuPagesMayLoad
<1>1. TypeInv /\ LaggingTabsAreTold => MenuPagesMayLoad
  <2> SUFFICES ASSUME TypeInv, LaggingTabsAreTold, NEW t \in Tabs,
                      PageShown(tabs[t]), ~ tabs[t].told,
                      "guard" \notin tabs[t].missed,
                      tabs[t].path \in MenuOf(RoleOf[tabs[t].copy["guard"]])
               PROVE  MayLoad(RoleOf[TokenOf], tabs[t].path)
    BY DEF MenuPagesMayLoad, MayLoad
  <2> DEFINE user == tabs[t].copy["guard"]
             role == RoleOf[user]
  <2>1. tabs[t].path \in GuardedPaths /\ user \in Users
    BY DEF PageShown, Guarded
  <2>2. "guard" \in Mounted(tabs[t].path, tabs[t].copy["layout"])
    BY <2>1 DEF Mounted, Guarded
  <2>3. RoleOf[TokenOf] = role
    BY <2>2 DEF LaggingTabsAreTold, TokenOf
  <2>4. role \in RoleNames
    BY <2>1, SessionAssumption
  <2> HIDE DEF user, role
  <2>5. tabs[t].path \in MenuOf(role)
    BY DEF user, role
  <2>6. role # "admin"
    BY <2>5 DEF MenuOf
  <2>7. MayLoad(role, tabs[t].path)
    BY <2>1, <2>4, <2>5, <2>6, MenuOfBankLoads, MenuOfOversightLoads,
       MenuOfSuperAdminLoads DEF RoleNames
  <2> QED
    BY <2>3, <2>7
<1> QED
  BY <1>1, TypeInit, TypeNext, LaggingTold, PTL DEF Spec
=============================================================================
