--------------------------- MODULE BrowserSession ---------------------------
(***************************************************************************)
(* The session of the console in a browser with several tabs (authStore,   *)
(* LoginPage, ProtectedRoute, AppLayout, Sidebar).  The session is one     *)
(* entry of localStorage.  Each tab keeps copies of it in React state: the *)
(* layout's, the menu's, and that of the ProtectedRoute around a guarded   *)
(* page.  A copy is read when its component is rendered first; the effect  *)
(* that makes it listen runs later, and does not read again.  A write      *)
(* dispatches an event in the writer at once; the browser tells the other  *)
(* tabs by a storage event, some time later.                               *)
(*                                                                         *)
(* Assumed of React: the effects of one rendering run together, and before *)
(* the next rendering.  An event and the rendering that follows are one    *)
(* step: of two events without a rendering in between, the second counts.  *)
(* Assumed of React Router: a ProtectedRoute lives on when its tab goes    *)
(* from one guarded route to another, as the element at that place keeps   *)
(* its type; a navigation is rendered by itself, some time after the call. *)
(***************************************************************************)
EXTENDS Routes, PageTable, Naturals

CONSTANTS
    Tabs,
    Users,      \* those who log in with this browser; all are active
    NoUser,
    RoleOf,     \* the role in the answer to each one's login
    Visited     \* the paths that users go to by themselves (Bound)

ASSUME SessionAssumption ==
    /\ NoUser \notin Users
    /\ RoleOf \in [Users -> RoleNames]
    /\ Visited \subseteq Paths

VARIABLES
    storage,    \* who the stored session is of
    tabs

vars == <<storage, tabs>>

MaybeUser == Users \union {NoUser}
NoPath == "none"

Copies == {"layout", "menu", "guard"}

\* deaf: the copies that are read but do not listen yet; missed: those among
\* them that an event passed by (a history); told: at least one storage event
\* is on its way; login: whose credentials are being checked; returnTo: where
\* the login page, and target: where that login, will lead.
Tab == [path : Paths, copy : [Copies -> MaybeUser], deaf : SUBSET Copies,
        missed : SUBSET Copies, told : BOOLEAN,
        returnTo : Paths \union {NoPath}, login : MaybeUser,
        target : Paths \union {NoPath}]

TypeOK ==
    /\ storage \in MaybeUser
    /\ tabs \in [Tabs -> Tab]

-----------------------------------------------------------------------------
Guarded(path) == path \in GuardedPaths

\* The copies there are at a path, if the layout's is user.
Mounted(path, user) ==
    {"layout"} \union (IF user = NoUser THEN {} ELSE {"menu"})
               \union (IF Guarded(path) THEN {"guard"} ELSE {})

Listening(tab) == Mounted(tab.path, tab.copy["layout"]) \ tab.deaf

\* The page behind the guard is on the screen (admin/* has none).
PageShown(tab) ==
    /\ Guarded(tab.path) /\ tab.path # "/admin"
    /\ tab.copy["guard"] \in Users
    /\ MayOpen(RoleOf[tab.copy["guard"]], tab.path)

Redirects(tab) ==
    \/ Guarded(tab.path) /\ ~ PageShown(tab)
    \/ tab.path \in LegacyPaths \union {UnknownPath}

\* What ProtectedRoute, or the Navigate element of the route, redirects to.
\* The user's account is active, or the login had been refused.
RedirectTarget(tab) ==
    CASE tab.path \in LegacyPaths -> "/login"
      [] tab.path = UnknownPath -> "/"
      [] tab.copy["guard"] = NoUser -> "/login"
      [] OTHER -> dashboardForRole(RoleOf[tab.copy["guard"]])

\* The application starts when user's session is stored.
Started(path, returnTo, user) ==
    [path |-> path,
     copy |-> [c \in Copies |->
                 IF c \in Mounted(path, user) THEN user ELSE NoUser],
     deaf |-> Mounted(path, user), missed |-> {}, told |-> FALSE,
     returnTo |-> returnTo, login |-> NoUser, target |-> NoPath]

\* The copies that live on when the layout's copy changes from one user to
\* another: AppLayout puts its outlet elsewhere when it has none.
Kept(tab, layout) ==
    IF (tab.copy["layout"] = NoUser) <=> (layout = NoUser)
      THEN Mounted(tab.path, layout) ELSE {"layout"}

\* React renders the tab at path, its copies being heard, when user's session
\* is stored: what is not there yet reads the session.
Rendered(tab, path, heard, user) ==
    LET now == Mounted(path, heard["layout"])
        new == now \ Kept(tab, heard["layout"])
    IN [tab EXCEPT !.path = path,
          !.copy = [c \in Copies |-> CASE c \notin now -> NoUser
                                       [] c \in new -> user
                                       [] OTHER -> heard[c]],
          !.deaf = new, !.missed = @ \intersect (now \ new)]

\* A navigation; one that a login has begun is given up.
Moved(tab, path) ==
    [Rendered(tab, path, tab.copy, storage) EXCEPT
       !.returnTo = NoPath,
       !.target = IF tab.login = NoUser THEN NoPath ELSE tab.target]

\* An event reaches a tab when user's session is stored: syncSession runs in
\* the listeners.
Synced(tab, user) ==
    LET heard == [c \in Copies |->
                    IF c \in Listening(tab) THEN user ELSE tab.copy[c]]
        passed == [tab EXCEPT
                     !.missed = {c \in tab.deaf : tab.copy[c] # user}]
    IN  IF heard = tab.copy THEN passed
        ELSE Rendered(passed, tab.path, heard, user)

\* Mutation of Stored: the writer does not dispatch aml-smpc-auth-change.
StoredSilently(t, user) ==
    [s \in Tabs |-> IF s = t THEN tabs[s] ELSE [tabs[s] EXCEPT !.told = TRUE]]

\* Tab t has written the session: its own listeners run at once, the other
\* tabs will be told.
Stored(t, user) ==
    [s \in Tabs |-> IF s = t THEN Synced(tabs[s], user)
                             ELSE [tabs[s] EXCEPT !.told = TRUE]]

Init ==
    /\ storage = NoUser
    /\ tabs = [t \in Tabs |-> Started("/", NoPath, NoUser)]

-----------------------------------------------------------------------------

\* The address is typed: the application starts anew and reads the session; a
\* login it was waiting for is given up.
Open(t, path) ==
    /\ tabs' = [tabs EXCEPT ![t] = Started(path, NoPath, storage)]
    /\ UNCHANGED storage

\* The browser keeps what the entry of its history holds, returnTo included.
Reload(t) ==
    /\ tabs' = [tabs EXCEPT ![t] = Started(@.path, @.returnTo, storage)]
    /\ UNCHANGED storage

\* The effects of the last rendering run.
Subscribe(t) ==
    /\ tabs[t].deaf # {}
    /\ tabs' = [tabs EXCEPT ![t].deaf = {}]
    /\ UNCHANGED storage

\* Whose token a call carries: the session is read anew for every call.
TokenOf == storage

\* The calls that are made when a guarded path is opened.
CallsAt(path) ==
    LET page == (CHOOSE r \in GuardedRoutes : r.path = path).page
    IN  IF page \in DOMAIN Pages THEN MountCalls(page) ELSE {}

\* The header, or the menu, and the links of the page if it is shown.
Links(tab) ==
    (CASE tab.copy["layout"] = NoUser -> HeaderLinks
       [] tab.copy["menu"] \in Users -> MenuOf(RoleOf[tab.copy["menu"]])
       [] OTHER -> {})
      \union
    (IF PageShown(tab) \/ tab.path \in PublicPaths
       THEN {Resolved(p) : p \in PageLinks(tab.path)} ELSE {})

Follow(t, path) ==
    /\ path \in Links(tabs[t])
    /\ tabs' = [tabs EXCEPT ![t] = Moved(@, path)]
    /\ UNCHANGED storage

\* An effect of Navigate, which is one of the rendering that shows it.
Redirect(t) ==
    LET tab == tabs[t] IN
    /\ Redirects(tab) /\ tab.deaf = {}
    /\ tabs' = [tabs EXCEPT ![t] =
                  [Moved(tab, RedirectTarget(tab)) EXCEPT
                     !.returnTo = IF Guarded(tab.path)
                                     /\ tab.copy["guard"] = NoUser
                                    THEN tab.path ELSE NoPath]]
    /\ UNCHANGED storage

\* Mutation of StorageEvent: nothing listens to "storage".
StorageEventUnheard(t) ==
    /\ tabs[t].told
    /\ tabs' = [tabs EXCEPT ![t].told = FALSE]
    /\ UNCHANGED storage

\* Others may be on their way behind it.
StorageEvent(t) ==
    /\ tabs[t].told
    /\ \E more \in BOOLEAN :
         tabs' = [tabs EXCEPT ![t] =
                    [Synced(@, storage) EXCEPT !.told = more]]
    /\ UNCHANGED storage

\* The form is there for a user who is logged in as well.  Its button is
\* disabled while a login waits; that no other tab has one that waits, or that
\* has been answered and is still to arrive, is a bound.
SubmitLogin(t, user) ==
    LET tab == tabs[t] IN
    /\ tab.path = "/login"
    /\ \A s \in Tabs : tabs[s].target = NoPath
    /\ tabs' = [tabs EXCEPT ![t] =
                  [tab EXCEPT !.login = user, !.deaf = {},
                     !.target = IF tab.returnTo # NoPath THEN tab.returnTo
                                ELSE dashboardForRole(RoleOf[user])]]
    /\ UNCHANGED storage

\* The answer counts even when the tab has left the login page.
LoginAnswered(t) ==
    LET user == tabs[t].login IN
    /\ user # NoUser
    /\ storage' = user
    /\ tabs' = [Stored(t, user) EXCEPT ![t].login = NoUser]

\* The navigation that LoginAnswered has begun.
Arrive(t) ==
    /\ tabs[t].login = NoUser /\ tabs[t].target # NoPath
    /\ tabs' = [tabs EXCEPT ![t] = Moved(@, @.target)]
    /\ UNCHANGED storage

\* Wrong credentials, an account that is not active, or no answer in 15 s.
LoginFailed(t) ==
    /\ tabs[t].login # NoUser
    /\ tabs' = [tabs EXCEPT ![t] =
                  [@ EXCEPT !.login = NoUser, !.target = NoPath]]
    /\ UNCHANGED storage

\* The button is the menu's.  Other tabs are told only of a change: not if the
\* entry was gone already.
Logout(t) ==
    /\ tabs[t].copy["layout"] # NoUser /\ tabs[t].copy["menu"] # NoUser
    /\ tabs' = IF storage = NoUser
                 THEN [tabs EXCEPT ![t] = Synced(@, NoUser)]
                 ELSE Stored(t, NoUser)
    /\ storage' = NoUser

Next ==
    \E t \in Tabs :
      \/ \E path \in Visited : Open(t, path) \/ Follow(t, path)
      \/ Reload(t) \/ Subscribe(t) \/ Redirect(t) \/ StorageEvent(t)
      \/ \E user \in Users : SubmitLogin(t, user)
      \/ LoginAnswered(t) \/ Arrive(t) \/ LoginFailed(t)
      \/ Logout(t)

Spec == Init /\ [][Next]_vars

\* Events arrive; effects may be late, and users do as they please.
FairSpec == Spec /\ \A t \in Tabs : WF_vars(StorageEvent(t))

-----------------------------------------------------------------------------
(* Properties *)

\* A copy of the session that is not the stored one will be renewed: whatever
\* the order of writes, events, navigation and remounting, a tab with a copy
\* that lags behind has a storage event to come, unless one passed between the
\* copy's first rendering and the effect that makes it listen.
LaggingTabsAreTold ==
    \A t \in Tabs :
      \A c \in Mounted(tabs[t].path, tabs[t].copy["layout"]) :
        \/ tabs[t].copy[c] = storage
        \/ tabs[t].told \/ c \in tabs[t].missed

\* A redirect is the last one: where ProtectedRoute or an old path sends a
\* user, the user may be, though sessions change in the meantime.  Routes, role
\* groups and dashboards are kept in separate lists.
RedirectOnce ==
    [][\A t \in Tabs : Redirect(t) => ~ Redirects(tabs'[t])]_vars

\* A page in the menu is one whose calls the server answers.  Calls carry the
\* stored session, which may be another user's than the page's, but only while
\* a storage event is on its way or after the guard has missed one.  Menu,
\* routes, permissions and the roles the handlers name are four lists.
MenuPagesMayLoad ==
    \A t \in Tabs :
      LET tab == tabs[t]
          user == tab.copy["guard"]
      IN (/\ PageShown(tab) /\ tab.path \in MenuOf(RoleOf[user])
          /\ ~ tab.told /\ "guard" \notin tab.missed) =>
           \A c \in CallsAt(tab.path) : RoleOf[TokenOf] \in Call[c].roles

\* A logout in one tab takes the guarded pages from all of them, unless
\* somebody logs in first: a page stays only if its guard did not listen yet
\* when the event came.
LogoutReachesEveryTab ==
    (storage = NoUser) ~>
      \/ storage # NoUser
      \/ \A t \in Tabs : PageShown(tabs[t]) => "guard" \in tabs[t].missed
=============================================================================
