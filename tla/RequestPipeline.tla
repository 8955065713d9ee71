--------------------------- MODULE RequestPipeline ---------------------------
(***************************************************************************)
(* The way of a request: RouteDetectMiddleware takes its route from the    *)
(* cache, JwtAuthGuard looks its user up, RoleGuard decides, and the hooks *)
(* and the handler run; GraphQL requests go through DynamicResolver, those *)
(* of /me through MeService.  Meanwhile administrators change routes and   *)
(* roles, and AuthService opens, prolongs and ends the sessions the tokens *)
(* come from.                                                              *)
(*                                                                         *)
(* There is one route; its cached copy (RouteCache) changes in one step.   *)
(* An access token is named by its session, which the code does not keep   *)
(* in it.  Any statement or script may fail at any time, also because the  *)
(* repositories a request has taken are those of a DataSource destroyed    *)
(* since (TableRequests).                                                  *)
(***************************************************************************)
EXTENDS FiniteSets

CONSTANTS Requests, Users, Roles, Sessions,
          Calls,       \* calls of AuthService
          Root,        \* the root administrators
          Owner,       \* the user of each session
          Remembered,  \* the sessions opened with "remember"
          Routes,      \* the route, as administrators may define it
          None

Methods == {"POST", "GQL_QUERY"}
Permission == [methods : SUBSET Methods, role : Roles \cup {None}, users : SUBSET Users]
Route == [published : SUBSET Methods, permissions : SUBSET Permission]
Kinds == {"rest", "me", "graphql"}

ASSUME UsersAssumption ==
  /\ Root \subseteq Users
  /\ None \notin Users \cup Roles \cup Sessions \cup Routes /\ None \notin Kinds
ASSUME SessionsAssumption == Owner \in [Sessions -> Users] /\ Remembered \subseteq Sessions
ASSUME RoutesAssumption == Routes \subseteq Route

VARIABLES
  cached,   \* the cached route, or None when it is disabled
  role,     \* user_definition: the role of each user, None once the row is deleted
  session,  \* session_definition: "none", "live" or "gone"
  access,   \* sessions with an access token that has not expired
  refresh,  \* sessions with a refresh token that has not expired
  pc,       \* where each request is
  kind,     \* what it asks for
  bearer,   \* the session of its token, or None
  route,    \* the route it was detected on, or None
  user,     \* the user it was authenticated as, or None
  rank,     \* the role that user had then
  routes,   \* history: the routes the cache has held since it was received
  ranks,    \* history: the roles its user has had since then
  step,     \* where each call of AuthService is
  held      \* the session of its refresh token

authVars == <<session, access, refresh>>
callVars == <<step, held>>
heldVars == <<route, user, rank>>
reqVars  == <<pc, kind, bearer, heldVars>>
seenVars == <<routes, ranks>>
vars     == <<cached, role, authVars, reqVars, seenVars, callVars>>

Init ==
  /\ cached \in Routes
  /\ role \in [Users -> Roles]
  /\ session = [s \in Sessions |-> "none"] /\ access = {} /\ refresh = {}
  /\ pc = [r \in Requests |-> "idle"]
  /\ kind = [r \in Requests |-> None] /\ bearer = [r \in Requests |-> None]
  /\ route = [r \in Requests |-> None]
  /\ user = [r \in Requests |-> None] /\ rank = [r \in Requests |-> None]
  /\ routes = [r \in Requests |-> {}] /\ ranks = [r \in Requests |-> {}]
  /\ step = [c \in Calls |-> "idle"] /\ held = [c \in Calls |-> None]

-----------------------------------------------------------------------------

Goto(r, from, to) == pc[r] = from /\ pc' = [pc EXCEPT ![r] = to]

\* The answer, whatever it is: the request is gone, and what it held.
Release(r) ==
  /\ route' = [route EXCEPT ![r] = None] /\ rank' = [rank EXCEPT ![r] = None]
  /\ routes' = [routes EXCEPT ![r] = {}] /\ ranks' = [ranks EXCEPT ![r] = {}]

Reply(r, at) ==
  /\ Goto(r, at, "idle") /\ Release(r)
  /\ user' = [user EXCEPT ![r] = None]
  /\ kind' = [kind EXCEPT ![r] = None] /\ bearer' = [bearer EXCEPT ![r] = None]
  /\ UNCHANGED <<cached, role, authVars, callVars>>

Step(r, from, to) ==
  /\ Goto(r, from, to)
  /\ UNCHANGED <<cached, role, authVars, kind, bearer, callVars>>

-----------------------------------------------------------------------------
(* Decisions. *)

\* Mutant (ServedWasPermitted): a permission that names the user gives every method.
RoleAllowsAnyMethod(d, m, u, q) ==
  \/ m \in d.published
  \/ u # None /\ u \in Root
  \/ u # None /\ \E p \in d.permissions : u \in p.users \/ (m \in p.methods /\ q = p.role)

\* RoleGuard.canActivate: no permission names a user without its method.
RoleAllows(d, m, u, q) ==
  \/ m \in d.published
  \/ u # None /\ u \in Root
  \/ u # None /\ \E p \in d.permissions : m \in p.methods /\ (u \in p.users \/ q = p.role)

\* DynamicResolver.canPass: the methods of a permission are rows, which
\* includes('GQL_QUERY') never finds, so that permissions count for nothing.
ResolverAllows(d, u) ==
  \/ "GQL_QUERY" \in d.published
  \/ u # None /\ u \in Root

-----------------------------------------------------------------------------
(* Requests. *)

Receive(r, k, s) ==
  /\ Goto(r, "idle", "detect")
  /\ s # None => s \in access
  /\ kind' = [kind EXCEPT ![r] = k] /\ bearer' = [bearer EXCEPT ![r] = s]
  /\ routes' = [routes EXCEPT ![r] = {cached}]
  /\ ranks' = [ranks EXCEPT ![r] = IF s = None THEN {None} ELSE {role[Owner[s]]}]
  /\ UNCHANGED <<cached, role, authVars, heldVars, callVars>>

\* The route is copied from the cache; /me needs none to get past the guards.
Detect(r) ==
  /\ Step(r, "detect", "authenticate")
  /\ cached # None \/ kind[r] = "me"
  /\ route' = [route EXCEPT ![r] = cached]
  /\ UNCHANGED <<user, rank, seenVars>>

\* NotFoundDetectGuard, and a GraphQL request for a route that is not enabled.
NotFound(r) == cached = None /\ kind[r] # "me" /\ Reply(r, "detect")

\* The signature and the expiry of the token are verified and the row of its
\* user read; a GraphQL request does neither on a published route.
Authenticate(r) ==
  LET s == bearer[r]
      open  == kind[r] = "graphql" /\ "GQL_QUERY" \in route[r].published
      known == s # None /\ s \in access /\ role[Owner[s]] # None /\ ~open
  IN /\ Step(r, "authenticate", "authorize")
     /\ user' = [user EXCEPT ![r] = IF known THEN Owner[s] ELSE None]
     /\ rank' = [rank EXCEPT ![r] = IF known THEN role[Owner[s]] ELSE None]
     /\ UNCHANGED <<route, seenVars>>

\* JwtAuthGuard.handleRequest makes an error an anonymous request.
AuthenticateError(r) ==
  Step(r, "authenticate", "authorize") /\ UNCHANGED <<heldVars, seenVars>>

Allowed(r) ==
  \/ kind[r] = "rest"    /\ RoleAllows(route[r], "POST", user[r], rank[r])
  \/ kind[r] = "graphql" /\ ResolverAllows(route[r], user[r])
  \/ kind[r] = "me"

\* From here on only MeService looks at the user, and at the repository.
Authorize(r) ==
  /\ Step(r, "authorize", IF kind[r] = "graphql" THEN "read" ELSE "before")
  /\ Allowed(r)
  /\ user' = [user EXCEPT ![r] = IF kind[r] = "me" /\ route[r] # None THEN user[r] ELSE None]
  /\ Release(r)

Refuse(r) == pc[r] = "authorize" /\ ~Allowed(r) /\ Reply(r, "authorize")

\* The pre-hooks, one after the other; the first that returns a value answers
\* the request, one that throws fails it.
BeforeHooks(r)      == Step(r, "before", "save") /\ UNCHANGED <<heldVars, seenVars>>
BeforeHookAnswer(r) == Reply(r, "before")

\* The handler: it saves on the repository taken with the route, then reads the
\* row back and reloads.  The handler of a GraphQL request only reads; that of /me
\* wants a user, and a repository.
Save(r) ==
  /\ Step(r, "save", "read") /\ UNCHANGED <<heldVars, seenVars>>
  /\ kind[r] = "me" => user[r] # None

SaveError(r) == Reply(r, "save")
Read(r)      == Step(r, "read", "after") /\ UNCHANGED <<heldVars, seenVars>>
ReadError(r) == Reply(r, "read")

\* The after-hooks, and the answer: theirs, or the error of one.
AfterHooks(r) == Reply(r, "after")

-----------------------------------------------------------------------------
(* AuthService. *)

\* login: the session is saved, and a pair of tokens signed.
Login(s) ==
  /\ session[s] = "none" /\ role[Owner[s]] # None
  /\ session' = [session EXCEPT ![s] = "live"]
  /\ access' = access \cup {s} /\ refresh' = refresh \cup {s}
  /\ UNCHANGED <<cached, role, reqVars, seenVars, callVars>>

AtCall(c, from, to) ==
  /\ step[c] = from /\ step' = [step EXCEPT ![c] = to]
  /\ held' = IF to = "idle" THEN [held EXCEPT ![c] = None] ELSE held
  /\ UNCHANGED <<cached, role, reqVars, seenVars>>

\* Mutant (LogoutEnds): the session of a refresh token is not looked up.
CallUnchecked(c, s, to) ==
  /\ step[c] = "idle" /\ s \in refresh
  /\ step' = [step EXCEPT ![c] = to] /\ held' = [held EXCEPT ![c] = s]
  /\ UNCHANGED <<cached, role, authVars, reqVars, seenVars>>

\* refreshToken and logout verify the refresh token and look the session up; a call
\* that finds it expired or the session gone is answered with an error.
Call(c, s, to) ==
  /\ step[c] = "idle" /\ s \in refresh
  /\ session[s] = "live"
  /\ step' = [step EXCEPT ![c] = to] /\ held' = [held EXCEPT ![c] = s]
  /\ UNCHANGED <<cached, role, authVars, reqVars, seenVars>>

\* A new access token, and a new refresh token for a remembered session.
SignTokens(c) ==
  /\ AtCall(c, "refresh", "idle")
  /\ access' = access \cup {held[c]}
  /\ refresh' = IF held[c] \in Remembered THEN refresh \cup {held[c]} ELSE refresh
  /\ UNCHANGED session

EndSession(c) ==
  /\ AtCall(c, "logout", "idle")
  /\ session' = [session EXCEPT ![held[c]] = "gone"]
  /\ UNCHANGED <<access, refresh>>

\* The query fails, and the call with it.
CallError(c) == \E at \in {"refresh", "logout"} : AtCall(c, at, "idle") /\ UNCHANGED authVars

\* Tokens expire by themselves.
ExpireAccess(s) ==
  /\ s \in access /\ access' = access \ {s}
  /\ UNCHANGED <<cached, role, session, refresh, reqVars, seenVars, callVars>>

ExpireRefresh(s) ==
  /\ s \in refresh /\ refresh' = refresh \ {s}
  /\ UNCHANGED <<cached, role, session, access, reqVars, seenVars, callVars>>

-----------------------------------------------------------------------------
(* Administration. *)

\* The requests that have yet to be decided.
Active == {r \in Requests : pc[r] \in {"detect", "authenticate", "authorize"}}

Redefine(d) ==
  /\ d # cached /\ cached' = d
  /\ routes' = [r \in Requests |-> IF r \in Active THEN routes[r] \cup {d} ELSE {}]
  /\ UNCHANGED <<role, authVars, reqVars, ranks, callVars>>

\* A user with a session cannot be deleted.
SetRole(u, q) ==
  /\ role[u] \notin {q, None}
  /\ q = None => u \notin Root /\ \A s \in Sessions : Owner[s] = u => session[s] # "live"
  /\ role' = [role EXCEPT ![u] = q]
  /\ ranks' = [r \in Requests |-> IF r \in Active /\ bearer[r] # None /\ Owner[bearer[r]] = u
                                  THEN ranks[r] \cup {q} ELSE ranks[r]]
  /\ UNCHANGED <<cached, authVars, reqVars, routes, callVars>>

Handle(r) ==
  \/ Detect(r) \/ NotFound(r) \/ Authenticate(r) \/ AuthenticateError(r)
  \/ Authorize(r) \/ Refuse(r) \/ BeforeHooks(r) \/ BeforeHookAnswer(r)
  \/ Save(r) \/ SaveError(r) \/ Read(r) \/ ReadError(r) \/ AfterHooks(r)

Next ==
  \/ \E r \in Requests, k \in Kinds, s \in Sessions \cup {None} : Receive(r, k, s)
  \/ \E r \in Requests : Handle(r)
  \/ \E c \in Calls, s \in Sessions : Call(c, s, "refresh") \/ Call(c, s, "logout")
  \/ \E c \in Calls : SignTokens(c) \/ EndSession(c) \/ CallError(c)
  \/ \E s \in Sessions : Login(s) \/ ExpireAccess(s) \/ ExpireRefresh(s)
  \/ \E d \in Routes \cup {None} : Redefine(d)
  \/ \E u \in Users, q \in Roles \cup {None} : SetRole(u, q)

\* A call that is under way comes to its end; tokens carry their expiry.
Fairness ==
  /\ \A c \in Calls : WF_vars(SignTokens(c) \/ EndSession(c) \/ CallError(c))
  /\ \A s \in Sessions : WF_vars(ExpireAccess(s)) /\ WF_vars(ExpireRefresh(s))

Spec == Init /\ [][Next]_vars
FairSpec == Spec /\ Fairness

-----------------------------------------------------------------------------
(* Properties. *)

\* Every variable has its type; a token is one of a session that was opened.
TypeOK ==
  /\ cached \in Routes \cup {None} /\ role \in [Users -> Roles \cup {None}]
  /\ session \in [Sessions -> {"none", "live", "gone"}]
  /\ \A s \in access \cup refresh : session[s] # "none"
  /\ kind \in [Requests -> Kinds \cup {None}]
  /\ bearer \in [Requests -> Sessions \cup {None}]
  /\ route \in [Requests -> Routes \cup {None}]
  /\ user \in [Requests -> Users \cup {None}]
  /\ \A r \in Requests : pc[r] = "idle" <=> kind[r] = None
  /\ \A c \in Calls : step[c] = "idle" <=> held[c] = None
  /\ \A c \in Calls : held[c] # None => session[held[c]] # "none"

\* Hooks and handlers run only for a request that the route permits, as its
\* administrators mean it: published for its method, or its user a root
\* administrator or named by a permission of the method, by name or by role.  The
\* route and the role are each one that was in force while the request was under
\* way: what was revoked before it came does not let it pass.
ServedWasPermitted ==
  [][\A r \in Requests : pc[r] = "authorize" /\ pc'[r] \notin {"authorize", "idle"} /\ kind[r] # "me" =>
       \E d \in routes[r] \ {None}, q \in ranks[r] :
         LET m == IF kind[r] = "rest" THEN "POST" ELSE "GQL_QUERY"
             u == IF bearer[r] = None THEN None ELSE Owner[bearer[r]]
         IN \/ m \in d.published
            \/ q # None /\ u \in Root
            \/ q # None /\ \E p \in d.permissions : m \in p.methods /\ (u \in p.users \/ p.role = q)
       ]_vars

\* Once a session is deleted its access tokens come to an end, and stay so, in spite
\* of refreshes that were under way and of remembered sessions.
LogoutEnds ==
  \A s \in Sessions : session[s] = "gone" ~> [](s \notin access /\ s \notin refresh)
=============================================================================
