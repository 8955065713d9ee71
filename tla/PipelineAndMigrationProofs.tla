--------------------- MODULE PipelineAndMigrationProofs ---------------------
(***************************************************************************)
(* Two components, with nothing in common but this module.                 *)
(*                                                                         *)
(* What is served was permitted (RequestPipeline), for every set of        *)
(* requests, users, roles, sessions and route definitions.  The decision   *)
(* is taken on a route and a role that were read earlier, one after the    *)
(* other: Held relates what a request holds to what was in force while it  *)
(* was under way, and Permitted follows from the decision.                 *)
(*                                                                         *)
(* What a migration leaves in the database (ColumnMigration), for all      *)
(* tables, columns and types and every number of changes and faults.  The  *)
(* invariant is about the statements still to run: each is asked for by    *)
(* the database as it is now, no two touch the same column, they come in   *)
(* their turns and cover what differs.  The rewritten list of statements   *)
(* has these properties, and running its first statement keeps them for    *)
(* the rest.                                                               *)
(***************************************************************************)
EXTENDS RequestPipeline, ColumnMigration, TLAPS,
        FunctionTheorems, FiniteSetTheorems, SequenceTheorems

Undecided == {"detect", "authenticate", "authorize"}

\* The role of the bearer of a request's token, now.
BearerRole(r) == IF bearer[r] = None THEN None ELSE role[Owner[bearer[r]]]

Shape ==
  /\ pc \in [Requests -> Undecided \cup {"idle", "before", "save", "read", "after"}]
  /\ kind \in [Requests -> Kinds \cup {None}]
  /\ bearer \in [Requests -> Sessions \cup {None}]
  /\ role \in [Users -> Roles \cup {None}]
  /\ route \in [Requests -> Routes \cup {None}] /\ cached \in Routes \cup {None}
  /\ user \in [Requests -> Users \cup {None}]
  /\ rank \in [Requests -> Roles \cup {None}]
  /\ routes \in [Requests -> SUBSET (Routes \cup {None})]
  /\ ranks \in [Requests -> SUBSET (Roles \cup {None})]

\* What was in force while r was under way includes what is in force now.
Current(r) == pc[r] \in Undecided => cached \in routes[r] /\ BearerRole(r) \in ranks[r]

\* The route r holds, once it is detected, ...
HasRoute(r) ==
  pc[r] \in {"authenticate", "authorize"} =>
    route[r] \in routes[r] /\ (kind[r] # "me" => route[r] # None)

\* ... and the user, once it is authenticated.
HasUser(r) ==
  /\ pc[r] \in {"idle", "detect", "authenticate"} => user[r] = None
  /\ pc[r] = "authorize" /\ user[r] # None =>
       /\ bearer[r] # None /\ user[r] = Owner[bearer[r]]
       /\ rank[r] # None /\ rank[r] \in ranks[r]

Held == \A r \in Requests : Current(r) /\ HasRoute(r) /\ HasUser(r)

ServedInv == Shape /\ Held

\* The decision ServedWasPermitted asks for, as a formula about one request.
Permitted(r) ==
  \E d \in routes[r] \ {None}, q \in ranks[r] :
    LET m == IF kind[r] = "rest" THEN "POST" ELSE "GQL_QUERY"
        u == IF bearer[r] = None THEN None ELSE Owner[bearer[r]]
    IN \/ m \in d.published
       \/ q # None /\ u \in Root
       \/ q # None /\ \E p \in d.permissions : m \in p.methods /\ (u \in p.users \/ p.role = q)

-----------------------------------------------------------------------------
(* The decision. *)

LEMMA AllowedIsPermitted ==
  ASSUME ServedInv, NEW r \in Requests, pc[r] = "authorize", kind[r] # "me", Allowed(r)
  PROVE  Permitted(r)
<1> DEFINE d == route[r]
           m == IF kind[r] = "rest" THEN "POST" ELSE "GQL_QUERY"
           u == IF bearer[r] = None THEN None ELSE Owner[bearer[r]]
<1>1. d \in routes[r] \ {None} /\ BearerRole(r) \in ranks[r]
  BY DEF ServedInv, Held, HasRoute, Current, Undecided
<1>2. \/ m \in d.published
      \/ user[r] # None /\ user[r] \in Root
      \/ user[r] # None /\ \E p \in d.permissions :
                              m \in p.methods /\ (user[r] \in p.users \/ rank[r] = p.role)
  BY DEF Allowed, RoleAllows, ResolverAllows
<1>3. user[r] # None => user[r] = u /\ rank[r] # None /\ rank[r] \in ranks[r]
  BY DEF ServedInv, Held, HasUser
<1>4. CASE m \in d.published
  BY <1>1, <1>4 DEF Permitted
<1>5. CASE user[r] # None /\ user[r] \in Root
  BY <1>1, <1>3, <1>5 DEF Permitted
<1>6. CASE user[r] # None /\ \E p \in d.permissions :
                              m \in p.methods /\ (user[r] \in p.users \/ rank[r] = p.role)
  BY <1>1, <1>3, <1>6 DEF Permitted
<1> QED
  BY <1>2, <1>4, <1>5, <1>6

-----------------------------------------------------------------------------
(* The steps of a request. *)

\* What a request holds and has seen.
RequestVars(q) ==
  <<pc[q], kind[q], bearer[q], route[q], user[q], rank[q], routes[q], ranks[q]>>

LEMMA OnlyOne ==
  ASSUME Held, NEW r \in Requests, cached' = cached, role' = role,
         \A q \in Requests \ {r} : UNCHANGED RequestVars(q),
         Current(r)', HasRoute(r)', HasUser(r)'
  PROVE  Held'
<1> SUFFICES ASSUME NEW q \in Requests PROVE Current(q)' /\ HasRoute(q)' /\ HasUser(q)'
  BY DEF Held
<1>1. CASE q = r
  BY <1>1
<1>2. CASE q # r
  <2>1. UNCHANGED RequestVars(q) /\ Current(q) /\ HasRoute(q) /\ HasUser(q)
    BY <1>2 DEF Held
  <2> QED
    BY <2>1 DEF RequestVars, Current, HasRoute, HasUser, BearerRole
<1> QED
  BY <1>1, <1>2

LEMMA ReceiveHeld ==
  ASSUME ServedInv, NEW r \in Requests, NEW k \in Kinds, NEW s \in Sessions \cup {None},
         Receive(r, k, s)
  PROVE  ServedInv'
<1> USE SessionsAssumption DEF ServedInv, Receive, Goto, heldVars
<1>1. Shape'
  BY DEF Shape, Undecided
<1>2. /\ \A q \in Requests \ {r} : UNCHANGED RequestVars(q)
      /\ cached' = cached /\ role' = role
  BY DEF Shape, RequestVars
<1>3. Current(r)' /\ HasRoute(r)' /\ HasUser(r)'
  BY DEF Shape, Held, Current, HasRoute, HasUser, BearerRole
<1> QED
  BY <1>1, <1>2, <1>3, OnlyOne

LEMMA DetectHeld ==
  ASSUME ServedInv, NEW r \in Requests, Detect(r)
  PROVE  ServedInv'
<1> USE DEF ServedInv, Detect, Step, Goto, seenVars
<1>1. Shape'
  BY DEF Shape, Undecided
<1>2. /\ \A q \in Requests \ {r} : UNCHANGED RequestVars(q)
      /\ cached' = cached /\ role' = role
  BY DEF Shape, RequestVars
<1>3. Current(r)' /\ HasRoute(r)' /\ HasUser(r)'
  BY DEF Shape, Held, Current, HasRoute, HasUser, BearerRole, Undecided
<1> QED
  BY <1>1, <1>2, <1>3, OnlyOne

LEMMA AuthenticateHeld ==
  ASSUME ServedInv, NEW r \in Requests, Authenticate(r) \/ AuthenticateError(r)
  PROVE  ServedInv'
<1> USE SessionsAssumption DEF ServedInv, Step, Goto, seenVars, heldVars
<1>1. CASE AuthenticateError(r)
  <2> USE <1>1 DEF AuthenticateError
  <2>1. Shape'
    BY DEF Shape, Undecided
  <2>2. /\ \A q \in Requests \ {r} : UNCHANGED RequestVars(q)
        /\ cached' = cached /\ role' = role
    BY DEF Shape, RequestVars
  <2>3. Current(r)' /\ HasRoute(r)' /\ HasUser(r)'
    BY DEF Shape, Held, Current, HasRoute, HasUser, BearerRole, Undecided
  <2> QED
    BY <2>1, <2>2, <2>3, OnlyOne
<1>2. CASE Authenticate(r)
  <2> DEFINE s == bearer[r]
             known == /\ s # None /\ s \in access /\ role[Owner[s]] # None
                      /\ ~(kind[r] = "graphql" /\ "GQL_QUERY" \in route[r].published)
  <2>1. /\ pc[r] = "authenticate" /\ pc' = [pc EXCEPT ![r] = "authorize"]
        /\ user' = [user EXCEPT ![r] = IF known THEN Owner[s] ELSE None]
        /\ rank' = [rank EXCEPT ![r] = IF known THEN role[Owner[s]] ELSE None]
        /\ UNCHANGED <<cached, role, kind, bearer, route, routes, ranks>>
    BY <1>2 DEF Authenticate
  <2>2. known => s \in Sessions /\ Owner[s] \in Users /\ role[Owner[s]] \in Roles
    BY DEF Shape
  <2> HIDE DEF known
  <2>3. Shape'
    BY <2>1, <2>2 DEF Shape, Undecided
  <2>4. \A q \in Requests \ {r} : UNCHANGED RequestVars(q)
    BY <2>1 DEF Shape, RequestVars
  <2>5. Current(r)' /\ HasRoute(r)'
    BY <2>1 DEF Shape, Held, Current, HasRoute, BearerRole, Undecided
  <2>6. HasUser(r)'
    <3>1. BearerRole(r) \in ranks[r]
      BY <2>1 DEF Held, Current, Undecided
    <3>2. known => s # None /\ role[Owner[s]] # None
      BY DEF known
    <3> QED
      BY <2>1, <2>2, <3>1, <3>2 DEF Shape, HasUser, BearerRole
  <2> QED
    BY <2>1, <2>3, <2>4, <2>5, <2>6, OnlyOne
<1> QED
  BY <1>1, <1>2

\* An answer, and the steps that follow the decision, leave nothing to be held.
LEMMA ReplyHeld ==
  ASSUME ServedInv, NEW r \in Requests, NEW at, Reply(r, at)
  PROVE  ServedInv'
<1> USE DEF ServedInv, Reply, Release, Goto
<1>1. Shape'
  BY DEF Shape, Undecided
<1>2. /\ \A q \in Requests \ {r} : UNCHANGED RequestVars(q)
      /\ cached' = cached /\ role' = role
  BY DEF Shape, RequestVars
<1>3. Current(r)' /\ HasRoute(r)' /\ HasUser(r)'
  BY DEF Shape, Current, HasRoute, HasUser, Undecided
<1> QED
  BY <1>1, <1>2, <1>3, OnlyOne

LEMMA AuthorizeHeld ==
  ASSUME ServedInv, NEW r \in Requests, Authorize(r)
  PROVE  ServedInv'
<1> USE DEF ServedInv, Authorize, Step, Goto, Release
<1>1. Shape'
  <2>1. /\ pc' \in [Requests -> Undecided \cup {"idle", "before", "save", "read", "after"}]
        /\ UNCHANGED <<kind, bearer, role, cached>>
    BY DEF Shape
  <2>2. user' \in [Requests -> Users \cup {None}]
    BY DEF Shape
  <2>3. /\ route' \in [Requests -> Routes \cup {None}]
        /\ rank' \in [Requests -> Roles \cup {None}]
        /\ routes' \in [Requests -> SUBSET (Routes \cup {None})]
        /\ ranks' \in [Requests -> SUBSET (Roles \cup {None})]
    BY DEF Shape
  <2> QED
    BY <2>1, <2>2, <2>3 DEF Shape
<1>2. /\ \A q \in Requests \ {r} : UNCHANGED RequestVars(q)
      /\ cached' = cached /\ role' = role
  BY DEF Shape, RequestVars
<1>3. Current(r)' /\ HasRoute(r)' /\ HasUser(r)'
  BY DEF Shape, Current, HasRoute, HasUser, Undecided
<1> QED
  BY <1>1, <1>2, <1>3, OnlyOne

LEMMA WorkHeld ==
  ASSUME ServedInv, NEW r \in Requests, BeforeHooks(r) \/ Save(r) \/ Read(r)
  PROVE  ServedInv'
<1> USE DEF ServedInv, BeforeHooks, Save, Read, Step, Goto, heldVars, seenVars
<1>1. Shape'
  BY DEF Shape
<1>2. /\ \A q \in Requests \ {r} : UNCHANGED RequestVars(q)
      /\ cached' = cached /\ role' = role
  BY DEF Shape, RequestVars
<1>3. Current(r)' /\ HasRoute(r)' /\ HasUser(r)'
  BY DEF Shape, Current, HasRoute, HasUser, Undecided
<1> QED
  BY <1>1, <1>2, <1>3, OnlyOne

-----------------------------------------------------------------------------
(* The administrators. *)

LEMMA RedefineHeld ==
  ASSUME ServedInv, NEW d \in Routes \cup {None}, Redefine(d)
  PROVE  ServedInv'
<1> USE DEF ServedInv, Redefine, reqVars, heldVars, Active
<1>1. Shape'
  BY DEF Shape
<1>2. Held'
  BY DEF Shape, Held, Current, HasRoute, HasUser, BearerRole, Undecided
<1> QED
  BY <1>1, <1>2

LEMMA SetRoleHeld ==
  ASSUME ServedInv, NEW u \in Users, NEW q \in Roles \cup {None}, SetRole(u, q)
  PROVE  ServedInv'
<1> USE SessionsAssumption DEF ServedInv, SetRole, reqVars, heldVars, Active
<1>1. Shape'
  BY DEF Shape
<1>2. Held'
  BY DEF Shape, Held, Current, HasRoute, HasUser, BearerRole, Undecided
<1> QED
  BY <1>1, <1>2

LEMMA InitHeld == Init => ServedInv
<1> SUFFICES ASSUME Init PROVE ServedInv
  OBVIOUS
<1>1. Shape
  BY DEF Init, Shape
<1>2. Held
  BY DEF Init, Held, Current, HasRoute, HasUser, Undecided
<1> QED
  BY <1>1, <1>2 DEF ServedInv

\* AuthService and the tokens do not touch requests, routes and roles.
LEMMA AloneHeld ==
  ASSUME ServedInv, UNCHANGED <<cached, role, reqVars, seenVars>>
  PROVE  ServedInv'
BY DEF ServedInv, Shape, Held, Current, HasRoute, HasUser, BearerRole, reqVars, heldVars, seenVars

LEMMA HandleHeld ==
  ASSUME ServedInv, NEW r \in Requests, Handle(r)
  PROVE  ServedInv'
<1>1. CASE Detect(r)                                BY <1>1, DetectHeld
<1>2. CASE NotFound(r)                              BY <1>2, ReplyHeld DEF NotFound
<1>3. CASE Authenticate(r) \/ AuthenticateError(r)  BY <1>3, AuthenticateHeld
<1>4. CASE Authorize(r)                             BY <1>4, AuthorizeHeld
<1>5. CASE Refuse(r)                                BY <1>5, ReplyHeld DEF Refuse
<1>6. CASE BeforeHooks(r) \/ Save(r) \/ Read(r)     BY <1>6, WorkHeld
<1>7. CASE BeforeHookAnswer(r) \/ SaveError(r) \/ ReadError(r) \/ AfterHooks(r)
  BY <1>7, ReplyHeld DEF BeforeHookAnswer, SaveError, ReadError, AfterHooks
<1> QED
  BY <1>1, <1>2, <1>3, <1>4, <1>5, <1>6, <1>7 DEF Handle

LEMMA NextHeld == ServedInv /\ [Next]_vars => ServedInv'
<1> SUFFICES ASSUME ServedInv, [Next]_vars PROVE ServedInv'
  OBVIOUS
<1>1. ASSUME NEW r \in Requests, NEW k \in Kinds, NEW s \in Sessions \cup {None}, Receive(r, k, s)
      PROVE  ServedInv'
  BY <1>1, ReceiveHeld
<1>2. ASSUME NEW r \in Requests, Handle(r) PROVE ServedInv'
  BY <1>2, HandleHeld
<1>3. ASSUME NEW c \in Calls, NEW s \in Sessions, Call(c, s, "refresh") \/ Call(c, s, "logout")
      PROVE  ServedInv'
  BY <1>3, AloneHeld DEF Call
<1>4. ASSUME NEW c \in Calls, SignTokens(c) \/ EndSession(c) \/ CallError(c) PROVE ServedInv'
  BY <1>4, AloneHeld DEF SignTokens, EndSession, CallError, AtCall
<1>5. ASSUME NEW s \in Sessions, Login(s) \/ ExpireAccess(s) \/ ExpireRefresh(s) PROVE ServedInv'
  BY <1>5, AloneHeld DEF Login, ExpireAccess, ExpireRefresh
<1>6. ASSUME NEW d \in Routes \cup {None}, Redefine(d) PROVE ServedInv'
  BY <1>6, RedefineHeld
<1>7. ASSUME NEW u \in Users, NEW q \in Roles \cup {None}, SetRole(u, q) PROVE ServedInv'
  BY <1>7, SetRoleHeld
<1>8. CASE UNCHANGED vars
  BY <1>8, AloneHeld DEF vars
<1> QED
  BY <1>1, <1>2, <1>3, <1>4, <1>5, <1>6, <1>7, <1>8 DEF Next

-----------------------------------------------------------------------------

\* The only step that takes a request from its decision to its hooks is Authorize.
LEMMA Decided ==
  ASSUME ServedInv, [Next]_vars, NEW r \in Requests,
         pc[r] = "authorize", pc'[r] \notin {"authorize", "idle"}
  PROVE  Allowed(r)
<1> USE DEF Goto, Step, Reply
<1>0. pc \in [Requests -> Undecided \cup {"idle", "before", "save", "read", "after"}]
  BY DEF ServedInv, Shape
<1>1. ASSUME NEW q \in Requests, Handle(q) PROVE Allowed(r)
  <2>1. CASE Authorize(q)
    BY <1>0, <2>1 DEF Authorize
  <2>2. CASE ~Authorize(q)
    BY <1>0, <1>1, <2>2 DEF Handle, Detect, NotFound, Authenticate, AuthenticateError, Refuse,
       BeforeHooks, BeforeHookAnswer, Save, SaveError, Read, ReadError, AfterHooks
  <2> QED
    BY <2>1, <2>2
<1>2. ASSUME NEW q \in Requests, NEW k \in Kinds, NEW s \in Sessions \cup {None}, Receive(q, k, s)
      PROVE  Allowed(r)
  BY <1>0, <1>2 DEF Receive
<1>3. CASE UNCHANGED pc
  BY <1>3
<1>4. \/ \E q \in Requests, k \in Kinds, s \in Sessions \cup {None} : Receive(q, k, s)
      \/ \E q \in Requests : Handle(q)
      \/ UNCHANGED pc
  BY DEF Next, Call, SignTokens, EndSession, CallError, AtCall, Login, ExpireAccess, ExpireRefresh,
     Redefine, SetRole, reqVars, vars
<1> QED
  BY <1>1, <1>2, <1>3, <1>4

\* Hooks and handlers run only for a request that a route and a role in force while
\* it was under way permit, for any number of requests, users and definitions.
THEOREM OnlyPermittedServed == Spec => ServedWasPermitted
<1>1. ServedInv /\ [Next]_vars =>
        [\A r \in Requests : pc[r] = "authorize" /\ pc'[r] \notin {"authorize", "idle"} /\ kind[r] # "me" =>
           Permitted(r)]_vars
  BY Decided, AllowedIsPermitted
<1> QED
  BY <1>1, InitHeld, NextHeld, PTL DEF Spec, ServedWasPermitted, Permitted

-----------------------------------------------------------------------------
(* The sessions and their tokens. *)

\* A token, and a call of AuthService, is of a session that was opened; a call is
\* idle exactly while it holds no session, a request while it asks for nothing.
Opened ==
  /\ session \in [Sessions -> {"none", "live", "gone"}]
  /\ access \subseteq Sessions /\ refresh \subseteq Sessions
  /\ step \in [Calls -> {"idle", "refresh", "logout"}]
  /\ held \in [Calls -> Sessions \cup {None}]
  /\ \A s \in access \cup refresh : session[s] # "none"
  /\ \A c \in Calls : step[c] = "idle" <=> held[c] = None
  /\ \A c \in Calls : held[c] # None => session[held[c]] # "none"

Idle == \A r \in Requests : pc[r] = "idle" <=> kind[r] = None

\* The steps of requests and administrators leave the sessions alone.
LEMMA AuthSteps ==
  ASSUME [Next]_vars
  PROVE  \/ \E c \in Calls, s \in Sessions : Call(c, s, "refresh") \/ Call(c, s, "logout")
         \/ \E c \in Calls : SignTokens(c) \/ EndSession(c) \/ CallError(c)
         \/ \E s \in Sessions : Login(s) \/ ExpireAccess(s) \/ ExpireRefresh(s)
         \/ UNCHANGED <<authVars, callVars>>
<1>1. ASSUME NEW r \in Requests, Handle(r)
      PROVE  UNCHANGED <<authVars, callVars>>
  BY <1>1 DEF Handle, Detect, NotFound, Authenticate, AuthenticateError, Authorize, Refuse,
     BeforeHooks, BeforeHookAnswer, Save, SaveError, Read, ReadError, AfterHooks, Step, Reply
<1>2. ASSUME NEW r \in Requests, NEW k \in Kinds, NEW s \in Sessions \cup {None}, Receive(r, k, s)
      PROVE  UNCHANGED <<authVars, callVars>>
  BY <1>2 DEF Receive
<1>3. ASSUME NEW d \in Routes \cup {None}, Redefine(d)
      PROVE  UNCHANGED <<authVars, callVars>>
  BY <1>3 DEF Redefine
<1>4. ASSUME NEW u \in Users, NEW q \in Roles \cup {None}, SetRole(u, q)
      PROVE  UNCHANGED <<authVars, callVars>>
  BY <1>4 DEF SetRole
<1>5. UNCHANGED vars => UNCHANGED <<authVars, callVars>>
  BY DEF vars
<1> QED
  BY <1>1, <1>2, <1>3, <1>4, <1>5 DEF Next

\* Every step of a session, a token or a call of AuthService keeps to this.
LEMMA OpenedNext ==
  ASSUME Opened, [Next]_vars
  PROVE  Opened'
<1> USE UsersAssumption DEF Opened
<1>1. ASSUME NEW c \in Calls, NEW s \in Sessions, Call(c, s, "refresh") \/ Call(c, s, "logout")
      PROVE  Opened'
  BY <1>1 DEF Call, authVars
<1>2. ASSUME NEW c \in Calls, SignTokens(c)
      PROVE  Opened'
  BY <1>2 DEF SignTokens, AtCall
<1>3. ASSUME NEW c \in Calls, EndSession(c)
      PROVE  Opened'
  BY <1>3 DEF EndSession, AtCall
<1>4. ASSUME NEW c \in Calls, CallError(c)
      PROVE  Opened'
  BY <1>4 DEF CallError, AtCall, authVars
<1>5. ASSUME NEW s \in Sessions, Login(s) \/ ExpireAccess(s) \/ ExpireRefresh(s)
      PROVE  Opened'
  BY <1>5 DEF Login, ExpireAccess, ExpireRefresh, callVars
<1>6. CASE UNCHANGED <<authVars, callVars>>
  BY <1>6 DEF authVars, callVars
<1> QED
  BY AuthSteps, <1>1, <1>2, <1>3, <1>4, <1>5, <1>6

\* A request asks for something from Receive to its answer.
LEMMA IdleNext ==
  ASSUME Shape, Idle, [Next]_vars
  PROVE  Idle'
<1> USE UsersAssumption DEF Shape, Idle
<1>1. ASSUME NEW r \in Requests, NEW k \in Kinds, NEW s \in Sessions \cup {None}, Receive(r, k, s)
      PROVE  Idle'
  BY <1>1 DEF Receive, Goto
<1>2. ASSUME NEW r \in Requests, NEW at, at # "idle", Reply(r, at)
      PROVE  Idle'
  BY <1>2 DEF Reply, Goto
<1>3. ASSUME NEW r \in Requests, NEW from, NEW to, from # "idle", to # "idle", Step(r, from, to)
      PROVE  Idle'
  BY <1>3 DEF Step, Goto
<1>4. ASSUME NEW r \in Requests, Handle(r)
      PROVE  Idle'
  BY <1>2, <1>3, <1>4 DEF Handle, Detect, NotFound, Authenticate, AuthenticateError, Authorize, Refuse,
     BeforeHooks, BeforeHookAnswer, Save, SaveError, Read, ReadError, AfterHooks
<1>5. CASE UNCHANGED <<pc, kind>>
  BY <1>5
<1>6. \/ \E r \in Requests, k \in Kinds, s \in Sessions \cup {None} : Receive(r, k, s)
      \/ \E r \in Requests : Handle(r)
      \/ UNCHANGED <<pc, kind>>
  BY DEF Next, Call, SignTokens, EndSession, CallError, AtCall, Login, ExpireAccess, ExpireRefresh,
     Redefine, SetRole, reqVars, vars
<1> QED
  BY <1>1, <1>4, <1>5, <1>6

\* Whatever else is known of a request, in every reachable state.
LEMMA OpenedInvariant == Spec => [](ServedInv /\ Opened /\ Idle)
<1>1. Init => Opened /\ Idle
  BY UsersAssumption DEF Init, Opened, Idle
<1>2. ServedInv => Shape
  BY DEF ServedInv
<1> QED
  BY <1>1, <1>2, InitHeld, NextHeld, OpenedNext, IdleNext, PTL DEF Spec

\* The types of RequestPipeline; in particular, every token is one of a session that
\* was opened, and so is the session a call of AuthService works on.
THEOREM RequestsTyped == Spec => []TypeOK
<1>1. ServedInv /\ Opened /\ Idle => TypeOK
  BY DEF ServedInv, Shape, Opened, Idle, TypeOK
<1> QED
  BY <1>1, OpenedInvariant, PTL

\* A session that is over: deleted, its tokens expired, no refresh of it under way.
Over(s) ==
  /\ session[s] = "gone" /\ s \notin access /\ s \notin refresh
  /\ \A c \in Calls : held[c] = s => step[c] # "refresh"

\* A call that holds a session that is over is a logout: it deletes nothing more.
LEMMA OverStays ==
  ASSUME Opened, [Next]_vars, NEW s \in Sessions, Over(s)
  PROVE  Over(s)'
<1> USE UsersAssumption DEF Opened, Over
<1>1. ASSUME NEW c \in Calls, NEW t \in Sessions, Call(c, t, "refresh") \/ Call(c, t, "logout")
      PROVE  Over(s)'
  BY <1>1 DEF Call, authVars
<1>2. ASSUME NEW c \in Calls, SignTokens(c)
      PROVE  Over(s)'
  BY <1>2 DEF SignTokens, AtCall
<1>3. ASSUME NEW c \in Calls, EndSession(c)
      PROVE  Over(s)'
  BY <1>3 DEF EndSession, AtCall
<1>4. ASSUME NEW c \in Calls, CallError(c)
      PROVE  Over(s)'
  BY <1>4 DEF CallError, AtCall, authVars
<1>5. ASSUME NEW t \in Sessions, Login(t) \/ ExpireAccess(t) \/ ExpireRefresh(t)
      PROVE  Over(s)'
  BY <1>5 DEF Login, ExpireAccess, ExpireRefresh, callVars
<1>6. CASE UNCHANGED <<authVars, callVars>>
  BY <1>6 DEF authVars, callVars
<1> QED
  BY AuthSteps, <1>1, <1>2, <1>3, <1>4, <1>5, <1>6

\* A session that is over stays so: neither a refresh, nor a logout that comes late, nor
\* a login gives it a token again.  This is the half of LogoutEnds that needs no
\* fairness: what is left to show is that each session that is gone becomes Over.
THEOREM OverIsFinal ==
  Spec => [][\A s \in Sessions : Over(s) => Over(s)']_vars
<1>1. ServedInv /\ Opened /\ Idle /\ [Next]_vars =>
        [\A s \in Sessions : Over(s) => Over(s)']_vars
  BY OverStays
<1> QED
  BY <1>1, OpenedInvariant, PTL DEF Spec

-----------------------------------------------------------------------------
(* The list of statements. *)

\* order is a strict order on S that is total.
Orders(order, S) ==
  /\ \A x \in S : <<x, x>> \notin order
  /\ \A x, y, z \in S : <<x, y>> \in order /\ <<y, z>> \in order => <<x, z>> \in order
  /\ \A x, y \in S : x # y => <<x, y>> \in order \/ <<y, x>> \in order

\* Listed finds for every place exactly one member.
\* A list in order has every member once, at the place its order gives it.
LEMMA InOrderLists ==
  ASSUME NEW S, IsFiniteSet(S), NEW order, Orders(order, S)
  PROVE  LET n == Cardinality(S)
             list == InOrder(S, order)
         IN  /\ n \in Nat
             /\ list \in [1 .. n -> S]
             /\ \A x \in S : \E i \in 1 .. n : list[i] = x
             /\ \A i, j \in 1 .. n : list[i] = list[j] => i = j
             /\ \A i, j \in 1 .. n : <<list[i], list[j]>> \in order <=> i < j
<1> DEFINE n == Cardinality(S)
           list == InOrder(S, order)
           below(x) == {y \in S : <<y, x>> \in order}
           nth == [x \in S |-> Cardinality(below(x))]
<1>1. n \in Nat
  BY FS_CardinalityType
<1>2. ASSUME NEW x \in S PROVE IsFiniteSet(below(x)) /\ nth[x] \in 0 .. n - 1
  <2>1. below(x) \in SUBSET (S \ {x})
    BY DEF Orders
  <2>2. IsFiniteSet(S \ {x}) /\ Cardinality(S \ {x}) = n - 1
    BY FS_RemoveElement
  <2> HIDE DEF below
  <2>3. IsFiniteSet(below(x)) /\ Cardinality(below(x)) <= n - 1
    BY <2>1, <2>2, FS_Subset
  <2>4. Cardinality(below(x)) \in Nat
    BY <2>3, FS_CardinalityType
  <2> QED BY <1>1, <2>3, <2>4
<1>3. ASSUME NEW x \in S, NEW y \in S, <<x, y>> \in order PROVE nth[x] < nth[y]
  <2>1. below(x) \in SUBSET below(y) /\ x \in below(y) /\ x \notin below(x)
    BY <1>3 DEF Orders
  <2> HIDE DEF below
  <2>2. IsFiniteSet(below(y))
    BY <1>2
  <2>3. Cardinality(below(x)) <= Cardinality(below(y))
        /\ (Cardinality(below(y)) = Cardinality(below(x)) => below(y) = below(x))
    BY <2>1, <2>2, FS_Subset
  <2> QED BY <1>2, <2>1, <2>3
<1>4. nth \in [S -> 0 .. n - 1]
  BY <1>2
<1>5. \A x, y \in S : nth[x] = nth[y] => x = y
  <2> SUFFICES ASSUME NEW x \in S, NEW y \in S, nth[x] = nth[y], x # y PROVE FALSE
    OBVIOUS
  <2>1. <<x, y>> \in order \/ <<y, x>> \in order
    BY DEF Orders
  <2>2. nth[x] \in Nat /\ nth[y] \in Nat
    BY <1>2
  <2>3. nth[x] < nth[y] \/ nth[y] < nth[x]
    BY <1>3, <2>1
  <2> QED BY <2>2, <2>3
<1>6. nth \in Injection(S, 0 .. n - 1)
  BY <1>4, <1>5, Fun_IsInj
<1>7. \A k \in 0 .. n - 1 : \E x \in S : nth[x] = k
  <2>1. IsFiniteSet(0 .. n - 1) /\ Cardinality(0 .. n - 1) = n
    BY <1>1, FS_Interval
  <2>2. nth \in Surjection(S, 0 .. n - 1)
    BY <1>6, <2>1, FS_Injection
  <2> HIDE DEF nth
  <2> QED BY <2>2 DEF Surjection
<1>8. ASSUME NEW i \in 1 .. n PROVE list[i] \in S /\ nth[list[i]] = i - 1
  <2>1. list[i] = CHOOSE x \in S : Cardinality(below(x)) = i - 1
    BY DEF InOrder
  <2>2. i - 1 \in 0 .. n - 1
    BY <1>1
  <2>3. \E x \in S : Cardinality(below(x)) = i - 1
    BY <1>7, <2>2
  <2> HIDE DEF below, list
  <2>4. list[i] \in S /\ Cardinality(below(list[i])) = i - 1
    BY <2>1, <2>3
  <2> QED BY <2>4
<1>9. list = [i \in 1 .. n |-> list[i]]
  <2> DEFINE at(i) == CHOOSE x \in S : Cardinality({y \in S : <<y, x>> \in order}) = i - 1
  <2>1. list = [i \in 1 .. n |-> at(i)]
    BY DEF InOrder
  <2> HIDE DEF list, at
  <2> QED BY <2>1
<1> HIDE DEF list, nth
<1>10. list \in [1 .. n -> S]
  BY <1>8, <1>9
<1>11. \A x \in S : \E i \in 1 .. n : list[i] = x
  <2> SUFFICES ASSUME NEW x \in S PROVE \E i \in 1 .. n : list[i] = x
    OBVIOUS
  <2>1. nth[x] \in 0 .. n - 1 /\ nth[x] + 1 \in 1 .. n
    BY <1>1, <1>4
  <2>2. nth[list[nth[x] + 1]] = nth[x] /\ list[nth[x] + 1] \in S
    BY <1>8, <2>1
  <2> QED BY <1>5, <2>1, <2>2
<1>12. \A i, j \in 1 .. n : list[i] = list[j] => i = j
  BY <1>1, <1>8
<1>13. \A i, j \in 1 .. n : <<list[i], list[j]>> \in order <=> i < j
  <2> SUFFICES ASSUME NEW i \in 1 .. n, NEW j \in 1 .. n
               PROVE  <<list[i], list[j]>> \in order <=> i < j
    OBVIOUS
  <2>1. <<list[i], list[j]>> \in order => i < j
    BY <1>1, <1>3, <1>8
  <2>2. <<list[j], list[i]>> \in order => j < i
    BY <1>1, <1>3, <1>8
  <2>3. i < j => list[i] # list[j]
    BY <1>1, <1>8
  <2>4. list[i] # list[j] => <<list[i], list[j]>> \in order \/ <<list[j], list[i]>> \in order
    BY <1>8 DEF Orders
  <2> QED BY <1>1, <2>1, <2>2, <2>3, <2>4
<1> QED BY <1>1, <1>10, <1>11, <1>12, <1>13 DEF list

\* Positions are ordered by the first number in which they differ.
LEMMA BeforeOrders ==
  /\ \A x \in [1 .. 4 -> Nat] : ~Before(x, x)
  /\ \A x, y, z \in [1 .. 4 -> Nat] : Before(x, y) /\ Before(y, z) => Before(x, z)
  /\ \A x, y \in [1 .. 4 -> Nat] : x # y => Before(x, y) \/ Before(y, x)
<1>1. ASSUME NEW x \in [1 .. 4 -> Nat], NEW y \in [1 .. 4 -> Nat]
      PROVE  Before(x, y) <=>
               \/ x[1] < y[1]
               \/ x[1] = y[1] /\ x[2] < y[2]
               \/ x[1] = y[1] /\ x[2] = y[2] /\ x[3] < y[3]
               \/ x[1] = y[1] /\ x[2] = y[2] /\ x[3] = y[3] /\ x[4] < y[4]
  <2>1. DOMAIN x = {1, 2, 3, 4}
    OBVIOUS
  <2>2. 1 .. 1 - 1 = {} /\ 1 .. 2 - 1 = {1} /\ 1 .. 3 - 1 = {1, 2} /\ 1 .. 4 - 1 = {1, 2, 3}
    OBVIOUS
  <2>3. Before(x, y) <=> \E i \in {1, 2, 3, 4} : x[i] < y[i] /\ \A j \in 1 .. i - 1 : x[j] = y[j]
    BY <2>1 DEF Before
  <2> QED BY <2>2, <2>3
<1>2. \A x, y \in [1 .. 4 -> Nat] :
        x[1] = y[1] /\ x[2] = y[2] /\ x[3] = y[3] /\ x[4] = y[4] => x = y
  <2> SUFFICES ASSUME NEW x \in [1 .. 4 -> Nat], NEW y \in [1 .. 4 -> Nat],
                      x[1] = y[1] /\ x[2] = y[2] /\ x[3] = y[3] /\ x[4] = y[4]
               PROVE  x = y
    OBVIOUS
  <2>1. \A i \in 1 .. 4 : x[i] = y[i]
    <3> TAKE i \in 1 .. 4
    <3>1. i = 1 \/ i = 2 \/ i = 3 \/ i = 4
      OBVIOUS
    <3> QED BY <3>1
  <2> QED BY <2>1
<1>3. \A x \in [1 .. 4 -> Nat] : x[1] \in Nat /\ x[2] \in Nat /\ x[3] \in Nat /\ x[4] \in Nat
  OBVIOUS
<1>4. \A x \in [1 .. 4 -> Nat] : ~Before(x, x)
  BY <1>1, <1>3
<1>5. \A x, y, z \in [1 .. 4 -> Nat] : Before(x, y) /\ Before(y, z) => Before(x, z)
  <2> TAKE x, y, z \in [1 .. 4 -> Nat]
  <2> HAVE Before(x, y) /\ Before(y, z)
  <2> QED BY <1>1, <1>3
<1>6. \A x, y \in [1 .. 4 -> Nat] : x # y => Before(x, y) \/ Before(y, x)
  <2> TAKE x, y \in [1 .. 4 -> Nat]
  <2> HAVE x # y
  <2>1. x[1] # y[1] \/ x[2] # y[2] \/ x[3] # y[3] \/ x[4] # y[4]
    BY <1>2
  <2> QED BY <1>1, <1>3, <2>1
<1> QED BY <1>4, <1>5, <1>6

\* A schema is a function from some of the names.
LEMMA PartialIs ==
  ASSUME NEW S, NEW T, NEW f
  PROVE  f \in Partial(S, T) <=> DOMAIN f \in SUBSET S /\ f \in [DOMAIN f -> T]
BY DEF Partial

\* Every table and every column has its own place among the names.
LEMMA Places ==
  /\ IsFiniteSet(TableNames) /\ IsFiniteSet(ColumnNames)
  /\ AntiFunction(Tables) \in [TableNames -> Nat] /\ AntiFunction(Columns) \in [ColumnNames -> Nat]
  /\ \A x, y \in TableNames : AntiFunction(Tables)[x] = AntiFunction(Tables)[y] => x = y
  /\ \A x, y \in ColumnNames : AntiFunction(Columns)[x] = AntiFunction(Columns)[y] => x = y
<1>1. ASSUME NEW s, s \in Seq(Range(s))
      PROVE  /\ IsFiniteSet(Range(s))
             /\ AntiFunction(s) \in [Range(s) -> Nat]
             /\ \A x, y \in Range(s) : AntiFunction(s)[x] = AntiFunction(s)[y] => x = y
  <2>1. Len(s) \in Nat /\ DOMAIN s = 1 .. Len(s) /\ s \in [1 .. Len(s) -> Range(s)]
    BY <1>1, LenProperties
  <2>2. s \in Surjection(1 .. Len(s), Range(s))
    BY <2>1, Fun_RangeProperties
  <2>3. IsFiniteSet(1 .. Len(s))
    BY <2>1, FS_Interval
  <2>4. IsFiniteSet(Range(s))
    BY <2>2, <2>3, FS_Surjection
  <2> DEFINE place(y) == CHOOSE i \in DOMAIN s : y \in Range(s) => s[i] = y
  <2>5. AntiFunction(s) = [y \in Range(s) |-> place(y)]
    BY DEF AntiFunction, Inverse
  <2>6. ASSUME NEW y \in Range(s) PROVE place(y) \in DOMAIN s /\ s[place(y)] = y
    <3>1. \E i \in DOMAIN s : y \in Range(s) => s[i] = y
      BY DEF Range
    <3> QED BY <3>1
  <2> HIDE DEF place
  <2>7. AntiFunction(s) \in [Range(s) -> Nat]
    BY <2>1, <2>5, <2>6
  <2> QED BY <2>4, <2>5, <2>6, <2>7
<1> QED BY <1>1, MigrationConstants DEF TableNames, ColumnNames

\* A column is gone, new or of another type: one of them at most.
LEMMA CellsApart ==
  ASSUME NEW db, NEW es
  PROVE  /\ Differing(db, es) \in SUBSET (TableNames \X ColumnNames)
         /\ Differing(es, db) \in SUBSET (TableNames \X ColumnNames)
         /\ Retyped(db, es) \in SUBSET (TableNames \X ColumnNames)
         /\ Differing(db, es) \cap Differing(es, db) = {}
         /\ Differing(db, es) \cap Retyped(db, es) = {}
         /\ Differing(es, db) \cap Retyped(db, es) = {}
BY DEF Differing, Retyped, Common

\* There are finitely many columns.
LEMMA FiniteCells ==
  ASSUME NEW db, NEW es, NEW P \in SUBSET (TableNames \X ColumnNames)
  PROVE  IsFiniteSet(P)
BY Places, FS_Product, FS_Subset

\* A migration has finitely many statements.
LEMMA NeededFinite ==
  ASSUME NEW db, NEW es, DOMAIN es \in SUBSET TableNames
  PROVE  IsFiniteSet(Needed(db, es))
<1> DEFINE T == DOMAIN es \ DOMAIN db
           D == Differing(db, es) \cup Retyped(db, es)
           A == Differing(es, db) \cup Retyped(db, es)
           creates == {Create(t) : t \in T}
           drops == {Drop(p) : p \in D}
           adds == {Add(p, es) : p \in A}
<1>1. IsFiniteSet(T)
  BY Places, FS_Subset
<1>2. IsFiniteSet(D) /\ IsFiniteSet(A)
  BY CellsApart, FiniteCells
<1> HIDE DEF T, D, A
<1>3. IsFiniteSet(creates)
  <2>1. [t \in T |-> Create(t)] \in Surjection(T, creates)
    BY Fun_IsSurj
  <2> QED BY <1>1, <2>1, FS_Surjection
<1>4. IsFiniteSet(drops)
  <2>1. [p \in D |-> Drop(p)] \in Surjection(D, drops)
    BY Fun_IsSurj
  <2> QED BY <1>2, <2>1, FS_Surjection
<1>5. IsFiniteSet(adds)
  <2>1. /\ [p \in A |-> Add(p, es)] \in [A -> adds]
        /\ \A s \in adds : \E p \in A : [q \in A |-> Add(q, es)][p] = s
    OBVIOUS
  <2>2. [p \in A |-> Add(p, es)] \in Surjection(A, adds)
    BY <2>1, Fun_IsSurj
  <2> QED BY <1>2, <2>2, FS_Surjection
<1>6. Needed(db, es) = (creates \cup drops) \cup adds
  BY DEF Needed, T, D, A
<1> HIDE DEF creates, drops, adds
<1>7. IsFiniteSet(creates \cup drops)
  BY <1>3, <1>4, FS_Union
<1>8. IsFiniteSet((creates \cup drops) \cup adds)
  BY <1>5, <1>7, FS_Union
<1> QED BY <1>6, <1>8

\* The statements the schema builder writes, by what they are for.
LEMMA NeededAre ==
  ASSUME NEW db, NEW es
  PROVE  \A s \in Needed(db, es) :
           \/ \E t \in DOMAIN es \ DOMAIN db : s = Create(t)
           \/ \E p \in Differing(db, es) : s = Drop(p)
           \/ \E p \in Differing(es, db) : s = Add(p, es)
           \/ \E p \in Retyped(db, es) : s = Drop(p) \/ s = Add(p, es)
BY DEF Needed

\* The position of every statement.
LEMMA PositionsAre ==
  ASSUME NEW db, NEW es
  PROVE  /\ \A t \in TableNames :
              Position(Create(t), db, es) = <<0, AntiFunction(Tables)[t], 0, 0>>
         /\ \A p \in TableNames \X ColumnNames :
              LET at == AntiFunction(Tables)[p[1]]
                  on == AntiFunction(Columns)[p[2]]
              IN  /\ p \in Differing(db, es) => Position(Drop(p), db, es) = <<1, at, on, 0>>
                  /\ p \in Differing(es, db) => Position(Add(p, es), db, es) = <<2, at, on, 1>>
                  /\ p \in Retyped(db, es) => /\ Position(Drop(p), db, es) = <<3, at, on, 0>>
                                              /\ Position(Add(p, es), db, es) = <<3, at, on, 1>>
<1>1. \A t \in TableNames :
              Position(Create(t), db, es) = <<0, AntiFunction(Tables)[t], 0, 0>>
  BY DEF Position, Create, Statement
<1>2. ASSUME NEW p \in TableNames \X ColumnNames
      PROVE  LET at == AntiFunction(Tables)[p[1]]
                  on == AntiFunction(Columns)[p[2]]
              IN  /\ p \in Differing(db, es) => Position(Drop(p), db, es) = <<1, at, on, 0>>
                  /\ p \in Differing(es, db) => Position(Add(p, es), db, es) = <<2, at, on, 1>>
                  /\ p \in Retyped(db, es) => /\ Position(Drop(p), db, es) = <<3, at, on, 0>>
                                              /\ Position(Add(p, es), db, es) = <<3, at, on, 1>>
  <2>1. <<p[1], p[2]>> = p
    OBVIOUS
  <2>2. p \in Differing(db, es) \cup Differing(es, db) => p \notin Retyped(db, es)
    BY CellsApart
  <2> QED BY <2>1, <2>2 DEF Position, Drop, Add, Statement
<1> QED BY <1>1, <1>2

\* No two statements have the same position.
LEMMA PositionsDiffer ==
  ASSUME NEW db, NEW es, DOMAIN es \in SUBSET TableNames
  PROVE  /\ \A s \in Needed(db, es) : Position(s, db, es) \in [1 .. 4 -> Nat]
         /\ \A r, s \in Needed(db, es) : Position(r, db, es) = Position(s, db, es) => r = s
<1> DEFINE T == DOMAIN es \ DOMAIN db
           at(p) == AntiFunction(Tables)[p[1]]
           on(p) == AntiFunction(Columns)[p[2]]
           Cells == TableNames \X ColumnNames
           D == Differing(db, es)
           A == Differing(es, db)
           R == Retyped(db, es)
           N == Needed(db, es)
           P(s) == Position(s, db, es)
<1>1. \A t \in T : t \in TableNames /\ P(Create(t)) = <<0, AntiFunction(Tables)[t], 0, 0>>
  BY PositionsAre
<1>2. \A p \in D : p \in Cells /\ P(Drop(p)) = <<1, at(p), on(p), 0>>
  BY PositionsAre, CellsApart
<1>3. \A p \in A : p \in Cells /\ P(Add(p, es)) = <<2, at(p), on(p), 1>>
  BY PositionsAre, CellsApart
<1>4. \A p \in R : /\ p \in Cells
                   /\ P(Drop(p)) = <<3, at(p), on(p), 0>> /\ P(Add(p, es)) = <<3, at(p), on(p), 1>>
  BY PositionsAre, CellsApart
<1>5. \A s \in N :
           \/ \E t \in T : s = Create(t)
           \/ \E p \in D : s = Drop(p)
           \/ \E p \in A : s = Add(p, es)
           \/ \E p \in R : s = Drop(p) \/ s = Add(p, es)
  BY NeededAre
<1>6. \A p \in Cells : at(p) \in Nat /\ on(p) \in Nat
  BY Places
<1>7. \A p, q \in Cells : at(p) = at(q) /\ on(p) = on(q) => p = q
  BY Places
<1>8. \A t \in T : AntiFunction(Tables)[t] \in Nat
  BY Places, <1>1
<1>9. \A t, u \in T : AntiFunction(Tables)[t] = AntiFunction(Tables)[u] => t = u
  BY Places, <1>1
<1> HIDE DEF T, D, A, R, N, P, at, on, Cells
<1>10. \A a, b, c, d \in Nat : <<a, b, c, d>> \in [1 .. 4 -> Nat]
  OBVIOUS
<1>11. \A s \in N : P(s) \in [1 .. 4 -> Nat]
  BY <1>1, <1>2, <1>3, <1>4, <1>5, <1>6, <1>8, <1>10
<1>12. \A r, s \in N : P(r) = P(s) => r = s
  <2> SUFFICES ASSUME NEW r \in N, NEW s \in N, P(r) = P(s) PROVE r = s
    OBVIOUS
  <2>1. CASE \E t \in T : r = Create(t)
    BY <1>1, <1>2, <1>3, <1>4, <1>5, <1>9, <2>1
  <2>2. CASE \E p \in D : r = Drop(p)
    BY <1>1, <1>2, <1>3, <1>4, <1>5, <1>7, <2>2
  <2>3. CASE \E p \in A : r = Add(p, es)
    BY <1>1, <1>2, <1>3, <1>4, <1>5, <1>7, <2>3
  <2>4. CASE \E p \in R : r = Drop(p) \/ r = Add(p, es)
    BY <1>1, <1>2, <1>3, <1>4, <1>5, <1>7, <2>4
  <2> QED BY <1>5, <2>1, <2>2, <2>3, <2>4
<1> QED BY <1>11, <1>12 DEF N, P

\* The list of statements holds every needed one once, by its stage, and a column
\* that is dropped to be added again is added right after.
LEMMA StatementsList ==
  ASSUME NEW db, NEW es, DOMAIN es \in SUBSET TableNames
  PROVE  LET n == Cardinality(Needed(db, es))
             st == Statements(db, es)
         IN  /\ n \in Nat
             /\ st \in [1 .. n -> Needed(db, es)]
             /\ \A s \in Needed(db, es) : \E i \in 1 .. n : st[i] = s
             /\ \A i, j \in 1 .. n : st[i] = st[j] => i = j
             /\ \A i, j \in 1 .. n :
                  i < j => Position(st[i], db, es)[1] <= Position(st[j], db, es)[1]
             /\ \A i \in 1 .. n, p \in Retyped(db, es) :
                  st[i] = Drop(p) => i + 1 \in 1 .. n /\ st[i + 1] = Add(p, es)
<1> DEFINE N == Needed(db, es)
           P(s) == Position(s, db, es)
           order == {p \in N \X N : Before(P(p[1]), P(p[2]))}
           n == Cardinality(N)
           st == Statements(db, es)
<1>1. IsFiniteSet(N)
  BY NeededFinite
<1>2. /\ \A s \in N : P(s) \in [1 .. 4 -> Nat]
      /\ \A r, s \in N : P(r) = P(s) => r = s
  BY PositionsDiffer
<1>3. \A r, s \in N : <<r, s>> \in order <=> Before(P(r), P(s))
  OBVIOUS
<1>4. st = InOrder(N, order)
  BY DEF Statements
<1> HIDE DEF N, P, order, st
<1>5. Orders(order, N)
  BY <1>2, <1>3, BeforeOrders DEF Orders
<1>6. /\ n \in Nat
      /\ st \in [1 .. n -> N]
      /\ \A s \in N : \E i \in 1 .. n : st[i] = s
      /\ \A i, j \in 1 .. n : st[i] = st[j] => i = j
      /\ \A i, j \in 1 .. n : <<st[i], st[j]>> \in order <=> i < j
  BY <1>1, <1>4, <1>5, InOrderLists
<1> HIDE DEF n
<1>7. \A i, j \in 1 .. n : Before(P(st[i]), P(st[j])) <=> i < j
  BY <1>3, <1>6
<1>8. \A x, y \in [1 .. 4 -> Nat] : Before(x, y) => x[1] <= y[1]
  BY DEF Before
<1>9. \A i, j \in 1 .. n : i < j => P(st[i])[1] <= P(st[j])[1]
  BY <1>2, <1>6, <1>7, <1>8
<1>10. ASSUME NEW i \in 1 .. n, NEW p \in Retyped(db, es), st[i] = Drop(p)
       PROVE  i + 1 \in 1 .. n /\ st[i + 1] = Add(p, es)
  <2> DEFINE at == AntiFunction(Tables)[p[1]]
             on == AntiFunction(Columns)[p[2]]
  <2>1. Drop(p) \in N /\ Add(p, es) \in N
    BY DEF N, Needed
  <2>2. P(Drop(p)) = <<3, at, on, 0>> /\ P(Add(p, es)) = <<3, at, on, 1>>
    BY PositionsAre, CellsApart DEF P
  <2>3. at \in Nat /\ on \in Nat
    BY Places, CellsApart
  <2> HIDE DEF at, on
  <2>4. PICK j \in 1 .. n : st[j] = Add(p, es)
    BY <1>6, <2>1
  <2>5. Before(P(Drop(p)), P(Add(p, es)))
    <3>1. P(Drop(p))[4] < P(Add(p, es))[4]
      BY <2>2
    <3>2. \A k \in 1 .. 4 - 1 : P(Drop(p))[k] = P(Add(p, es))[k]
      <4> TAKE k \in 1 .. 4 - 1
      <4>1. k = 1 \/ k = 2 \/ k = 3
        OBVIOUS
      <4> QED BY <2>2, <4>1
    <3>3. 4 \in DOMAIN P(Drop(p))
      BY <2>2
    <3> QED BY <3>1, <3>2, <3>3 DEF Before
  <2>6. i < j
    BY <1>7, <1>10, <2>4, <2>5
  <2>7. i + 1 \in 1 .. n
    BY <1>6, <2>4, <2>6
  <2>8. ASSUME NEW x \in [1 .. 4 -> Nat], Before(<<3, at, on, 0>>, x), Before(x, <<3, at, on, 1>>)
        PROVE  FALSE
    <3>1. x[1] \in Nat /\ x[2] \in Nat /\ x[3] \in Nat /\ x[4] \in Nat /\ DOMAIN x = 1 .. 4
      OBVIOUS
    <3>2. PICK k \in 1 .. 4 : /\ <<3, at, on, 0>>[k] < x[k]
                              /\ \A m \in 1 .. k - 1 : <<3, at, on, 0>>[m] = x[m]
      BY <2>8 DEF Before
    <3>3. PICK l \in 1 .. 4 : /\ x[l] < <<3, at, on, 1>>[l]
                              /\ \A m \in 1 .. l - 1 : x[m] = <<3, at, on, 1>>[m]
      BY <2>8, <3>1 DEF Before
    <3>4. k = 1 \/ k = 2 \/ k = 3 \/ k = 4
      OBVIOUS
    <3>5. l = 1 \/ l = 2 \/ l = 3 \/ l = 4
      OBVIOUS
    <3>6. /\ l > 1 => x[1] = 3
          /\ l > 2 => x[2] = at
          /\ l > 3 => x[3] = on
      BY <3>3, <3>5
    <3>7. /\ k > 1 => x[1] = 3
          /\ k > 2 => x[2] = at
          /\ k > 3 => x[3] = on
      BY <3>2, <3>4
    <3>8. /\ k = 1 => 3 < x[1]
          /\ k = 2 => at < x[2]
          /\ k = 3 => on < x[3]
          /\ k = 4 => 0 < x[4]
      BY <3>2
    <3>9. /\ l = 1 => x[1] < 3
          /\ l = 2 => x[2] < at
          /\ l = 3 => x[3] < on
          /\ l = 4 => x[4] < 1
      BY <3>3
    <3> QED BY <2>3, <3>1, <3>4, <3>5, <3>6, <3>7, <3>8, <3>9
  <2>9. CASE j = i + 1
    BY <2>4, <2>7, <2>9
  <2>10. CASE j # i + 1
    <3>1. i < i + 1 /\ i + 1 < j
      BY <1>6, <2>4, <2>6, <2>10
    <3>2. Before(P(st[i]), P(st[i + 1])) /\ Before(P(st[i + 1]), P(st[j]))
      BY <1>7, <2>4, <2>7, <3>1
    <3>3. P(st[i + 1]) \in [1 .. 4 -> Nat]
      BY <1>2, <1>6, <2>7
    <3> QED BY <1>10, <2>2, <2>4, <2>8, <3>2, <3>3
  <2> QED BY <2>9, <2>10
<1> QED BY <1>6, <1>9, <1>10 DEF N, P, n, st

-----------------------------------------------------------------------------
(* The pass that joins a DROP with the ADD after it. *)

\* The statements that are not joined to the one before, those that are joined with the
\* next one, and what becomes of a statement.
Heads(st) == {i \in 1 .. Len(st) : ~(i > 1 /\ Pairs(st[i - 1], st[i]))}
Absorbs(st, i) == i < Len(st) /\ Pairs(st[i], st[i + 1])
Joined(st, i) == IF Absorbs(st, i) THEN Combined(st[i], st[i + 1]) ELSE st[i]

\* The rewritten list goes through the heads in their order.
LEMMA RewriteGoes ==
  ASSUME NEW Q, NEW st \in Seq(Q)
  PROVE  \E m \in Nat : \E kept \in [1 .. m -> Heads(st)] :
           /\ \A i \in Heads(st) : \E k \in 1 .. m : kept[k] = i
           /\ \A k, l \in 1 .. m : k < l <=> kept[k] < kept[l]
           /\ Rewrite(st) = [k \in 1 .. m |-> Joined(st, kept[k])]
<1> DEFINE heads == Heads(st)
           order == {p \in heads \X heads : p[1] < p[2]}
           kept == InOrder(heads, order)
           m == Cardinality(heads)
<1>1. Len(st) \in Nat /\ DOMAIN st = 1 .. Len(st)
  BY LenProperties
<1>2. heads \in SUBSET (1 .. Len(st))
  BY DEF Heads
<1>3. IsFiniteSet(heads)
  <2>1. IsFiniteSet(1 .. Len(st))
    BY <1>1, FS_Interval
  <2> HIDE DEF heads
  <2> QED BY <1>2, <2>1, FS_Subset
<1>4. \A i, j \in heads : <<i, j>> \in order <=> i < j
  OBVIOUS
<1>5. heads = {i \in DOMAIN st : ~(i > 1 /\ Pairs(st[i - 1], st[i]))}
  BY <1>1 DEF Heads
<1>6. Rewrite(st) = [k \in DOMAIN kept |-> IF kept[k] < Len(st) /\ Pairs(st[kept[k]], st[kept[k] + 1])
                                           THEN Combined(st[kept[k]], st[kept[k] + 1])
                                           ELSE st[kept[k]]]
  BY <1>5, Zenon DEF Rewrite
<1>7. Rewrite(st) = [k \in DOMAIN kept |-> Joined(st, kept[k])]
  BY <1>6 DEF Joined, Absorbs
<1> HIDE DEF heads, order, kept, m
<1>8. Orders(order, heads)
  BY <1>1, <1>2, <1>4 DEF Orders
<1>9. /\ m \in Nat
      /\ kept \in [1 .. m -> heads]
      /\ \A i \in heads : \E k \in 1 .. m : kept[k] = i
      /\ \A k, l \in 1 .. m : <<kept[k], kept[l]>> \in order <=> k < l
  BY <1>3, <1>8, InOrderLists DEF kept, m
<1>10. \A k, l \in 1 .. m : k < l <=> kept[k] < kept[l]
  BY <1>4, <1>9
<1>11. DOMAIN kept = 1 .. m
  BY <1>9
<1> QED BY <1>7, <1>9, <1>10, <1>11 DEF heads

\* What becomes of the statement at a head: it stays, or is joined with the next.
HeadIs(st, i, db, es) ==
  LET W == Joined(st, i)
      P(j) == Position(st[j], db, es)[1]
  IN  \/ \E t \in DOMAIN es \ DOMAIN db : st[i] = Create(t) /\ W = st[i] /\ P(i) = 0
      \/ \E p \in Differing(db, es) : st[i] = Drop(p) /\ W = st[i] /\ ~Absorbs(st, i) /\ P(i) = 1
      \/ \E p \in Differing(db, es), q \in Differing(es, db) :
           /\ p[1] = q[1] /\ st[i] = Drop(p) /\ P(i) = 1
           /\ i < Len(st) /\ st[i + 1] = Add(q, es) /\ i + 1 \notin Heads(st) /\ P(i + 1) = 2
           /\ W = Statement("RENAME", p[1], p[2], q[2])
      \/ \E p \in Differing(es, db) : st[i] = Add(p, es) /\ W = st[i] /\ P(i) = 2
      \/ \E p \in Retyped(db, es) :
           /\ st[i] = Drop(p) /\ P(i) = 3
           /\ i < Len(st) /\ st[i + 1] = Add(p, es) /\ i + 1 \notin Heads(st)
           /\ W = Statement("MODIFY", p[1], p[2], es[p[1]][p[2]])

\* Every head is a statement of one of five kinds.
LEMMA HeadsAre ==
  ASSUME NEW db, NEW es, DOMAIN es \in SUBSET TableNames
  PROVE  LET st == Statements(db, es)
         IN  /\ st \in Seq(Needed(db, es))
             /\ \A i \in Heads(st) : HeadIs(st, i, db, es)
<1> DEFINE T == DOMAIN es \ DOMAIN db
           D == Differing(db, es)
           A == Differing(es, db)
           R == Retyped(db, es)
           N == Needed(db, es)
           n == Cardinality(N)
           st == Statements(db, es)
           P(i) == Position(st[i], db, es)
           Cells == TableNames \X ColumnNames
<1>1. /\ n \in Nat
      /\ st \in [1 .. n -> N]
      /\ \A s \in N : \E i \in 1 .. n : st[i] = s
      /\ \A i, j \in 1 .. n : st[i] = st[j] => i = j
      /\ \A i \in 1 .. n, p \in R : st[i] = Drop(p) => i + 1 \in 1 .. n /\ st[i + 1] = Add(p, es)
  BY StatementsList
<1>2. D \in SUBSET Cells /\ A \in SUBSET Cells /\ R \in SUBSET Cells
        /\ D \cap A = {} /\ D \cap R = {} /\ A \cap R = {}
  BY CellsApart
<1>3. \A s \in N :
        \/ \E t \in T : s = Create(t)
        \/ \E p \in D : s = Drop(p)
        \/ \E p \in A : s = Add(p, es)
        \/ \E p \in R : s = Drop(p) \/ s = Add(p, es)
  BY NeededAre
<1>4. /\ \A t \in T : Position(Create(t), db, es)[1] = 0
      /\ \A p \in D : Position(Drop(p), db, es)[1] = 1
      /\ \A p \in A : Position(Add(p, es), db, es)[1] = 2
      /\ \A p \in R : Position(Drop(p), db, es)[1] = 3
  BY PositionsAre, <1>2
<1>5. \A p \in R : Drop(p) \in N
  BY DEF Needed
<1> HIDE DEF T, D, A, R, N, n, st, Cells
<1>6. st \in Seq(N) /\ Len(st) = n
  BY <1>1, LenProperties
<1>7. \A p, q \in Cells : Drop(p) = Drop(q) \/ Add(p, es) = Add(q, es) => p = q
  BY DEF Cells, Drop, Add, Statement
<1>8. /\ \A t : Create(t).op = "CREATE"
      /\ \A p : /\ Drop(p).op = "DROP" /\ Drop(p).table = p[1] /\ Drop(p).column = p[2]
                /\ Add(p, es).op = "ADD" /\ Add(p, es).table = p[1] /\ Add(p, es).column = p[2]
                /\ Add(p, es).type = es[p[1]][p[2]]
  BY DEF Create, Drop, Add, Statement
<1>9. \A i \in 1 .. n, p \in R : st[i] = Add(p, es) => i > 1 /\ i - 1 \in 1 .. n /\ st[i - 1] = Drop(p)
  <2> TAKE i \in 1 .. n, p \in R
  <2> HAVE st[i] = Add(p, es)
  <2>1. PICK j \in 1 .. n : st[j] = Drop(p)
    BY <1>1, <1>5
  <2>2. j + 1 \in 1 .. n /\ st[j + 1] = Add(p, es)
    BY <1>1, <2>1
  <2>3. i = j + 1
    BY <1>1, <2>2
  <2> QED BY <1>1, <2>1, <2>3
<1>10. ASSUME NEW i \in 1 .. n, i < n, Pairs(st[i], st[i + 1])
       PROVE  i + 1 \in 1 .. n /\ i + 1 \notin Heads(st)
  BY <1>1, <1>6, <1>10 DEF Heads
<1>11. ASSUME NEW i \in Heads(st)
       PROVE  \/ \E t \in T : st[i] = Create(t) /\ Joined(st, i) = st[i] /\ P(i)[1] = 0
              \/ \E p \in D :
                   st[i] = Drop(p) /\ Joined(st, i) = st[i] /\ ~Absorbs(st, i) /\ P(i)[1] = 1
              \/ \E p \in D, q \in A :
                   /\ p[1] = q[1] /\ st[i] = Drop(p) /\ P(i)[1] = 1
                   /\ i < Len(st) /\ st[i + 1] = Add(q, es) /\ i + 1 \notin Heads(st)
                   /\ P(i + 1)[1] = 2
                   /\ Joined(st, i) = Statement("RENAME", p[1], p[2], q[2])
              \/ \E p \in A : st[i] = Add(p, es) /\ Joined(st, i) = st[i] /\ P(i)[1] = 2
              \/ \E p \in R :
                   /\ st[i] = Drop(p) /\ P(i)[1] = 3
                   /\ i < Len(st) /\ st[i + 1] = Add(p, es) /\ i + 1 \notin Heads(st)
                   /\ Joined(st, i) = Statement("MODIFY", p[1], p[2], es[p[1]][p[2]])
  <2>1. i \in 1 .. n /\ st[i] \in N /\ ~(i > 1 /\ Pairs(st[i - 1], st[i]))
    BY <1>1, <1>6 DEF Heads
  <2>2. CASE \E t \in T : st[i] = Create(t)
    <3>1. ~Absorbs(st, i)
      BY <1>8, <2>2 DEF Absorbs, Pairs
    <3> QED BY <1>4, <2>2, <3>1 DEF Joined
  <2>3. CASE \E p \in D : st[i] = Drop(p)
    <3>1. PICK p \in D : st[i] = Drop(p)
      BY <2>3
    <3>2. CASE ~Absorbs(st, i)
      BY <1>4, <3>1, <3>2 DEF Joined
    <3>3. CASE Absorbs(st, i)
      <4>1. i < n /\ Pairs(st[i], st[i + 1]) /\ i + 1 \in 1 .. n /\ i + 1 \notin Heads(st)
        BY <1>6, <1>10, <2>1, <3>3 DEF Absorbs
      <4>2. st[i + 1].op = "ADD" /\ st[i + 1].table = p[1] /\ st[i + 1] \in N
        BY <1>1, <1>8, <3>1, <4>1 DEF Pairs
      <4>3. PICK q \in A \cup R : st[i + 1] = Add(q, es)
        BY <1>3, <1>8, <4>2
      <4>4. q \notin R
        <5> SUFFICES ASSUME q \in R PROVE FALSE
          OBVIOUS
        <5>1. st[i] = Drop(q)
          BY <1>9, <2>1, <4>1, <4>3
        <5> QED BY <1>2, <1>7, <3>1, <5>1
      <4>5. q \in A /\ q[1] = p[1] /\ q # p
        BY <1>2, <1>8, <4>2, <4>3, <4>4
      <4>6. q[2] # p[2]
        BY <1>2, <4>5 DEF Cells
      <4>7. Joined(st, i) = Statement("RENAME", p[1], p[2], q[2])
        BY <1>8, <3>1, <3>3, <4>3, <4>6 DEF Joined, Combined
      <4>8. P(i)[1] = 1 /\ P(i + 1)[1] = 2
        BY <1>4, <3>1, <4>3, <4>5
      <4> QED BY <1>6, <3>1, <4>1, <4>3, <4>5, <4>7, <4>8
    <3> QED BY <3>2, <3>3
  <2>4. CASE \E p \in A : st[i] = Add(p, es)
    <3>1. ~Absorbs(st, i)
      BY <1>8, <2>4 DEF Absorbs, Pairs
    <3> QED BY <1>4, <2>4, <3>1 DEF Joined
  <2>5. CASE \E p \in R : st[i] = Drop(p)
    <3>1. PICK p \in R : st[i] = Drop(p)
      BY <2>5
    <3>2. i + 1 \in 1 .. n /\ st[i + 1] = Add(p, es)
      BY <1>1, <2>1, <3>1
    <3>3. i < n /\ Pairs(st[i], st[i + 1])
      BY <1>1, <1>8, <2>1, <3>1, <3>2 DEF Pairs
    <3>4. Joined(st, i) = Statement("MODIFY", p[1], p[2], es[p[1]][p[2]])
      BY <1>6, <1>8, <3>1, <3>2, <3>3 DEF Joined, Absorbs, Combined
    <3> QED BY <1>4, <1>6, <1>10, <2>1, <3>1, <3>2, <3>3, <3>4
  <2>6. ~ \E p \in R : st[i] = Add(p, es)
    <3> SUFFICES ASSUME NEW p \in R, st[i] = Add(p, es) PROVE FALSE
      OBVIOUS
    <3>1. i > 1 /\ st[i - 1] = Drop(p)
      BY <1>9, <2>1
    <3>2. Pairs(st[i - 1], st[i])
      BY <1>8, <3>1 DEF Pairs
    <3> QED BY <2>1, <3>1, <3>2
  <2> QED BY <1>3, <2>1, <2>2, <2>3, <2>4, <2>5, <2>6
<1>12. \A i \in Heads(st) : HeadIs(st, i, db, es)
  BY <1>11 DEF HeadIs, T, D, A, R
<1> QED BY <1>6, <1>12 DEF N, st

-----------------------------------------------------------------------------
(* A migration that fits. *)

\* Statements come in turns: tables, drops, renames, adds, changes of type.
Turn(s) == IF s.op = "CREATE" THEN 0 ELSE IF s.op = "DROP" THEN 1 ELSE IF s.op = "RENAME" THEN 2
           ELSE IF s.op = "ADD" THEN 3 ELSE 4

\* What a statement is for, in a database that is to hold the entities.
Asked(s, db, es) ==
  \/ s.op = "CREATE" /\ s.table \in DOMAIN es \ DOMAIN db
  \/ s.op = "DROP" /\ <<s.table, s.column>> \in Differing(db, es)
  \/ s.op = "ADD" /\ <<s.table, s.column>> \in Differing(es, db) /\ s.type = es[s.table][s.column]
  \/ s.op = "MODIFY" /\ <<s.table, s.column>> \in Common(db, es) /\ s.type = es[s.table][s.column]
  \/ /\ s.op = "RENAME"
     /\ <<s.table, s.column>> \in Differing(db, es) /\ <<s.table, s.type>> \in Differing(es, db)

\* The columns a statement is about; a CREATE is about all of its table.
Touches(s) ==
  IF s.op = "CREATE" THEN {s.table} \X (ColumnNames \cup {Nothing})
  ELSE IF s.op = "RENAME" THEN {<<s.table, s.column>>, <<s.table, s.type>>}
  ELSE {<<s.table, s.column>>}

\* Every statement is asked for, no two touch the same column, and they come in their
\* turns with no pair left to join.
AllAsked(st, db, es) == \A i \in DOMAIN st : Asked(st[i], db, es)
Apart(st) == \A i, j \in DOMAIN st : i # j => Touches(st[i]) \cap Touches(st[j]) = {}
InTurn(st) ==
  /\ \A i, j \in DOMAIN st : i < j => Turn(st[i]) <= Turn(st[j])
  /\ \A i \in DOMAIN st : i + 1 \in DOMAIN st => ~Pairs(st[i], st[i + 1])

\* What a statement does for a table or a column.
Creates(s, t) == s.op = "CREATE" /\ s.table = t
TakesAway(s, p) == s.op \in {"DROP", "RENAME"} /\ <<s.table, s.column>> = p
Brings(s, p) ==
  \/ s.op = "ADD" /\ <<s.table, s.column>> = p
  \/ s.op = "RENAME" /\ <<s.table, s.type>> = p
Retypes(s, p) == s.op = "MODIFY" /\ <<s.table, s.column>> = p

\* Whatever differs has a statement; a change of type may wait when a column was renamed.
Covers(st, db, es, renamed) ==
  /\ \A t \in DOMAIN es \ DOMAIN db : \E i \in DOMAIN st : Creates(st[i], t)
  /\ \A p \in Differing(db, es) : \E i \in DOMAIN st : TakesAway(st[i], p)
  /\ \A p \in Differing(es, db) : \E i \in DOMAIN st : Brings(st[i], p)
  /\ ~renamed => \A p \in Retyped(db, es) : \E i \in DOMAIN st : Retypes(st[i], p)

\* The statements that a DROP and an ADD become.
Renaming(p, q) == Statement("RENAME", p[1], p[2], q[2])
Modifying(p, es) == Statement("MODIFY", p[1], p[2], es[p[1]][p[2]])

\* What a statement names.
LEMMA FieldsAre ==
  /\ \A t : Create(t).op = "CREATE" /\ Create(t).table = t
  /\ \A p : Drop(p).op = "DROP" /\ Drop(p).table = p[1] /\ Drop(p).column = p[2]
  /\ \A p, es : /\ Add(p, es).op = "ADD" /\ Add(p, es).table = p[1] /\ Add(p, es).column = p[2]
                /\ Add(p, es).type = es[p[1]][p[2]]
  /\ \A p, q : /\ Renaming(p, q).op = "RENAME" /\ Renaming(p, q).table = p[1]
               /\ Renaming(p, q).column = p[2] /\ Renaming(p, q).type = q[2]
  /\ \A p, es : /\ Modifying(p, es).op = "MODIFY" /\ Modifying(p, es).table = p[1]
                /\ Modifying(p, es).column = p[2] /\ Modifying(p, es).type = es[p[1]][p[2]]
BY DEF Create, Drop, Add, Renaming, Modifying, Statement

\* The turn of every kind of statement.
LEMMA TurnsAre ==
  /\ \A t : Turn(Create(t)) = 0
  /\ \A p : Turn(Drop(p)) = 1
  /\ \A p, q : Turn(Renaming(p, q)) = 2
  /\ \A p, es : Turn(Add(p, es)) = 3
  /\ \A p, es : Turn(Modifying(p, es)) = 4
BY DEF Turn, Create, Drop, Add, Renaming, Modifying, Statement

\* The columns a statement of each kind touches.
LEMMA TouchesAre ==
  /\ \A t : \A x \in Touches(Create(t)) : x[1] = t
  /\ \A p \in TableNames \X ColumnNames : Touches(Drop(p)) = {p}
  /\ \A es : \A p \in TableNames \X ColumnNames : Touches(Add(p, es)) = {p}
  /\ \A p, q \in TableNames \X ColumnNames : p[1] = q[1] => Touches(Renaming(p, q)) = {p, q}
  /\ \A es : \A p \in TableNames \X ColumnNames : Touches(Modifying(p, es)) = {p}
<1>1. ASSUME NEW t, NEW x \in Touches(Create(t)) PROVE x[1] = t
  BY <1>1, FieldsAre DEF Touches
<1>2. \A p \in TableNames \X ColumnNames : p = <<p[1], p[2]>>
  OBVIOUS
<1>3. ASSUME NEW p \in TableNames \X ColumnNames PROVE Touches(Drop(p)) = {p}
  BY <1>2, FieldsAre DEF Touches
<1>4. ASSUME NEW p \in TableNames \X ColumnNames, NEW es PROVE Touches(Add(p, es)) = {p}
  BY <1>2, FieldsAre DEF Touches
<1>5. ASSUME NEW p \in TableNames \X ColumnNames, NEW q \in TableNames \X ColumnNames, p[1] = q[1]
      PROVE  Touches(Renaming(p, q)) = {p, q}
  BY <1>2, <1>5, FieldsAre DEF Touches
<1>6. ASSUME NEW p \in TableNames \X ColumnNames, NEW es PROVE Touches(Modifying(p, es)) = {p}
  BY <1>2, FieldsAre DEF Touches
<1> QED BY <1>1, <1>3, <1>4, <1>5, <1>6

\* A statement is for one table or column.
LEMMA StatementsDiffer ==
  /\ \A t, u : Create(t) = Create(u) => t = u
  /\ \A p, q \in TableNames \X ColumnNames : Drop(p) = Drop(q) => p = q
  /\ \A es : \A p, q \in TableNames \X ColumnNames : Add(p, es) = Add(q, es) => p = q
  /\ \A t, p : Create(t) # Drop(p)
  /\ \A t, p, es : Create(t) # Add(p, es)
  /\ \A p, q, es : Drop(p) # Add(q, es)
<1>1. \A p \in TableNames \X ColumnNames : p = <<p[1], p[2]>>
  OBVIOUS
<1>2. \A t, u : Create(t) = Create(u) => t = u
  BY FieldsAre
<1>3. \A p, q \in TableNames \X ColumnNames : Drop(p) = Drop(q) => p = q
  BY <1>1, FieldsAre
<1>4. \A es : \A p, q \in TableNames \X ColumnNames : Add(p, es) = Add(q, es) => p = q
  BY <1>1, FieldsAre
<1>5. \A t, p : Create(t) # Drop(p)
  BY FieldsAre
<1>6. \A t, p, es : Create(t) # Add(p, es)
  BY FieldsAre
<1>7. \A p, q, es : Drop(p) # Add(q, es)
  BY FieldsAre
<1> QED BY <1>2, <1>3, <1>4, <1>5, <1>6, <1>7

\* The names and types of a schema and of a database.
LEMMA TypesOfSchemas ==
  /\ \A es \in Schemas :
       /\ DOMAIN es \in SUBSET TableNames
       /\ \A t \in DOMAIN es : /\ DOMAIN es[t] \in SUBSET ColumnNames
                               /\ \A c \in DOMAIN es[t] : es[t][c] \in Types
  /\ \A db \in Databases :
       /\ DOMAIN db \in SUBSET TableNames
       /\ \A t \in DOMAIN db :
            /\ DOMAIN db[t] \in SUBSET ColumnNames
            /\ \A c \in DOMAIN db[t] : db[t][c] \in [type : Types, rows : ColumnNames \cup {Nothing}]
<1>1. ASSUME NEW Kind, NEW s \in Partial(TableNames, Partial(ColumnNames, Kind))
      PROVE  /\ DOMAIN s \in SUBSET TableNames
             /\ \A t \in DOMAIN s : /\ DOMAIN s[t] \in SUBSET ColumnNames
                                    /\ \A c \in DOMAIN s[t] : s[t][c] \in Kind
  <2>1. DOMAIN s \in SUBSET TableNames /\ s \in [DOMAIN s -> Partial(ColumnNames, Kind)]
    BY <1>1, PartialIs
  <2>2. \A t \in DOMAIN s : s[t] \in Partial(ColumnNames, Kind)
    BY <2>1
  <2>3. \A t \in DOMAIN s : DOMAIN s[t] \in SUBSET ColumnNames /\ s[t] \in [DOMAIN s[t] -> Kind]
    BY <2>2, PartialIs
  <2> QED BY <2>1, <2>3
<1> QED BY <1>1 DEF Schemas, Databases

\* A migration as it is generated: every statement is asked for, no two touch the
\* same column, they come in their turns, and together they cover what differs.
LEMMA PlanFits ==
  ASSUME NEW db \in Databases, NEW es \in Schemas, NEW renamed \in BOOLEAN
  PROVE  LET st == Rewrite(Statements(db, es))
         IN  /\ st \in Seq(Queries)
             /\ AllAsked(st, db, es) /\ Apart(st) /\ InTurn(st) /\ Covers(st, db, es, renamed)
<1> DEFINE T == DOMAIN es \ DOMAIN db
           D == Differing(db, es)
           A == Differing(es, db)
           R == Retyped(db, es)
           N == Needed(db, es)
           n == Cardinality(N)
           st == Statements(db, es)
           H == Heads(st)
           W(i) == Joined(st, i)
           P(i) == Position(st[i], db, es)[1]
           Cells == TableNames \X ColumnNames
<1>1. DOMAIN es \in SUBSET TableNames
  BY TypesOfSchemas
<1>2. /\ n \in Nat
      /\ st \in [1 .. n -> N]
      /\ \A s \in N : \E i \in 1 .. n : st[i] = s
      /\ \A i, j \in 1 .. n : st[i] = st[j] => i = j
      /\ \A i, j \in 1 .. n : i < j => P(i) <= P(j)
  BY <1>1, StatementsList
<1>3. st \in Seq(N)
  BY <1>1, HeadsAre
<1>4. Len(st) = n
  BY <1>2, <1>3, LenProperties
<1>5. \A i \in H : HeadIs(st, i, db, es)
  BY <1>1, HeadsAre
<1>6. \A i \in H :
        \/ \E t \in T : st[i] = Create(t) /\ W(i) = Create(t) /\ P(i) = 0
        \/ \E p \in D : st[i] = Drop(p) /\ W(i) = Drop(p) /\ ~Absorbs(st, i) /\ P(i) = 1
        \/ \E p \in D, q \in A :
             /\ p[1] = q[1] /\ st[i] = Drop(p) /\ P(i) = 1
             /\ i < n /\ st[i + 1] = Add(q, es) /\ i + 1 \notin H /\ P(i + 1) = 2
             /\ W(i) = Renaming(p, q)
        \/ \E p \in A : st[i] = Add(p, es) /\ W(i) = Add(p, es) /\ P(i) = 2
        \/ \E p \in R : /\ st[i] = Drop(p) /\ P(i) = 3
                        /\ i < n /\ st[i + 1] = Add(p, es) /\ i + 1 \notin H /\ W(i) = Modifying(p, es)
  <2> HIDE DEF st, n, H
  <2> TAKE i \in H
  <2>1. HeadIs(st, i, db, es)
    BY <1>5
  <2> QED BY <1>4, <2>1 DEF HeadIs, H, Renaming, Modifying
<1>7. D \in SUBSET Cells /\ A \in SUBSET Cells /\ R \in SUBSET Cells
        /\ D \cap A = {} /\ D \cap R = {} /\ A \cap R = {}
  BY CellsApart
<1>8. /\ \A t \in T : Create(t) \in N
      /\ \A p \in D : Drop(p) \in N
      /\ \A p \in A : Add(p, es) \in N
      /\ \A p \in R : Drop(p) \in N
  BY DEF Needed
<1>9. /\ \A p \in D \cup A \cup R : p[1] \notin T
      /\ \A p \in D \cup A \cup R : p = <<p[1], p[2]>> /\ p[1] \in TableNames /\ p[2] \in ColumnNames
      /\ R \in SUBSET Common(db, es)
  BY <1>7 DEF Differing, Retyped, Common
<1>10. PICK m \in Nat : \E kept \in [1 .. m -> H] :
        /\ \A i \in H : \E k \in 1 .. m : kept[k] = i
        /\ \A k, l \in 1 .. m : k < l <=> kept[k] < kept[l]
        /\ Rewrite(st) = [k \in 1 .. m |-> W(kept[k])]
  BY <1>3, RewriteGoes
<1>11. PICK kept \in [1 .. m -> H] :
        /\ \A i \in H : \E k \in 1 .. m : kept[k] = i
        /\ \A k, l \in 1 .. m : k < l <=> kept[k] < kept[l]
        /\ Rewrite(st) = [k \in 1 .. m |-> W(kept[k])]
  BY <1>10
<1>12. H \in SUBSET (1 .. n)
  BY <1>4 DEF Heads
<1>13. /\ \A i \in 1 .. n : i \notin H => i > 1 /\ i - 1 \in 1 .. n /\ Pairs(st[i - 1], st[i])
       /\ \A i \in 1 .. n : i \in H => ~(i > 1 /\ Pairs(st[i - 1], st[i]))
  BY <1>2, <1>4 DEF Heads
<1>14. /\ \A t \in T : t \in TableNames
       /\ \A p \in A \cup R : es[p[1]][p[2]] \in Types
  BY <1>1, <1>9, TypesOfSchemas DEF Differing, Common
<1>15. /\ \A t \in T : Create(t) \in Queries /\ Asked(Create(t), db, es)
       /\ \A p \in D : Drop(p) \in Queries /\ Asked(Drop(p), db, es)
       /\ \A p \in A : Add(p, es) \in Queries /\ Asked(Add(p, es), db, es)
       /\ \A p \in D, q \in A : p[1] = q[1] => Renaming(p, q) \in Queries /\ Asked(Renaming(p, q), db, es)
       /\ \A p \in R : Modifying(p, es) \in Queries /\ Asked(Modifying(p, es), db, es)
  <2>1. \A t \in T : Create(t) \in Queries /\ Asked(Create(t), db, es)
    BY <1>14 DEF Queries, Asked, Create, Statement
  <2>2. \A p \in D : Drop(p) \in Queries /\ Asked(Drop(p), db, es)
    <3> TAKE p \in D
    <3>1. Drop(p) \in Queries
      BY <1>9 DEF Queries, Drop, Statement
    <3>2. p = <<p[1], p[2]>>
      BY <1>9
    <3>3. Drop(p).op = "DROP" /\ Drop(p).table = p[1] /\ Drop(p).column = p[2]
      BY FieldsAre
    <3>4. <<Drop(p).table, Drop(p).column>> \in Differing(db, es)
      BY <3>2, <3>3
    <3> QED BY <3>1, <3>3, <3>4 DEF Asked
  <2>3. \A p \in A : Add(p, es) \in Queries /\ Asked(Add(p, es), db, es)
    <3> TAKE p \in A
    <3>1. Add(p, es) \in Queries
      BY <1>9, <1>14 DEF Queries, Add, Statement
    <3>2. p = <<p[1], p[2]>>
      BY <1>9
    <3>3. /\ Add(p, es).op = "ADD" /\ Add(p, es).table = p[1] /\ Add(p, es).column = p[2]
          /\ Add(p, es).type = es[p[1]][p[2]]
      BY FieldsAre
    <3>4. <<Add(p, es).table, Add(p, es).column>> \in Differing(es, db)
      BY <3>2, <3>3
    <3> QED BY <3>1, <3>3, <3>4 DEF Asked
  <2>4. \A p \in D, q \in A : p[1] = q[1] => Renaming(p, q) \in Queries /\ Asked(Renaming(p, q), db, es)
    <3> TAKE p \in D, q \in A
    <3> HAVE p[1] = q[1]
    <3>1. Renaming(p, q) \in Queries
      BY <1>9 DEF Queries, Renaming, Statement
    <3>2. p = <<p[1], p[2]>> /\ q = <<p[1], q[2]>>
      BY <1>9
    <3>3. /\ Renaming(p, q).op = "RENAME" /\ Renaming(p, q).table = p[1]
          /\ Renaming(p, q).column = p[2] /\ Renaming(p, q).type = q[2]
      BY FieldsAre
    <3>4. /\ <<Renaming(p, q).table, Renaming(p, q).column>> \in Differing(db, es)
          /\ <<Renaming(p, q).table, Renaming(p, q).type>> \in Differing(es, db)
      BY <3>2, <3>3
    <3> QED BY <3>1, <3>3, <3>4 DEF Asked
  <2>5. \A p \in R : Modifying(p, es) \in Queries /\ Asked(Modifying(p, es), db, es)
    <3> TAKE p \in R
    <3>1. Modifying(p, es) \in Queries
      BY <1>9, <1>14 DEF Queries, Modifying, Statement
    <3>2. p \in Common(db, es) /\ p = <<p[1], p[2]>>
      BY <1>9
    <3>3. /\ Modifying(p, es).op = "MODIFY" /\ Modifying(p, es).table = p[1] /\ Modifying(p, es).column = p[2]
          /\ Modifying(p, es).type = es[p[1]][p[2]]
      BY FieldsAre
    <3>4. <<Modifying(p, es).table, Modifying(p, es).column>> \in Common(db, es)
      BY <3>2, <3>3
    <3> QED BY <3>1, <3>3, <3>4 DEF Asked
  <2> QED BY <2>1, <2>2, <2>3, <2>4, <2>5
<1> HIDE DEF T, D, A, R, N, n, st, H, W, P, Cells
<1>16. /\ \A t : \A x \in Touches(Create(t)) : x[1] = t
       /\ \A p \in D : Touches(Drop(p)) = {p}
       /\ \A p \in A : Touches(Add(p, es)) = {p}
       /\ \A p \in D, q \in A : p[1] = q[1] => Touches(Renaming(p, q)) = {p, q}
       /\ \A p \in R : Touches(Modifying(p, es)) = {p}
  BY <1>7, TouchesAre DEF Cells
<1>17. /\ \A p, q \in D \cup A \cup R : Drop(p) = Drop(q) \/ Add(p, es) = Add(q, es) => p = q
       /\ \A t, u : Create(t) = Create(u) => t = u
       /\ \A t, p, q : Create(t) # Drop(p) /\ Create(t) # Add(p, es) /\ Drop(p) # Add(q, es)
  BY <1>7, StatementsDiffer DEF Cells
<1> USE <1>2
<1>18. \A i \in H : W(i) \in Queries /\ Asked(W(i), db, es)
  BY <1>6, <1>15
<1>19. Rewrite(st) \in Seq(Queries) /\ DOMAIN Rewrite(st) = 1 .. m
  BY <1>11, <1>18
<1>20. AllAsked(Rewrite(st), db, es)
  BY <1>11, <1>18, <1>19 DEF AllAsked
\* Who touches a column.
<1>21. ASSUME NEW i \in H, NEW x \in Touches(W(i))
       PROVE  \/ x[1] \in T /\ st[i] = Create(x[1])
              \/ x \in D \cup R /\ st[i] = Drop(x)
              \/ x \in A /\ st[i] = Add(x, es)
              \/ x \in A /\ i < n /\ i + 1 \notin H /\ st[i + 1] = Add(x, es)
  <2>1. CASE \E t \in T : st[i] = Create(t) /\ W(i) = Create(t)
    BY <1>21, <1>16, <2>1
  <2>2. CASE \E p \in D : st[i] = Drop(p) /\ W(i) = Drop(p)
    BY <1>21, <1>16, <2>2
  <2>3. CASE \E p \in D, q \in A :
               /\ p[1] = q[1] /\ st[i] = Drop(p) /\ i < n
               /\ st[i + 1] = Add(q, es) /\ i + 1 \notin H /\ W(i) = Renaming(p, q)
    BY <1>21, <1>16, <2>3
  <2>4. CASE \E p \in A : st[i] = Add(p, es) /\ W(i) = Add(p, es)
    BY <1>21, <1>16, <2>4
  <2>5. CASE \E p \in R : st[i] = Drop(p) /\ W(i) = Modifying(p, es)
    BY <1>21, <1>16, <2>5
  <2> QED BY <1>6, <2>1, <2>2, <2>3, <2>4, <2>5
<1>22. ASSUME NEW i \in H, NEW j \in H, NEW x \in Touches(W(i)) \cap Touches(W(j))
       PROVE  i = j
  <2>1. i \in 1 .. n /\ j \in 1 .. n
    BY <1>12
  <2>2. i < n => i + 1 \in 1 .. n
    BY <2>1
  <2>3. j < n => j + 1 \in 1 .. n
    BY <2>1
  <2>4. CASE x[1] \in T /\ st[i] = Create(x[1])
    BY <1>9, <1>17, <1>21, <2>1, <2>4
  <2>5. CASE x \in D \cup R /\ st[i] = Drop(x)
    BY <1>7, <1>9, <1>17, <1>21, <2>1, <2>5
  <2>6. CASE x \in A /\ st[i] = Add(x, es)
    BY <1>7, <1>9, <1>17, <1>21, <2>1, <2>3, <2>6
  <2>7. CASE x \in A /\ i < n /\ i + 1 \notin H /\ st[i + 1] = Add(x, es)
    BY <1>7, <1>9, <1>17, <1>21, <2>1, <2>2, <2>3, <2>7
  <2> QED BY <1>21, <2>4, <2>5, <2>6, <2>7
<1>23. Apart(Rewrite(st))
  <2> SUFFICES ASSUME NEW k \in 1 .. m, NEW l \in 1 .. m, k # l,
                      NEW x \in Touches(W(kept[k])) \cap Touches(W(kept[l]))
               PROVE  FALSE
    BY <1>11, <1>19 DEF Apart
  <2>1. kept[k] = kept[l]
    BY <1>11, <1>22
  <2>2. ~(kept[k] < kept[l]) /\ ~(kept[l] < kept[k])
    BY <1>11, <1>12, <2>1
  <2> QED BY <1>11, <2>2
<1>24. InTurn(Rewrite(st))
  <2>1. ASSUME NEW i \in H
        PROVE  \/ P(i) = 0 /\ Turn(W(i)) = 0
               \/ P(i) = 1 /\ Turn(W(i)) = 1
               \/ P(i) = 1 /\ Turn(W(i)) = 2 /\ i < n /\ i + 1 \notin H /\ P(i + 1) = 2
               \/ P(i) = 2 /\ Turn(W(i)) = 3
               \/ P(i) = 3 /\ Turn(W(i)) = 4
    BY <1>6, TurnsAre
  <2>2. ASSUME NEW i \in H, NEW j \in H, i < j PROVE Turn(W(i)) <= Turn(W(j))
    <3>1. i \in 1 .. n /\ j \in 1 .. n /\ P(i) <= P(j)
      BY <1>12, <2>2
    <3>2. CASE P(i) = 1 /\ Turn(W(i)) = 2 /\ i < n /\ i + 1 \notin H /\ P(i + 1) = 2
      <4>1. i + 1 \in 1 .. n /\ i + 1 < j
        BY <2>2, <3>1, <3>2
      <4>2. P(i + 1) <= P(j)
        BY <3>1, <4>1
      <4> QED BY <2>1, <3>2, <4>2
    <3> QED BY <2>1, <3>1, <3>2
  <2>3. ASSUME NEW k \in 1 .. m, k + 1 \in 1 .. m, Pairs(W(kept[k]), W(kept[k + 1])) PROVE FALSE
    <3> DEFINE i == kept[k]
               j == kept[k + 1]
    <3>1. i \in H /\ j \in H /\ i < j
      BY <1>11, <2>3
    <3>2. PICK p \in D : st[i] = Drop(p) /\ W(i) = Drop(p) /\ ~Absorbs(st, i)
      BY <1>6, FieldsAre, <2>3, <3>1 DEF Pairs
    <3>3. PICK q \in A : st[j] = Add(q, es) /\ W(j) = Add(q, es)
      BY <1>6, FieldsAre, <2>3, <3>1 DEF Pairs
    <3>4. kept[k] = i /\ kept[k + 1] = j /\ Pairs(W(i), W(j))
      BY <2>3
    <3> HIDE DEF i, j, W
    <3>5. i \in 1 .. n /\ j \in 1 .. n /\ i < n /\ i + 1 \in 1 .. n
      <4>1. i \in 1 .. n /\ j \in 1 .. n /\ i < j
        BY <1>12, <3>1
      <4> QED BY <4>1
    <3>6. i + 1 \in H
      <4>1. ~Pairs(st[i], st[i + 1])
        BY <1>4, <3>2, <3>5 DEF Absorbs
      <4>2. i + 1 \notin H => Pairs(st[(i + 1) - 1], st[i + 1])
        BY <1>13, <3>5
      <4>3. (i + 1) - 1 = i
        BY <3>5
      <4> QED BY <4>1, <4>2, <4>3
    <3>7. PICK l \in 1 .. m : kept[l] = i + 1
      BY <1>11, <3>6
    <3>8. k < l /\ l <= k + 1
      <4>1. k < l
        BY <1>11, <3>4, <3>5, <3>7
      <4>2. ~(k + 1 < l)
        BY <1>11, <2>3, <3>4, <3>1, <3>5, <3>7
      <4> QED BY <4>1, <4>2
    <3>9. j = i + 1
      <4>1. k \in Nat /\ l \in Nat /\ k < l /\ l <= k + 1
        BY <3>8
      <4>2. l = k + 1
        BY <4>1
      <4> QED BY <3>4, <3>7, <4>2
    <3>10. Pairs(st[i], st[i + 1])
      BY <3>4, <3>2, <3>3, <3>9
    <3> QED BY <1>4, <3>2, <3>5, <3>10 DEF Absorbs
  <2> HIDE DEF W
  <2>4. \A k, l \in 1 .. m : k < l => Turn(W(kept[k])) <= Turn(W(kept[l]))
    BY <1>11, <2>2
  <2>5. \A k \in 1 .. m : Rewrite(st)[k] = W(kept[k])
    BY <1>11
  <2>6. \A k, l \in 1 .. m : k < l => Turn(Rewrite(st)[k]) <= Turn(Rewrite(st)[l])
    BY <2>4, <2>5
  <2>7. \A k \in 1 .. m : k + 1 \in 1 .. m => ~Pairs(Rewrite(st)[k], Rewrite(st)[k + 1])
    BY <2>3, <2>5
  <2> QED BY <1>19, <2>6, <2>7 DEF InTurn
<1>25. Covers(Rewrite(st), db, es, renamed)
  <2>1. \A i \in 1 .. n : i \notin H => st[i].op = "ADD"
    BY <1>13 DEF Pairs
  <2>2. ASSUME NEW t \in T PROVE \E k \in 1 .. m : Creates(W(kept[k]), t)
    <3>1. PICK i \in 1 .. n : st[i] = Create(t)
      BY <1>8
    <3>2. i \in H
      BY <2>1, FieldsAre, <3>1
    <3>3. W(i) = Create(t)
      BY <1>6, <1>17, <3>1, <3>2
    <3>4. Creates(W(i), t)
      BY FieldsAre, <3>3 DEF Creates
    <3> QED BY <1>11, <3>2, <3>4
  <2>3. ASSUME NEW p \in D PROVE \E k \in 1 .. m : TakesAway(W(kept[k]), p)
    <3>1. PICK i \in 1 .. n : st[i] = Drop(p)
      BY <1>8
    <3>2. i \in H
      BY <2>1, FieldsAre, <3>1
    <3>3. W(i) = Drop(p) \/ \E q \in A : W(i) = Renaming(p, q)
      BY <1>6, <1>7, <1>17, <3>1, <3>2
    <3>4. p = <<p[1], p[2]>>
      BY <1>9
    <3>5. TakesAway(W(i), p)
      BY FieldsAre, <3>3, <3>4 DEF TakesAway
    <3> QED BY <1>11, <3>2, <3>5
  <2>4. ASSUME NEW p \in A PROVE \E k \in 1 .. m : Brings(W(kept[k]), p)
    <3>1. PICK i \in 1 .. n : st[i] = Add(p, es)
      BY <1>8
    <3>2. CASE i \in H
      <4>1. W(i) = Add(p, es)
        BY <1>6, <1>7, <1>17, <3>1, <3>2
      <4>2. p = <<p[1], p[2]>>
        BY <1>9
      <4>3. Brings(W(i), p)
        BY FieldsAre, <4>1, <4>2 DEF Brings
      <4> QED BY <1>11, <3>2, <4>3
    <3>3. CASE i \notin H
      <4>1. i > 1 /\ i - 1 \in 1 .. n /\ Pairs(st[i - 1], st[i])
        BY <1>13, <3>3
      <4>2. i - 1 \in H
        BY <1>13, <4>1 DEF Pairs
      <4>3. (i - 1) + 1 = i
        OBVIOUS
      <4>4. Absorbs(st, i - 1)
        BY <1>4, <4>1, <4>3 DEF Absorbs
      <4>5. \/ \E d \in D, q \in A : d[1] = q[1] /\ st[i] = Add(q, es) /\ W(i - 1) = Renaming(d, q)
            \/ \E q \in R : st[i] = Add(q, es)
        <5>1. st[i - 1].op = "DROP"
          BY <4>1 DEF Pairs
        <5>2. /\ \A t : st[i - 1] # Create(t)
              /\ \A q : st[i - 1] # Add(q, es)
          BY <5>1, FieldsAre
        <5> HIDE DEF W
        <5> QED BY <1>6, <4>2, <4>3, <4>4, <5>2
      <4>6. \A q \in A \cup R : st[i] = Add(q, es) => q = p
        BY <1>17, <3>1
      <4>7. Brings(W(i - 1), p)
        <5>1. PICK d \in D : d[1] = p[1] /\ W(i - 1) = Renaming(d, p)
          BY <1>7, <4>5, <4>6
        <5>2. p = <<p[1], p[2]>>
          BY <1>9
        <5> QED BY FieldsAre, <5>1, <5>2 DEF Brings
      <4> QED BY <1>11, <4>2, <4>7
    <3> QED BY <3>2, <3>3
  <2>5. ASSUME NEW p \in R PROVE \E k \in 1 .. m : Retypes(W(kept[k]), p)
    <3>1. PICK i \in 1 .. n : st[i] = Drop(p)
      BY <1>8
    <3>2. i \in H
      BY <2>1, FieldsAre, <3>1
    <3>3. W(i) = Modifying(p, es)
      BY <1>6, <1>7, <1>17, <3>1, <3>2
    <3>4. p = <<p[1], p[2]>>
      BY <1>9
    <3>5. Retypes(W(i), p)
      BY FieldsAre, <3>3, <3>4 DEF Retypes
    <3> QED BY <1>11, <3>2, <3>5
  <2>6. \A k \in 1 .. m : Rewrite(st)[k] = W(kept[k])
    BY <1>11
  <2> HIDE DEF W
  <2>7. /\ \A t \in T : \E k \in DOMAIN Rewrite(st) : Creates(Rewrite(st)[k], t)
        /\ \A p \in D : \E k \in DOMAIN Rewrite(st) : TakesAway(Rewrite(st)[k], p)
        /\ \A p \in A : \E k \in DOMAIN Rewrite(st) : Brings(Rewrite(st)[k], p)
        /\ \A p \in R : \E k \in DOMAIN Rewrite(st) : Retypes(Rewrite(st)[k], p)
    <3>1. ASSUME NEW t \in T PROVE \E k \in 1 .. m : Creates(Rewrite(st)[k], t)
      BY <2>2, <2>6
    <3>2. ASSUME NEW p \in D PROVE \E k \in 1 .. m : TakesAway(Rewrite(st)[k], p)
      BY <2>3, <2>6
    <3>3. ASSUME NEW p \in A PROVE \E k \in 1 .. m : Brings(Rewrite(st)[k], p)
      BY <2>4, <2>6
    <3>4. ASSUME NEW p \in R PROVE \E k \in 1 .. m : Retypes(Rewrite(st)[k], p)
      BY <2>5, <2>6
    <3> QED BY <1>19, <3>1, <3>2, <3>3, <3>4
  <2> QED BY <2>7 DEF Covers, T, D, A, R
<1> QED BY <1>19, <1>20, <1>23, <1>24, <1>25 DEF st

-----------------------------------------------------------------------------
(* What a statement changes. *)

\* What a statement does to the database, by its kind.
LEMMA RunIs ==
  ASSUME NEW db, NEW s
  PROVE  LET t == s.table
             c == s.column
         IN  /\ s.op = "CREATE" =>
                  Run(db, s) = With(db, t, [x \in DOMAIN entities[t] |->
                                              [type |-> entities[t][x], rows |-> Nothing]])
             /\ s.op = "DROP" => Run(db, s) = [db EXCEPT ![t] = Without(@, c)]
             /\ s.op = "ADD" =>
                  Run(db, s) = [db EXCEPT ![t] = With(@, c, [type |-> s.type, rows |-> Nothing])]
             /\ s.op = "MODIFY" => Run(db, s) = [db EXCEPT ![t][c].type = s.type]
             /\ s.op = "RENAME" =>
                  Run(db, s) = [db EXCEPT ![t] = With(Without(@, c), s.type, @[c])]
<1>1. CASE s.op = "CREATE" BY <1>1 DEF Run
<1>2. CASE s.op = "DROP" BY <1>2 DEF Run
<1>3. CASE s.op = "ADD" BY <1>3 DEF Run
<1>4. CASE s.op = "MODIFY" BY <1>4 DEF Run
<1>5. CASE s.op = "RENAME" BY <1>5 DEF Run
<1> QED BY <1>1, <1>2, <1>3, <1>4, <1>5

\* A table that a statement leaves alone.
LEMMA Elsewhere ==
  ASSUME NEW db, NEW r, NEW es, NEW u \in TableNames, NEW x \in ColumnNames,
         u \in DOMAIN r <=> u \in DOMAIN db, u \in DOMAIN db => r[u] = db[u]
  PROVE  /\ <<u, x>> \in Differing(r, es) <=> <<u, x>> \in Differing(db, es)
         /\ <<u, x>> \in Differing(es, r) <=> <<u, x>> \in Differing(es, db)
         /\ <<u, x>> \in Common(r, es) <=> <<u, x>> \in Common(db, es)
         /\ <<u, x>> \in Retyped(r, es) <=> <<u, x>> \in Retyped(db, es)
         /\ <<u, x>> \in Common(db, es) => r[u][x].rows = db[u][x].rows
BY DEF Differing, Common, Retyped

\* Which columns differ, told by the columns of the two tables.
LEMMA CellsIn ==
  ASSUME NEW db, NEW es, NEW u \in TableNames, NEW x \in ColumnNames
  PROVE  /\ <<u, x>> \in Differing(db, es) <=>
              u \in DOMAIN db /\ u \in DOMAIN es /\ x \in DOMAIN db[u] /\ x \notin DOMAIN es[u]
         /\ <<u, x>> \in Differing(es, db) <=>
              u \in DOMAIN db /\ u \in DOMAIN es /\ x \in DOMAIN es[u] /\ x \notin DOMAIN db[u]
         /\ <<u, x>> \in Common(db, es) <=>
              u \in DOMAIN db /\ u \in DOMAIN es /\ x \in DOMAIN db[u] /\ x \in DOMAIN es[u]
         /\ <<u, x>> \in Retyped(db, es) <=>
              <<u, x>> \in Common(db, es) /\ db[u][x].type # es[u][x]
BY DEF Differing, Common, Retyped

\* A column of the database, and a table of it.
Cell == [type : Types, rows : ColumnNames \cup {Nothing}]
TableOf(f) == DOMAIN f \in SUBSET ColumnNames /\ f \in [DOMAIN f -> Cell]

\* A database is a function from tables to the columns they have.
LEMMA DatabaseIs ==
  ASSUME NEW db
  PROVE  db \in Databases <=>
           /\ DOMAIN db \in SUBSET TableNames /\ db = [t \in DOMAIN db |-> db[t]]
           /\ \A t \in DOMAIN db : TableOf(db[t])
<1>1. \A f : f \in Partial(ColumnNames, Cell) <=> TableOf(f)
  BY PartialIs DEF TableOf
<1>2. db \in Partial(TableNames, Partial(ColumnNames, Cell)) <=>
        DOMAIN db \in SUBSET TableNames /\ db \in [DOMAIN db -> Partial(ColumnNames, Cell)]
  BY PartialIs
<1> QED BY <1>1, <1>2 DEF Databases, Cell

\* What a statement changes, told by what it was to do.
Moves(db, r, s, es) ==
  /\ r \in Databases
  /\ DOMAIN r \subseteq DOMAIN db \cup DOMAIN es
  /\ \A t \in TableNames :
       t \in DOMAIN es \ DOMAIN r <=> t \in DOMAIN es \ DOMAIN db /\ ~Creates(s, t)
  /\ \A u \in TableNames, x \in ColumnNames :
       /\ <<u, x>> \in Differing(r, es) <=>
            <<u, x>> \in Differing(db, es) /\ ~TakesAway(s, <<u, x>>)
       /\ <<u, x>> \in Differing(es, r) <=>
            <<u, x>> \in Differing(es, db) /\ ~Brings(s, <<u, x>>)
       /\ <<u, x>> \in Common(db, es) =>
            <<u, x>> \in Common(r, es) /\ r[u][x].rows = db[u][x].rows
       /\ <<u, x>> \in Retyped(r, es) /\ s.op # "RENAME" =>
            <<u, x>> \in Retyped(db, es) /\ ~Retypes(s, <<u, x>>)

\* A DROP takes the column it names away and moves no other.
LEMMA DropMoves ==
  ASSUME entities \in Schemas, NEW db \in Databases, NEW s \in Queries, Asked(s, db, entities),
         s.op = "DROP"
  PROVE  Moves(db, Run(db, s), s, entities)
<1> DEFINE t == s.table
           c == s.column
           r == Run(db, s)
<1>1. r = [db EXCEPT ![t] = Without(@, c)]
  BY RunIs
<1>2. <<t, c>> \in Differing(db, entities)
  BY DEF Asked
<1>3. t \in TableNames /\ c \in ColumnNames
  BY <1>2, CellsApart
<1>4. t \in DOMAIN db /\ t \in DOMAIN entities /\ c \in DOMAIN db[t] /\ c \notin DOMAIN entities[t]
  BY <1>2, <1>3 DEF Differing
<1>5. /\ DOMAIN r = DOMAIN db /\ r = [u \in DOMAIN r |-> r[u]]
      /\ \A u \in DOMAIN db : u # t => r[u] = db[u]
      /\ r[t] = Without(db[t], c)
  BY <1>1, <1>4
<1>6. /\ DOMAIN r[t] = DOMAIN db[t] \ {c}
      /\ \A z \in DOMAIN r[t] : r[t][z] = db[t][z]
      /\ r[t] = [z \in DOMAIN r[t] |-> r[t][z]]
  BY <1>5 DEF Without
<1> HIDE DEF r, t, c
<1>7. r \in Databases
  <2>1. DOMAIN db \in SUBSET TableNames /\ \A u \in DOMAIN db : TableOf(db[u])
    BY DatabaseIs
  <2>2. TableOf(r[t])
    <3>1. DOMAIN r[t] \in SUBSET ColumnNames
      BY <1>4, <1>6, <2>1 DEF TableOf
    <3>2. \A z \in DOMAIN r[t] : r[t][z] \in Cell
      BY <1>4, <1>6, <2>1 DEF TableOf
    <3> QED BY <1>6, <3>1, <3>2 DEF TableOf
  <2> QED BY <1>5, <2>1, <2>2, DatabaseIs
<1>8. ASSUME NEW u \in TableNames, NEW x \in ColumnNames
      PROVE  /\ <<u, x>> \in Differing(r, entities) <=> <<u, x>> \in Differing(db, entities) /\ <<u, x>> # <<t, c>>
             /\ <<u, x>> \in Differing(entities, r) <=> <<u, x>> \in Differing(entities, db)
             /\ <<u, x>> \in Common(db, entities) =>
                  <<u, x>> \in Common(r, entities) /\ r[u][x].rows = db[u][x].rows
             /\ <<u, x>> \in Retyped(r, entities) => <<u, x>> \in Retyped(db, entities)
  <2>1. CASE u = t
    <3>1. t \in DOMAIN r /\ t \in DOMAIN db /\ t \in DOMAIN entities
      BY <1>4, <1>5
    <3>2. x \in DOMAIN r[t] <=> x \in DOMAIN db[t] /\ x # c
      BY <1>6
    <3>3. x \in DOMAIN r[t] => r[t][x] = db[t][x]
      BY <1>6
    <3> QED BY <1>4, <2>1, <3>1, <3>2, <3>3, CellsIn
  <2>2. CASE u # t
    <3>1. u \in DOMAIN r <=> u \in DOMAIN db
      BY <1>5
    <3>2. u \in DOMAIN db => r[u] = db[u]
      BY <1>5, <2>2
    <3>3. \A z : <<u, x>> # <<t, z>>
      BY <2>2
    <3>4. /\ <<u, x>> \in Differing(r, entities) <=> <<u, x>> \in Differing(db, entities)
          /\ <<u, x>> \in Differing(entities, r) <=> <<u, x>> \in Differing(entities, db)
          /\ <<u, x>> \in Common(r, entities) <=> <<u, x>> \in Common(db, entities)
          /\ <<u, x>> \in Retyped(r, entities) <=> <<u, x>> \in Retyped(db, entities)
          /\ <<u, x>> \in Common(db, entities) => r[u][x].rows = db[u][x].rows
      BY <3>1, <3>2, Elsewhere
    <3> QED BY <3>3, <3>4
  <2> QED BY <2>1, <2>2
<1>9. \A p : ~Brings(s, p) /\ ~Retypes(s, p) /\ ~Creates(s, p) /\ (TakesAway(s, p) <=> p = <<t, c>>)
  BY DEF Brings, Retypes, Creates, TakesAway, t, c
<1> QED BY <1>5, <1>7, <1>8, <1>9 DEF Moves, r

\* An ADD brings the column it names and moves no other.
LEMMA AddMoves ==
  ASSUME entities \in Schemas, NEW db \in Databases, NEW s \in Queries, Asked(s, db, entities),
         s.op = "ADD"
  PROVE  Moves(db, Run(db, s), s, entities)
<1> DEFINE t == s.table
           c == s.column
           r == Run(db, s)
<1>1. r = [db EXCEPT ![t] = With(@, c, [type |-> s.type, rows |-> Nothing])]
  BY RunIs
<1>2. <<t, c>> \in Differing(entities, db) /\ s.type = entities[t][c]
  BY DEF Asked
<1>3. t \in TableNames /\ c \in ColumnNames
  BY <1>2, CellsApart
<1>4. /\ t \in DOMAIN db /\ t \in DOMAIN entities /\ c \notin DOMAIN db[t] /\ c \in DOMAIN entities[t]
      /\ entities[t][c] \in Types
  BY <1>2, <1>3, TypesOfSchemas DEF Differing
<1>5. /\ DOMAIN r = DOMAIN db /\ r = [u \in DOMAIN r |-> r[u]]
      /\ \A u \in DOMAIN db : u # t => r[u] = db[u]
      /\ r[t] = With(db[t], c, [type |-> entities[t][c], rows |-> Nothing])
  BY <1>1, <1>2, <1>4
<1>6. /\ DOMAIN r[t] = DOMAIN db[t] \cup {c}
      /\ \A z \in DOMAIN db[t] : r[t][z] = db[t][z]
      /\ r[t][c] \in Cell /\ r[t][c].type = entities[t][c]
      /\ r[t] = [z \in DOMAIN r[t] |-> r[t][z]]
  BY <1>4, <1>5 DEF With, Cell
<1> HIDE DEF r, t, c
<1>7. r \in Databases
  <2>1. DOMAIN db \in SUBSET TableNames /\ \A u \in DOMAIN db : TableOf(db[u])
    BY DatabaseIs
  <2>2. TableOf(r[t])
    <3>1. DOMAIN r[t] \in SUBSET ColumnNames
      BY <1>3, <1>4, <1>6, <2>1 DEF TableOf
    <3>2. \A z \in DOMAIN r[t] : r[t][z] \in Cell
      BY <1>4, <1>6, <2>1 DEF TableOf
    <3> QED BY <1>6, <3>1, <3>2 DEF TableOf
  <2> QED BY <1>5, <2>1, <2>2, DatabaseIs
<1>8. ASSUME NEW u \in TableNames, NEW x \in ColumnNames
      PROVE  /\ <<u, x>> \in Differing(r, entities) <=> <<u, x>> \in Differing(db, entities)
             /\ <<u, x>> \in Differing(entities, r) <=> <<u, x>> \in Differing(entities, db) /\ <<u, x>> # <<t, c>>
             /\ <<u, x>> \in Common(db, entities) =>
                  <<u, x>> \in Common(r, entities) /\ r[u][x].rows = db[u][x].rows
             /\ <<u, x>> \in Retyped(r, entities) => <<u, x>> \in Retyped(db, entities)
  <2>1. CASE u = t
    <3>1. t \in DOMAIN r /\ t \in DOMAIN db /\ t \in DOMAIN entities
      BY <1>4, <1>5
    <3>2. x \in DOMAIN r[t] <=> x \in DOMAIN db[t] \/ x = c
      BY <1>6
    <3>3. x \in DOMAIN db[t] => r[t][x] = db[t][x]
      BY <1>6
    <3> QED BY <1>3, <1>4, <1>6, <2>1, <3>1, <3>2, <3>3, CellsIn
  <2>2. CASE u # t
    <3>1. u \in DOMAIN r <=> u \in DOMAIN db
      BY <1>5, <2>2
    <3>2. u \in DOMAIN db => r[u] = db[u]
      BY <1>5, <2>2
    <3>3. \A z : <<u, x>> # <<t, z>>
      BY <2>2
    <3>4. /\ <<u, x>> \in Differing(r, entities) <=> <<u, x>> \in Differing(db, entities)
          /\ <<u, x>> \in Differing(entities, r) <=> <<u, x>> \in Differing(entities, db)
          /\ <<u, x>> \in Common(r, entities) <=> <<u, x>> \in Common(db, entities)
          /\ <<u, x>> \in Retyped(r, entities) <=> <<u, x>> \in Retyped(db, entities)
          /\ <<u, x>> \in Common(db, entities) => r[u][x].rows = db[u][x].rows
      BY <3>1, <3>2, Elsewhere
    <3> QED BY <3>3, <3>4
  <2> QED BY <2>1, <2>2
<1>9. \A p : ~TakesAway(s, p) /\ ~Retypes(s, p) /\ ~Creates(s, p) /\ (Brings(s, p) <=> p = <<t, c>>)
  BY DEF Brings, Retypes, Creates, TakesAway, t, c
<1> QED BY <1>5, <1>7, <1>8, <1>9 DEF Moves, r

\* A MODIFY gives a column its type; the rows stay.
LEMMA ModifyMoves ==
  ASSUME entities \in Schemas, NEW db \in Databases, NEW s \in Queries, Asked(s, db, entities),
         s.op = "MODIFY"
  PROVE  Moves(db, Run(db, s), s, entities)
<1> DEFINE t == s.table
           c == s.column
           r == Run(db, s)
<1>1. r = [db EXCEPT ![t][c].type = s.type]
  BY RunIs
<1>2. <<t, c>> \in Common(db, entities) /\ s.type = entities[t][c]
  BY DEF Asked
<1>3. t \in TableNames /\ c \in ColumnNames
  BY <1>2 DEF Common
<1>4. /\ t \in DOMAIN db /\ t \in DOMAIN entities /\ c \in DOMAIN db[t] /\ c \in DOMAIN entities[t]
      /\ entities[t][c] \in Types /\ db[t][c] \in Cell
  BY <1>2, <1>3, TypesOfSchemas DEF Common, Cell
<1>5. /\ DOMAIN r = DOMAIN db /\ r = [u \in DOMAIN r |-> r[u]]
      /\ \A u \in DOMAIN db : u # t => r[u] = db[u]
      /\ r[t] = [db[t] EXCEPT ![c].type = entities[t][c]]
  BY <1>1, <1>2, <1>4
<1>6. /\ DOMAIN r[t] = DOMAIN db[t]
      /\ \A z \in DOMAIN db[t] : z # c => r[t][z] = db[t][z]
      /\ r[t][c] \in Cell /\ r[t][c].type = entities[t][c] /\ r[t][c].rows = db[t][c].rows
      /\ r[t] = [z \in DOMAIN r[t] |-> r[t][z]]
  <2>1. /\ DOMAIN r[t] = DOMAIN db[t]
        /\ \A z \in DOMAIN db[t] : z # c => r[t][z] = db[t][z]
        /\ r[t] = [z \in DOMAIN r[t] |-> r[t][z]]
    BY <1>4, <1>5
  <2>2. r[t][c] = [db[t][c] EXCEPT !.type = entities[t][c]]
    BY <1>4, <1>5
  <2> QED BY <1>4, <2>1, <2>2 DEF Cell
<1> HIDE DEF r, t, c
<1>7. r \in Databases
  <2>1. DOMAIN db \in SUBSET TableNames /\ \A u \in DOMAIN db : TableOf(db[u])
    BY DatabaseIs
  <2>2. TableOf(r[t])
    <3>1. DOMAIN r[t] \in SUBSET ColumnNames
      BY <1>3, <1>4, <1>6, <2>1 DEF TableOf
    <3>2. \A z \in DOMAIN r[t] : r[t][z] \in Cell
      BY <1>4, <1>6, <2>1 DEF TableOf
    <3> QED BY <1>6, <3>1, <3>2 DEF TableOf
  <2> QED BY <1>5, <2>1, <2>2, DatabaseIs
<1>8. ASSUME NEW u \in TableNames, NEW x \in ColumnNames
      PROVE  /\ <<u, x>> \in Differing(r, entities) <=> <<u, x>> \in Differing(db, entities)
             /\ <<u, x>> \in Differing(entities, r) <=> <<u, x>> \in Differing(entities, db)
             /\ <<u, x>> \in Common(db, entities) =>
                  <<u, x>> \in Common(r, entities) /\ r[u][x].rows = db[u][x].rows
             /\ <<u, x>> \in Retyped(r, entities) => <<u, x>> \in Retyped(db, entities) /\ <<u, x>> # <<t, c>>
  <2>1. CASE u = t
    <3>1. t \in DOMAIN r /\ t \in DOMAIN db /\ t \in DOMAIN entities
      BY <1>4, <1>5
    <3>2. x \in DOMAIN r[t] <=> x \in DOMAIN db[t]
      BY <1>6
    <3>3. x \in DOMAIN db[t] /\ x # c => r[t][x] = db[t][x]
      BY <1>6
    <3> QED BY <1>3, <1>4, <1>6, <2>1, <3>1, <3>2, <3>3, CellsIn
  <2>2. CASE u # t
    <3>1. u \in DOMAIN r <=> u \in DOMAIN db
      BY <1>5, <2>2
    <3>2. u \in DOMAIN db => r[u] = db[u]
      BY <1>5, <2>2
    <3>3. \A z : <<u, x>> # <<t, z>>
      BY <2>2
    <3>4. /\ <<u, x>> \in Differing(r, entities) <=> <<u, x>> \in Differing(db, entities)
          /\ <<u, x>> \in Differing(entities, r) <=> <<u, x>> \in Differing(entities, db)
          /\ <<u, x>> \in Common(r, entities) <=> <<u, x>> \in Common(db, entities)
          /\ <<u, x>> \in Retyped(r, entities) <=> <<u, x>> \in Retyped(db, entities)
          /\ <<u, x>> \in Common(db, entities) => r[u][x].rows = db[u][x].rows
      BY <3>1, <3>2, Elsewhere
    <3> QED BY <3>3, <3>4
  <2> QED BY <2>1, <2>2
<1>9. /\ \A p : ~TakesAway(s, p) /\ ~Brings(s, p) /\ ~Creates(s, p)
      /\ \A p : Retypes(s, p) => p = <<t, c>>
  BY DEF Brings, Retypes, Creates, TakesAway, t, c
<1> QED BY <1>5, <1>7, <1>8, <1>9 DEF Moves, r

\* A RENAME takes one column away, brings another and hands over the rows.
LEMMA RenameMoves ==
  ASSUME entities \in Schemas, NEW db \in Databases, NEW s \in Queries, Asked(s, db, entities),
         s.op = "RENAME"
  PROVE  Moves(db, Run(db, s), s, entities)
<1> DEFINE t == s.table
           c == s.column
           d == s.type
           r == Run(db, s)
<1>1. r = [db EXCEPT ![t] = With(Without(@, c), d, @[c])]
  BY RunIs
<1>2. <<t, c>> \in Differing(db, entities) /\ <<t, d>> \in Differing(entities, db)
  BY DEF Asked
<1>3. t \in TableNames /\ c \in ColumnNames /\ d \in ColumnNames
  BY <1>2, CellsApart
<1>4. /\ t \in DOMAIN db /\ t \in DOMAIN entities
      /\ c \in DOMAIN db[t] /\ c \notin DOMAIN entities[t]
      /\ d \notin DOMAIN db[t] /\ d \in DOMAIN entities[t] /\ db[t][c] \in Cell
  BY <1>2, <1>3, TypesOfSchemas DEF Differing, Cell
<1>5. /\ DOMAIN r = DOMAIN db /\ r = [u \in DOMAIN r |-> r[u]]
      /\ \A u \in DOMAIN db : u # t => r[u] = db[u]
      /\ r[t] = With(Without(db[t], c), d, db[t][c])
  BY <1>1, <1>4
<1>6. /\ DOMAIN r[t] = (DOMAIN db[t] \ {c}) \cup {d}
      /\ \A z \in DOMAIN db[t] : z # c => r[t][z] = db[t][z]
      /\ r[t][d] = db[t][c]
      /\ r[t] = [z \in DOMAIN r[t] |-> r[t][z]]
  BY <1>4, <1>5 DEF With, Without
<1> HIDE DEF r, t, c, d
<1>7. r \in Databases
  <2>1. DOMAIN db \in SUBSET TableNames /\ \A u \in DOMAIN db : TableOf(db[u])
    BY DatabaseIs
  <2>2. TableOf(r[t])
    <3>1. DOMAIN r[t] \in SUBSET ColumnNames
      BY <1>3, <1>4, <1>6, <2>1 DEF TableOf
    <3>2. \A z \in DOMAIN r[t] : r[t][z] \in Cell
      BY <1>4, <1>6, <2>1 DEF TableOf
    <3> QED BY <1>6, <3>1, <3>2 DEF TableOf
  <2> QED BY <1>5, <2>1, <2>2, DatabaseIs
<1>8. ASSUME NEW u \in TableNames, NEW x \in ColumnNames
      PROVE  /\ <<u, x>> \in Differing(r, entities) <=> <<u, x>> \in Differing(db, entities) /\ <<u, x>> # <<t, c>>
             /\ <<u, x>> \in Differing(entities, r) <=> <<u, x>> \in Differing(entities, db) /\ <<u, x>> # <<t, d>>
             /\ <<u, x>> \in Common(db, entities) =>
                  <<u, x>> \in Common(r, entities) /\ r[u][x].rows = db[u][x].rows
  <2>1. CASE u = t
    <3>1. t \in DOMAIN r /\ t \in DOMAIN db /\ t \in DOMAIN entities
      BY <1>4, <1>5
    <3>2. x \in DOMAIN r[t] <=> (x \in DOMAIN db[t] /\ x # c) \/ x = d
      BY <1>6
    <3>3. x \in DOMAIN db[t] /\ x # c => r[t][x] = db[t][x]
      BY <1>6
    <3> QED BY <1>3, <1>4, <1>6, <2>1, <3>1, <3>2, <3>3, CellsIn
  <2>2. CASE u # t
    <3>1. u \in DOMAIN r <=> u \in DOMAIN db
      BY <1>5, <2>2
    <3>2. u \in DOMAIN db => r[u] = db[u]
      BY <1>5, <2>2
    <3>3. \A z : <<u, x>> # <<t, z>>
      BY <2>2
    <3>4. /\ <<u, x>> \in Differing(r, entities) <=> <<u, x>> \in Differing(db, entities)
          /\ <<u, x>> \in Differing(entities, r) <=> <<u, x>> \in Differing(entities, db)
          /\ <<u, x>> \in Common(r, entities) <=> <<u, x>> \in Common(db, entities)
          /\ <<u, x>> \in Retyped(r, entities) <=> <<u, x>> \in Retyped(db, entities)
          /\ <<u, x>> \in Common(db, entities) => r[u][x].rows = db[u][x].rows
      BY <3>1, <3>2, Elsewhere
    <3> QED BY <3>3, <3>4
  <2> QED BY <2>1, <2>2
<1>9. /\ \A p : ~Retypes(s, p) /\ ~Creates(s, p)
      /\ \A p : TakesAway(s, p) <=> p = <<t, c>>
      /\ \A p : Brings(s, p) <=> p = <<t, d>>
  BY DEF Brings, Retypes, Creates, TakesAway, t, c, d
<1> QED BY <1>5, <1>7, <1>8, <1>9 DEF Moves, r

\* A CREATE brings a table with all its columns.
LEMMA CreateMoves ==
  ASSUME entities \in Schemas, NEW db \in Databases, NEW s \in Queries, Asked(s, db, entities),
         s.op = "CREATE"
  PROVE  Moves(db, Run(db, s), s, entities)
<1> DEFINE t == s.table
           r == Run(db, s)
<1>1. r = With(db, t, [x \in DOMAIN entities[t] |-> [type |-> entities[t][x], rows |-> Nothing]])
  BY DEF Run
<1>2. t \in DOMAIN entities /\ t \notin DOMAIN db
  BY DEF Asked
<1>3. t \in TableNames
  BY <1>2, TypesOfSchemas
<1>4. DOMAIN entities[t] \in SUBSET ColumnNames /\ \A x \in DOMAIN entities[t] : entities[t][x] \in Types
  BY <1>2, TypesOfSchemas
<1>5. /\ DOMAIN r = DOMAIN db \cup {t} /\ r = [u \in DOMAIN r |-> r[u]]
      /\ \A u \in DOMAIN db : u # t => r[u] = db[u]
      /\ r[t] = [x \in DOMAIN entities[t] |-> [type |-> entities[t][x], rows |-> Nothing]]
  BY <1>1, <1>2 DEF With
<1>6. /\ DOMAIN r[t] = DOMAIN entities[t]
      /\ \A z \in DOMAIN r[t] : r[t][z].type = entities[t][z] /\ r[t][z] \in Cell
      /\ r[t] = [z \in DOMAIN r[t] |-> r[t][z]]
  BY <1>4, <1>5 DEF Cell
<1> HIDE DEF r, t
<1>7. r \in Databases
  <2>1. DOMAIN db \in SUBSET TableNames /\ \A u \in DOMAIN db : TableOf(db[u])
    BY DatabaseIs
  <2>2. TableOf(r[t])
    BY <1>4, <1>6, <2>1 DEF TableOf
  <2> QED BY <1>3, <1>5, <2>1, <2>2, DatabaseIs
<1>8. ASSUME NEW u \in TableNames, NEW x \in ColumnNames
      PROVE  /\ <<u, x>> \in Differing(r, entities) <=> <<u, x>> \in Differing(db, entities)
             /\ <<u, x>> \in Differing(entities, r) <=> <<u, x>> \in Differing(entities, db)
             /\ <<u, x>> \in Common(db, entities) =>
                  <<u, x>> \in Common(r, entities) /\ r[u][x].rows = db[u][x].rows
             /\ <<u, x>> \in Retyped(r, entities) => <<u, x>> \in Retyped(db, entities)
  <2>1. CASE u = t
    <3>1. x \in DOMAIN r[t] <=> x \in DOMAIN entities[t]
      BY <1>6
    <3>2. x \in DOMAIN r[t] => r[t][x].type = entities[t][x]
      BY <1>6
    <3> QED BY <1>2, <2>1, <3>1, <3>2, CellsIn
  <2>2. CASE u # t
    <3>1. u \in DOMAIN r <=> u \in DOMAIN db
      BY <1>5, <2>2
    <3>2. u \in DOMAIN db => r[u] = db[u]
      BY <1>5, <2>2
    <3>3. \A z : <<u, x>> # <<t, z>>
      BY <2>2
    <3>4. /\ <<u, x>> \in Differing(r, entities) <=> <<u, x>> \in Differing(db, entities)
          /\ <<u, x>> \in Differing(entities, r) <=> <<u, x>> \in Differing(entities, db)
          /\ <<u, x>> \in Common(r, entities) <=> <<u, x>> \in Common(db, entities)
          /\ <<u, x>> \in Retyped(r, entities) <=> <<u, x>> \in Retyped(db, entities)
          /\ <<u, x>> \in Common(db, entities) => r[u][x].rows = db[u][x].rows
      BY <3>1, <3>2, Elsewhere
    <3> QED BY <3>3, <3>4
  <2> QED BY <2>1, <2>2
<1>9. /\ \A p : ~TakesAway(s, p) /\ ~Brings(s, p) /\ ~Retypes(s, p)
      /\ \A u : Creates(s, u) <=> u = t
  BY DEF Brings, Retypes, Creates, TakesAway, t
<1> QED BY <1>2, <1>5, <1>7, <1>8, <1>9 DEF Moves, r

\* Every statement that is asked for moves what it was to move, and no more.
LEMMA RunMoves ==
  ASSUME entities \in Schemas, NEW db \in Databases, NEW s \in Queries, Asked(s, db, entities)
  PROVE  Moves(db, Run(db, s), s, entities)
BY DropMoves, AddMoves, ModifyMoves, RenameMoves, CreateMoves DEF Asked

-----------------------------------------------------------------------------
(* The rest of a migration. *)

\* The rest of a migration fits the database and the entities.
Fits(st, db, es, renamed) ==
  /\ AllAsked(st, db, es) /\ Apart(st) /\ InTurn(st) /\ Covers(st, db, es, renamed)
  /\ \A i \in DOMAIN st : st[i].op = "RENAME" => renamed

\* A cell a statement is about is one that it touches.
LEMMA TouchesNames ==
  ASSUME NEW s \in Queries
  PROVE  /\ s.op # "CREATE" => <<s.table, s.column>> \in Touches(s)
         /\ s.op = "RENAME" => <<s.table, s.type>> \in Touches(s)
         /\ \A t : Creates(s, t) => <<t, Nothing>> \in Touches(s)
         /\ \A p : TakesAway(s, p) => p \in Touches(s)
         /\ \A p : Brings(s, p) => p \in Touches(s)
         /\ \A p : Retypes(s, p) => p \in Touches(s)
<1>1. s.op # "CREATE" => <<s.table, s.column>> \in Touches(s)
  BY DEF Touches
<1>2. s.op = "RENAME" => <<s.table, s.type>> \in Touches(s)
  BY DEF Touches
<1>3. s.op = "CREATE" => <<s.table, Nothing>> \in Touches(s)
  BY DEF Touches
<1>4. \A t : Creates(s, t) => <<t, Nothing>> \in Touches(s)
  BY <1>3 DEF Creates
<1>5. \A p : TakesAway(s, p) => p \in Touches(s)
  BY <1>1 DEF TakesAway
<1>6. \A p : Brings(s, p) => p \in Touches(s)
  BY <1>1, <1>2 DEF Brings
<1>7. \A p : Retypes(s, p) => p \in Touches(s)
  BY <1>1 DEF Retypes
<1> QED BY <1>1, <1>2, <1>4, <1>5, <1>6, <1>7

\* What a statement was asked for, it is still asked for after another ran.
LEMMA AskedStays ==
  ASSUME NEW db, NEW r, NEW es \in Schemas, NEW s \in Queries, NEW q \in Queries,
         Moves(db, r, s, es), Asked(q, db, es), Touches(s) \cap Touches(q) = {}
  PROVE  Asked(q, r, es)
<1>1. CASE q.op = "CREATE"
  <2>1. q.table \in DOMAIN es \ DOMAIN db
    BY <1>1 DEF Asked
  <2>2. q.table \in TableNames
    BY <2>1, TypesOfSchemas
  <2>3. <<q.table, Nothing>> \in Touches(q)
    BY <1>1, TouchesNames DEF Creates
  <2>4. ~Creates(s, q.table)
    BY <2>3, TouchesNames
  <2>5. q.table \in DOMAIN es \ DOMAIN r
    BY <2>1, <2>2, <2>4 DEF Moves
  <2> QED BY <1>1, <2>5 DEF Asked
<1>2. CASE q.op = "DROP"
  <2>1. <<q.table, q.column>> \in Differing(db, es)
    BY <1>2 DEF Asked
  <2>2. q.table \in TableNames /\ q.column \in ColumnNames
    BY <2>1, CellsApart
  <2>3. ~TakesAway(s, <<q.table, q.column>>)
    BY <1>2, TouchesNames
  <2>4. <<q.table, q.column>> \in Differing(r, es)
    BY <2>1, <2>2, <2>3 DEF Moves
  <2> QED BY <1>2, <2>4 DEF Asked
<1>3. CASE q.op = "ADD"
  <2>1. <<q.table, q.column>> \in Differing(es, db) /\ q.type = es[q.table][q.column]
    BY <1>3 DEF Asked
  <2>2. q.table \in TableNames /\ q.column \in ColumnNames
    BY <2>1, CellsApart
  <2>3. ~Brings(s, <<q.table, q.column>>)
    BY <1>3, TouchesNames
  <2>4. <<q.table, q.column>> \in Differing(es, r)
    BY <2>1, <2>2, <2>3 DEF Moves
  <2> QED BY <1>3, <2>1, <2>4 DEF Asked
<1>4. CASE q.op = "MODIFY"
  <2>1. <<q.table, q.column>> \in Common(db, es) /\ q.type = es[q.table][q.column]
    BY <1>4 DEF Asked
  <2>2. q.table \in TableNames /\ q.column \in ColumnNames
    BY <2>1 DEF Common
  <2>3. <<q.table, q.column>> \in Common(r, es)
    BY <2>1, <2>2 DEF Moves
  <2> QED BY <1>4, <2>1, <2>3 DEF Asked
<1>5. CASE q.op = "RENAME"
  <2>1. <<q.table, q.column>> \in Differing(db, es) /\ <<q.table, q.type>> \in Differing(es, db)
    BY <1>5 DEF Asked
  <2>2. q.table \in TableNames /\ q.column \in ColumnNames /\ q.type \in ColumnNames
    BY <2>1, CellsApart
  <2>3. ~TakesAway(s, <<q.table, q.column>>) /\ ~Brings(s, <<q.table, q.type>>)
    BY <1>5, TouchesNames
  <2>4. <<q.table, q.column>> \in Differing(r, es) /\ <<q.table, q.type>> \in Differing(es, r)
    BY <2>1, <2>2, <2>3 DEF Moves
  <2> QED BY <1>5, <2>4 DEF Asked
<1> QED BY <1>1, <1>2, <1>3, <1>4, <1>5 DEF Asked

\* The rest of a list.
LEMMA TailIs ==
  ASSUME NEW Q, NEW st \in Seq(Q), st # <<>>
  PROVE  /\ Tail(st) \in Seq(Q) /\ Head(st) \in Q /\ Head(st) = st[1] /\ 1 \in DOMAIN st
         /\ \A i \in DOMAIN Tail(st) :
              i + 1 \in DOMAIN st /\ i + 1 # 1 /\ Tail(st)[i] = st[i + 1]
         /\ \A i \in DOMAIN st : i # 1 => i - 1 \in DOMAIN Tail(st) /\ Tail(st)[i - 1] = st[i]
         /\ DOMAIN st \in SUBSET Nat /\ DOMAIN Tail(st) \in SUBSET Nat
<1>1. Len(st) \in Nat /\ Len(st) > 0 /\ DOMAIN st = 1 .. Len(st)
  BY LenProperties, EmptySeq
<1>2. Tail(st) \in Seq(Q) /\ Len(Tail(st)) = Len(st) - 1 /\ DOMAIN Tail(st) = 1 .. Len(st) - 1
  BY <1>1, HeadTailProperties, LenProperties
<1>3. \A i \in 1 .. Len(st) - 1 : Tail(st)[i] = st[i + 1]
  BY <1>1, HeadTailProperties
<1>4. Head(st) = st[1] /\ Head(st) \in Q
  BY <1>1, HeadTailProperties
<1> QED BY <1>1, <1>2, <1>3, <1>4

\* After its first statement the rest of a migration fits the new database.
LEMMA TailFits ==
  ASSUME entities \in Schemas, NEW db \in Databases, NEW st \in Seq(Queries), st # <<>>,
         NEW renamed \in BOOLEAN, Fits(st, db, entities, renamed)
  PROVE  /\ Moves(db, Run(db, Head(st)), Head(st), entities)
         /\ Tail(st) \in Seq(Queries)
         /\ Fits(Tail(st), Run(db, Head(st)), entities, renamed)
<1> DEFINE s == Head(st)
           rest == Tail(st)
           r == Run(db, s)
           E == entities
<1>1. /\ rest \in Seq(Queries) /\ s \in Queries /\ s = st[1] /\ 1 \in DOMAIN st
      /\ \A i \in DOMAIN rest : i + 1 \in DOMAIN st /\ i + 1 # 1 /\ rest[i] = st[i + 1]
      /\ \A i \in DOMAIN st : i # 1 => i - 1 \in DOMAIN rest /\ rest[i - 1] = st[i]
      /\ DOMAIN st \in SUBSET Nat /\ DOMAIN rest \in SUBSET Nat
  BY TailIs
<1>2. /\ \A i \in DOMAIN st : st[i] \in Queries /\ Asked(st[i], db, E)
      /\ \A i, j \in DOMAIN st : i # j => Touches(st[i]) \cap Touches(st[j]) = {}
      /\ InTurn(st) /\ Covers(st, db, E, renamed)
      /\ \A i \in DOMAIN st : st[i].op = "RENAME" => renamed
  BY DEF Fits, AllAsked, Apart
<1>3. Moves(db, r, s, E)
  BY <1>1, <1>2, RunMoves
<1> HIDE DEF s, rest, r, E
<1>4. E \in Schemas
  BY DEF E
<1>5. AllAsked(rest, r, E)
  <2> SUFFICES ASSUME NEW i \in DOMAIN rest PROVE Asked(rest[i], r, E)
    BY DEF AllAsked
  <2>1. i + 1 \in DOMAIN st /\ i + 1 # 1 /\ rest[i] = st[i + 1]
    BY <1>1
  <2>2. /\ rest[i] \in Queries /\ Asked(rest[i], db, E)
        /\ Touches(s) \cap Touches(rest[i]) = {}
    BY <1>1, <1>2, <2>1
  <2> QED BY <1>1, <1>3, <1>4, <2>2, AskedStays
<1>6. Apart(rest)
  <2> SUFFICES ASSUME NEW i \in DOMAIN rest, NEW j \in DOMAIN rest, i # j
               PROVE  Touches(rest[i]) \cap Touches(rest[j]) = {}
    BY DEF Apart
  <2>1. i + 1 \in DOMAIN st /\ j + 1 \in DOMAIN st /\ i + 1 # j + 1
    BY <1>1
  <2> QED BY <1>1, <1>2, <2>1
<1>7. InTurn(rest)
  <2>1. ASSUME NEW i \in DOMAIN rest, NEW j \in DOMAIN rest, i < j
        PROVE  Turn(rest[i]) <= Turn(rest[j])
    <3>1. i + 1 \in DOMAIN st /\ j + 1 \in DOMAIN st /\ i + 1 < j + 1
      BY <1>1, <2>1
    <3>2. Turn(st[i + 1]) <= Turn(st[j + 1])
      BY <1>2, <3>1 DEF InTurn
    <3> QED BY <1>1, <3>2
  <2>2. ASSUME NEW i \in DOMAIN rest, i + 1 \in DOMAIN rest PROVE ~Pairs(rest[i], rest[i + 1])
    <3>1. i + 1 \in DOMAIN st /\ (i + 1) + 1 \in DOMAIN st
      BY <1>1, <2>2
    <3>2. ~Pairs(st[i + 1], st[(i + 1) + 1])
      BY <1>2, <3>1 DEF InTurn
    <3>3. rest[i] = st[i + 1] /\ rest[i + 1] = st[(i + 1) + 1]
      BY <1>1, <2>2
    <3> QED BY <3>2, <3>3
  <2> QED BY <2>1, <2>2 DEF InTurn
<1>8. Covers(rest, r, E, renamed)
  <2>1. ASSUME NEW t \in DOMAIN E \ DOMAIN r PROVE \E i \in DOMAIN rest : Creates(rest[i], t)
    <3>1. t \in DOMAIN E \ DOMAIN db /\ ~Creates(s, t)
      BY <1>3, <1>4, TypesOfSchemas DEF Moves
    <3>2. PICK i \in DOMAIN st : Creates(st[i], t)
      BY <1>2, <3>1 DEF Covers
    <3> QED BY <1>1, <3>1, <3>2
  <2>2. ASSUME NEW p \in Differing(r, E) PROVE \E i \in DOMAIN rest : TakesAway(rest[i], p)
    <3>1. p \in Differing(db, E) /\ ~TakesAway(s, p)
      <4>1. PICK u \in TableNames, x \in ColumnNames : p = <<u, x>>
        BY CellsApart
      <4> QED BY <1>3, <4>1 DEF Moves
    <3>2. PICK i \in DOMAIN st : TakesAway(st[i], p)
      BY <1>2, <3>1 DEF Covers
    <3> QED BY <1>1, <3>1, <3>2
  <2>3. ASSUME NEW p \in Differing(E, r) PROVE \E i \in DOMAIN rest : Brings(rest[i], p)
    <3>1. p \in Differing(E, db) /\ ~Brings(s, p)
      <4>1. PICK u \in TableNames, x \in ColumnNames : p = <<u, x>>
        BY CellsApart
      <4> QED BY <1>3, <4>1 DEF Moves
    <3>2. PICK i \in DOMAIN st : Brings(st[i], p)
      BY <1>2, <3>1 DEF Covers
    <3> QED BY <1>1, <3>1, <3>2
  <2>4. ASSUME ~renamed, NEW p \in Retyped(r, E) PROVE \E i \in DOMAIN rest : Retypes(rest[i], p)
    <3>1. p \in Retyped(db, E) /\ ~Retypes(s, p)
      <4>1. PICK u \in TableNames, x \in ColumnNames : p = <<u, x>>
        BY CellsApart
      <4>2. s.op # "RENAME"
        BY <1>1, <1>2, <2>4
      <4> QED BY <1>3, <4>1, <4>2 DEF Moves
    <3>2. PICK i \in DOMAIN st : Retypes(st[i], p)
      BY <1>2, <2>4, <3>1 DEF Covers
    <3> QED BY <1>1, <3>1, <3>2
  <2> QED BY <2>1, <2>2, <2>3, <2>4 DEF Covers
<1>9. \A i \in DOMAIN rest : rest[i].op = "RENAME" => renamed
  BY <1>1, <1>2
<1> QED BY <1>1, <1>3, <1>5, <1>6, <1>7, <1>8, <1>9 DEF Fits, s, rest, r, E

-----------------------------------------------------------------------------
(* The invariant and the theorems. *)

\* The inductive invariant: what remains of a migration fits what is there, and what
\* the database has beyond the entities is what a failed DROP left.
MigrationInv ==
  /\ MigrationTypeOK
  /\ phase = "migrating" => Fits(plan, physical, entities, renames)
  /\ faults = 0 => DOMAIN physical \subseteq DOMAIN entities
  /\ EndsAsEntities

\* The program starts with the database its entities describe.
LEMMA MigrationStarts == MigrationInit => MigrationInv
<1> SUFFICES ASSUME MigrationInit PROVE MigrationInv
  OBVIOUS
<1> USE DEF MigrationInit
<1>1. /\ DOMAIN Schema \in SUBSET TableNames
      /\ \A t \in DOMAIN Schema : /\ DOMAIN Schema[t] \in SUBSET ColumnNames
                                  /\ \A c \in DOMAIN Schema[t] : Schema[t][c] \in Types
  BY MigrationConstants, TypesOfSchemas
<1>2. /\ DOMAIN physical = DOMAIN Schema /\ physical = [t \in DOMAIN physical |-> physical[t]]
      /\ \A t \in DOMAIN Schema : physical[t] = [c \in DOMAIN Schema[t] |-> Written(c, Schema[t][c])]
  OBVIOUS
<1>3. \A t \in DOMAIN physical : TableOf(physical[t])
  <2> TAKE t \in DOMAIN physical
  <2>1. /\ DOMAIN physical[t] = DOMAIN Schema[t]
        /\ \A c \in DOMAIN Schema[t] : physical[t][c] = Written(c, Schema[t][c])
        /\ physical[t] = [c \in DOMAIN physical[t] |-> physical[t][c]]
    BY <1>2
  <2>2. \A c \in DOMAIN Schema[t] : Written(c, Schema[t][c]) \in Cell
    BY <1>1, <1>2 DEF Written, Cell
  <2> QED BY <1>1, <1>2, <2>1, <2>2 DEF TableOf
<1>4. physical \in Databases
  BY <1>1, <1>2, <1>3, DatabaseIs
<1>5. plan \in Seq(Queries)
  BY EmptySeq
<1>6. MigrationTypeOK
  <2>1. meta \in Schemas /\ entities \in Schemas
    BY MigrationConstants
  <2>2. changes \in 0 .. MaxChanges /\ faults \in 0 .. MaxFaults
    BY MigrationConstants
  <2>3. phase \in {"idle", "migrating", "done"} /\ plan = <<>> /\ renames \in BOOLEAN
    OBVIOUS
  <2> QED BY <1>4, <1>5, <2>1, <2>2, <2>3 DEF MigrationTypeOK
<1> QED BY <1>2, <1>6 DEF MigrationInv, EndsAsEntities

\* A migration that has nothing left to run has made the database what the entities
\* say.
LEMMA NothingLeft ==
  ASSUME NEW db \in Databases, NEW es \in Schemas, NEW renamed \in BOOLEAN,
         Covers(<<>>, db, es, renamed)
  PROVE  /\ DOMAIN es \subseteq DOMAIN db
         /\ \A t \in DOMAIN es : /\ DOMAIN db[t] = DOMAIN es[t]
                                 /\ ~renamed => TypesOf(db)[t] = es[t]
<1>1. DOMAIN <<>> = {}
  OBVIOUS
<1>2. /\ DOMAIN es \ DOMAIN db = {}
      /\ Differing(db, es) = {} /\ Differing(es, db) = {}
      /\ ~renamed => Retyped(db, es) = {}
  BY <1>1 DEF Covers
<1>3. DOMAIN es \subseteq DOMAIN db
  BY <1>2
<1>4. ASSUME NEW t \in DOMAIN es
      PROVE  /\ DOMAIN db[t] = DOMAIN es[t]
             /\ ~renamed => TypesOf(db)[t] = es[t]
  <2>1. /\ t \in TableNames /\ t \in DOMAIN db
        /\ DOMAIN es[t] \in SUBSET ColumnNames /\ DOMAIN db[t] \in SUBSET ColumnNames
    BY <1>3, TypesOfSchemas
  <2>2. DOMAIN db[t] = DOMAIN es[t]
    BY <1>2, <2>1, CellsIn
  <2>3. ASSUME ~renamed PROVE TypesOf(db)[t] = es[t]
    <3>1. TypesOf(db)[t] = [c \in DOMAIN es[t] |-> db[t][c].type]
      BY <2>1, <2>2 DEF TypesOf
    <3>2. \A c \in DOMAIN es[t] : db[t][c].type = es[t][c]
      <4> TAKE c \in DOMAIN es[t]
      <4>1. c \in ColumnNames /\ c \in DOMAIN db[t]
        BY <2>1, <2>2
      <4>2. <<t, c>> \in Common(db, es)
        BY <2>1, <4>1, CellsIn
      <4>3. <<t, c>> \notin Retyped(db, es)
        BY <1>2, <2>3
      <4> QED BY <2>1, <4>1, <4>2, <4>3, CellsIn
    <3>3. es[t] = [c \in DOMAIN es[t] |-> es[t][c]]
      <4>1. es \in [DOMAIN es -> Partial(ColumnNames, Types)]
        BY PartialIs DEF Schemas
      <4>2. es[t] \in [DOMAIN es[t] -> Types]
        BY <4>1, PartialIs
      <4> QED BY <4>2
    <3> QED BY <3>1, <3>2, <3>3
  <2> QED BY <2>2, <2>3
<1> QED BY <1>3, <1>4

\* A schema stays one when a table is dropped, added or kept.
LEMMA PartialsMove ==
  ASSUME NEW S, NEW T, NEW f \in Partial(S, T)
  PROVE  /\ \A x : Without(f, x) \in Partial(S, T)
         /\ \A x \in S, y \in T : With(f, x, y) \in Partial(S, T)
         /\ \A D : [z \in DOMAIN f \cap D |-> f[z]] \in Partial(S, T)
<1>1. DOMAIN f \in SUBSET S /\ \A z \in DOMAIN f : f[z] \in T
  BY PartialIs
<1>2. ASSUME NEW D \in SUBSET S, NEW g \in [D -> T] PROVE g \in Partial(S, T)
  BY DEF Partial
<1>3. ASSUME NEW x PROVE Without(f, x) \in Partial(S, T)
  <2>1. DOMAIN f \ {x} \in SUBSET S /\ Without(f, x) \in [DOMAIN f \ {x} -> T]
    BY <1>1 DEF Without
  <2> QED BY <1>2, <2>1
<1>4. ASSUME NEW x \in S, NEW y \in T PROVE With(f, x, y) \in Partial(S, T)
  <2>1. DOMAIN f \cup {x} \in SUBSET S /\ With(f, x, y) \in [DOMAIN f \cup {x} -> T]
    BY <1>1 DEF With
  <2> QED BY <1>2, <2>1
<1>5. ASSUME NEW D PROVE [z \in DOMAIN f \cap D |-> f[z]] \in Partial(S, T)
  <2> DEFINE g == [z \in DOMAIN f \cap D |-> f[z]]
  <2>1. DOMAIN f \cap D \in SUBSET S /\ g \in [DOMAIN f \cap D -> T]
    BY <1>1
  <2> QED BY <1>2, <2>1
<1> QED BY <1>3, <1>4, <1>5

\* A change of the metadata does not reach the migration.
LEMMA ChangeKeeps == MigrationInv /\ Change => MigrationInv'
<1> SUFFICES ASSUME MigrationInv, Change PROVE MigrationInv'
  OBVIOUS
<1>1. /\ UNCHANGED <<entities, physical, plan, phase, renames, faults>>
      /\ changes < MaxChanges /\ changes' = changes + 1
  BY DEF Change
<1>2. meta' \in Schemas
  <2>1. meta \in Partial(TableNames, Partial(ColumnNames, Types))
    BY DEF MigrationInv, MigrationTypeOK, Schemas
  <2>2. PICK t \in TableNames :
          \/ meta' = Without(meta, t)
          \/ \E columns \in Partial(ColumnNames, Types) : meta' = With(meta, t, columns)
    BY DEF Change
  <2> QED BY <2>1, <2>2, PartialsMove DEF Schemas
<1>3. MigrationTypeOK'
  <2>1. changes' \in 0 .. MaxChanges
    BY <1>1, MigrationConstants DEF MigrationInv, MigrationTypeOK
  <2> QED BY <1>1, <1>2, <2>1 DEF MigrationInv, MigrationTypeOK
<1> QED BY <1>1, <1>3 DEF MigrationInv, EndsAsEntities

\* Writing rows changes neither tables nor columns nor types.
LEMMA WriteKeeps == MigrationInv /\ Write => MigrationInv'
<1> SUFFICES ASSUME MigrationInv, Write PROVE MigrationInv'
  OBVIOUS
<1>1. /\ UNCHANGED <<meta, entities, plan, phase, renames, changes, faults>>
      /\ phase # "migrating"
      /\ physical' = [t \in DOMAIN physical |->
                        [c \in DOMAIN physical[t] |-> Written(c, physical[t][c].type)]]
  BY DEF Write
<1>2. physical \in Databases
  BY DEF MigrationInv, MigrationTypeOK
<1>3. /\ DOMAIN physical \in SUBSET TableNames
      /\ \A t \in DOMAIN physical : DOMAIN physical[t] \in SUBSET ColumnNames
      /\ \A t \in DOMAIN physical : \A c \in DOMAIN physical[t] : physical[t][c].type \in Types
  BY <1>2, TypesOfSchemas
<1>4. /\ DOMAIN physical' = DOMAIN physical /\ physical' = [t \in DOMAIN physical' |-> physical'[t]]
      /\ \A t \in DOMAIN physical :
           physical'[t] = [c \in DOMAIN physical[t] |-> Written(c, physical[t][c].type)]
  BY <1>1
<1>5. ASSUME NEW t \in DOMAIN physical
      PROVE  /\ TableOf(physical'[t])
             /\ DOMAIN physical'[t] = DOMAIN physical[t]
             /\ TypesOf(physical')[t] = TypesOf(physical)[t]
  <2>1. /\ DOMAIN physical'[t] = DOMAIN physical[t]
        /\ \A c \in DOMAIN physical[t] : physical'[t][c] = Written(c, physical[t][c].type)
        /\ physical'[t] = [c \in DOMAIN physical'[t] |-> physical'[t][c]]
    BY <1>4
  <2>2. \A c \in DOMAIN physical[t] : /\ Written(c, physical[t][c].type) \in Cell
                                      /\ Written(c, physical[t][c].type).type = physical[t][c].type
    BY <1>3 DEF Written, Cell
  <2>3. TableOf(physical'[t])
    BY <1>3, <2>1, <2>2 DEF TableOf
  <2>4. /\ TypesOf(physical')[t] = [c \in DOMAIN physical'[t] |-> physical'[t][c].type]
        /\ TypesOf(physical)[t] = [c \in DOMAIN physical[t] |-> physical[t][c].type]
    BY <1>4 DEF TypesOf
  <2> QED BY <2>1, <2>2, <2>3, <2>4
<1>6. physical' \in Databases
  BY <1>3, <1>4, <1>5, DatabaseIs
<1>7. MigrationTypeOK'
  BY <1>1, <1>6 DEF MigrationInv, MigrationTypeOK
<1>8. EndsAsEntities'
  BY <1>1, <1>4, <1>5 DEF MigrationInv, EndsAsEntities
<1> QED BY <1>1, <1>4, <1>7, <1>8 DEF MigrationInv

\* A migration fits when it is generated (PlanFits).
LEMMA GenerateKeeps == MigrationInv /\ Generate => MigrationInv'
<1> SUFFICES ASSUME MigrationInv, Generate PROVE MigrationInv'
  OBVIOUS
<1>1. /\ phase' = "migrating" /\ entities' = meta /\ UNCHANGED <<meta, changes>>
      /\ plan' = Rewrite(Statements(physical', entities'))
      /\ renames' = \E i \in 1 .. Len(plan') : plan'[i].op = "RENAME"
  BY DEF Generate
<1>2. PICK stuck \in SUBSET (DOMAIN physical \ DOMAIN meta) :
        /\ stuck # {} => faults < MaxFaults
        /\ faults' = IF stuck = {} THEN faults ELSE faults + 1
        /\ physical' = [t \in DOMAIN physical \cap (DOMAIN meta \cup stuck) |-> physical[t]]
  BY DEF Generate
<1>3. meta \in Schemas /\ physical \in Databases /\ changes \in 0 .. MaxChanges /\ faults \in 0 .. MaxFaults
  BY DEF MigrationInv, MigrationTypeOK
<1>4. physical' \in Databases
  BY <1>2, <1>3, PartialsMove DEF Databases
<1>5. entities' \in Schemas /\ renames' \in BOOLEAN
  BY <1>1, <1>3
<1>6. /\ plan' \in Seq(Queries)
      /\ AllAsked(plan', physical', entities') /\ Apart(plan') /\ InTurn(plan')
      /\ Covers(plan', physical', entities', renames')
  BY <1>1, <1>4, <1>5, PlanFits
<1>7. \A i \in DOMAIN plan' : plan'[i].op = "RENAME" => renames'
  <2>1. DOMAIN plan' = 1 .. Len(plan')
    BY <1>6, LenProperties
  <2> QED BY <1>1, <2>1
<1>8. faults' \in 0 .. MaxFaults
  BY <1>2, <1>3, MigrationConstants
<1>9. faults' = 0 => DOMAIN physical' \subseteq DOMAIN entities'
  BY <1>1, <1>2, <1>3
<1>10. MigrationTypeOK'
  BY <1>1, <1>3, <1>4, <1>5, <1>6, <1>8 DEF MigrationTypeOK
<1> QED BY <1>1, <1>6, <1>7, <1>9, <1>10 DEF MigrationInv, EndsAsEntities, Fits

\* A statement leaves a migration that fits (TailFits).
LEMMA ExecuteKeeps ==
  ASSUME MigrationInv, Execute
  PROVE  /\ Moves(physical, physical', Head(plan), entities)
         /\ MigrationInv'
<1>1. /\ UNCHANGED <<meta, entities, phase, renames, changes, faults>>
      /\ phase = "migrating" /\ plan # <<>>
      /\ physical' = Run(physical, Head(plan)) /\ plan' = Tail(plan)
  BY DEF Execute
<1>2. /\ entities \in Schemas /\ physical \in Databases /\ plan \in Seq(Queries) /\ renames \in BOOLEAN
      /\ Fits(plan, physical, entities, renames)
  BY <1>1 DEF MigrationInv, MigrationTypeOK
<1>3. /\ Moves(physical, physical', Head(plan), entities)
      /\ plan' \in Seq(Queries) /\ Fits(plan', physical', entities, renames)
  BY <1>1, <1>2, TailFits
<1>4. physical' \in Databases /\ DOMAIN physical' \subseteq DOMAIN physical \cup DOMAIN entities
  BY <1>3 DEF Moves
<1>5. MigrationTypeOK'
  BY <1>1, <1>3, <1>4 DEF MigrationInv, MigrationTypeOK
<1> QED BY <1>1, <1>3, <1>4, <1>5 DEF MigrationInv, EndsAsEntities

\* A migration that fails leaves nothing to run, one that ends has nothing left.
LEMMA EndKeeps == MigrationInv /\ (Fail \/ Finish) => MigrationInv'
<1> SUFFICES ASSUME MigrationInv, Fail \/ Finish PROVE MigrationInv'
  OBVIOUS
<1>1. CASE Fail
  <2>1. /\ UNCHANGED <<meta, entities, physical, renames, changes>>
        /\ phase' = "idle" /\ plan' = <<>> /\ faults < MaxFaults /\ faults' = faults + 1
    BY <1>1 DEF Fail
  <2>2. plan' \in Seq(Queries)
    BY <2>1, EmptySeq
  <2>3. faults' \in 0 .. MaxFaults /\ faults' # 0
    BY <2>1, MigrationConstants DEF MigrationInv, MigrationTypeOK
  <2> QED BY <2>1, <2>2, <2>3 DEF MigrationInv, MigrationTypeOK, EndsAsEntities
<1>2. CASE Finish
  <2>1. /\ UNCHANGED <<meta, entities, physical, plan, renames, changes, faults>>
        /\ phase = "migrating" /\ plan = <<>> /\ phase' = "done"
    BY <1>2 DEF Finish
  <2>2. /\ entities \in Schemas /\ physical \in Databases /\ renames \in BOOLEAN
        /\ Covers(<<>>, physical, entities, renames)
    BY <2>1 DEF MigrationInv, MigrationTypeOK, Fits
  <2>3. EndsAsEntities'
    <3>1. /\ DOMAIN entities \subseteq DOMAIN physical
          /\ \A t \in DOMAIN entities :
               /\ DOMAIN physical[t] = DOMAIN entities[t]
               /\ ~renames => TypesOf(physical)[t] = entities[t]
      BY <2>2, NothingLeft
    <3>2. faults = 0 => DOMAIN physical = DOMAIN entities
      BY <3>1 DEF MigrationInv
    <3> QED BY <2>1, <3>1, <3>2 DEF EndsAsEntities
  <2> QED BY <2>1, <2>3 DEF MigrationInv, MigrationTypeOK
<1> QED BY <1>1, <1>2

\* In every state what remains of a migration fits the database and the entities.
THEOREM MigrationFits == MigrationSpec => []MigrationInv
<1>1. ASSUME MigrationInv, [MigrationNext]_migrationVars PROVE MigrationInv'
  <2>1. CASE UNCHANGED migrationVars
    BY <1>1, <2>1 DEF MigrationInv, MigrationTypeOK, EndsAsEntities, migrationVars
  <2> QED BY <1>1, <2>1, ChangeKeeps, WriteKeeps, GenerateKeeps, ExecuteKeeps, EndKeeps
          DEF MigrationNext
<1> QED BY <1>1, MigrationStarts, PTL DEF MigrationSpec

\* A migration that ends leaves the tables and columns of its entities (EndsAsEntities):
\* the statements of runMigration do what generateMigrationFile compared.
THEOREM MigrationEnds == MigrationSpec => []EndsAsEntities
<1>1. MigrationInv => EndsAsEntities
  BY DEF MigrationInv
<1> QED BY <1>1, MigrationFits, PTL

\* What a DROP or an ADD leaves in the list, when a single column goes and one comes.
LEMMA OnlyRename ==
  ASSUME NEW db, NEW es, NEW st \in Seq(Queries), st # <<>>, NEW renamed, Fits(st, db, es, renamed),
         NEW t \in TableNames, NEW a \in ColumnNames, NEW b \in ColumnNames,
         Differing(db, es) = {<<t, a>>}, Differing(es, db) = {<<t, b>>}
  PROVE  Head(st).op \notin {"DROP", "ADD"}
<1> DEFINE s == Head(st)
<1>1. /\ s = st[1] /\ 1 \in DOMAIN st /\ DOMAIN st \in SUBSET Nat
      /\ \A i \in DOMAIN st : st[i] \in Queries /\ i >= 1
      /\ \A i \in DOMAIN st : i # 1 => 2 \in DOMAIN st
  BY TailIs, LenProperties
<1>2. /\ \A i \in DOMAIN st : Asked(st[i], db, es)
      /\ \A i, j \in DOMAIN st : i # j => Touches(st[i]) \cap Touches(st[j]) = {}
      /\ \A i, j \in DOMAIN st : i < j => Turn(st[i]) <= Turn(st[j])
      /\ \A i \in DOMAIN st : i + 1 \in DOMAIN st => ~Pairs(st[i], st[i + 1])
      /\ Covers(st, db, es, renamed)
  BY DEF Fits, AllAsked, Apart, InTurn
<1> HIDE DEF s
<1>3. \A i \in DOMAIN st :
        /\ st[i].op \in {"DROP", "RENAME"} => <<t, a>> \in Touches(st[i])
        /\ st[i].op \in {"ADD", "RENAME"} => <<t, b>> \in Touches(st[i])
  BY <1>1, <1>2, TouchesNames DEF Asked
<1>4. ASSUME s.op = "DROP" PROVE FALSE
  <2>1. PICK i \in DOMAIN st : Brings(st[i], <<t, b>>)
    BY <1>2 DEF Covers
  <2>2. \A j \in DOMAIN st : j # 1 => st[j].op \notin {"DROP", "RENAME"}
    BY <1>1, <1>2, <1>3, <1>4
  <2>3. i # 1 /\ st[i].op = "ADD"
    BY <1>1, <1>4, <2>1, <2>2 DEF Brings
  <2>4. 2 \in DOMAIN st /\ (i # 2 => 2 < i)
    BY <1>1, <2>3
  <2>5. st[2].op = "ADD"
    <3>1. Turn(st[1]) = 1 /\ Turn(st[i]) = 3
      BY <1>1, <1>4, <2>3 DEF Turn
    <3>2. Turn(st[1]) <= Turn(st[2])
      BY <1>1, <1>2, <2>4
    <3>3. Turn(st[2]) <= Turn(st[i])
      BY <1>2, <2>4, <3>1
    <3>4. /\ st[2].op \in {"CREATE", "DROP", "ADD", "MODIFY", "RENAME"}
          /\ st[2].op \notin {"DROP", "RENAME"}
      BY <1>1, <2>2, <2>4 DEF Queries
    <3> QED BY <3>1, <3>2, <3>3, <3>4 DEF Turn
  <2>6. i = 2
    BY <1>2, <1>3, <2>3, <2>4, <2>5
  <2>7. <<st[1].table, st[1].column>> = <<t, a>> /\ <<st[2].table, st[2].column>> = <<t, b>>
    BY <1>1, <1>2, <1>4, <2>4, <2>5 DEF Asked
  <2>8. Pairs(st[1], st[2])
    BY <1>1, <1>4, <2>5, <2>7 DEF Pairs
  <2>9. 1 + 1 \in DOMAIN st => ~Pairs(st[1], st[1 + 1])
    BY <1>1, <1>2
  <2>10. 1 + 1 = 2
    OBVIOUS
  <2> QED BY <2>4, <2>8, <2>9, <2>10
<1>5. ASSUME s.op = "ADD" PROVE FALSE
  <2>1. PICK i \in DOMAIN st : TakesAway(st[i], <<t, a>>)
    BY <1>2 DEF Covers
  <2>2. i # 1 /\ Turn(st[i]) < 3 /\ Turn(s) = 3
    BY <1>1, <1>5, <2>1 DEF TakesAway, Turn
  <2>3. 1 < i
    BY <1>1, <2>2
  <2>4. Turn(st[1]) <= Turn(st[i])
    BY <1>1, <1>2, <2>3
  <2>5. Turn(st[i]) \in Nat
    BY DEF Turn
  <2> QED BY <1>1, <2>2, <2>4, <2>5
<1> QED BY <1>4, <1>5 DEF s

\* No statement of a migration loses rows it could keep (RowsStay): the pairs that
\* the helper joins are the ones that carry rows over.
THEOREM MigrationKeepsRows == MigrationSpec => RowsStay
<1> DEFINE Stays ==
      /\ \A p \in Common(physical, entities) :
           /\ p[1] \in DOMAIN physical' /\ p[2] \in DOMAIN physical'[p[1]]
           /\ physical'[p[1]][p[2]].rows = physical[p[1]][p[2]].rows
      /\ \A t \in TableNames, a, b \in ColumnNames :
           Differing(physical, entities) = {<<t, a>>} /\ Differing(entities, physical) = {<<t, b>>}
             => \/ a \in DOMAIN physical'[t] /\ b \notin DOMAIN physical'[t]
                \/ /\ a \notin DOMAIN physical'[t] /\ b \in DOMAIN physical'[t]
                   /\ physical'[t][b].rows = physical[t][a].rows
<1>1. ASSUME UNCHANGED physical PROVE Stays
  <2>1. \A p \in Common(physical, entities) : p[1] \in DOMAIN physical /\ p[2] \in DOMAIN physical[p[1]]
    BY DEF Common
  <2>2. ASSUME NEW t \in TableNames, NEW a \in ColumnNames, NEW b \in ColumnNames,
               Differing(physical, entities) = {<<t, a>>}, Differing(entities, physical) = {<<t, b>>}
        PROVE  a \in DOMAIN physical[t] /\ b \notin DOMAIN physical[t]
    BY <2>2, CellsIn
  <2> QED BY <1>1, <2>1, <2>2
<1>2. ASSUME MigrationInv, Execute PROVE Stays
  <2> DEFINE s == Head(plan)
             db == physical
             r == physical'
             E == entities
  <2>1. Moves(db, r, s, E)
    BY <1>2, ExecuteKeeps
  <2>2. /\ plan # <<>> /\ E \in Schemas /\ db \in Databases /\ plan \in Seq(Queries)
        /\ Fits(plan, db, E, renames) /\ r = Run(db, s)
    BY <1>2 DEF Execute, MigrationInv, MigrationTypeOK
  <2>3. s \in Queries /\ Asked(s, db, E)
    BY <2>2, TailIs DEF Fits, AllAsked
  <2> HIDE DEF s, db, r, E
  <2>4. ASSUME NEW p \in Common(db, E)
        PROVE  p[1] \in DOMAIN r /\ p[2] \in DOMAIN r[p[1]] /\ r[p[1]][p[2]].rows = db[p[1]][p[2]].rows
    <3>1. PICK u \in TableNames, x \in ColumnNames : p = <<u, x>>
      BY DEF Common
    <3>2. <<u, x>> \in Common(r, E) /\ r[u][x].rows = db[u][x].rows
      BY <2>1, <3>1 DEF Moves
    <3>3. u \in DOMAIN r /\ x \in DOMAIN r[u]
      BY <3>2, CellsIn
    <3> QED BY <3>1, <3>2, <3>3
  <2>5. ASSUME NEW t \in TableNames, NEW a \in ColumnNames, NEW b \in ColumnNames,
               Differing(db, E) = {<<t, a>>}, Differing(E, db) = {<<t, b>>}
        PROVE  \/ a \in DOMAIN r[t] /\ b \notin DOMAIN r[t]
               \/ a \notin DOMAIN r[t] /\ b \in DOMAIN r[t] /\ r[t][b].rows = db[t][a].rows
    <3>1. /\ t \in DOMAIN db /\ t \in DOMAIN E
          /\ a \in DOMAIN db[t] /\ a \notin DOMAIN E[t] /\ b \notin DOMAIN db[t] /\ b \in DOMAIN E[t]
      BY <2>5, CellsIn
    <3>2. s.op \in {"CREATE", "MODIFY", "RENAME"}
      <4>1. s.op \notin {"DROP", "ADD"}
        BY <2>2, <2>5, OnlyRename DEF s
      <4> QED BY <2>3, <4>1 DEF Queries
    <3>3. CASE s.op = "CREATE"
      <4>1. s.table # t
        BY <2>3, <3>1, <3>3 DEF Asked
      <4>2. \E y : r = With(db, s.table, y)
        BY <2>2, <3>3 DEF Run
      <4>3. r[t] = db[t]
        BY <3>1, <4>1, <4>2 DEF With
      <4> QED BY <3>1, <4>3
    <3>4. CASE s.op = "MODIFY"
      <4>1. r = [db EXCEPT ![s.table][s.column].type = s.type]
        BY <2>2, <3>4, RunIs
      <4>2. DOMAIN r[t] = DOMAIN db[t]
        BY <3>1, <4>1
      <4> QED BY <3>1, <4>2
    <3>5. CASE s.op = "RENAME"
      <4>1. s.table = t /\ s.column = a /\ s.type = b
        BY <2>3, <2>5, <3>5 DEF Asked
      <4>2. r = [db EXCEPT ![s.table] = With(Without(@, s.column), s.type, @[s.column])]
        BY <2>2, <3>5, RunIs
      <4>3. r[t] = With(Without(db[t], a), b, db[t][a])
        BY <3>1, <4>1, <4>2
      <4> QED BY <3>1, <4>3 DEF With, Without
    <3> QED BY <3>2, <3>3, <3>4, <3>5
  <2> QED BY <2>4, <2>5 DEF db, r, E
<1>3. ASSUME MigrationInv, [MigrationNext]_migrationVars PROVE phase = "migrating" => Stays
  <2> SUFFICES ASSUME phase = "migrating" PROVE Stays
    OBVIOUS
  <2>1. Execute \/ UNCHANGED physical
    BY <1>3 DEF MigrationNext, migrationVars, Change, Write, Generate, Fail, Finish
  <2> QED BY <1>1, <1>2, <1>3, <2>1
<1>4. MigrationInv /\ [MigrationNext]_migrationVars => [phase = "migrating" => Stays]_migrationVars
  BY <1>3
<1> QED BY <1>4, MigrationFits, PTL DEF MigrationSpec, RowsStay

=============================================================================
