----------------------------- MODULE RouteCache -----------------------------
(***************************************************************************)
(* RouteCacheService: the routes every request is matched against, cached  *)
(* in Redis under two keys (GLOBAL_ROUTES_KEY with a TTL, STALE_ROUTES_KEY *)
(* without) and refreshed by whoever changes them through                  *)
(* DynamicRepository, by requests that find no cache at all, and in the    *)
(* background by requests that find only the stale copy                    *)
(* (REVALIDATING_KEY guards that).                                         *)
(*                                                                         *)
(* A Task is a chain of awaits of some instance; it serves one request     *)
(* after another.  The routes are built from two queries, each of which    *)
(* sees the database at its own moment: a version counts the changes each  *)
(* query has seen.                                                         *)
(***************************************************************************)
EXTENDS Naturals

CONSTANTS Tasks,
          None,       \* an absent Redis key, a query not yet answered
          MaxWrites,  \* bound: changes of the tables behind the routes
          MaxFaults   \* bound: failures of the database, of Redis, of an instance

Parts   == {"hooks", "routes"}
Version == [Parts -> 0..MaxWrites]

ASSUME NoneAssumption == None \notin Tasks /\ None \notin Nat /\ None \notin Version
ASSUME BoundsAssumption == MaxWrites \in Nat /\ MaxFaults \in Nat

VARIABLES
  db,      \* the committed version
  global,  \* GLOBAL_ROUTES_KEY
  stale,   \* STALE_ROUTES_KEY
  flag,    \* REVALIDATING_KEY: its setter (Redis holds the constant 'true')
  pc,      \* where each task is
  role,    \* why it loads the routes
  loaded,  \* what its two queries returned
  newest,  \* history: the newest version ever stored, part by part
  raced,   \* history: a load stored an older version over a newer one
  lost,    \* history: a change was committed and never reloaded
  overran, \* history: a revalidation outlived the TTL of the flag
  faults   \* failures so far

keys  == <<global, stale, flag>>
tasks == <<pc, role, loaded>>
past  == <<newest, raced, lost, overran>>
vars  == <<db, keys, tasks, past, faults>>

Roles == {"none", "write", "cold", "revalidate"}
Loads == {"load", "setGlobal", "setStale"}

Unread == [p \in Parts |-> None]
Older(v, w) == \E p \in Parts : v[p] < w[p]

Goto(t, from, to) == pc[t] = from /\ pc' = [pc EXCEPT ![t] = to]

StartLoad(t, from, why) ==
  /\ Goto(t, from, "load")
  /\ role' = [role EXCEPT ![t] = why]
  /\ loaded' = [loaded EXCEPT ![t] = Unread]

Forget(t) ==
  /\ role' = [role EXCEPT ![t] = "none"]
  /\ loaded' = [loaded EXCEPT ![t] = Unread]

\* A load is over; a revalidation has its flag to clear (finally).
EndLoad(t, from) ==
  /\ Goto(t, from, IF role[t] = "revalidate" THEN "release" ELSE "idle")
  /\ Forget(t)

Init ==
  /\ db = [p \in Parts |-> 0]
  /\ global = None /\ stale = None /\ flag = None
  /\ pc = [t \in Tasks |-> "idle"]
  /\ role = [t \in Tasks |-> "none"]
  /\ loaded = [t \in Tasks |-> Unread]
  /\ newest = db
  /\ raced = FALSE /\ lost = FALSE /\ overran = FALSE
  /\ faults = 0

-----------------------------------------------------------------------------
(* Changes. *)

Commit(p) ==
  /\ db["hooks"] + db["routes"] < MaxWrites
  /\ db' = [db EXCEPT ![p] = @ + 1]

\* DynamicRepository commits a change of one of the tables in reload's list and
\* awaits reloadRouteCache.
Write(t) ==
  /\ \E p \in Parts : Commit(p)
  /\ StartLoad(t, "idle", "write")
  /\ UNCHANGED <<keys, past, faults>>

\* A change nobody reloads: update and delete of table_definition return before
\* reload, and a table outside the list (the users a permission allows, say).
WriteUnreloaded ==
  /\ Commit("routes")
  /\ lost' = TRUE
  /\ UNCHANGED <<keys, tasks, newest, raced, overran, faults>>

-----------------------------------------------------------------------------
(* Requests.  One that finds GLOBAL_ROUTES_KEY is answered and changes nothing. *)

\* getRoutesWithSWR misses the fresh copy.
Miss(t) ==
  /\ global = None
  /\ Goto(t, "idle", "miss")
  /\ UNCHANGED <<db, keys, role, loaded, past, faults>>

\* ... and finds the stale one: it is answered with it, and a revalidation
\* starts in the background unless the flag says that one is at work.
ServeStale(t) ==
  /\ stale # None
  /\ Goto(t, "miss", IF flag = None THEN "acquire" ELSE "idle")
  /\ UNCHANGED <<db, keys, role, loaded, past, faults>>

\* ... and finds neither: it waits for loadAndCacheRoutes.
LoadCold(t) ==
  /\ stale = None
  /\ StartLoad(t, "miss", "cold")
  /\ UNCHANGED <<db, keys, past, faults>>

\* The GraphQL resolver knows no stale copy.
GraphqlMiss(t) ==
  /\ global = None
  /\ StartLoad(t, "idle", "cold")
  /\ UNCHANGED <<db, keys, past, faults>>

\* Mutant: the flag is set without NX.
AcquireFlagAnyway(t) ==
  /\ StartLoad(t, "acquire", "revalidate")
  /\ flag' = t
  /\ UNCHANGED <<db, global, stale, past, faults>>

\* backgroundRevalidate takes the flag, or leaves it to whoever has it.
AcquireFlag(t) ==
  /\ IF flag = None
       THEN StartLoad(t, "acquire", "revalidate") /\ flag' = t
       ELSE Goto(t, "acquire", "idle") /\ UNCHANGED <<role, loaded, flag>>
  /\ UNCHANGED <<db, global, stale, past, faults>>

\* The flag's value is the same for all: whoever releases deletes it, whoever
\* set it.
ReleaseFlag(t) ==
  /\ Goto(t, "release", "idle")
  /\ flag' = None
  /\ UNCHANGED <<db, global, stale, role, loaded, past, faults>>

-----------------------------------------------------------------------------
(* Loads: loadRoutes, then Promise.all of the two keys. *)

\* One of the two queries sees the database.
Read(t, p) ==
  /\ pc[t] = "load" /\ loaded[t][p] = None
  /\ loaded' = [loaded EXCEPT ![t][p] = db[p]]
  /\ pc' = [pc EXCEPT ![t] = IF \E q \in Parts \ {p} : loaded[t][q] = None
                               THEN "load" ELSE "setGlobal"]
  /\ UNCHANGED <<db, keys, role, past, faults>>

\* History: what a store of t's version means for the ones stored before.
Store(t) ==
  /\ raced' = (raced \/ Older(loaded[t], newest))
  /\ newest' = [p \in Parts |-> IF newest[p] < loaded[t][p] THEN loaded[t][p] ELSE newest[p]]

\* Mutant: the reload keeps a copy that is there (acquire in place of set).
SetGlobalIfAbsent(t) ==
  /\ Goto(t, "setGlobal", "setStale")
  /\ IF global # None
       THEN UNCHANGED <<global, newest, raced>>
       ELSE global' = loaded[t] /\ Store(t)
  /\ UNCHANGED <<db, stale, flag, role, loaded, lost, overran, faults>>

\* Mutant: the queries are not awaited.
SetGlobalEarly(t) ==
  /\ pc[t] \in {"load", "setGlobal"}
  /\ pc' = [pc EXCEPT ![t] = "setStale"]
  /\ global' = loaded[t]
  /\ UNCHANGED <<db, stale, flag, role, loaded, past, faults>>

\* A reload sets the key; a cold load uses acquire, which keeps a copy another
\* one has stored meanwhile.
SetGlobal(t) ==
  /\ Goto(t, "setGlobal", "setStale")
  /\ IF role[t] = "cold" /\ global # None
       THEN UNCHANGED <<global, newest, raced>>
       ELSE global' = loaded[t] /\ Store(t)
  /\ UNCHANGED <<db, stale, flag, role, loaded, lost, overran, faults>>

SetStale(t) ==
  /\ EndLoad(t, "setStale")
  /\ stale' = loaded[t]
  /\ Store(t)
  /\ UNCHANGED <<db, global, flag, lost, overran, faults>>

-----------------------------------------------------------------------------
(* Failures and TTLs. *)

\* A change whose reload is under way; a revalidation under way.
Pending(t)      == role[t] = "write"
Revalidating(t) == role[t] = "revalidate" \/ pc[t] = "release"

Fault ==
  /\ faults < MaxFaults
  /\ faults' = faults + 1

\* A reload that fails is logged and forgotten.
Lose(t) == lost' = (lost \/ role[t] = "write")

\* A query throws: the reload is over, a cold request fails.
LoadFails(t) ==
  /\ Fault /\ Lose(t)
  /\ EndLoad(t, "load")
  /\ UNCHANGED <<db, keys, newest, raced, overran>>

\* One of the two stores fails; the other is on its way all the same.
SetGlobalFails(t) ==
  /\ Fault /\ Lose(t)
  /\ Goto(t, "setGlobal", "setStale")
  /\ UNCHANGED <<db, keys, role, loaded, newest, raced, overran>>

SetStaleFails(t) ==
  /\ Fault /\ Lose(t)
  /\ EndLoad(t, "setStale")
  /\ UNCHANGED <<db, keys, newest, raced, overran>>

\* The instance dies, or Redis fails to answer outside a load (the flag may
\* have been set and never be cleared).
Stop(t) ==
  /\ Fault
  /\ pc[t] # "idle"
  /\ pc' = [pc EXCEPT ![t] = "idle"]
  /\ Forget(t)
  /\ lost' = (lost \/ Pending(t))
  /\ UNCHANGED <<db, keys, newest, raced, overran>>

ExpireGlobal ==
  /\ global # None
  /\ global' = None
  /\ UNCHANGED <<db, stale, flag, tasks, past, faults>>

\* Mutant: the flag has no TTL.
ExpireFlagNever == FALSE /\ UNCHANGED vars

ExpireFlag ==
  /\ flag # None
  /\ flag' = None
  /\ overran' = (overran \/ Revalidating(flag))
  /\ UNCHANGED <<db, global, stale, tasks, newest, raced, lost, faults>>

-----------------------------------------------------------------------------

Step(t) ==
  \/ ServeStale(t) \/ LoadCold(t) \/ AcquireFlag(t) \/ ReleaseFlag(t)
  \/ (\E p \in Parts : Read(t, p)) \/ SetGlobal(t) \/ SetStale(t)

Next ==
  \/ \E t \in Tasks :
       \/ Write(t) \/ Miss(t) \/ GraphqlMiss(t) \/ Step(t)
       \/ LoadFails(t) \/ SetGlobalFails(t) \/ SetStaleFails(t) \/ Stop(t)
  \/ WriteUnreloaded \/ ExpireGlobal \/ ExpireFlag

Spec == Init /\ [][Next]_vars

\* What was started goes on, the TTLs run out, and requests keep coming.
Fairness ==
  /\ \A t \in Tasks : WF_vars(Step(t))
  /\ WF_vars(ExpireGlobal) /\ WF_vars(ExpireFlag)
  /\ WF_vars(\E t \in Tasks : Miss(t))

FairSpec == Spec /\ Fairness

-----------------------------------------------------------------------------
(* Properties. *)

\* Every variable stays in its domain: among others, only complete versions
\* are cached.
TypeOK ==
  /\ db \in Version /\ newest \in Version
  /\ global \in Version \cup {None} /\ stale \in Version \cup {None}
  /\ flag \in Tasks \cup {None}
  /\ pc \in [Tasks -> {"idle", "miss", "acquire", "release"} \cup Loads]
  /\ role \in [Tasks -> Roles]
  /\ loaded \in [Tasks -> [Parts -> 0..MaxWrites \cup {None}]]
  /\ raced \in BOOLEAN /\ lost \in BOOLEAN /\ overran \in BOOLEAN
  /\ faults \in 0..MaxFaults

\* When every change has been reloaded, both copies are current: old routes
\* (and old permissions) are served on only after a reload was lost or skipped,
\* or a slower load stored what it had read earlier over them.
CurrentUnlessRaced ==
  ~raced /\ ~lost /\ (\A t \in Tasks : ~Pending(t)) =>
    /\ global \in {None, db}
    /\ stale \in {None, db}

\* One revalidation at a time over all instances, as long as none outlives the
\* TTL of the flag.  (Once one did, its release deletes the flag of another.)
OneRevalidation ==
  ~overran => \A t \in Tasks : Revalidating(t) => flag = t

\* Whatever was lost, raced, crashed or failed: when the changes and the
\* failures end and requests keep coming, the cache becomes current and stays so.
Converges == <>[](global \in {None, db} /\ stale = db)
=============================================================================
