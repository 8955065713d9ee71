--------------------------- MODULE PropagationProofs ---------------------------
(***************************************************************************)
(* How changes reach the instances: theorems about RouteCache, for every   *)
(* set of tasks and any number of changes and failures, and, in the second *)
(* half, about SchemaPropagation, for every cluster and any number of      *)
(* changes and calls.                                                      *)
(*                                                                         *)
(* CurrentUnlessRaced says nothing while a reload is under way, so it is   *)
(* not inductive.  Covered follows the last change: until its reload has   *)
(* stored GLOBAL_ROUTES_KEY, some reload has seen nothing but the present  *)
(* database; from then on every store that is not a race stores just that. *)
(*                                                                         *)
(* LastCallLeavesNewest says nothing while a call is under way.  LastInv   *)
(* says how far the latest call has brought the files, schema_history and  *)
(* the events: a change takes the latest key before its call does anything *)
(* else, so once no call is about to do so, the latest one has seen every  *)
(* change, and no other call runs beside it or after it.                   *)
(***************************************************************************)
EXTENDS RouteCache, SchemaPropagation, TLAPS

\* Queries return what was there, loads that are stored have both answers, and a
\* task has a role exactly while it loads.
Sound ==
  /\ \A t \in Tasks, p \in Parts : loaded[t][p] = None \/ loaded[t][p] <= db[p]
  /\ \A t \in Tasks : pc[t] \in {"setGlobal", "setStale"} => loaded[t] \in Version
  /\ \A t \in Tasks : role[t] # "none" <=> pc[t] \in Loads
  /\ \A p \in Parts : newest[p] <= db[p]
  /\ db["hooks"] + db["routes"] <= MaxWrites

\* t reloads a change and has so far read what the database holds now.
Covers(t) == role[t] = "write" /\ \A p \in Parts : loaded[t][p] \in {None, db[p]}

Covered ==
  ~raced /\ ~lost =>
    \/ \E t \in Tasks : Covers(t) /\ pc[t] \in {"load", "setGlobal"}
    \/ /\ newest = db
       /\ global \in {None, db}
       /\ stale \in {None, db} \/ \E t \in Tasks : Covers(t) /\ pc[t] = "setStale"

Base == TypeOK /\ Sound

CacheInv == Base /\ OneRevalidation /\ Covered

-----------------------------------------------------------------------------
(* Types, and what a load has seen. *)

LEMMA TypesNext ==
  ASSUME Base, [Next]_vars
  PROVE  TypeOK'
<1> USE NoneAssumption, BoundsAssumption DEF Base, TypeOK, Sound, Parts,
        Version, Roles, Loads, Unread, Goto, Forget, StartLoad, EndLoad,
        Store, Fault, Lose, Pending, Revalidating, keys, tasks, past
<1>1. ASSUME NEW t \in Tasks, Write(t)
      PROVE  TypeOK'
      BY <1>1 DEF Write, Commit
<1>2. ASSUME NEW t \in Tasks, Miss(t)
      PROVE  TypeOK'
      BY <1>2 DEF Miss
<1>3. ASSUME NEW t \in Tasks, GraphqlMiss(t)
      PROVE  TypeOK'
      BY <1>3 DEF GraphqlMiss
<1>4. ASSUME NEW t \in Tasks, ServeStale(t)
      PROVE  TypeOK'
      BY <1>4 DEF ServeStale
<1>5. ASSUME NEW t \in Tasks, LoadCold(t)
      PROVE  TypeOK'
      BY <1>5 DEF LoadCold
<1>6. ASSUME NEW t \in Tasks, AcquireFlag(t)
      PROVE  TypeOK'
  <2>1. CASE flag = None   BY SMTT(20), <1>6, <2>1 DEF AcquireFlag
  <2>2. CASE flag # None   BY <1>6, <2>2 DEF AcquireFlag
  <2> QED
    BY <2>1, <2>2
<1>7. ASSUME NEW t \in Tasks, ReleaseFlag(t)
      PROVE  TypeOK'
      BY <1>7 DEF ReleaseFlag
<1>8. ASSUME NEW t \in Tasks, NEW p \in Parts, Read(t, p)
      PROVE  TypeOK'
      BY <1>8 DEF Read
<1>9. ASSUME NEW t \in Tasks, SetGlobal(t)
      PROVE  TypeOK'
  <2>1. loaded[t] \in Version
        BY <1>9 DEF SetGlobal
  <2>2. CASE role[t] = "cold" /\ global # None
        BY <1>9, <2>2 DEF SetGlobal
  <2>3. CASE ~(role[t] = "cold" /\ global # None)
    <3>1. newest' \in Version /\ global' \in Version
          BY <1>9, <2>1, <2>3 DEF SetGlobal
    <3>2. pc' \in [Tasks -> {"idle", "miss", "acquire", "release"} \cup Loads] /\ raced' \in BOOLEAN
          BY <1>9, <2>3 DEF SetGlobal, Older
    <3> QED
      BY <1>9, <2>3, <3>1, <3>2 DEF SetGlobal
  <2> QED
    BY <2>2, <2>3
<1>10. ASSUME NEW t \in Tasks, SetStale(t)
      PROVE  TypeOK'
      BY <1>10 DEF SetStale
<1>11. ASSUME NEW t \in Tasks, LoadFails(t)
      PROVE  TypeOK'
      BY <1>11 DEF LoadFails
<1>12. ASSUME NEW t \in Tasks, SetGlobalFails(t)
      PROVE  TypeOK'
      BY <1>12 DEF SetGlobalFails
<1>13. ASSUME NEW t \in Tasks, SetStaleFails(t)
      PROVE  TypeOK'
      BY <1>13 DEF SetStaleFails
<1>14. ASSUME NEW t \in Tasks, Stop(t)
      PROVE  TypeOK'
      BY <1>14 DEF Stop
<1>15. CASE WriteUnreloaded
      BY <1>15 DEF WriteUnreloaded, Commit
<1>16. CASE ExpireGlobal
      BY <1>16 DEF ExpireGlobal
<1>17. CASE ExpireFlag
      BY <1>17 DEF ExpireFlag
<1>18. CASE UNCHANGED vars
      BY <1>18 DEF vars
<1> QED
  BY <1>1, <1>2, <1>3, <1>4, <1>5, <1>6, <1>7, <1>8, <1>9, <1>10, <1>11,
     <1>12, <1>13, <1>14, <1>15, <1>16, <1>17, <1>18 DEF Next, Step

LEMMA SoundNext ==
  ASSUME Base, [Next]_vars
  PROVE  Sound'
<1> USE NoneAssumption, BoundsAssumption DEF Base, TypeOK, Sound, Parts,
        Version, Roles, Loads, Unread, Goto, Forget, StartLoad, EndLoad,
        Store, Fault, Lose, Pending, Revalidating, keys, tasks, past
<1>1. ASSUME NEW t \in Tasks, Write(t)
      PROVE  Sound'
      BY <1>1 DEF Write, Commit
<1>2. ASSUME NEW t \in Tasks, Miss(t)
      PROVE  Sound'
      BY <1>2 DEF Miss
<1>3. ASSUME NEW t \in Tasks, GraphqlMiss(t)
      PROVE  Sound'
      BY <1>3 DEF GraphqlMiss
<1>4. ASSUME NEW t \in Tasks, ServeStale(t)
      PROVE  Sound'
      BY <1>4 DEF ServeStale
<1>5. ASSUME NEW t \in Tasks, LoadCold(t)
      PROVE  Sound'
      BY <1>5 DEF LoadCold
<1>6. ASSUME NEW t \in Tasks, AcquireFlag(t)
      PROVE  Sound'
  <2>1. CASE flag = None
    <3>1. /\ pc[t] = "acquire" /\ pc' = [pc EXCEPT ![t] = "load"]
          /\ role' = [role EXCEPT ![t] = "revalidate"]
          /\ loaded' = [loaded EXCEPT ![t] = Unread]
          /\ UNCHANGED <<db, newest>>
      BY <1>6, <2>1 DEF AcquireFlag
    <3>2. role'[t] # "none" <=> pc'[t] \in Loads
      BY <3>1
    <3>3. \A u \in Tasks \ {t} : pc'[u] = pc[u] /\ role'[u] = role[u] /\ loaded'[u] = loaded[u]
      BY <3>1
    <3>4. \A p \in Parts : loaded'[t][p] = None
      BY <3>1
    <3>5. pc'[t] = "load"
      BY <3>1
    <3> QED
      BY <3>1, <3>2, <3>3, <3>4, <3>5
  <2>2. CASE flag # None   BY SMTT(20), <1>6, <2>2 DEF AcquireFlag
  <2> QED
    BY <2>1, <2>2
<1>7. ASSUME NEW t \in Tasks, ReleaseFlag(t)
      PROVE  Sound'
      BY <1>7 DEF ReleaseFlag
<1>8. ASSUME NEW t \in Tasks, NEW p \in Parts, Read(t, p)
      PROVE  Sound'
      BY <1>8 DEF Read
<1>9. ASSUME NEW t \in Tasks, SetGlobal(t)
      PROVE  Sound'
      BY <1>9 DEF SetGlobal
<1>10. ASSUME NEW t \in Tasks, SetStale(t)
      PROVE  Sound'
      BY <1>10 DEF SetStale
<1>11. ASSUME NEW t \in Tasks, LoadFails(t)
      PROVE  Sound'
      BY <1>11 DEF LoadFails
<1>12. ASSUME NEW t \in Tasks, SetGlobalFails(t)
      PROVE  Sound'
      BY <1>12 DEF SetGlobalFails
<1>13. ASSUME NEW t \in Tasks, SetStaleFails(t)
      PROVE  Sound'
      BY <1>13 DEF SetStaleFails
<1>14. ASSUME NEW t \in Tasks, Stop(t)
      PROVE  Sound'
      BY <1>14 DEF Stop
<1>15. CASE WriteUnreloaded
      BY <1>15 DEF WriteUnreloaded, Commit
<1>16. CASE ExpireGlobal
      BY <1>16 DEF ExpireGlobal
<1>17. CASE ExpireFlag
      BY <1>17 DEF ExpireFlag
<1>18. CASE UNCHANGED vars
      BY <1>18 DEF vars
<1> QED
  BY <1>1, <1>2, <1>3, <1>4, <1>5, <1>6, <1>7, <1>8, <1>9, <1>10, <1>11,
     <1>12, <1>13, <1>14, <1>15, <1>16, <1>17, <1>18 DEF Next, Step

-----------------------------------------------------------------------------
(* The flag. *)

LEMMA RevalidationNext ==
  ASSUME Base, OneRevalidation, [Next]_vars
  PROVE  OneRevalidation'
<1> USE NoneAssumption DEF Base, TypeOK, Sound, OneRevalidation, Parts,
        Version, Roles, Loads, Unread, Goto, Forget, StartLoad, EndLoad,
        Store, Fault, Lose, Pending, Revalidating, keys, tasks, past
<1>1. ASSUME NEW t \in Tasks, Write(t)
      PROVE  OneRevalidation'
      BY <1>1 DEF Write, Commit
<1>2. ASSUME NEW t \in Tasks, Miss(t)
      PROVE  OneRevalidation'
      BY <1>2 DEF Miss
<1>3. ASSUME NEW t \in Tasks, GraphqlMiss(t)
      PROVE  OneRevalidation'
      BY <1>3 DEF GraphqlMiss
<1>4. ASSUME NEW t \in Tasks, ServeStale(t)
      PROVE  OneRevalidation'
      BY <1>4 DEF ServeStale
<1>5. ASSUME NEW t \in Tasks, LoadCold(t)
      PROVE  OneRevalidation'
      BY <1>5 DEF LoadCold
<1>6. ASSUME NEW t \in Tasks, AcquireFlag(t)
      PROVE  OneRevalidation'
      BY <1>6 DEF AcquireFlag
<1>7. ASSUME NEW t \in Tasks, ReleaseFlag(t)
      PROVE  OneRevalidation'
      BY <1>7 DEF ReleaseFlag
<1>8. ASSUME NEW t \in Tasks, NEW p \in Parts, Read(t, p)
      PROVE  OneRevalidation'
      BY <1>8 DEF Read
<1>9. ASSUME NEW t \in Tasks, SetGlobal(t)
      PROVE  OneRevalidation'
      BY <1>9 DEF SetGlobal
<1>10. ASSUME NEW t \in Tasks, SetStale(t)
      PROVE  OneRevalidation'
      BY <1>10 DEF SetStale
<1>11. ASSUME NEW t \in Tasks, LoadFails(t)
      PROVE  OneRevalidation'
      BY <1>11 DEF LoadFails
<1>12. ASSUME NEW t \in Tasks, SetGlobalFails(t)
      PROVE  OneRevalidation'
      BY <1>12 DEF SetGlobalFails
<1>13. ASSUME NEW t \in Tasks, SetStaleFails(t)
      PROVE  OneRevalidation'
      BY <1>13 DEF SetStaleFails
<1>14. ASSUME NEW t \in Tasks, Stop(t)
      PROVE  OneRevalidation'
      BY <1>14 DEF Stop
<1>15. CASE WriteUnreloaded
      BY <1>15 DEF WriteUnreloaded, Commit
<1>16. CASE ExpireGlobal
      BY <1>16 DEF ExpireGlobal
<1>17. CASE ExpireFlag
      BY <1>17 DEF ExpireFlag
<1>18. CASE UNCHANGED vars
      BY <1>18 DEF vars
<1> QED
  BY <1>1, <1>2, <1>3, <1>4, <1>5, <1>6, <1>7, <1>8, <1>9, <1>10, <1>11,
     <1>12, <1>13, <1>14, <1>15, <1>16, <1>17, <1>18 DEF Next, Step

-----------------------------------------------------------------------------
(* The copies. *)

\* A store that is no race leaves its version the newest.
LEMMA NotOlderIsSame ==
  ASSUME NEW v \in Version, NEW w \in Version, ~Older(v, w), \A p \in Parts : v[p] <= w[p]
  PROVE  v = w
<1>1. ASSUME NEW p \in Parts
      PROVE  v[p] = w[p]
  <2>1. v[p] \in Nat /\ w[p] \in Nat /\ ~(v[p] < w[p]) /\ v[p] <= w[p]
        BY BoundsAssumption DEF Version, Older
  <2> QED
    BY <2>1
<1>2. v = [p \in Parts |-> v[p]] /\ w = [p \in Parts |-> w[p]]
      BY DEF Version
<1> QED
  BY <1>1, <1>2

LEMMA StoredIsNewest ==
  ASSUME NEW t \in Tasks, newest \in Version, loaded[t] \in Version,
         ~Older(loaded[t], newest), Store(t)
  PROVE  newest' = loaded[t]
<1>1. ASSUME NEW p \in Parts
      PROVE  newest'[p] = loaded[t][p]
  <2>1. newest[p] \in Nat /\ loaded[t][p] \in Nat /\ ~(loaded[t][p] < newest[p])
        BY BoundsAssumption DEF Version, Older
  <2>2. newest'[p] = IF newest[p] < loaded[t][p] THEN loaded[t][p] ELSE newest[p]
        BY DEF Store
  <2> QED
    BY <2>1, <2>2
<1>2. newest' = [p \in Parts |-> newest'[p]]
      BY DEF Store
<1>3. loaded[t] = [p \in Parts |-> loaded[t][p]]
      BY DEF Version
<1> QED
  BY <1>1, <1>2, <1>3

LEMMA CoveredNext ==
  ASSUME Base, Covered, [Next]_vars
  PROVE  Covered'
<1> USE NoneAssumption, BoundsAssumption DEF Base, TypeOK, Sound, Covered,
        Covers, Older, Parts, Version, Roles, Loads, Unread, Goto, Forget,
        StartLoad, EndLoad, Store, Fault, Lose, Pending, Revalidating, keys,
        tasks, past
<1>1. ASSUME NEW t \in Tasks, Write(t)
      PROVE  Covered'
      BY <1>1 DEF Write, Commit
<1>2. ASSUME NEW t \in Tasks, Miss(t)
      PROVE  Covered'
      BY <1>2 DEF Miss
<1>3. ASSUME NEW t \in Tasks, GraphqlMiss(t)
      PROVE  Covered'
      BY <1>3 DEF GraphqlMiss
<1>4. ASSUME NEW t \in Tasks, ServeStale(t)
      PROVE  Covered'
      BY <1>4 DEF ServeStale
<1>5. ASSUME NEW t \in Tasks, LoadCold(t)
      PROVE  Covered'
      BY <1>5 DEF LoadCold
<1>6. ASSUME NEW t \in Tasks, AcquireFlag(t)
      PROVE  Covered'
      BY SMTT(20), <1>6 DEF AcquireFlag
<1>7. ASSUME NEW t \in Tasks, ReleaseFlag(t)
      PROVE  Covered'
      BY <1>7 DEF ReleaseFlag
<1>8. ASSUME NEW t \in Tasks, NEW p \in Parts, Read(t, p)
      PROVE  Covered'
      BY <1>8 DEF Read
<1>9. ASSUME NEW t \in Tasks, SetGlobal(t)
      PROVE  Covered'
  <2> SUFFICES ASSUME ~raced', ~lost'
               PROVE  Covered'
    OBVIOUS
  <2>1. loaded[t] \in Version /\ (\A p \in Parts : loaded[t][p] <= db[p]) /\ pc'[t] = "setStale"
        BY <1>9 DEF SetGlobal
  <2>2. CASE role[t] = "cold" /\ global # None
        BY <1>9, <2>2 DEF SetGlobal
  <2>3. CASE ~(role[t] = "cold" /\ global # None)
    <3>1. global' = loaded[t] /\ ~Older(loaded[t], newest) /\ Store(t) /\ ~raced /\ ~lost
          BY <1>9, <2>3 DEF SetGlobal
    <3>2. newest' = loaded[t]
          BY <2>1, <3>1, StoredIsNewest
    <3>3. CASE newest = db /\ global \in {None, db}
               /\ (stale \in {None, db} \/ \E u \in Tasks : Covers(u) /\ pc[u] = "setStale")
      <4>1. loaded[t] = db
            BY <2>1, <3>1, <3>3, NotOlderIsSame
      <4> QED
        BY <1>9, <3>1, <3>2, <3>3, <4>1 DEF SetGlobal
    <3>4. ASSUME NEW u \in Tasks, Covers(u), pc[u] \in {"load", "setGlobal"}, u # t
          PROVE  Covered'
          BY <1>9, <3>4 DEF SetGlobal
    <3>5. CASE Covers(t)
      <4>1. loaded[t] = db
            BY <2>1, <3>5
      <4>2. Covers(t)'
            BY <1>9, <3>5 DEF SetGlobal
      <4> QED
        BY <1>9, <2>1, <3>1, <3>2, <4>1, <4>2 DEF SetGlobal
    <3> QED
      BY <3>1, <3>3, <3>4, <3>5
  <2> QED
    BY <2>2, <2>3
<1>10. ASSUME NEW t \in Tasks, SetStale(t)
      PROVE  Covered'
  <2> SUFFICES ASSUME ~raced', ~lost'
               PROVE  Covered'
    OBVIOUS
  <2>1. loaded[t] \in Version /\ \A p \in Parts : loaded[t][p] <= db[p]
        BY <1>10 DEF SetStale
  <2>2. stale' = loaded[t] /\ ~Older(loaded[t], newest) /\ Store(t) /\ ~raced /\ ~lost
        BY <1>10 DEF SetStale
  <2>3. newest' = loaded[t]
        BY <2>1, <2>2, StoredIsNewest
  <2>4. CASE newest = db /\ global \in {None, db}
    <3>1. loaded[t] = db
          BY <2>1, <2>2, <2>4, NotOlderIsSame
    <3> QED
      BY <1>10, <2>2, <2>3, <2>4, <3>1 DEF SetStale
  <2>5. ASSUME NEW u \in Tasks, Covers(u), pc[u] \in {"load", "setGlobal"}
        PROVE  Covered'
        BY <1>10, <2>5 DEF SetStale
  <2> QED
    BY <2>2, <2>4, <2>5
<1>11. ASSUME NEW t \in Tasks, LoadFails(t)
      PROVE  Covered'
      BY <1>11 DEF LoadFails
<1>12. ASSUME NEW t \in Tasks, SetGlobalFails(t)
      PROVE  Covered'
      BY <1>12 DEF SetGlobalFails
<1>13. ASSUME NEW t \in Tasks, SetStaleFails(t)
      PROVE  Covered'
      BY <1>13 DEF SetStaleFails
<1>14. ASSUME NEW t \in Tasks, Stop(t)
      PROVE  Covered'
      BY <1>14 DEF Stop
<1>15. CASE WriteUnreloaded
      BY <1>15 DEF WriteUnreloaded, Commit
<1>16. CASE ExpireGlobal
      BY <1>16 DEF ExpireGlobal
<1>17. CASE ExpireFlag
      BY <1>17 DEF ExpireFlag
<1>18. CASE UNCHANGED vars
      BY <1>18 DEF vars
<1> QED
  BY <1>1, <1>2, <1>3, <1>4, <1>5, <1>6, <1>7, <1>8, <1>9, <1>10, <1>11,
     <1>12, <1>13, <1>14, <1>15, <1>16, <1>17, <1>18 DEF Next, Step

-----------------------------------------------------------------------------
(* The invariant, and the theorems. *)

LEMMA InitInv == Init => CacheInv
<1> SUFFICES ASSUME Init
             PROVE  CacheInv
  OBVIOUS
<1> USE NoneAssumption, BoundsAssumption DEF Init, Parts, Version, Roles, Loads, Unread
<1>1. TypeOK
  <2>1. db \in Version /\ newest \in Version
        OBVIOUS
  <2>2. flag \in Tasks \cup {None} /\ global \in Version \cup {None} /\ stale \in Version \cup {None}
        OBVIOUS
  <2>3. pc \in [Tasks -> {"idle", "miss", "acquire", "release"} \cup Loads]
        OBVIOUS
  <2>4. role \in [Tasks -> Roles] /\ loaded \in [Tasks -> [Parts -> 0..MaxWrites \cup {None}]]
        OBVIOUS
  <2>5. raced \in BOOLEAN /\ lost \in BOOLEAN /\ overran \in BOOLEAN
        OBVIOUS
  <2>6. faults \in 0..MaxFaults
        OBVIOUS
  <2> QED
    BY <2>1, <2>2, <2>3, <2>4, <2>5, <2>6 DEF TypeOK
<1>2. Sound           BY DEF Sound
<1>3. OneRevalidation BY DEF OneRevalidation, Revalidating
<1>4. Covered         BY DEF Covered
<1> QED
  BY <1>1, <1>2, <1>3, <1>4 DEF CacheInv, Base

LEMMA CacheInvariant == Spec => []CacheInv
<1>1. CacheInv /\ [Next]_vars => CacheInv'
  BY TypesNext, SoundNext, RevalidationNext, CoveredNext DEF CacheInv, Base
<1> QED
  BY InitInv, <1>1, PTL DEF Spec

\* The database, the keys of Redis and the loads keep their types; in particular,
\* only complete answers are cached.
THEOREM CachesTyped == Spec => []TypeOK
<1>1. CacheInv => TypeOK
  BY DEF CacheInv, Base
<1> QED
  BY <1>1, CacheInvariant, PTL

\* Over all instances one revalidation is at work, unless one has outlived the TTL
\* of the flag (RouteCacheService.backgroundRevalidate).
THEOREM RevalidatesOnce == Spec => []OneRevalidation
<1>1. CacheInv => OneRevalidation
  BY DEF CacheInv
<1> QED
  BY <1>1, CacheInvariant, PTL

\* When every change has been reloaded and no slower load has overwritten a newer
\* one, both copies of the routes are those of the database.
THEOREM CopiesAreCurrent == Spec => []CurrentUnlessRaced
<1>1. CacheInv => CurrentUnlessRaced
  BY DEF CacheInv, Covered, Covers, CurrentUnlessRaced, Pending
<1> QED
  BY <1>1, CacheInvariant, PTL

-----------------------------------------------------------------------------
(* Schema propagation.                                                     *)

\* A version, an event or a row that a handler has read is one of schema_history,
\* which only grows.

Running == {"pull", "load", "swap", "backup", "publish"}
Places  == {"idle", "set", "lock", "done", "skipped", "timeout"} \cup Running

\* What a handler has read exists.
Known(h) ==
  /\ h.event \in 1..Len(events) /\ h.newest <= Newest /\ h.entities <= MaxChanges
  /\ h.stage # "read" => h.newest >= 1

\* Where the calls and the handlers are.
RowSound ==
  /\ Newest >= 1
  /\ place \in [Calls -> Places]
  /\ \A c \in Calls : place[c] # "idle" => at[c] \in Instances
  /\ \A c \in Calls : place[c] = "publish" => row[c] >= 1
  /\ \A h \in handlers : Known(h)

RowInv == PropagationTypeOK /\ RowSound

LEMMA Bounds ==
  /\ MaxChanges \in Nat
  /\ \A s \in DOMAIN Changes : Changes[s] \in 0..MaxChanges
<1> DEFINE R == {Changes[s] : s \in DOMAIN Changes}
           P(n) == \A s \in DOMAIN Changes : n >= Changes[s]
<1>1. \E n \in R : P(n)
  BY ChangesAssumption
<1>2. MaxChanges = CHOOSE n \in R : P(n)
  BY DEF MaxChanges
<1>3. MaxChanges \in R /\ P(MaxChanges)
  <2> HIDE DEF R, P
  <2> QED
    BY <1>1, <1>2, Zenon
<1> QED
  BY <1>3, ChangesAssumption

LEMMA RowInit ==
  PropagationInit => RowInv
BY Bounds, NodesAssumption, NobodyAssumption, CallsAssumption
   DEF PropagationInit, RowInv, PropagationTypeOK, RowSound, Known, Newest,
   Places, Calls, Handler

\* What refers to a row still does when there are more.
LEMMA RowsGrow ==
  ASSUME NEW m \in Nat, NEW n \in Nat, m <= n
  PROVE  /\ \A f \in [Instances -> 1..m] : f \in [Instances -> 1..n]
         /\ \A f \in [Calls -> 0..m] : f \in [Calls -> 0..n]
         /\ Seq([version : 1..m, from : Instances])
              \subseteq Seq([version : 1..n, from : Instances])
<1>1. [version : 1..m, from : Instances] \subseteq [version : 1..n, from : Instances]
  OBVIOUS
<1>2. \A S, T : S \subseteq T => Seq(S) \subseteq Seq(T)
  OBVIOUS
<1>3. 1..m \subseteq 1..n /\ 0..m \subseteq 0..n
  OBVIOUS
<1>4. /\ \A f \in [Instances -> 1..m] : f \in [Instances -> 1..n]
      /\ \A f \in [Calls -> 0..m] : f \in [Calls -> 0..n]
  BY <1>3
<1> QED
  BY <1>1, <1>2, <1>4

\* A call that goes on leaves what handlers have read.
LEMMA CallGoesOn ==
  ASSUME RowSound, NEW c \in Calls, place[c] # "idle",
         NEW to \in Places, to # "publish", place' = [place EXCEPT ![c] = to],
         UNCHANGED <<at, row, history, events, handlers>>
  PROVE  RowSound'
BY DEF RowSound, Known, Newest

LEMMA CallType ==
  ASSUME RowInv, NEW c \in Calls, CallStep(c)
  PROVE  RowInv'
<1>h. /\ PropagationTypeOK /\ RowSound
      /\ MaxChanges \in Nat /\ Newest \in Nat /\ MaxGiveUps \in Nat
      /\ history \in Seq(0..MaxChanges) /\ defs \in 0..MaxChanges
  <2>1. PropagationTypeOK /\ RowSound /\ MaxChanges \in Nat /\ MaxGiveUps \in Nat
    BY Bounds, CallsAssumption DEF RowInv
  <2>2. history \in Seq(0..MaxChanges) /\ defs \in 0..MaxChanges
    BY <2>1 DEF PropagationTypeOK
  <2> QED
    BY <2>1, <2>2 DEF Newest
<1>i. place[c] # "idle" => at[c] \in Instances /\ NodeOf[at[c]] \in Nodes
  BY <1>h, NodesAssumption DEF RowSound
<1> DEFINE Rest == UNCHANGED <<running, defs, history, pulling, version, at, row, events,
                               received, handlers>>
<1> USE DEF CallGoes, dbVars, redisVars, instVars, eventVars
<1>1. CASE SetLatest(c) \/ Enter(c) \/ Skip(c)
  <2>1. /\ Rest /\ UNCHANGED <<files, using, entities, gaveUps>>
        /\ latest' \in {latest, c} /\ lock' \in {lock, c}
        /\ place[c] # "idle"
    BY <1>1 DEF SetLatest, Enter, Skip
  <2>2. PICK to \in Places \ {"publish"} : place' = [place EXCEPT ![c] = to]
    BY <1>1 DEF SetLatest, Enter, Skip, Places, Running
  <2>3. PropagationTypeOK'
    BY <1>h, <2>1 DEF PropagationTypeOK, Newest
  <2> QED
    BY <1>h, <2>1, <2>2, <2>3, CallGoesOn DEF RowInv
<1>2. CASE GiveUp(c)
  <2>1. /\ Rest /\ UNCHANGED <<latest, lock, files, using, entities>>
        /\ gaveUps < MaxGiveUps /\ gaveUps' = gaveUps + 1
        /\ place[c] # "idle" /\ place' = [place EXCEPT ![c] = "timeout"]
    BY <1>2 DEF GiveUp
  <2>2. gaveUps' \in 0..MaxGiveUps
    BY <1>h, <2>1 DEF PropagationTypeOK
  <2>3. PropagationTypeOK'
    BY <1>h, <2>1, <2>2 DEF PropagationTypeOK, Newest
  <2>4. RowSound'
    BY <1>h, <2>1, CallGoesOn DEF Places
  <2> QED
    BY <2>3, <2>4 DEF RowInv
<1>3. CASE WriteFiles(c) \/ LoadEntities(c) \/ Swap(c)
  <2>1. /\ Rest /\ UNCHANGED <<latest, lock, gaveUps>>
        /\ place[c] # "idle"
    BY <1>3 DEF WriteFiles, LoadEntities, Swap
  <2>2. PICK to \in Places \ {"publish"} : place' = [place EXCEPT ![c] = to]
    BY <1>3 DEF WriteFiles, LoadEntities, Swap, Places, Running
  <2>3. /\ files' \in [Nodes -> 0..MaxChanges]
        /\ using' \in [Instances -> 0..MaxChanges]
        /\ entities' \in [Calls -> 0..MaxChanges]
    <3>1. /\ files \in [Nodes -> 0..MaxChanges]
          /\ using \in [Instances -> 0..MaxChanges]
          /\ entities \in [Calls -> 0..MaxChanges]
      BY <1>h DEF PropagationTypeOK
    <3>2. CASE WriteFiles(c)
      BY <1>h, <3>1, <3>2 DEF WriteFiles
    <3>3. CASE LoadEntities(c)
      BY <1>i, <2>1, <3>1, <3>3 DEF LoadEntities
    <3>4. CASE Swap(c)
      BY <3>1, <3>4 DEF Swap
    <3> QED
      BY <1>3, <3>2, <3>3, <3>4
  <2>4. PropagationTypeOK'
    BY <1>h, <2>1, <2>3 DEF PropagationTypeOK, Newest
  <2> QED
    BY <1>h, <2>1, <2>2, <2>4, CallGoesOn DEF RowInv
<1>4. CASE Backup(c)
  <2>1. /\ place[c] = "backup" /\ place' = [place EXCEPT ![c] = "publish"]
        /\ history' \in {history, Append(history, defs)}
        /\ row' = [row EXCEPT ![c] = Len(history')]
        /\ UNCHANGED <<running, defs, latest, lock, pulling, files, using, version, at,
                       entities, events, received, handlers, gaveUps>>
    BY <1>4 DEF Backup
  <2>2. /\ history' \in Seq(0..MaxChanges) /\ Len(history) \in Nat /\ Len(history') \in Nat
        /\ Len(history) <= Len(history')
    <3> DEFINE S == 0..MaxChanges
    <3>1. history \in Seq(S) /\ defs \in S
      BY <1>h
    <3> HIDE DEF S
    <3>2. history' \in Seq(S) /\ Len(history) <= Len(history') /\ Len(history') \in Nat
      <4>1. CASE history' = history
        BY <3>1, <4>1
      <4>2. CASE history' = Append(history, defs)
        BY <3>1, <4>2
      <4> QED
        BY <2>1, <4>1, <4>2
    <3> QED
      BY <3>1, <3>2 DEF S
  <2>3. /\ version' \in [Instances -> 1..Len(history')]
        /\ row' \in [Calls -> 0..Len(history')]
        /\ events' \in Seq([version : 1..Len(history'), from : Instances])
    <3>1. /\ version \in [Instances -> 1..Len(history)] /\ row \in [Calls -> 0..Len(history)]
          /\ events \in Seq([version : 1..Len(history), from : Instances])
      BY <1>h DEF PropagationTypeOK, Newest
    <3>2. /\ version \in [Instances -> 1..Len(history')]
          /\ row \in [Calls -> 0..Len(history')]
          /\ events \in Seq([version : 1..Len(history'), from : Instances])
      BY <2>2, <3>1, RowsGrow
    <3> QED
      BY <2>1, <2>2, <3>2
  <2>4. PropagationTypeOK'
    BY <1>h, <2>1, <2>2, <2>3 DEF PropagationTypeOK, Newest
  <2>5. RowSound'
    <3>1. ASSUME NEW h \in handlers PROVE Known(h)'
      <4>1. h.newest \in Nat
        BY <1>h DEF PropagationTypeOK, Handler
      <4>2. Known(h)
        BY <1>h DEF RowSound
      <4> QED
        BY <2>1, <2>2, <4>1, <4>2 DEF Known, Newest
    <3>2. row'[c] >= 1
      BY <1>h, <2>1, <2>2 DEF PropagationTypeOK, RowSound, Newest
    <3>3. Newest' >= 1
      BY <1>h, <2>2 DEF RowSound, Newest
    <3>4. place' \in [Calls -> Places]
      BY <1>h, <2>1 DEF RowSound, Places, Running
    <3>5. ASSUME NEW b \in Calls
          PROVE  /\ place'[b] # "idle" => at'[b] \in Instances
                 /\ place'[b] = "publish" => row'[b] >= 1
      BY <1>h, <1>i, <2>1, <3>2 DEF RowSound, PropagationTypeOK
    <3> QED
      BY <2>1, <3>1, <3>3, <3>4, <3>5 DEF RowSound
  <2> QED
    BY <2>4, <2>5 DEF RowInv
<1>5. CASE Publish(c)
  <2> DEFINE Event == [version : 1..Newest, from : Instances]
             e == [version |-> row[c], from |-> at[c]]
  <2>1. /\ place[c] = "publish" /\ place' = [place EXCEPT ![c] = "done"]
        /\ version' = [version EXCEPT ![at[c]] = row[c]]
        /\ events' = Append(events, e)
        /\ lock' = Nobody
        /\ UNCHANGED <<running, defs, history, latest, pulling, files, using, at, entities,
                       row, received, handlers, gaveUps>>
    BY <1>5 DEF Publish
  <2>2. at[c] \in Instances /\ row[c] \in 1..Newest
    BY <1>h, <1>i, <2>1 DEF PropagationTypeOK, RowSound
  <2>3. events' \in Seq(Event) /\ Len(events') = Len(events) + 1 /\ Len(events) \in Nat
    <3>1. e \in Event
      BY <2>2
    <3>2. events \in Seq(Event)
      BY <1>h DEF PropagationTypeOK
    <3> HIDE DEF e, Event
    <3> QED
      BY <2>1, <3>1, <3>2
  <2>4. version' \in [Instances -> 1..Newest]
    BY <1>h, <2>1, <2>2 DEF PropagationTypeOK
  <2>5. received' \in [Instances -> 0..Len(events')]
    <3>1. received \in [Instances -> 0..Len(events)]
      BY <1>h DEF PropagationTypeOK
    <3> QED
      BY <2>1, <2>3, <3>1
  <2>6. PropagationTypeOK'
    BY <1>h, <2>1, <2>3, <2>4, <2>5 DEF PropagationTypeOK, Newest
  <2>7. RowSound'
    <3>1. ASSUME NEW h \in handlers PROVE Known(h)'
      <4>1. h.event \in 1..Len(events) /\ Known(h)
        BY <1>h DEF RowSound, Known
      <4>2. h.event \in 1..Len(events')
        BY <2>3, <4>1
      <4> QED
        BY <2>1, <4>1, <4>2 DEF Known, Newest
    <3>2. place' \in [Calls -> Places]
      BY <1>h, <2>1 DEF RowSound, Places
    <3> QED
      BY <1>h, <2>1, <3>1, <3>2 DEF RowSound, Newest
  <2> QED
    BY <2>6, <2>7 DEF RowInv
<1> QED
  BY <1>1, <1>2, <1>3, <1>4, <1>5 DEF CallStep

\* A handler that goes on with what exists.
LEMMA HandlerGoesOn ==
  ASSUME RowInv, NEW h \in handlers, NEW to \in Handler, Known(to),
         handlers' = (handlers \ {h}) \cup {to}, UNCHANGED <<history, events>>
  PROVE  handlers' \subseteq Handler /\ \A g \in handlers' : Known(g)'
<1>1. handlers' \subseteq Handler
  BY DEF RowInv, PropagationTypeOK
<1>2. ASSUME NEW g \in handlers' PROVE Known(g)'
  <2>1. Known(g)
    BY DEF RowInv, RowSound
  <2> QED
    BY <2>1 DEF Known, Newest
<1> QED
  BY <1>1, <1>2

\* One that ends.
LEMMA HandlerEnds ==
  ASSUME RowInv, NEW h \in handlers, handlers' = handlers \ {h},
         UNCHANGED <<history, events>>
  PROVE  handlers' \subseteq Handler /\ \A g \in handlers' : Known(g)'
BY DEF RowInv, PropagationTypeOK, RowSound, Known, Newest

LEMMA HandlerType ==
  ASSUME RowInv, NEW h \in handlers, HandlerStep(h)
  PROVE  RowInv'
<1> DEFINE Rest == UNCHANGED <<running, defs, history, latest, lock, files, at, entities, row,
                               events, received, gaveUps>>
           HandlersOk == handlers' \subseteq Handler /\ \A g \in handlers' : Known(g)'
<1>h. /\ h \in Handler /\ Known(h) /\ MaxChanges \in Nat
      /\ h.inst \in Instances /\ NodeOf[h.inst] \in Nodes
      /\ h.newest \in Nat /\ h.entities \in 0..MaxChanges /\ Newest \in Nat
  <2>1. h \in Handler /\ Known(h) /\ MaxChanges \in Nat /\ Newest \in Nat
    BY Bounds DEF RowInv, PropagationTypeOK, RowSound, Newest
  <2>2. h.inst \in Instances /\ h.newest \in Nat /\ h.entities \in Nat
    BY <2>1 DEF Handler
  <2> QED
    BY <2>1, <2>2, NodesAssumption DEF Known
<1>k. ASSUME UNCHANGED <<place, pulling, using, version>>, Rest, HandlersOk
      PROVE  RowInv'
  BY <1>k DEF RowInv, PropagationTypeOK, RowSound, Newest
<1>1. CASE ReadNewest(h)
  <2>1. UNCHANGED <<place, pulling, using, version>> /\ Rest
    BY <1>1 DEF ReadNewest, dbVars, redisVars, instVars, callVars,
       eventVars
  <2>2. HandlersOk
    <3>1. CASE Outdated(h)
      <4>1. handlers' = handlers \ {h}
        BY <1>1, <3>1 DEF ReadNewest, End
      <4> QED
        BY <4>1, <2>1, HandlerEnds
    <3>2. CASE ~Outdated(h)
      <4> DEFINE to(st) == [h EXCEPT !.newest = Newest, !.stage = st]
      <4>1. PICK st \in {"load", "pull"} : handlers' = (handlers \ {h}) \cup {to(st)}
        BY <1>1, <3>2 DEF ReadNewest, Proceed
      <4>2. to(st) \in Handler
        BY <1>h DEF Handler
      <4>3. Known(to(st))
        BY <1>h DEF Known, RowInv, RowSound, Handler
      <4> QED
        BY <4>1, <4>2, <4>3, <2>1, HandlerGoesOn
    <3> QED
      BY <3>1, <3>2
  <2> QED
    BY <2>1, <2>2, <1>k
<1>2. CASE LoadFiles(h)
  <2> DEFINE to == [h EXCEPT !.stage = "swap", !.entities = files[NodeOf[h.inst]]]
  <2>1. UNCHANGED <<place, pulling, using, version>> /\ Rest
    BY <1>2 DEF LoadFiles, dbVars, redisVars, instVars,
       callVars, eventVars
  <2>2. handlers' = (handlers \ {h}) \cup {to} /\ h.stage = "load"
    BY <1>2 DEF LoadFiles, Proceed
  <2>3. files[NodeOf[h.inst]] \in 0..MaxChanges
    BY <1>h DEF RowInv, PropagationTypeOK
  <2>4. to \in Handler
    <3>1. files[NodeOf[h.inst]] \in Nat
      BY <1>h, <2>3
    <3> QED
      BY <1>h, <3>1 DEF Handler
  <2>5. Known(to)
    BY <1>h, <2>2, <2>3 DEF Known, Handler
  <2> QED
    BY <2>1, <2>2, <2>4, <2>5, <1>k, HandlerGoesOn
<1>3. CASE SwapLoaded(h)
  <2> DEFINE to == [h EXCEPT !.stage = "version"]
  <2>1. UNCHANGED <<place, pulling, version>> /\ Rest
    BY <1>3 DEF SwapLoaded, dbVars, redisVars, callVars
  <2>2. handlers' = (handlers \ {h}) \cup {to} /\ h.stage = "swap"
    BY <1>3 DEF SwapLoaded, Proceed
  <2>3. to \in Handler /\ Known(to)
    BY <1>h, <2>2 DEF Handler, Known
  <2>4. using' \in [Instances -> 0..MaxChanges]
    BY <1>3, <1>h DEF SwapLoaded, RowInv, PropagationTypeOK
  <2>5. HandlersOk
    BY <2>1, <2>2, <2>3, HandlerGoesOn
  <2> QED
    BY <2>1, <2>4, <2>5 DEF RowInv, PropagationTypeOK, RowSound, Newest
<1>4. CASE SetVersion(h)
  <2>1. UNCHANGED <<place, pulling, using>> /\ Rest
    BY <1>4 DEF SetVersion, dbVars, redisVars, callVars
  <2>2. handlers' = handlers \ {h} /\ h.stage = "version"
    BY <1>4 DEF SetVersion, End
  <2>3. HandlersOk
    BY <2>1, <2>2, HandlerEnds
  <2>4. version' \in [Instances -> 1..Newest]
    BY <1>4, <1>h, <2>2 DEF SetVersion, RowInv, PropagationTypeOK, Known
  <2> QED
    BY <2>1, <2>3, <2>4 DEF RowInv, PropagationTypeOK, RowSound, Newest
<1>5. CASE AcquirePull(h)
  <2> DEFINE to(st) == [h EXCEPT !.stage = st]
  <2>1. UNCHANGED <<place, using, version>> /\ Rest
    BY <1>5 DEF AcquirePull, dbVars, instVars, callVars
  <2>2. /\ pulling' \in [Nodes -> Instances \cup {Nobody}]
        /\ h.stage = "pull"
        /\ \E st \in {"start", "wait"} : handlers' = (handlers \ {h}) \cup {to(st)}
    BY <1>5, <1>h DEF AcquirePull, Proceed, RowInv, PropagationTypeOK
  <2>3. PICK st \in {"start", "wait"} : handlers' = (handlers \ {h}) \cup {to(st)}
    BY <2>2
  <2>4. to(st) \in Handler /\ Known(to(st))
    BY <1>h, <2>2 DEF Handler, Known
  <2>5. HandlersOk
    BY <2>1, <2>3, <2>4, HandlerGoesOn
  <2> QED
    BY <2>1, <2>2, <2>5 DEF RowInv, PropagationTypeOK, RowSound, Newest
<1>6. CASE ReleasePull(h)
  <2>1. UNCHANGED <<place, using, version>> /\ Rest
    BY <1>6 DEF ReleasePull, dbVars, instVars, callVars
  <2>2. handlers' = handlers \ {h} /\ pulling' \in [Nodes -> Instances \cup {Nobody}]
    BY <1>6 DEF ReleasePull, End, RowInv, PropagationTypeOK
  <2>3. HandlersOk
    BY <2>1, <2>2, HandlerEnds
  <2> QED
    BY <2>1, <2>2, <2>3 DEF RowInv, PropagationTypeOK, RowSound, Newest
<1>7. CASE Wait(h)
  <2> DEFINE to == [h EXCEPT !.stage = "load"]
  <2>1. UNCHANGED <<place, pulling, using, version>> /\ Rest
    BY <1>7 DEF Wait, dbVars, redisVars, instVars, callVars
  <2>2. handlers' = (handlers \ {h}) \cup {to} /\ h.stage = "wait"
    BY <1>7 DEF Wait, Proceed
  <2>3. to \in Handler /\ Known(to)
    BY <1>h, <2>2 DEF Handler, Known
  <2> QED
    BY <2>1, <2>2, <2>3, <1>k, HandlerGoesOn
<1>8. CASE \E c \in Calls : StartSync(c, h)
  <2> DEFINE to == [h EXCEPT !.stage = "unlock"]
  <2>1. PICK call \in Calls : StartSync(call, h)
    BY <1>8
  <2>2. /\ handlers' = (handlers \ {h}) \cup {to} /\ h.stage = "start"
        /\ place[call] = "idle" /\ place' = [place EXCEPT ![call] = "set"]
        /\ at' = [at EXCEPT ![call] = h.inst]
        /\ version' = [version EXCEPT ![h.inst] = h.newest]
        /\ UNCHANGED <<running, defs, history, latest, lock, pulling, files, using, entities, row,
                       events, received, gaveUps>>
    BY <2>1 DEF StartSync, StartCall, CallGoes, Proceed, dbVars,
       redisVars
  <2>3. to \in Handler /\ Known(to)
    BY <1>h, <2>2 DEF Handler, Known
  <2>4. HandlersOk
    BY <2>2, <2>3, HandlerGoesOn
  <2>5. version' \in [Instances -> 1..Newest]
    BY <1>h, <2>2 DEF RowInv, PropagationTypeOK, Known
  <2>6. PropagationTypeOK'
    BY <1>h, <2>2, <2>4, <2>5 DEF RowInv, PropagationTypeOK, Newest
  <2>7. RowSound'
    <3>1. place' \in [Calls -> Places]
      BY <2>2 DEF RowInv, PropagationTypeOK, RowSound, Places
    <3>2. ASSUME NEW b \in Calls
          PROVE  /\ place'[b] # "idle" => at'[b] \in Instances
                 /\ place'[b] = "publish" => row'[b] >= 1
      BY <1>h, <2>2 DEF RowInv, PropagationTypeOK, RowSound, Places
    <3> QED
      BY <2>2, <2>4, <3>1, <3>2 DEF RowInv, RowSound, Newest
  <2> QED
    BY <2>6, <2>7 DEF RowInv
<1> QED
  BY <1>1, <1>2, <1>3, <1>4, <1>5, <1>6, <1>7, <1>8 DEF HandlerStep

LEMMA RowNext ==
  ASSUME RowInv, [PropagationNext]_propagationVars
  PROVE  RowInv'
<1>1. CASE \E c \in Calls : CallStep(c)
  BY <1>1, CallType
<1>2. CASE \E c \in Calls, i \in Instances : Change(c, i)
  <2>1. PICK c \in Calls, i \in Instances : Change(c, i)
    BY <1>2
  <2>2. /\ defs < Changes[running] /\ defs' = defs + 1
        /\ place' = [place EXCEPT ![c] = "set"] /\ at' = [at EXCEPT ![c] = i]
        /\ UNCHANGED <<running, history, latest, lock, pulling, files, using, version, entities,
                       row, events, received, handlers, gaveUps>>
    BY <2>1 DEF Change, StartCall, CallGoes, redisVars, instVars,
       eventVars
  <2>3. defs' \in 0..MaxChanges
    BY <2>2, Bounds DEF RowInv, PropagationTypeOK
  <2>4. PropagationTypeOK'
    BY <2>2, <2>3 DEF RowInv, PropagationTypeOK, Newest
  <2>5. RowSound'
    BY <2>2 DEF RowInv, PropagationTypeOK, RowSound, Known, Places, Newest
  <2> QED
    BY <2>4, <2>5 DEF RowInv
<1>3. CASE \E i \in Instances : Receive(i)
  <2>1. PICK i \in Instances : Receive(i)
    BY <1>3
  <2> DEFINE e == received[i] + 1
             new == Start(i, e)
  <2>2. /\ received[i] < Len(events) /\ received' = [received EXCEPT ![i] = e]
        /\ handlers' = handlers \/ handlers' = handlers \cup {new}
        /\ UNCHANGED <<running, defs, history, latest, lock, pulling, files, using, version, place, at,
                       entities, row, events, gaveUps>>
    BY <2>1 DEF Receive, dbVars, redisVars, instVars,
       callVars
  <2>3. e \in 1..Len(events) /\ received' \in [Instances -> 0..Len(events)]
    <3>1. received[i] \in 0..Len(events) /\ Len(events) \in Nat
      BY DEF RowInv, PropagationTypeOK
    <3>2. e \in 0..Len(events) /\ e \in 1..Len(events)
      BY <2>2, <3>1
    <3> QED
      BY <2>2, <3>2 DEF RowInv, PropagationTypeOK
  <2>4. new \in Handler /\ Known(new)
    <3>1. e \in Nat /\ Newest \in Nat /\ MaxChanges \in Nat
      <4>1. Newest \in Nat
        BY DEF RowInv, PropagationTypeOK, Newest
      <4>2. e \in Nat
        BY <2>3
      <4> QED
        BY <4>1, <4>2, Bounds
    <3>2. new \in Handler
      BY <3>1 DEF Start, Handler
    <3> QED
      BY <2>3, <3>1, <3>2 DEF Start, Known
  <2>5. handlers' \subseteq Handler /\ \A g \in handlers' : Known(g)
    BY <2>2, <2>4 DEF RowInv, PropagationTypeOK, RowSound
  <2>6. PropagationTypeOK'
    BY <2>2, <2>3, <2>5 DEF RowInv, PropagationTypeOK, Newest
  <2>7. RowSound'
    BY <2>2, <2>5 DEF RowInv, RowSound, Known, Newest
  <2> QED
    BY <2>6, <2>7 DEF RowInv
<1>4. CASE \E h \in handlers : HandlerStep(h)
  BY <1>4, HandlerType
<1>5. CASE UNCHANGED propagationVars
  BY <1>5 DEF propagationVars, dbVars, redisVars, instVars, callVars,
     eventVars, RowInv, PropagationTypeOK, RowSound, Known,
     Newest
<1> QED
  BY <1>1, <1>2, <1>3, <1>4, <1>5 DEF PropagationNext

\* No version an instance believes to be at, no row a call has backed up and no
\* event refers to a row that schema_history does not hold, on any cluster.
THEOREM RowsExist ==
  PropagationSpec => []PropagationTypeOK
<1>1. RowInv => PropagationTypeOK
  BY DEF RowInv
<1> QED
  BY <1>1, RowInit, RowNext, PTL DEF PropagationSpec

-----------------------------------------------------------------------------
(* The last call.  A change of the metadata takes the latest key before its  *)
(* call does anything else, so as long as no call is about to do so, the     *)
(* latest one has seen every change.                                         *)

\* The locks: who runs holds the processing lock, and beside or after a run of
\* the latest call no other one runs.
Entered ==
  /\ \A c \in Calls : place[c] \in Running => lock = c
  /\ latest # Nobody => place[latest] \notin {"idle", "set", "skipped"}
  /\ latest # Nobody /\ place[latest] \in Running \cup {"done"} =>
       \A c \in Calls \ {latest} : place[c] \notin Running

\* How far a call has brought the files, schema_history and the events.
Left(c) ==
  /\ place[c] \in {"load", "swap", "backup", "publish", "done"} => files[NodeOf[at[c]]] = defs
  /\ place[c] \in {"publish", "done"} => history[Newest] = defs
  /\ place[c] = "publish" => row[c] = Newest
  /\ place[c] = "done" => events[Len(events)].version = Newest

LastInv ==
  /\ Entered
  /\ latest # Nobody /\ (\A c \in Calls : place[c] # "set") => Left(latest)

\* What is not a step of a call may start one, and changes nothing else of theirs.
LEMMA OtherSteps ==
  ASSUME RowInv, [PropagationNext]_propagationVars, ~\E c \in Calls : CallStep(c)
  PROVE  /\ UNCHANGED <<lock, latest, history, files, events, row>>
         /\ \/ UNCHANGED <<place, at, defs>>
            \/ \E c \in Calls : place[c] = "idle" /\ place' = [place EXCEPT ![c] = "set"]
<1> USE DEF redisVars, instVars, dbVars, callVars, eventVars,
        StartCall, CallGoes
<1>1. CASE \E c \in Calls, i \in Instances : Change(c, i)
  BY <1>1 DEF Change
<1>2. CASE \E i \in Instances : Receive(i)
  BY <1>2 DEF Receive
<1>3. CASE \E h \in handlers : HandlerStep(h)
  BY <1>3 DEF HandlerStep, ReadNewest, LoadFiles, SwapLoaded,
     SetVersion, AcquirePull, StartSync,
     ReleasePull, Wait
<1>4. CASE UNCHANGED propagationVars
  BY <1>4 DEF propagationVars
<1> QED
  BY <1>1, <1>2, <1>3, <1>4 DEF PropagationNext

LEMMA LastCallStep ==
  ASSUME RowInv, LastInv, NEW c \in Calls, CallStep(c)
  PROVE  LastInv'
<1>h. /\ Nobody \notin Calls
      /\ latest \in Calls \cup {Nobody} /\ lock \in Calls \cup {Nobody}
      /\ place \in [Calls -> Places] /\ DOMAIN row = Calls
      /\ DOMAIN files = Nodes /\ (place[c] # "idle" => NodeOf[at[c]] \in Nodes)
  <2>1. PropagationTypeOK /\ RowSound
    BY DEF RowInv
  <2>2. Nobody \notin Calls
    BY NobodyAssumption, CallsAssumption DEF Calls
  <2>3. place[c] # "idle" => NodeOf[at[c]] \in Nodes
    BY <2>1, NodesAssumption DEF RowSound
  <2> QED
    BY <2>1, <2>2, <2>3 DEF RowSound, PropagationTypeOK
<1>l. place[c] \in Running /\ latest # Nobody /\ place[latest] \in Running \cup {"done"} =>
        latest = c
  BY DEF LastInv, Entered
<1> USE <1>h DEF LastInv, Entered, Left, Running, CallGoes
<1>1. CASE SetLatest(c)
  BY <1>1 DEF SetLatest
<1>2. CASE Enter(c)
  BY <1>2 DEF Enter
<1>3. CASE Skip(c)
  BY <1>3 DEF Skip, dbVars, redisVars, instVars, eventVars,
     Newest
<1>4. CASE GiveUp(c)
  BY <1>4 DEF GiveUp, dbVars, redisVars, instVars, eventVars,
     Newest
<1>5. CASE WriteFiles(c)
  BY <1>5, <1>l DEF WriteFiles, dbVars, redisVars, eventVars
<1>6. CASE LoadEntities(c)
  BY <1>6 DEF LoadEntities, dbVars, redisVars, instVars,
     eventVars, Newest
<1>7. CASE Swap(c)
  BY <1>7 DEF Swap, dbVars, redisVars, eventVars, Newest
<1>8. CASE Backup(c)
  <2>1. /\ place[c] = "backup" /\ place' = [place EXCEPT ![c] = "publish"]
        /\ row' = [row EXCEPT ![c] = Len(history')]
        /\ UNCHANGED <<defs, latest, lock, files, at, events>>
    BY <1>8 DEF Backup, redisVars, instVars, eventVars
  <2>2. history'[Len(history')] = defs
    <3>1. history \in Seq(0..MaxChanges) /\ defs \in 0..MaxChanges
      BY DEF RowInv, PropagationTypeOK
    <3> QED
      BY <3>1, <1>8 DEF Backup, Newest
  <2> QED
    BY <2>1, <2>2, <1>l DEF Newest
<1>9. CASE Publish(c)
  <2>1. /\ place[c] = "publish" /\ place' = [place EXCEPT ![c] = "done"]
        /\ UNCHANGED <<defs, history, latest, files, at, row>> /\ lock' = Nobody
    BY <1>9 DEF Publish, dbVars
  <2>2. events'[Len(events')].version = row[c]
    <3>1. PICK S : events \in Seq(S) /\ [version |-> row[c], from |-> at[c]] \in S
      <4>1. row[c] \in 1..Newest /\ at[c] \in Instances
        BY <2>1 DEF RowInv, RowSound, PropagationTypeOK, Newest
      <4> DEFINE Event == [version : 1..Newest, from : Instances]
      <4>2. [version |-> row[c], from |-> at[c]] \in Event
        BY <4>1
      <4>3. events \in Seq(Event)
        BY DEF RowInv, PropagationTypeOK
      <4> QED
        BY <4>2, <4>3
    <3> QED
      BY <3>1, <1>9 DEF Publish
  <2> QED
    BY <2>1, <2>2, <1>l DEF Newest
<1> QED
  BY <1>1, <1>2, <1>3, <1>4, <1>5, <1>6, <1>7, <1>8, <1>9 DEF CallStep

LEMMA LastStep ==
  ASSUME RowInv, LastInv, [PropagationNext]_propagationVars
  PROVE  LastInv'
<1>1. CASE \E c \in Calls : CallStep(c)
  BY <1>1, LastCallStep
<1>2. CASE ~\E c \in Calls : CallStep(c)
  <2>1. /\ UNCHANGED <<lock, latest, history, files, events, row>>
        /\ \/ UNCHANGED <<place, at, defs>>
           \/ \E c \in Calls : place[c] = "idle" /\ place' = [place EXCEPT ![c] = "set"]
    BY <1>2, OtherSteps
  <2>2. place \in [Calls -> Places] /\ latest \in Calls \cup {Nobody}
    BY DEF RowInv, RowSound, PropagationTypeOK
  <2>3. CASE UNCHANGED <<place, at, defs>>
    BY <2>1, <2>3 DEF LastInv, Entered, Left, Newest
  <2>4. ASSUME NEW c \in Calls, place[c] = "idle", place' = [place EXCEPT ![c] = "set"]
        PROVE  LastInv'
    <3>1. place'[c] = "set"
      BY <2>2, <2>4
    <3>2. Entered'
      BY <2>1, <2>2, <2>4 DEF LastInv, Entered, Running
    <3> QED
      BY <3>1, <3>2 DEF LastInv
  <2> QED
    BY <2>1, <2>3, <2>4
<1> QED
  BY <1>1, <1>2

\* Whatever calls of syncAll and handlers of subscribe interleave, once all is
\* quiet the last call has left the metadata in the entity files of its node, in
\* the newest row of schema_history and in the last event, unless it gave up.
THEOREM LastCallWins ==
  PropagationSpec => []LastCallLeavesNewest
<1>1. PropagationInit => LastInv
  BY DEF PropagationInit, LastInv, Entered, Left, Running
<1>2. RowInv /\ LastInv => LastCallLeavesNewest
  BY DEF RowInv, PropagationTypeOK, LastInv, Entered, Left, LastCallLeavesNewest,
     Quiet
<1> QED
  BY <1>1, <1>2, RowInit, RowNext, LastStep, PTL DEF PropagationSpec
=============================================================================
