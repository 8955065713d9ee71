------------------------- MODULE SchemaPropagation -------------------------
(***************************************************************************)
(* How a change of the schema reaches the instances: SchemaReloadService   *)
(* (publish and subscribe over Redis), SchemaStateService (the version an  *)
(* instance believes to be at) and DataSourceService.reloadDataSource (the *)
(* entities it has loaded), around the calls of syncAll.                   *)
(*                                                                         *)
(* Instances with the same NODE_NAME share a disk, hence the entity files  *)
(* a run of syncAll writes.  A call of syncAll is the one SchemaSync       *)
(* models, without its failures and with its outcome: it runs alone, is    *)
(* superseded by a later call, or gives up.  The metadata is the number of *)
(* changes committed; a row of schema_history is the metadata it holds.    *)
(* Restores, and rows pruned from schema_history, are left out.            *)
(***************************************************************************)
EXTENDS Naturals, Sequences

CONSTANTS Instances,
          Nodes,
          NodeOf,      \* the NODE_NAME of each instance
          Changes,     \* bound: changes of table_definition, for each set of instances
                       \* that may be running
          Nobody,      \* an absent key
          MaxCalls,    \* bound: calls of syncAll
          MaxGiveUps   \* bound: calls that run out of attempts

ASSUME NodesAssumption == NodeOf \in [Instances -> Nodes]
ASSUME NobodyAssumption == Nobody \notin Instances /\ Nobody \notin Nat
ASSUME CallsAssumption == MaxGiveUps \in Nat /\ MaxCalls \in Nat
ASSUME ChangesAssumption ==
  /\ DOMAIN Changes \subseteq SUBSET Instances
  /\ \A s \in DOMAIN Changes : Changes[s] \in Nat
  /\ \E s \in DOMAIN Changes : \A r \in DOMAIN Changes : Changes[s] >= Changes[r]

VARIABLES
  running,   \* the instances that run
  defs,      \* the metadata
  history,   \* schema_history: its rows, newest last; a row's id is its index
  latest,    \* key schema:sync:latest
  lock,      \* key schema:sync:processing_lock
  pulling,   \* key enfyra:pulling:<node>
  files,     \* the entity files of each node
  using,    \* the entities of each instance's DataSource
  version,   \* the version each instance believes to be at
  place,     \* where each call of syncAll is
  at,        \* the instance of each call
  entities,  \* the entities a call has read and not yet swapped in
  row,       \* the id of the row a call has backed up
  events,    \* the messages published, in order
  received,  \* how many of them each instance has received
  handlers,  \* the runs of subscribe under way
  gaveUps    \* calls that ran out of attempts

dbVars    == <<running, defs, history>>
redisVars == <<latest, lock, pulling>>
instVars  == <<files, using, version>>
callVars  == <<place, at, entities, row>>
eventVars == <<events, received, handlers>>
propagationVars == <<dbVars, redisVars, instVars, callVars, eventVars, gaveUps>>

MaxChanges == CHOOSE n \in {Changes[s] : s \in DOMAIN Changes} :
                \A s \in DOMAIN Changes : n >= Changes[s]

\* The calls of syncAll, in the order they start.
Calls == 1..MaxCalls

Newest == Len(history)

\* A run of subscribe: its instance, its event, the newest row it has read and
\* the entities it has read.
Handler == [inst : Instances, event : Nat, stage : {"read", "load", "swap", "version",
                                                    "pull", "start", "unlock", "wait"},
            newest : Nat, entities : Nat]

PropagationInit ==
  /\ running \in DOMAIN Changes
  /\ defs = 0 /\ history = <<0>>
  /\ latest = Nobody /\ lock = Nobody
  /\ pulling = [n \in Nodes |-> Nobody]
  /\ files = [n \in Nodes |-> 0]
  /\ using = [i \in Instances |-> 0]
  /\ version = [i \in Instances |-> 1]
  /\ place = [c \in Calls |-> "idle"]
  /\ at = [c \in Calls |-> Nobody]
  /\ entities = [c \in Calls |-> 0]
  /\ row = [c \in Calls |-> 0]
  /\ events = <<>>
  /\ received = [i \in Instances |-> 0]
  /\ handlers = {}
  /\ gaveUps = 0

-----------------------------------------------------------------------------
(* syncAll. *)

CallGoes(c, from, to) == place[c] = from /\ place' = [place EXCEPT ![c] = to]

StartCall(c, i) ==
  /\ \A b \in 1..(c - 1) : place[b] # "idle"
  /\ CallGoes(c, "idle", "set")
  /\ at' = [at EXCEPT ![c] = i]
  /\ UNCHANGED <<entities, row>>

\* The API of instance i commits a change and fires syncAll.
Change(c, i) ==
  /\ i \in running /\ defs < Changes[running]
  /\ defs' = defs + 1
  /\ StartCall(c, i)
  /\ UNCHANGED <<running, history, redisVars, instVars, eventVars, gaveUps>>

\* Mutant: the first call remains the latest one.
SetLatestOnce(c) ==
  /\ CallGoes(c, "set", "lock")
  /\ latest' = IF latest = Nobody THEN c ELSE latest
  /\ UNCHANGED <<dbVars, lock, pulling, instVars, at, entities, row, eventVars, gaveUps>>

\* The call becomes the latest one (SchemaSync's SetLatest).
SetLatest(c) ==
  /\ CallGoes(c, "set", "lock")
  /\ latest' = c
  /\ UNCHANGED <<dbVars, lock, pulling, instVars, at, entities, row, eventVars, gaveUps>>

\* It takes the lock only while it is the latest call ...
Enter(c) ==
  /\ lock = Nobody /\ latest = c
  /\ CallGoes(c, "lock", "pull")
  /\ lock' = c
  /\ UNCHANGED <<dbVars, latest, pulling, instVars, at, entities, row, eventVars, gaveUps>>

\* ... a later call supersedes it ...
Skip(c) ==
  /\ latest # c
  /\ CallGoes(c, "lock", "skipped")
  /\ UNCHANGED <<dbVars, redisVars, instVars, at, entities, row, eventVars, gaveUps>>

\* ... or its attempts run out while another call holds the lock.
GiveUp(c) ==
  /\ lock # Nobody /\ latest = c
  /\ gaveUps < MaxGiveUps
  /\ CallGoes(c, "lock", "timeout")
  /\ gaveUps' = gaveUps + 1
  /\ UNCHANGED <<dbVars, redisVars, instVars, at, entities, row, eventVars>>

\* pullMetadataFromDb and buildTypeScriptToJs.
WriteFiles(c) ==
  /\ CallGoes(c, "pull", "load")
  /\ files' = [files EXCEPT ![NodeOf[at[c]]] = defs]
  /\ UNCHANGED <<dbVars, redisVars, using, version, at, entities, row, eventVars, gaveUps>>

\* reloadDataSource: reads the entity files, connects, then swaps.
LoadEntities(c) ==
  /\ CallGoes(c, "load", "swap")
  /\ entities' = [entities EXCEPT ![c] = files[NodeOf[at[c]]]]
  /\ UNCHANGED <<dbVars, redisVars, instVars, at, row, eventVars, gaveUps>>

Swap(c) ==
  /\ CallGoes(c, "swap", "backup")
  /\ using' = [using EXCEPT ![at[c]] = entities[c]]
  /\ UNCHANGED <<dbVars, redisVars, files, version, at, entities, row, eventVars, gaveUps>>

\* Mutant: the id of an unchanged row is taken for the id of the next one.
BackupNextId(c) ==
  /\ CallGoes(c, "backup", "publish")
  /\ history' = IF history[Newest] = defs THEN history ELSE Append(history, defs)
  /\ row' = [row EXCEPT ![c] = Newest + 1]
  /\ UNCHANGED <<running, defs, redisVars, instVars, at, entities, eventVars, gaveUps>>

\* backup returns the newest row if it holds the same metadata.
Backup(c) ==
  /\ CallGoes(c, "backup", "publish")
  /\ history' = IF history[Newest] = defs THEN history ELSE Append(history, defs)
  /\ row' = [row EXCEPT ![c] = Len(history')]
  /\ UNCHANGED <<running, defs, redisVars, instVars, at, entities, eventVars, gaveUps>>

\* publishSchemaUpdated, then the release of the lock.
Publish(c) ==
  /\ CallGoes(c, "publish", "done")
  /\ version' = [version EXCEPT ![at[c]] = row[c]]
  /\ events' = Append(events, [version |-> row[c], from |-> at[c]])
  /\ lock' = Nobody
  /\ UNCHANGED <<dbVars, latest, pulling, files, using, at, entities, row, received,
                 handlers, gaveUps>>

-----------------------------------------------------------------------------
(* subscribe.  Handlers of one instance interleave. *)

\* A handler moves to its next stage, or ends.
Proceed(h, stage, to) == h.stage = stage /\ handlers' = (handlers \ {h}) \cup {to}
End(h, stage) == h.stage = stage /\ handlers' = handlers \ {h}
Start(i, e) == [inst |-> i, event |-> e, stage |-> "read", newest |-> 0, entities |-> 0]

\* The next event arrives; an instance ignores its own.
Receive(i) ==
  /\ i \in running /\ received[i] < Len(events)
  /\ LET e == received[i] + 1 IN
       /\ received' = [received EXCEPT ![i] = e]
       /\ handlers' = IF events[e].from = i THEN handlers ELSE handlers \cup {Start(i, e)}
  /\ UNCHANGED <<dbVars, redisVars, instVars, callVars, events, gaveUps>>

\* Mutant: an event of the newest row is taken for an outdated one.
OutdatedByOne(h) ==
  \/ events[h.event].version <= Newest
  \/ version[h.inst] >= Newest

\* An event that a newer row has overtaken, or that the instance is not behind.
Outdated(h) ==
  \/ events[h.event].version < Newest
  \/ version[h.inst] >= Newest

\* Reads the newest row and decides: ignore, reload (same node), pull (other node).
ReadNewest(h) ==
  /\ IF Outdated(h)
       THEN End(h, "read")
       ELSE Proceed(h, "read",
                    [h EXCEPT !.newest = Newest,
                              !.stage = IF NodeOf[events[h.event].from] = NodeOf[h.inst]
                                          THEN "load" ELSE "pull"])
  /\ UNCHANGED <<dbVars, redisVars, instVars, callVars, events, received, gaveUps>>

\* reloadDataSource again.
LoadFiles(h) ==
  /\ Proceed(h, "load", [h EXCEPT !.stage = "swap", !.entities = files[NodeOf[h.inst]]])
  /\ UNCHANGED <<dbVars, redisVars, instVars, callVars, events, received, gaveUps>>

SwapLoaded(h) ==
  /\ Proceed(h, "swap", [h EXCEPT !.stage = "version"])
  /\ using' = [using EXCEPT ![h.inst] = h.entities]
  /\ UNCHANGED <<dbVars, redisVars, files, version, callVars, events, received, gaveUps>>

\* The GraphQL schema is reloaded, then the version is set.
SetVersion(h) ==
  /\ End(h, "version")
  /\ version' = [version EXCEPT ![h.inst] = h.newest]
  /\ UNCHANGED <<dbVars, redisVars, files, using, callVars, events, received, gaveUps>>

\* One instance of a node pulls; the key outlives the few steps that hold it.
AcquirePull(h) ==
  LET n == NodeOf[h.inst] IN
  /\ IF pulling[n] = Nobody
       THEN /\ Proceed(h, "pull", [h EXCEPT !.stage = "start"])
            /\ pulling' = [pulling EXCEPT ![n] = h.inst]
       ELSE /\ Proceed(h, "pull", [h EXCEPT !.stage = "wait"])
            /\ UNCHANGED pulling
  /\ UNCHANGED <<dbVars, latest, lock, instVars, callVars, events, received, gaveUps>>

\* syncAll is fired and not awaited; the version is set at once.
StartSync(c, h) ==
  /\ Proceed(h, "start", [h EXCEPT !.stage = "unlock"])
  /\ StartCall(c, h.inst)
  /\ version' = [version EXCEPT ![h.inst] = h.newest]
  /\ UNCHANGED <<dbVars, redisVars, files, using, events, received, gaveUps>>

ReleasePull(h) ==
  LET n == NodeOf[h.inst] IN
  /\ End(h, "unlock")
  /\ pulling' = [pulling EXCEPT ![n] = IF @ = h.inst THEN Nobody ELSE @]
  /\ UNCHANGED <<dbVars, latest, lock, instVars, callVars, events, received, gaveUps>>

\* Another instance of the node has started a pull: wait for its key to go.
Wait(h) ==
  /\ pulling[NodeOf[h.inst]] = Nobody
  /\ Proceed(h, "wait", [h EXCEPT !.stage = "load"])
  /\ UNCHANGED <<dbVars, redisVars, instVars, callVars, events, received, gaveUps>>

-----------------------------------------------------------------------------

CallStep(c) ==
  \/ SetLatest(c) \/ Enter(c) \/ Skip(c) \/ GiveUp(c)
  \/ WriteFiles(c) \/ LoadEntities(c) \/ Swap(c) \/ Backup(c) \/ Publish(c)

HandlerStep(h) ==
  \/ ReadNewest(h) \/ LoadFiles(h) \/ SwapLoaded(h) \/ SetVersion(h)
  \/ AcquirePull(h) \/ ReleasePull(h) \/ Wait(h)
  \/ \E c \in Calls : StartSync(c, h)

PropagationNext ==
  \/ \E c \in Calls : CallStep(c) \/ \E i \in Instances : Change(c, i)
  \/ \E i \in Instances : Receive(i)
  \/ \E h \in handlers : HandlerStep(h)

\* The code of a call or a handler goes on; Redis delivers.  Nobody is bound to
\* change the schema, nor a call to run out of attempts.
PropagationFairness ==
  /\ \A c \in Calls : WF_propagationVars(CallStep(c))
  /\ \A i \in Instances :
       /\ WF_propagationVars(Receive(i))
       /\ WF_propagationVars(\E h \in handlers : h.inst = i /\ HandlerStep(h))

PropagationSpec == PropagationInit /\ [][PropagationNext]_propagationVars
FairPropagation == PropagationSpec /\ PropagationFairness

-----------------------------------------------------------------------------
(* Properties. *)

\* Every variable has its type: no version, row or event refers to a row that
\* schema_history does not hold.
PropagationTypeOK ==
  /\ running \in DOMAIN Changes
  /\ defs \in 0..MaxChanges /\ history \in Seq(0..MaxChanges)
  /\ latest \in Calls \cup {Nobody} /\ lock \in Calls \cup {Nobody}
  /\ pulling \in [Nodes -> Instances \cup {Nobody}]
  /\ files \in [Nodes -> 0..MaxChanges] /\ using \in [Instances -> 0..MaxChanges]
  /\ version \in [Instances -> 1..Newest]
  /\ at \in [Calls -> Instances \cup {Nobody}]
  /\ entities \in [Calls -> 0..MaxChanges] /\ row \in [Calls -> 0..Newest]
  /\ events \in Seq([version : 1..Newest, from : Instances])
  /\ received \in [Instances -> 0..Len(events)]
  /\ handlers \subseteq Handler
  /\ gaveUps \in 0..MaxGiveUps

\* No call, event or handler is left.
Quiet ==
  /\ \A c \in Calls : place[c] \in {"idle", "done", "skipped", "timeout"}
  /\ \A i \in running : received[i] = Len(events)
  /\ handlers = {}

\* When everything has settled, the last call of syncAll to become the latest
\* has run (unless it ran out of attempts), and what it left is what the
\* metadata says: the entity files of its node, the newest row of
\* schema_history and the last event published.
LastCallLeavesNewest ==
  Quiet /\ latest # Nobody /\ place[latest] # "timeout" =>
    /\ place[latest] = "done"
    /\ files[NodeOf[at[latest]]] = defs
    /\ history[Newest] = defs
    /\ events[Len(events)].version = Newest

\* No row is missed: whatever events an instance ignores as outdated, once a row
\* is in schema_history every running instance believes, at some time, that it is at that
\* row or a newer one.  (A slower handler may set it back afterwards.)
EveryRowReached ==
  \A i \in Instances, r \in 2..(MaxChanges + 1) :
    <>(i \in running /\ Newest >= r) => <>(version[i] >= r)

\* README.md:94, "Multi-instance Sync": when everything has settled and no call
\* ran out of attempts, the entities of every instance are the metadata's.  Refuted:
\* an instance whose call was superseded has already set its version.
InSync == Quiet /\ gaveUps = 0 => \A i \in running : using[i] = defs
=============================================================================
