# A verification model of enfyra_be

enfyra_be is a headless CMS backend (NestJS, TypeORM, Redis) whose tables,
routes, hooks and handlers are rows of its own database. Changing a row of
`table_definition` rewrites entity files, migrates the physical schema and
reloads every instance; changing a route reloads a cache that all instances
share; requests run user scripts in a pool of child processes; files lie on disk
beside their rows. This directory holds TLA+ models of those mechanisms, the TLC
runs that check them on small instances, and proofs checked by TLAPS for every
value of the constants. Paths below are relative to the repository root; `MS:136`
stands for line 136 of the file so abbreviated.

| abbreviation | file |
|---|---|
| MS, SH, SR, SS | `src/modules/schema-management/services/` `metadata-sync`, `schema-history`, `schema-reload`, `schema-state` `.service.ts` |
| RL, RC, PS | `src/infrastructure/redis/services/` `redis-lock`, `route-cache`, `redis-pubsub` `.service.ts` |
| HS, EP, CM, EH, RU, FP | `src/infrastructure/handler-executor/` `services/handler-executor.service.ts`, `services/executor-pool.service.ts`, `utils/child-process-manager.ts`, `utils/error-handler.ts`, `runner.ts`, `utils/build-fn-proxy.ts` |
| DS, GQ, GR | `src/core/database/data-source/data-source.service.ts`, `src/modules/graphql/services/graphql.service.ts`, `src/modules/graphql/resolvers/dynamic.resolver.ts` |
| TH, DR, SP | `src/modules/table-management/services/table-handler.service.ts`, `src/modules/dynamic-api/repositories/dynamic.repository.ts`, `src/modules/dynamic-api/services/system-protection.service.ts` |
| BS, CI, DD, BP | `src/core/bootstrap/` `services/bootstrap.service.ts`, `services/core-init.service.ts`, `services/default-data.service.ts`, `processors/base-table-processor.ts` |
| AU, JS, RG | `src/core/auth/services/auth.service.ts`, the JWT strategy and guard, the role guard |
| RD, DI | `src/shared/middleware/route-detect.middleware.ts`, the dynamic interceptor |
| FC, FM, FA | `src/modules/file-management/` `controllers/file.controller.ts`, `services/file-management.service.ts`, `services/file-assets.service.ts` |
| WF, QS | `src/infrastructure/query-engine/` `utils/walk-filter.ts`, `services/query-engine.service.ts` |
| MH | `src/modules/code-generation/utils/migration-helper.ts` |

## Inventory

For each component: its state, its operations, whom it talks to, what is hard,
and what makes it correct.

1. **RedisLockService** (RL). State: Redis keys with a TTL. `acquire` is SET PX
   NX, `release` a compare-and-delete script, `set`/`get` plain; `acquire` and
   `set` read the TTL after they have written (RL:41, RL:76), so they may fail
   after taking effect. Correct: a key is a lease that only its owner or its TTL
   ends.
2. **MetadataSyncService** (MS). State: the keys `schema:sync:latest` and
   `schema:sync:processing_lock`, the entity files, the physical schema.
   `syncAll` registers as the latest call, tries the lock up to 30 times, skips
   when superseded, and runs pull, build, generate, reload and migrate, backup,
   publish, or restore when a step throws. Fired by table changes (not awaited),
   by schema events, by restores and at boot. Hard: superseding, the TTL, early
   returns inside the lock, Promise.all, faults of Redis. Correct: runs exclude
   each other, a change whose call gave up is migrated by the call it gave up
   for, every call ends and the lock comes free.
3. **SchemaHistoryService** (SH). State: `schema_history`. `backup` re-reads the
   metadata; `restore` deletes the table of a failed create, writes the newest
   backup back and fires another `syncAll`. Hard: non-atomic reads, undoing the
   changes of others, a restore whose own call fails.
4. **SchemaReloadService, SchemaStateService, RedisPubSubService** (SR, SS, PS).
   State: each instance's version, the key `enfyra:pulling:<node>`, the events
   in flight. Publishes the id of the backed-up row; on an event an instance
   ignores it, reloads (same node), pulls (other node) or waits for the puller.
   Hard: handlers interleave, the fired `syncAll` may skip, the pulling key is
   released before the pull has happened. Correct: no row is missed; when all is
   quiet the last call's metadata is what the files and the newest row say.
5. **RouteCacheService and DynamicRepository** (RC, DR). State: keys
   `global-routes` (60 s), `stale:routes`, `revalidating:routes` (30 s). Loads by
   writers, by cold requests, in the background. Hard: slow loads that overwrite
   newer ones, two keys, two queries, swallowed failures, a lock whose value is
   the same for all. Correct: current unless a named race or loss happened, one
   revalidation at a time, convergence.
6. **Handler executor** (HS, EP, CM, EH, RU, FP). State: the pool, the listeners
   and the timer of a run, child processes, calls under way. Hard: late messages,
   timeouts against answers, children that die, slots that are lost. Correct: a
   run is answered by its own script, every borrowed child is accounted for,
   every run ends.
7. **DataSourceService, GraphqlService** (DS, GQ). State: the current
   DataSource, the entity map, the GraphQL server. A reload loads the entity
   files, connects, swaps, and destroys the old source 500 ms later. Hard:
   concurrent reloads, repositories taken before the swap.
8. **TableHandlerService and SystemProtectionService** (TH, SP). Create, update
   and delete table definitions statement by statement, drop a deleted table
   directly, then fire `syncAll`. Hard: statements that fail half-way, requests
   that interleave with each other and with the swap, a check made before the
   row is read again and on what the client's `fields` let it see, ids in the
   bodies that are the client's. Correct: a system table stays unless a request
   got past the check or named it, or a part of it, in the body of another
   table; metadata and database agree once all is quiet; no data is dropped that
   no accepted request has deleted or renamed.
9. **Bootstrap** (BS, CI, DD, BP, `init-db.ts`). First initialisation, upserts of
   the default records, a boot sync under `global:boot`. Hard: instances that
   boot together, an `isInit` that is written back, boots that fail and are
   restarted. Correct: no duplicates but raced ones, an instance serves only a
   complete installation, boots recover.
10. **AuthService, JwtStrategy, guards, request pipeline** (AU, JS, RG, RD, DI,
    GR). Sessions and tokens; the route, the user and the role of a request; the
    decision; hooks, handler, read-back. Hard: refresh against logout, decisions
    on what was read earlier. Correct: what is served was permitted; a logout
    ends a session.
11. **FileController, FileManagementService, FileAssetsService** (FC, FM, FA).
    Files on disk beside rows; an image cache in Redis with counters and
    eviction. Hard: several steps with failures between them, replacement
    against deletion, backups that replacements of one millisecond share,
    accounting of memory. Correct: no row without its file, no
    litter, no torn stream, no stale image, cleanups that reach their target.
12. **QueryEngine** (QS, WF, joins). Filters to SQL: a pure algorithm. Correct:
    the rows selected are those the filter means.
13. **Code generation and migrations** (AutoService, MH). Entities and the
    rewriting of migration statements. Correct: the database ends as the
    entities say, and rows survive.
14. **Left out**: errors and logging, entities and DTOs, RabbitMQ, stored SQL
    functions, helpers: formatting, declarations, wrappers.

## Modules

| module | models | state and actions against the code |
|---|---|---|
| `LeaseLock` | what RL promises (abstract) | `holder` is the value under a key, `inside` the clients in the guarded code, `late` those whose TTL ran out there. `Enter`/`Leak` are an acquire whose reply arrives / is lost, `Leave`/`Abandon` a release that works / does not. |
| `SchemaSync` | MS, SH, the lock part of RL, the effect of MH | `pc[s]` is the await a call of `syncAll` stands at; one action per step and one per error of Redis at that step. `defs`, `physical`, `history` are the sets of changes in the metadata, the physical schema and the newest backup; `seen` and `base` what a run read. `overrun` and `failed` are history variables. |
| `SchemaPropagation` | SR, SS, PS, the load and swap of DS | `version` is SchemaStateService, `pulling` the pulling keys, `files` a node's entity files, `using` an instance's DataSource; a handler is a record of one run of `subscribe`. The call of `syncAll` appears with its order and its outcomes and without its faults, which are `SchemaSync`'s. |
| `RouteCache` | RC, the reload of DR, the resolver's use of the cache | a task is a chain of awaits; `global`, `stale` and `flag` are the keys; a version counts the changes seen by each of the two queries of `loadRoutes`. |
| `HandlerExecutor` | HS, EP, CM, EH, RU, FP | `listener[c]` is the run whose listeners are on child `c` (`isDone` is its absence), `holder[c]` the borrower in the pool, `inbox[c]` the IPC channel in order, `calls` the context functions under way in the parent. |
| `FileStore` | FC, FM, the streaming of FA, the upload middleware | `row`, `disk`, `backup` are file_definition, the upload directory and the `.backup` files; `backupPath[r]` is the path of a replacement's backup, a fresh one or one that another replacement of the file at work has taken in the same millisecond (FM:170); `pc[r]` is the await of a request, with one action for the await that works and one for the error path of each. `mixed` and `torn` record overlaps and cleanups that failed. |
| `ImageCache` | the image cache of FA | `data`, `hot`, `hotMeta`, `freq` are the Redis keys `image:cache:*`, `image:hot`, `image:hot:meta`, `image:freq`, and `older` orders the entries of `image:hot:meta` by their timestamps; `reader[r]` is a request for a resized image, `cleaner[c]` a cleanup with what it has read. |
| `Bootstrap` | BS, CI, DD, BP, `setting-definition.processor.ts`, `init-db.ts` | `meta`, `physical`: columns in the metadata and in the database; `rows`, `isInit`: the default records and the setting's flag; `pc[i]` the await of an instance's boot. `Start` is a process supervisor's (re)start. |
| `TableRequests` | TH, SP (for tables), the swap and the destruction of DS | `row[t]` is a table's name, flag and parts (the ids of its columns and relations), `pinned` the relations without a source table, then `route`, `physical`; `table[r]` is the table of a request's path and `saves[r]` the one its save writes, the body's; a save takes the parts it lists from whichever table has them (TH:194-208). `source`, `oldest` number the DataSources, and a handler works on `using[r]`, destroyed or not; one action per statement, all may fail. `seen` of `Update` and `Delete` says whether the client's `fields` include `isSystem` (DR:53, SP:77); `unguarded` records the tables that were reached unchecked. `syncAll` is one step. |
| `RequestPipeline` | AU, JS, RG, RD, DI, GR, `DynamicService`, `MeService` | `cached` is the route, `role` and `session` the rows, `access` and `refresh` the tokens that have not expired; a request holds the `route`, `user` and `rank` it has read. |
| `QueryEngine` | QS, WF, joins and sort | `Walk` is `walkFilter` with its alias and parameter counter, `Find` builds the SQL and evaluates it on joined rows with SQL's three values and precedence; `Meaning` is the reference. A relation has its kind (many-to-one, one-to-many, either side of a many-to-many), on which `_count` and `_in` depend: a condition is dropped (`Counted`), counts by the first relation back (`RelationCount`) or is "broken" and fails the find. RECURSIVE, TLC only. |
| `ColumnMigration` | MH | `plan` is the list of statements left; `Generate` compares and rewrites, `Execute` and `Fail` run one; the database keeps for each column whose rows it holds. `Statements` puts the statements that are needed in the builder's order, given by a position for each; `Rewrite` keeps those that do not follow their pair. |
| `SchemaSyncProofs`, `PropagationProofs`, `HandlerExecutorProofs`, `FileStoreProofs`, `ImageCacheProofs`, `BootstrapProofs`, `TableRequestsProofs`, `PipelineAndMigrationProofs` | theorems about the modules they extend | see Proofs; `PropagationProofs` is about `RouteCache` and `SchemaPropagation`, the two ways a change reaches the instances, `PipelineAndMigrationProofs` about `RequestPipeline` and `ColumnMigration`, which have nothing to do with each other |
| `MC*` | instances for TLC | constants only; `MCAlgorithms` runs `QueryEngine` and `ColumnMigration` as two machines that do not interact |

How they fit: `SchemaSync` is the detailed model of the call that
`SchemaPropagation`, `TableRequests` and `Bootstrap` use in abridged form (order
and outcome; one step; one step). `RouteCache` justifies that `RequestPipeline`'s
`cached` may be any earlier version of the route, `HandlerExecutor` stands behind
its handler step, and `TableRequests` behind the failures of any of its
statements.

What is abstracted: a change of the metadata is the name of the call that
follows it (`SchemaSync`), a count (`SchemaPropagation`) or a row with columns
and relations (`TableRequests`); entity code, SQL and routes have no content
elsewhere. In `SchemaSync` a run reads and writes entity files of its own; two
runs that overlap (one outlived its lock) would also overwrite each other's
files on a shared disk, and the properties about migrations exclude overlapping
runs. Clock values are not compared: a TTL may run out at any moment while its
fault is enabled. What `tableDefRepo.delete({ name: undefined })` does (SH:83, for
the call of a restore, which has no name) is left to the driver: nothing, or
every row.

## Runs

| run | question | bounds and why they suffice |
|---|---|---|
| `sync_faults` | Is the processing lock the lease it should be when Redis fails, instances crash and TTLs run out, do calls end, does the lock come free? | two calls (a call's lock is disturbed by one other), two attempts (one retry), errors of Redis, crashes and expiries unlimited in number; failing steps are in `sync_supersede` |
| `sync_supersede` | Is it sound to skip in favour of a newer call, while steps fail and restores run? | three calls: one that runs, one that waits, one that supersedes; a restore takes one of them; any step may fail; with and without a backup. The three properties about migrations are proved for any number of calls |
| `propagation_clusters` | What does the last call leave, is a row ever missed? | one instance on each of two nodes with two changes, or two instances that compete to pull on one node beside a third, with one change; six calls, one more than any behaviour makes; one call that gives up |
| `handler_pool` | Isolation, slots and answers for scripts that await their calls | three runs for two children, so that one waits and a child is lent twice; one call per script, one slow script, one child that dies |
| `route_swr` | Is the cache current, is one revalidation at work, does it converge? | two tasks, two changes, two failures: a slow load needs a faster one beside it, a late release a second revalidation |
| `files` | Is a file ever lost, inconsistent, littered or torn? | three requests of any kind (two that race and one that meets what they leave), a file stored before, two faults (a failed step and the failure of its cleanup), a crash |
| `images` | Is a stale image served, is memory accounted for, do cleanups free it? | two readers, one cleanup on each of two instances, a small and a large variant, cached at the second request; the two variants reach the threshold; one replacement, four requests; expiries unlimited |
| `boot` | Duplicates, completeness, agreement and recovery of instances that boot together | two instances, one fault, a default record of each kind: the setting, a method without a unique key, a handler with one that needs the method; a custom column |
| `tables` | Do system tables, metadata and database survive requests that interleave and fail? | two requests, two failing statements, swaps and destructions at any moment; a system table and two others, in two installations, with relations between them and to themselves; seven bodies, which list columns and relations in full, two of them with a part that is another table's, one with a system column left out, and each for any id |
| `requests` | Was what is served permitted, does a logout end a session? | one request (requests do not meet but through the cache, the rows and the sessions, which change around it at any moment), two calls of AuthService that race, a user whose role changes, three definitions of the route |
| `algorithms` | Does a filter find what it means, does a migration do what it must? | every filter of the grammar in `MCAlgorithms` (all single conditions, all pairs, groups two deep, `_count` and `_in` on every kind of relation) on all joined rows of two columns and relations of each kind; all migrations between schemas of two tables, two columns and two types, three changes, one failing statement |
| `query_groups` | Is a group within a group kept together (`docs/QUERY_ENGINE.md`)? | violated: the documentation's own example |

Deadlock checking is off where the bounds let everything come to an end (all
calls made, all requests answered); `requests` has no such end and checks it.

### What the runs show

*Synchronisation.* `LockOwned`, `ExclusiveRun` and `ImplementsLease`: no early
return, lost reply, late release or crash breaks the lock; only a run that outlives
the 60 s TTL shares the section. `ExclusiveMigration` needs one more exception, a
run that failed while its migration was still executing (MS:290). `LockAccounted`:
without an error of Redis or a crash a taken lock has a call at work.
`LatestCoversAll`: superseding is sound. `CompletedIsMigrated`: completing means
what it says. Both are stated of orderly histories (`Orderly`): no run outlived its
lock, and no call that a restore has fired failed in its turn. The second condition
takes more calls to matter than TLC can search. The restore of such a call deletes
without a name (SH:83), which may take every row, and throws. A run that reads the
metadata at that moment fails while its migration executes; its own restore brings
the rows back from the backup; and the migration, computed without them, removes
what they describe while the next run relies on it. Six calls do it: an update that
is backed up, a create that fails, the call of its restore, the run that read too
little, the call of its restore, and the run after. Three calls (`sync_supersede`)
do not reach it; the attempt to prove the properties without the condition did.
`EveryCallEnds` and `LockIsFreed` hold whatever fails.

*Propagation.* `LastCallLeavesNewest`: the files of the last call's node, the
newest row and the last event agree with the metadata. `EveryRowReached`: the
two tests for outdated events (SR:71) never make an instance miss a row
altogether.

*Routes and handlers.* `CurrentUnlessRaced` and `OneRevalidation` name exactly
the races that are possible; `Converges` says that none of them lasts.
`IsolatedRuns`, `SlotsAccounted`, `EveryRunEnds` for scripts that await their
calls.

*Files and images.* `RowHasFile`: the file of a row is lost only by a crash or a
failed restore inside a replacement, where an upload's read-back fails and its file
is rolled back, where a deletion overlaps a replacement, or where a replacement
fails whose backup was another's too (`Robbed`): of two that reach `backupFile` in
the same millisecond (FM:170) the one that succeeds drops the backup of both, and
the restore of the other finds none and goes on (FM:244, `RestoreMissing`). A failed
read-back (DR:82, DR:122) leaves row and file at odds: the properties excuse its
request by name and show that nothing else does this. `Consistent`, `NoLitter`,
`StreamIsWhole`: a failure of one step is undone; what stays behind is named (the
upload of a failed replacement, a cleanup that failed). `HitIsCurrent`: the
modification time in the key invalidates by itself. `CachedIsAccounted` has one
unobvious exception: a request that finds an expired image takes the mark away that
another request has just set (`unmarked`). `CleanupReachesTarget`: a cleanup that
runs alone frees what it set out to free.

*Boot and tables.* `DuplicatesOnlyRaced`, `ServesComplete`, `SettledIsSynced` (its
exception: an instance that reads `isInit` twice, once in the setup and once in
BootstrapService, with two results) and `BootRecovers`. `SystemStays`: the check of
SP is made before the statements and on another read, and still holds at each of
them, for every table that is not `unguarded`. A system table is not safe as such: a
request whose `fields` leave `isSystem` out is not checked at all (SP:77), and the
bodies of other tables may carry its id or those of its columns (TH:101,
TH:192-208); such requests are modelled, and the property names the tables they
reach. `SettledAgrees`: metadata and database agree but for the tables a failed
request has left half changed (`torn`: the statements of TH have no transaction).
`DroppedOnlyWhenAsked`: a renamed table is one created empty and one dropped, which
is why a name given up counts as asked for; a failing or interleaved change never
drops one.

*Requests.* `ServedWasPermitted`: a decision rests on a route and a role that were
in force while the request was under way. `LogoutEnds`: a refresh that has found
its session still returns tokens after the logout; they expire and are not
renewed.

*Algorithms.* `FindsWhatIsAsked` for conjunctions however nested, a lone
disjunction and a lone negation of conditions on columns, of `_count` on a
one-to-many relation whose other side is the first relation back, and of `_in` on
the owning side of a many-to-many (`Single`; the other uses of the two are modelled,
and select what is said below); `EndsAsEntities` and `RowsStay`.

### Disagreements with the documentation

`query_groups` is a finding, with its run. The following are definitions of the
modules that no run checks, since they are known not to hold; each was refuted by
TLC on a small instance, and the comment above the definition says how.

- `AcceptedIsMigrated` (`SchemaSync`; `docs/API.md:567-578`): the call of the newest
  change stops after 30 attempts (MS:236) though the older run that held the lock
  had read the metadata before it; nothing syncs again and nobody is told (TH:348).
- `InSync` (`SchemaPropagation`; `README.md:94`): two instances of different nodes
  pull for the same event; one of their calls supersedes the other, and the
  superseded instance has already set its version (SR:102), so it ignores the next
  event.
- `IsolatedRuns` with `Detached = TRUE` (`HandlerExecutor`; `docs/ARCHITECTURE.md:148`):
  messages carry no run, so a late one is served under the next run's context or
  rejects it (CM:41, RU:10).
- `PoolRecovers` (`HandlerExecutor`; `docs/ARCHITECTURE.md:145`): a timeout never
  returns the slot (CM:18-28), and an exited child is lent again (EH:103).
- `StaysInitialised` (`Bootstrap`; `scripts/init-db.ts`): the upsert of the setting
  compares `isInit` (`setting-definition.processor.ts`, `getCompareFields`) and writes
  the value of `init.json` back at every boot, so that every start of the process
  runs the first installation again until BootstrapService sets it.

Met while translating, and outside the properties: `_not` restarts the parameters at
`p1` (WF:83), so that a negation beside another condition binds its value; a `_not`
inside a relation is walked on the parent's table and the relation is not joined;
`_in` on a relation that is no many-to-many compares the id of the table asked, not
of the one referred to (WF:332-336), and on the inverse side of a many-to-many it
throws (WF:325); `_count` takes the first relation of the target that leads back
(WF:113), whichever relation was named, is dropped with a line in the log when that
one has no join column, so that every row is returned (WF:117-120), and is an SQL
error when it is a many-to-many's owner, although `docs/API.md:547-549` promises it
for relations; the check of system records reads the row with the client's `fields`
(DR:53, DR:94, DR:133), and skips itself when they leave `isSystem` out (SP:77);
`POST /table_definition` saves the body with its `id` (TH:85-101), so that it may
overwrite or rename a table that exists; `PATCH` saves the table the body's `id`
names (TH:192), and both give the columns and relations they list to that table,
whosever they were (TH:194-208); two replacements of a file in one millisecond share
a backup (FM:170); a `PATCH` or `DELETE` of a file whose `fields` leave `location`
out fails at the backup or leaves the file on disk (FC:98, FC:194); a
comma-separated `sort` is one path, and the direction of a sort by a relation's
field is lost, against the examples at `docs/QUERY_ENGINE.md:84`, 172 and 1146;
GraphQL permissions never match, because `includes` looks for a name among rows
(GR:199), so that only published methods and root administrators pass; a DROP and
ADD rewritten to a RENAME keeps the old type until the next migration, and the last
DROP of a table is paired with its first ADD (MH:169).

### Fairness

Weak fairness on each call's, handler's or task's own steps: an await that can
be resolved is. For Redis, TTLs run out. For the executor, the event loop serves
the queue, the messages and the timers, and a script that is not slow ends. For
the routes, requests keep coming, which is what drives a revalidation. For the
boot, a process that exits is started again: `docs/ADMIN_GUIDE.md:233` runs the
container with `--restart unless-stopped`. For the sessions, calls of AuthService
end and tokens expire. Nothing is assumed about requests, changes, faults,
crashes, or calls that run out of attempts.

## Proofs

All theorems hold for every value of the constants, from the assumptions the modules
state on them: names that are distinct, bounds that are numbers, bodies and
definitions of the right type, and what an installation is before the model starts.
The assumptions that say something of the code are `InstalledAssumption`
(`TableRequests`: a table of the installation has its own name, is a system table
exactly if it is listed as one, and then has its system parts; its relations point
to installed tables, and no part has two tables), `NeedsAssumption` (`Bootstrap`: a
record comes after those it needs in `init.json`, which need nothing themselves),
and `ChangesAssumption` (`SchemaPropagation`: the bounds on the changes have a
largest one). The only sets assumed finite are the runs and children of
`HandlerExecutor` and the instances of `Bootstrap`. TLC evaluates the assumptions on
every run.

Each theorem follows from an inductive invariant; of the properties only
`LockAccounted` is inductive as it stands (with the types).

- `SchemaSyncProofs`, the lock. `TypeCorrect`: that `attempt` stays in
  `0..MaxAttempts` needs that a call waits only after an attempt that was not its
  last (`WaitsBeforeLast`). `LockOwnership`: an acquire needs a free key, the
  compare-and-delete of a release touches only the releaser's key, and a key that
  runs out marks its owner; `MutualExclusion` and `LockIsALease` (the refinement of
  `LeaseLock`, one step per group of actions) follow. `NoForgottenLock`.
  `MigrationsExclude`: a migration executes at the step that awaits it, or its run
  failed (`MigratesInApply`).
- `SchemaSyncProofs`, the migrations. `RunsMigrateTheirOwn` and `SupersedingIsSound`
  (`CompletedIsMigrated`, `LatestCoversAll`) share an invariant, `RunInv`. Its core is
  about what is *not* lost: a backup holds nothing but what is in the metadata or
  what a failed create must undo (`BackedUp`), so a restore resurrects no change; a
  run that has pulled knows all that is, or is about to be, in the physical schema
  (`Fresh`); so its cleanup drops no table of the metadata and its migration, also one
  that executes on after its rollback, removes no column of it (`Spares`). On that
  rest what a run owes to its own change (`Own`) and, while it is the latest, to every
  change registered before (`Covers`). The theorems say nothing of histories that
  are not `Orderly`; see *What the runs show*.
- `PropagationProofs`, the routes. `CachesTyped`, `RevalidatesOnce`,
  `CopiesAreCurrent`: the property says nothing while a reload is under way, so the
  invariant follows the reload of the last change (`Covered`).
- `PropagationProofs`, the schema. `RowsExist` (`PropagationTypeOK`) and
  `LastCallWins` (`LastCallLeavesNewest`), for every cluster. A change takes the
  latest key before its call does anything else, so once no call is about to do so
  the latest one has seen all changes; no other call runs beside or after it
  (`Entered`), and what it has left behind so far is the metadata (`Left`). Rows of
  `schema_history` are only added, which keeps every version, event and row that
  refers to one (`RowsGrow`).
- `HandlerExecutorProofs`. `NoSlotIsShared`, for detached calls too: the queue holds
  distinct runs that hold no child (`Queued`). `RunsAreIsolated`, for scripts that await
  their calls (the only assumption on behaviour): every message in a channel is of
  the run the child is lent to, and a waiting script has its call under way exactly
  once (`Letters`, `Lent`, `Awaited`). `HandlersTyped`: a call in a channel names the
  script that makes it (`Mail`), and the parent executes it under the run that listens.
- `FileStoreProofs`. `FilesTyped`; `NoFileIsLost`: a replacement can put back what it
  unlinks because its upload is still there and its backup too, unless another one
  has dropped the backup they share (`Ready`), uploads that are not rows are their
  request's own (`Private`), and a row that comes back under a deletion was written by
  an overlapping replacement (`Overlap`, `MetDelete`).
  `FilesConsistent`, `NothingIsLittered` and `StreamsAreWhole` rest on `WholeInv`: a
  backup is there only while its replacement may need it (`Held`), an upload while it
  is used (`Paths`); row, file and backup follow the one request that changes a file
  while nobody else does (`Follows`); and a stream has read a file at rest (`Streams`).
- `ImageCacheProofs`. `HitsAreCurrent`: what lies under a key is no older than the key,
  and so is what a request is about to store there (`Fresh`, `Made`).
  `CacheIsAccounted`: who is about to mark a key still is after any step of another
  (`StillMarking`). `CleanupsReachTarget`: the entries are ordered by their timestamps
  (`Entries`), and a cleanup that runs alone frees enough at every step (`Sweeps`). It
  needs a theory of the sums of sizes: that a sum depends on the set alone, grows with
  it and adds up over its parts. `MapThenSumSet` takes the elements in an order of its
  own, so none of that is a definition; each is proved by looking at a smallest set
  that contradicts it, whose smaller subsets do not. `ImagesTyped`: the count of a key
  and the requests that are still to be counted are no more than all requests
  (`Counted`).
- `BootstrapProofs`. `OnlyRacesDuplicate`: an instance whose find came before another
  one's insert was about to insert at that moment (`Overtaken`). `ServingIsComplete`: an
  instance at a record has settled those before it, by a row, a failure or that of a
  needed record (`Complete`). `BootsEndSynced`: where physical and metadata columns
  differ, some instance is bound to synchronise before it serves (`Synced`, `Owes`). A
  first boot at its commit is such an instance only while nobody has inserted what it
  is about to insert: otherwise the commit fails, and whoever inserted it synchronises.
  `BootTyped`: the rows of a record and the instances about to insert it are no more
  than all instances (`RowsBounded`), since a find that returns nothing means that
  there is no row yet; so a race costs a row per instance, and restarts cost none.
- `TableRequestsProofs`. `SystemTablesStay`: a system table that is not `unguarded`
  has what the property says (`Guarded`), and no request holds anything that could
  take it away: it deletes or drops another table, removes none of its parts, and
  what it saves under the table's id has its name, its flag and its system parts
  (`Granted`). No other row has its name or its parts (`Unique`, `Separate`), so a
  save of another table takes them only by listing them, which makes it `unguarded`.
  `TablesWellFormed`; `SettledTablesAgree`: between two synchronisations a table
  differs from its row only if a request is half through with it or has failed there
  (`Excused`, `Agrees`), and the constraints of the database keep relations whole
  (`References`). `DropsAreAsked`: a physical table has a row of its name until a
  request asks for its end (`Backed`).
- `PipelineAndMigrationProofs`, the requests. `OnlyPermittedServed`: what a request
  holds was in force while it was under way (`Held`). `RequestsTyped`: a token is of
  a session that was opened (`Opened`). `OverIsFinal`: a session that is deleted,
  whose tokens have expired and of which no refresh is under way gets no token
  again. It is the half of `LogoutEnds` that needs no fairness.
- `PipelineAndMigrationProofs`, the migrations. `MigrationEnds` (`EndsAsEntities`) and
  `MigrationKeepsRows` (`RowsStay`), for any number of tables, columns, types, changes
  and failing statements. The invariant (`MigrationFits`) describes the rest of the
  plan by the database as it is *now*, not as it was when the plan was made: each
  statement is one that the difference between database and entities asks for
  (`AllAsked`), no two touch the same column (`Apart`), they come in their stages
  (`InTurn`), and every difference is covered by one of them (`Covers`). Running the
  first statement keeps that (`RunMoves`, `AskedStays`, `TailFits`), with an empty plan
  there is no difference left (`NothingLeft`), and a statement that is asked for takes
  no rows of a column that stays. That a new plan has the four properties
  (`PlanFits`) is the harder half: `InOrder` lists every member of a finite set
  exactly once and in its order, because the number of members before one is its
  place (`InOrderLists`); so the builder's statements are in the order of their
  positions (`StatementsList`), two that are paired are neighbours there, and the
  rewriting covers what the statements covered (`RewriteGoes`, `HeadsAre`). That a
  column which goes alone and one that comes alone in a table become one RENAME is
  `OnlyRename`. This is why the two lists are put in order by the places of their
  members and not built up by a fold: a fold would need an induction over the plan.

*Only model-checked*: `FindsWhatIsAsked` of `QueryEngine`, whose walk of a filter is
recursive; it would be an induction over filters. *Out of the prover's reach*:
liveness (`EveryCallEnds`, `LockIsFreed`, `EveryRowReached`, `EveryRunEnds`,
`Converges`, `BootRecovers`, `LogoutEnds`). The type invariants of `ImageCache`,
`Bootstrap`, `RequestPipeline`, `HandlerExecutor`, `FileStore` and `ColumnMigration`
belong to no run: they are proved (`ImagesTyped`, `BootTyped`, `RequestsTyped`,
`HandlersTyped`, `FilesTyped`, `MigrationFits`).

## Not modelled

- *Redis that loses events* (PS:43): delivery is modelled as reliable. An instance that
  misses an event has no repair but a restart.
- *The GraphQL schema* (GQ, type definitions): text generated from the entities, in
  parallel with the reload of the DataSource (MS:292).
- *Permissions of a single file* (`checkFilePermissions` of FA), the listing of files,
  HTTP headers. A `PATCH` without a new file (FC:169-178) saves the body into the row,
  also a `location` or metadata that the file does not have: the properties of
  `FileStore` speak of rows that nobody changes this way.
- *Pipelines of Redis without MULTI* (FA): the commands of one are a single step of
  `ImageCache`.
- *The early return of BootstrapService without its repositories* (BS:63-68):
  unreachable while the entities they are of are part of the repository.
- *In `TableRequests`*: bodies list columns and relations in full (without them an
  update is refused, and a create over a table that exists leaves that one's alone),
  and do not change the target of a relation that exists; types and attributes of
  columns, which no property tells apart.
- *The rest of the query engine*: text operators, aggregates other than `_count`,
  pages, `meta`, the selection of fields, `deep`.
- *The rest of the migrations*: indexes, constraints, foreign keys, attributes of a
  column other than its type, databases other than MySQL (whose DDL commits
  statement by statement). The pattern for ADD (MH:181-183) also
  matches `ADD CONSTRAINT` and the addition of a unique index, so that a foreign key
  or an index made after the DROP of a column may be paired with it.
- *System protection of other tables* (routes, hooks, menus, extensions): further lists
  of fields like the one that is modelled.
- *Content of scripts, hooks, handlers, hashing, signing, path matching*: the user's
  or a library's.
- *Errors and logging, entities, DTOs, RabbitMQ, stored SQL functions, helpers*.

## Plan

1. A restore that supersedes an API call, and what its backup undoes (SH:91, SH:95):
   the hazards of `PROJECT.json` without a property, which need a statement of what
   should happen that the repository does not make.
2. The GraphQL schema beside the reload of the DataSource; lost events; nested
   queries; the permissions of files.
