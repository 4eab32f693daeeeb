# TLA+ models of evidra

This directory holds TLA+ models of the evidra evidence store (`src/`,
Go). The models are checked with TLC. `PROJECT.json` lists the components,
the TLC runs, the mutants that show each property can fail, the mapping
from every modelled definition to the Go lines it translates, the findings,
and the hazards.

## The system

evidra records what happened to deployments. Its parts:

| Part | Code | State it keeps |
|---|---|---|
| CloudEvents parsing + integrity hash | `cloudevents/ingest.go`, `validate.go`, `canonical.go` | none (pure), but `Validate` reads the clock |
| Ingest API | `api/handlers_events.go` | none; one goroutine per request |
| Repository | `store/store.go` (memory, `sync.RWMutex`), `store/sql.go` (Postgres/SQLite) | events by id (append-only), export jobs |
| Argo CD collector | `ingest/argo/collector.go`, `checkpoint.go`, `normalize.go` | per-application cursor in memory and in a JSON checkpoint file |
| Change aggregation | `app/changes.go`, `api/handlers_changes.go` | none: a pure function of the stored events |
| Timeline query | `store/*.go QueryTimeline`, `api/handlers_query.go` | cursor handed to the client |
| Evidence export | `app/service.go`, `export/fs.go`, `api/handlers_exports.go` | export job records, files on disk |
| Webhook adapters | `providers/{github,gitlab,bitbucket}`, `ingest/registry.go` | none |
| Admission | `api/auth.go`, `jwks.go`, `roles.go`, `ratelimit.go`, `audit.go` | rate-limit counters, JWKS cache |
| Kubernetes collector | `providers/kubernetes/collector.go` | never started (`bootstrap/runtime.go:42-43`) |

How they interact. Producers and the Argo collector write events into the
repository. The HTTP handlers write through the service. The collector
holds the repository directly as its `Sink`. The aggregator, the timeline
query and the exporter only read. Two kinds of actor run concurrently:

- the HTTP server, with one goroutine per request;
- the collector, with one informer goroutine calling `handleAppEvent` one
  notification at a time, plus the `Start` goroutine, which saves the
  checkpoint on shutdown.

The collector's checkpoint file and the repository are separate stores.
Nothing makes "ingest" and "save checkpoint" atomic together.

## Modules

### `Repository` (checked by `MC_Repository`)

This module models the ingest path: `handleEvents` → `ParseRequest`/
`rawToStoredEvent`/`Validate`/`ComputeIntegrityHash` →
`MemoryRepository.IngestEvent`.

**State:**
- `events`: the repository map.
- `clock`: `time.Now()`.
- `todo[c]`: the parsed events of client `c`'s request that are still to
  ingest.
- `outcomes`: the history of answers.

**Data abstraction:** the event body is a model value. The hash is the
tuple `<<id, body, time>>` it is computed from.

**Actions:**
- `PostEvents(c, batch)`: the whole request is parsed up front. A missing
  `time` is stamped with the clock here, exactly as `Validate` does.
- `IngestEvent(c)`: one iteration of the handler loop, which is one atomic
  `IngestEvent` under `m.mu`. There are three branches:
  - accepted;
  - duplicate, which returns the stored `IngestedAt`;
  - conflict, which drops the rest of the request, as the handler returns
    409 there.
- `Tick`: the clock advances.

Requests of different clients interleave between the events of a batch.

### `ArgoCollector` (checked by `MC_ArgoCollector`)

This module models the watch path of the Argo CD collector for one
Application.

**Environment.** The Argo CD controller is outside the repository. It is
modelled only through the status fields `handleAppEvent` reads: sync
revision and status, operation phase and finishedAt, and the last history
entry. It has these actions:
- `NewRevision`: a new commit becomes the target;
- `StartSync`;
- `SyncSucceeded`: appends a history entry;
- `SyncFailed`: appends no history entry;
- `Refresh`: a periodic reconcile delivers the same object again;
- `Tick`.

The informer's watch is modelled too:
- `WatchDrops`: the watch breaks, and later changes queue nothing;
- `Relist`: the informer re-lists and delivers only the current object.
  Deployments made during the gap reach the collector only through the
  last history entry.

Every controller change appends a snapshot of the object to `queue`, the
informer's notification queue.

**Collector state:**
- `cursor`: `c.appCursors[uid]`.
- `saved`: the file's entry.
- `inflight`: ingested but not yet checkpointed.
- `store`: the records ingested.

The controller never reuses an id. The collector mints the event id from
`time.Now().UnixNano()` (collector.go:164), so the repository never
dedups collector events. The store is therefore a plain sequence.

**Actions** (the steps of `handleAppEvent`, in the code's order):
- `SkipAppEvent`: `shouldProcess` rejects the event.
- `IngestAppEvent`: normalize and ingest.
- `IngestFails`: the error is logged and the notification is dropped.
- `AdvanceAndSave`: `advanceCheckpoint` then `saveCheckpoint`, whose
  failure is only logged, so `saved` may stay behind.
- `Crash`: the process dies and `Start` reloads the file. The informer's
  initial list delivers the current object.
- `TornCrash`: the process dies inside the `os.WriteFile` of
  `saveCheckpoint` (checkpoint.go:66). The file is left torn (`Torn`),
  `loadCheckpoint` fails, and the collector starts from an empty cursor
  (`Loaded`).
- `Shutdown`: `Start` saves after `ctx.Done()`. The save may fail, and the
  in-flight handler is lost.

Each restart first rebuilds the repository (`StartRepository`,
`buildRepository` in `bootstrap/runtime.go:104-142`). The constant
`InMemoryRepository` says which kind every start gets.
- FALSE: the SQL database, which keeps every ingested event.
- TRUE: a new, empty in-memory repository. This happens when no database
  is configured, the default (line 105). It also happens when the
  database fails to open, answer the 10 s ping, migrate or initialise
  (lines 113-138), where the fallback is only logged.

Either way the checkpoint file survives the restart.

`SourceEventOf`, `shouldProcess` and `advanceCheckpoint` translate the
code's field extraction and the `argo.sync.finished` branches of the
cursor logic.

### `SQLRepository` (checked by `MC_SQLRepository`)

This module models `SQLRepository.IngestEvent` (`store/sql.go:34-102`)
behind the same handler loop as `Repository`. The transaction runs with
default isolation. The existence check (`getEventTx`) and the INSERT are
separate statements, so they are separate actions: `SelectEvent(c)`,
then `FoundEvent(c)` (duplicate or conflict) or `InsertEvent(c)`. The
INSERT and its commit are one step, guarded by the unique index on `id`.
When the index rejects the row, the handler answers 500 (`handleStoreErr`).

`rows` is the table of committed rows. `seen[c]` is what the SELECT
returned. `Abs == INSTANCE Repository WITH events <- EventsMap` maps the
table onto the in-memory repository. `Abs!Spec` does not hold: the
index race below is a step the in-memory repository has no answer for.
`SQLDivergesOnlyByIndexRace` checks that this race is the only
departure, and the run reaches it. Every step is either `Abs!Next` or `IndexRaceError`: a 500
for an id that another transaction committed after this one's SELECT.
`SelectEvent` counts in-flight transactions against `MaxResponses`, so
no answer exceeds the bound that `Abs!IngestEvent` keeps.

### `Timeline` (checked by `MC_Timeline`)

This module models a client following `next_cursor` through
`QueryTimeline` while producers ingest (`FetchPage`, `IngestEvent`).
The variable `dialect`, drawn from the constant `Dialects`, selects the
repository:
- `"memory"`: `store.go:127-191`, comparing `time.Time` values.
- `"postgres"`: `sql.go:104-220`, comparing `timestamptz` values, which
  order like memory.
- `"sqlite"`: the same query, comparing the RFC3339Nano text that
  `tsValue` writes.

The variable `includeSupporting` is the query's `include_supporting`
flag. Unless it is set, each repository hides supporting observations in
its own way, and `Shown` picks the dialect's rule:
- memory: `ExtensionBool` (`ingest.go:135-157`): a boolean true, a non-zero
  number, or a string that trims and lower-cases to `true`, `1` or `yes`.
  `Canon` is that trim and lower-casing.
- Postgres: `PostgresKeeps` (`sql.go:176-178`) drops the JSON value
  `true` and the string `"true"` only.
- SQLite: `SQLiteKeeps` (`sql.go:179-181`) keeps only an absent value or
  `json_extract` giving 0 (false, or the number 0), so any string is
  hidden, `"false"` included.

The constant `Supporting` gives each event id its
`supporting_observation` value (absent, or a kind and a literal).

A time is a second plus its fractional digits without trailing zeros.
`Text(t)` is the character codes of the printed tail (`"0.5Z"`), so text
order is modelled by what the conversion does, not as the identity.
`Page` is the query: range filter, `(time, id)` order, cursor predicate,
`Limit+1` overflow, and the next cursor from the last item returned.
`MaxItems` caps the items a client collects. A correct client never
reaches it, because it sees each of the 3 ids at most once. A client that
is handed the same item again stops at the cap and never gets a last
page, which is how `PagingTerminates` catches it.

### `EvidenceEvents`, `ChangeAggregation`, `Export`, `Evidence`

`EvidenceEvents` holds the stored events the read side consumes. Both
`ListChanges` and `exportItemsForJob` read one subject's timeline with
`Limit 500`, so an event keeps only the fields these two read:
- id and time;
- the reference, revision and initiator extensions;
- the status word of the data body;
- the health extension;
- the correlation extensions (`ext`), the `evidra.io/*` annotations of
  the source payload (`ann`), the approval entries, and
  `supporting_observation`.

A time is counted in half-seconds, so the RFC3339 formatting in
`deriveChangeIdentity` (`RFC3339Second`) can merge two distinct times.
`TimelineItems` is the ordered, limited query result.

`ChangeAggregation` (`app/changes.go`) translates the engine into
operators:
- `ChangeKey` and `ChangeIdOf`: `deriveChangeIdentity` and `stableHash`.
- `AddEvent`: one iteration of `buildChangesByID`, with the merge rules.
- `FinalizeChange`: the sort and the health scan.
- `ExternalCorrelation` and `ApprovalsFromData`: external change id,
  ticket and approval reference, from the extensions and then the
  annotations, and the approval entries that are not blank.
- `BuildChanges`, `FilterChanges` (every filter of `filterChanges`:
  result, health, correlation states and values, approvals),
  `ApplyChangeCursor` and `ListChanges`: the limit and the next cursor.
- `GetChange`, `GetChangeTimeline`, `GetChangeEvidence` (`EvidenceOf`):
  the views of one change. Approvals are deduplicated on
  `ApprovalKey` (case-folded source and identity).

Its state is a client paging through `GET /v1/changes`, one action per
request (`FetchChanges`), with ingests in between. Reference definitions
(`SpecResult`, `SpecHealthAtStart`, `SpecInitiator`,
`SpecCorrelation`, `SpecDegraded`, `SpecApprovalKey`) restate spec
section 4.4 over the set of events of a change. The
properties compare the engine with them.

`Export` models `POST /v1/exports` (`Service.CreateExport`) as a per-request
program counter `req[c].pc`. The steps, in the code's order:
1. `CreateExport`: the INSERT and the re-read of the job, at
   `sql.go:282-296`. Either may fail, and a failed re-read leaves a
   pending job behind. Every creation reads a new nanosecond. A repeated
   `exp_<UnixNano>` id (`store.go:246`, `sql.go:290`) is not modelled.
   The in-memory map would silently overwrite the earlier job. The SQL
   outcome depends on the `exports` table's key, and the migrations that
   define that table are not in the repository.
2. `FetchItems`: `exportItemsForJob`. A filter that lacks from, to or
   subject exports no events. An invalid filter or a query error fails.
3. `WritePack`: `CreateEvidencePack` writes `Pack(items)` to
   `PackPath(job)`, or fails.
4. `CompleteExport`: `SetExportCompleted`, which may fail.

Every failure calls `MarkFailed` (`SetExportFailed`), whose own error is
ignored, and then ends the request. The pack is its sorted timeline plus
`derivePrimaryChange`. The wall-clock fields and checksums are functions
of these. The pack's primary change carries the correlation fields and
the `post_deploy_degradation` literal of `derivePrimaryChange`. Two ghost variables record history for the properties:
- `fetched[job]`: the items each job's request fetched;
- `lostWrites`: the jobs on which a repository statement returned an
  error.

`Evidence` composes the two. It extends `Export`, instantiates
`ChangeAggregation` over the same `store`, and adds a shared `Ingest`.
Each step moves one component and leaves the other's variables unchanged.
One server runs change-list readers, exporters and ingest concurrently.

### `RateLimiter` (run `ratelimit_window`)

This module models `authRateLimiter.Allow` (`api/ratelimit.go`). Every
request is a process with a program counter:
- `Arrive(r)`: the unlocked prefix. A disabled limiter or a limit ≤ 0
  allows at once; otherwise the request reads `currentMinuteWindow()`.
- `Count(r)`: the part under `l.mu`. A window different from `l.window`
  replaces it and empties the counters; then the key's counter is
  incremented and compared with the limit.
- `Tick`: the minute moves on.

`granted` records every allowed request with the window it read.

### `ApiAuth` (checked by `MC_ApiAuth`)

This module models what `authorizeRead`, `authorizeIngest` and
`authorizeExport` do after `Allow` said yes (`api/auth.go`, `roles.go`,
`jwks.go`). The limiter's state plays no part in it, so the two modules
are separate. One request is authorized in one step, `Authorize(q)`.
The only shared state it touches is the JWKS cache, and
`resolveJWTKeyFromJWKS` holds `s.jwksMu` around it, so the step is
atomic.

The server's configuration comes from the code that starts it:
- `main` (`cmd/evidra/main.go`) exits unless `Config.Validate` accepts
  the loaded `config.Config`. `AuthValid` is Validate's auth checks
  (`config.go:347-367`). Read auth means a read token, OIDC or JWT
  (`ReadAuthConfigured`), unless `EVIDRA_DEV_INSECURE` is set. JWT needs
  an issuer, an audience and a key source.
- `NewRuntime` copies the auth fields into `api.AuthConfig`
  (`AuthConfigOf`, `bootstrap/runtime.go:46-86`). `DevInsecure` is not
  among them, so the server itself never knows it runs in development
  mode.

**Operators, in the code's order:**
- `ResolveRoles`: JWT, else the OIDC roles header (`RoleSet`:
  split, trim, lower-case, drop blanks), else not enforced.
- `KeyFor`: the keyfunc, by `alg`: the HS256 secret, the JWKS cache
  (`JwksKey`, `ResolveKey`, `Refresh`, `Stale`), or the PEM key.
  `JwtValid` then checks the signature, issuer, audience, expiry and roles.
- `RolesOK`: `authorizeRoles` with `AllowedRoles` of the action.
- `Decision`: roles, then the read token (reads and exports) or the
  ingest token with its fallback to the read token (`IngestToken`), then
  the webhook signature.

**State:**
- `env`: the `config.Config` the process loaded. It is chosen once, from
  the members of `Envs` that `AuthValid` accepts. `cfg ==
  AuthConfigOf(env)` is the server's `AuthConfig`.
- `idp`: the kids the JWKS URL publishes.
- `jwks`: the cache's keys and `lastRefresh`.
- `now`: the clock.
- `last`: the outcome of the last authorization.
- `revokedAt`: the history of withdrawals.

`Rotate` (the identity provider publishes a new key set) and `Tick` are
the environment.

**Data abstraction:**
- A credential is a string, and `Jwt` maps it to the token it decodes to.
- A token names the key that signed it.
- `Canon` stands for `ToLower(TrimSpace(.))`.
- A missing `kid` header is the string `"<nil>"`, as `fmt.Sprintf("%v")`
  prints it.

## Runs

| Run | Cfg | Expect | What it shows |
|---|---|---|---|
| repository | `MC_Repository.cfg` | pass | Two clients post batches of up to 2 events over 2 ids and 2 bodies; one event (i1, b1) is also posted without `time`. An id is accepted at most once, and the stored event is the accepted one (`FirstAcceptedWins`). Re-posting accepted bytes is a conflict only when they carry no `time` and the two parses stamped different times (`RedeliveryConflictsOnlyWhenRestamped`); the run reaches that conflict, and the later answer may carry the earlier stamp, since a request parsed first can ingest second. |
| sql_repository | `MC_SQLRepository.cfg` | pass | With SELECT and INSERT interleaved, the unique index keeps an id accepted at most once (`SQLFirstAcceptedWins`). Seen through the table, every step is a step of the in-memory repository, or a 500 to the loser of the race on the unique index (`SQLDivergesOnlyByIndexRace`). The run reaches that 500. |
| timeline_memory | `MC_Timeline.cfg` | pass | With paging one item at a time during ingest, with and without `include_supporting`, the pages are strictly ordered and contain every event stored before the first page that is in range and not a hidden supporting observation (`TimelineMatchesQuery`). Without ingest they equal one query. A client that keeps following `next_cursor` eventually gets a page without one (`PagingTerminates`), also when events are ingested ahead of its cursor. |
| timeline_sqlite | `MC_Timeline_sqlite.cfg` | violation | On SQLite, RFC3339Nano text orders `0.5Z` before `0Z`, and `to = 0.5Z` excludes an event at `0Z`. Without `include_supporting`, SQLite hides an event whose `supporting_observation` is the string `"false"`, and Postgres shows one whose value is `" Yes"`, which `ExtensionBool` counts as true (`TimelineMatchesSpec`: order, range and filter together). |
| collector | `MC_ArgoCollector.cfg` | pass | Runs with one crash, torn-checkpoint crash or graceful restart, a failed ingest, failing saves and a watch gap with relist. Between restarts each history entry is ingested at most once. The cursor, and any checkpoint that loads, never run ahead of the repository. The latest deployment is eventually recorded. |
| collector_memory | `MC_ArgoCollector_memory.cfg` | violation | Every start gets a new in-memory repository (`InMemoryRepository = TRUE`). After a restart the store is empty, but the loaded checkpoint already records the latest history entry. `shouldProcess` then rejects that entry on every redelivery, so `LatestDeploymentRecorded` fails. |
| collector_replay | `MC_ArgoCollector_replay.cfg` | violation | A crash between ingest and save re-ingests the entry under a new id. |
| collector_failed | `MC_ArgoCollector_failed.cfg` | violation | With the watch up, a sync that ends `Failed` is never recorded (`TerminalResultRecorded` only judges states where the collector is watching and has handled every notification). The `OutOfSync` update of a new revision is ingested and saves that revision as `LastTerminalKey`. The sync then fails and adds no history entry, so its update carries the same operation key, and `shouldProcess` skips it. |
| evidence | `MC_Evidence.cfg` | pass | Two exporters and one change-list client run with ingest and with any statement or write failing. The export properties hold (`ExportJobsSettleOnce`, `ArtifactMatchesJob`, `NoOrphanPending`), and so do the change-list properties (`ChangeSummaryMatchesSpec`, `ChangePagesEqualSingleQuery`). The evidence view of every change has the change's supporting events and one approval per case-folded source and identity (`EvidenceViewMatchesSpec`). |
| auth | `MC_ApiAuth.cfg` | pass | A request is admitted exactly when the configured policy allows it (`AdmissionFollowsPolicy`). On a server that `Validate` let start outside development mode, a request with neither an `Authorization` nor a roles header is denied on every route (`AnonymousRequestsDenied`). This needs both Validate's read-auth check and the ingest fallback to the read token. A key the identity provider withdrew is trusted no longer than `JWKSRefresh`, unless a fetch of that lookup failed (`WithdrawnKeyExpires`). A published kid is found, through the refetch on a miss (`PublishedKeyResolves`). |
| ratelimit_window | `MC_RateLimiter.cfg` | violation | A request that read the previous minute before taking the lock moves `l.window` back and empties the counters, so a key gets more than `Limit` requests in one window. |
| change_pages | `MC_Evidence_pages.cfg` | violation | A client lists every change one per page (`ChangePagesNeverRepeat`). The first page lists the change of events 3 and 4 at `completed_at` 3. Event 3, older, is then ingested; the timeline read keeps only the first `QueryLimit` events, so event 4 is cut, the change's `completed_at` drops to 2, below the cursor, and the next page lists it again. |

For every property of a passing run, `PROJECT.json` names a mutant: a
plausible bug in the mapped definition that TLC must catch.

### Bounds

**Repository and SQLRepository:**
- 2 ids, 2 bodies, 2 clients, batches of ≤ 2, ≤ 3 answers (Repository,
  2.2M states) or 4 (SQLRepository).
- This is enough for every pattern of a same-id race, a repeat within a
  batch, a retry after a mid-batch 409, and an accepted untimed event
  re-delivered after the clock moved.
- Symmetry over clients is sound, because no definition names one. The
  repository run cannot also permute ids and bodies, because only (i1, b1)
  is posted without `time`; SQLRepository, which posts every wire event
  over the constants, does.

**Timeline:**
- 3 ids, seconds {0, 1}, and page size 1.
- Fractions: none and 5 in the memory run, where `time.Time` order
  already gives every order of two times and ties. The SQLite and
  Postgres run adds 55, because text order puts `0.55Z` and `0.5Z` apart
  from their values.
- With page size 1, every item is a page boundary.
- Supporting values: none, JSON `true` and the string `" Yes"` in the
  memory run; the strings `"false"` and `" Yes"` in the SQLite and
  Postgres run. `include_supporting` takes both values in Init.

**Collector (pass run):**
- 2 revisions, 1 commit, ≤ 2 syncs, clock ≤ 3, queue ≤ 2.
- 1 ingest failure, 1 restart of any kind, and 1 watch gap.
- The replay and failed-sync runs allow 2 commits and 3 syncs. The pass
  run uses 1 commit to stay within five minutes; a second sync of the
  same revision still makes "latest" differ from "first".
- The memory run uses the pass run's bounds. One restart after one
  recorded deployment is all the loss needs. The pass run and the replay
  and failed-sync runs set `InMemoryRepository = FALSE`.

**Evidence:**
- 4 events forming two changes:
  - one keyed by a sync reference, healthy then degraded;
  - one keyed by revision and second, failed then succeeded.
- The events cover every correlation source:
  - a change id only in an annotation;
  - a ticket only under `ticket_key_primary`;
  - approvals that differ only in case;
  - an all-blank approval entry.
- Page size 1, and the filter `result_status=succeeded` in the pass run.
- `QueryLimit` 3 of 4 events, so the timeline cut at the limit is taken.
- The change_pages run lists every change with no filter. Under
  `succeeded` the cut only happens once all four events are stored, and
  then both changes have failed, so a repeat cannot be listed there.
- 2 export requests, 2 jobs, the filters complete and partial. An
  invalid filter takes the same failure disjunct as a failed query.
- Symmetry over the two interchangeable clients.

**Auth:**
- 9 configurations. Validate accepts 6 of them: JWT with JWKS, OIDC with
  a read token and a webhook secret, a development server with only an
  ingest token, JWT with HS256 and PEM, OIDC alone, and a read token
  alone. It rejects 3: an ingest token without read auth, JWT without an
  issuer, and JWT without a key source.
- 14 requests. They cover:
  - a role in another case or with blanks;
  - a lower-case `bearer` scheme and a `Basic` scheme;
  - a forged, an expired, a kid-less and an HS256 token;
  - the ingest token fallback;
  - an unsigned webhook;
  - an anonymous read and an anonymous ingest.
- 2 kids, clock ≤ 2 minutes, `JWKSRefresh` = 1 minute. A key can be
  withdrawn and then stay cached past the refresh interval.

**Rate limiter:** 3 requests, 1 key, limit 1, 2 minutes.

### Fairness

The collector run has these fairness assumptions:
- `WF` on the informer handling a queued notification and on finishing a
  handler. The informer goroutine runs while the process runs.
- `WF` on `Refresh`. Argo CD re-reconciles every application periodically
  (`timeout.reconciliation`), and each reconcile produces an update. The
  code relies on that redelivery after a dropped notification.
- `WF` on `Relist`. client-go's reflector re-lists after a broken watch
  and retries with backoff for as long as the process runs.
- No fairness on the controller's own changes or on failures.

The timeline run assumes `WF` on `FetchPage` (`FairSpec`). The model's
client keeps following `next_cursor`, and `handleTimeline` answers every
request, so a fetch that stays possible is eventually made. Producers get
no fairness. Termination also relies on the bound of 3 ids. A real
producer that keeps ingesting into the range ahead of the cursor could
keep a client paging for as long as it ingests.

The other runs check safety only, so they assume no fairness.

## Findings

1. **SQL same-id race answers 500** (sql_repository, `store/sql.go:53`).
   The run reaches `IndexRaceError`, a step of no in-memory behaviour.
2. **SQLite orders and filters timestamps as text** (timeline_sqlite,
   `store/sql.go:385`, `:139`).
3. **SQLite hides a supporting_observation of `"false"`**
   (timeline_sqlite, `store/sql.go:180`). `json_extract` yields the text
   `false`, which is not 0, so the event is dropped although
   `ExtensionBool` reads it as false.
4. **Postgres and memory disagree on what is supporting**
   (timeline_sqlite, `store/sql.go:178`). Postgres drops only `true` and
   `"true"`; memory also drops `1`, `"yes"` and padded or upper-case
   forms, so the same query differs by repository.
5. **Collector replay is not idempotent** (collector_replay,
   `ingest/argo/collector.go:164`). Ids come from `UnixNano`, and the save
   follows the ingest.
6. **Failed syncs are never recorded** (collector_failed,
   `ingest/argo/collector.go:285`).
7. **A change can be listed twice while paging** (change_pages,
   `app/changes.go:192`, `:700`). The list is rebuilt at every request
   from the first 500 timeline events. An older event ingested between
   pages cuts a listed change's newest event, so its `completed_at` falls
   below the cursor. Spec line 244 promises each change once, for a store
   that does not change while paging.
8. **The rate-limit window can move backwards** (ratelimit_window,
   `api/ratelimit.go:45`).
9. **A repository that forgets while the checkpoint file does not**
   (collector_memory, `bootstrap/runtime.go:105`, `:119`). The in-memory
   repository is the default, and also the fallback when the database
   ping fails. A restart loses every collected deployment, and the
   surviving checkpoint stops the collector from collecting them again.

Two disagreements with the specification are seen by reading the code
but checked by no run, because a single request shows each of them and
a unit test reaches it:
- `mergeHealthStatus` (`app/changes.go:610`) lets `healthy` replace only
  `unknown`, so events reporting `missing` and then `healthy` give
  `health_status = missing`; spec 4.4 ranks `healthy` above `missing`.
- The evidence pack's `derivePrimaryChange` (`export/fs.go:131`, `:147`)
  never reads the `evidra.io` annotations and writes
  `post_deploy_degradation` as `{observed: false}`, so the pack and
  `GET /v1/changes` can report a change differently.

An event without `time` is stamped with `time.Now()` by `Validate`
(`cloudevents/validate.go:22`) before the hash is taken. Re-delivering it
after the clock moved therefore gives a 409, not a duplicate. This is the
design rather than a race, so the repository run states it as the only way
a re-delivery conflicts (`RedeliveryConflictsOnlyWhenRestamped`).

## Not modelled, and the plan

Next, most important first:

1. **Export status rule.** A violation run of spec line 218 ("transient
   errors flip the job to failed"). A failed `SetExportCompleted`
   (`service.go:74`) leaves the job pending. Also, two creations in one
   nanosecond (`store.go:246`).
2. **The `q` filter and the primary provider.** `filterEventsByQuery`
   narrows the events before grouping, so a change's summary depends on
   the query. `normalizePrimaryProvider` joins the change key.
3. **Memory and SQL read queries.** `ListSubjects` orders by the joined
   string in memory and by columns in SQL. `EventsByExtension` trims
   values only in memory.

Not modelled, with reasons:
- The Kubernetes collector is never started (`bootstrap/runtime.go:42`).
- The Argo polling fallback is reached when the runtime has no Argo
  client (`bootstrap/runtime.go:186-203`). `startPollingFallback` only
  logs and never collects.
- The webhook adapters and their registry are never reached.
  `buildWebhookRegistry` (`bootstrap/runtime.go:99-102`) returns an empty
  registry, and no route reads it. They are also stateless translations
  into events, and the ingest model already ranges over arbitrary events.
- Audit lines, `requestRemoteIP`, the HMAC of webhook signatures, and
  JWT and RSA cryptography are formatting, I/O and crypto. `ApiAuth`
  takes their verdicts as inputs.
- From configuration, only Validate's auth checks and the auth wiring of
  `NewRuntime` (in `ApiAuth`) and `buildRepository`'s choice of
  repository (in `ArgoCollector`) are modelled. `applyPostgresTLS` only
  rewrites the DSN. `LoadFromEnv` is viper
  parsing. The database, collector and TLS checks, and
  `buildDSNFromParts`, feed no modelled state. Migrations, UI, metrics
  and the demo are wiring and I/O.
