# deepferry: a TLA+ verification project

deepferry lets AI agents query a company's databases and HTTP services: it keeps a registry of
sources declared in `config.toml`, runs queries over one or several of them (DuckDB joins what they
return), keeps results as versioned datasets, records every agent query in an audit trail and shows
the trail live in a browser. The backend is one Python process, one asyncio event loop and one SQLite
file, with two connections to it. There are no threads of its own (blocking calls go to worker threads and are awaited), so what
is hard in it is what happens **between two awaits**: every `await` lets another request in, and almost
nothing is locked.

All paths below are under `src/src/deepferry/` unless they start with `openspec/`, the
specifications the repository keeps of itself.

## 1. Inventory

| component | code | state | operations | what is hard |
|---|---|---|---|---|
| Token manager | `auth/token_manager.py`, `auth/models.py` | row of `token_cache` per source, one `asyncio.Lock` per source | `get_token`, `invalidate`, login, refresh | concurrent 401s, lost answers, lock hand-over on failure and cancellation, restart between statement and COMMIT, a database that is locked |
| HTTP source | `datasources/http_api.py` | an HTTP client | `execute`, one retry on 401, `schema_info`, `list_resources`, `health_check`, `disconnect` | the retry must not reuse the refused token; sizes announced and real; one resource of several failing; a client closed under a call |
| Source registry | `datasources/registry.py` | `_instances`, drain tasks, token manager | `load_from_config`, `refresh`, `get`, drain, `shutdown` | overlapping refreshes, failing connects, drains against running queries |
| Config endpoints | `web/routes/config.py`, `config.py` | `config.toml` | add, update, delete, reload | a line editor against a TOML parser, ids with escapes or in single quotes among its lines; duplicates; writes that are cut short; the file against what is registered |
| Dataset store | `core/dataset.py`, `snapshot.py`, `versioning.py`, `dataset_storage.py` | directories `v1, v2, ...`, `metadata.json` | create, snapshot, delete, export, diff | read-modify-write without a lock, crash between files, delete against writers, files that cannot be removed |
| Orchestration | `orchestration/` | bindings of a run | validate, run steps, foreach | which name is bound when; failing iterations; the trace it leaves |
| Trace sink | `core/trace.py`, `core/db.py` | executions, spans, scenarios in SQLite | start/finish execution, add span, scenarios | shared connection, order of COMMIT and notification |
| Agent feed | `web/ws.py` | set of WebSockets, heartbeat task | connect, broadcast, ping, disconnect | sockets that break or stall during a broadcast |
| MCP tools | `mcp_server/` | none of their own | query, cross_query, scenarios | best-effort trace around a query |
| DuckDB federation | `engine/duckdb.py` | attached databases, views | attach, materialise, run | one catalog shared by all queries, at different moments |
| SQL sources | `datasources/mysql.py`, `postgresql.py` | a driver's pool, a session per connection | `execute`, `list_resources`, `schema_info`, `health_check`, `disconnect` | sessions reused by other calls, calls waiting for connections, timeouts and round trips without one, a second connection inside a call |
| Explore pipeline | `web/routes/explore.py`, `core/llm.py`, `llm_guard.py` | an engine per federated request | stream of events; suggestions | clients that leave, failures at every step, some of them outside every `try`, the registry changing between them; what an LLM writes is run |
| Query and history API | `web/routes/query.py`, `history.py`, `agents.py`, `core/db.py` | `trace_executions`, `query_history` in SQLite | run a query, list, count | two tables, two commits, one answer; the shared connection |
| Saved queries API | `web/routes/saved.py` | `saved_queries` in SQLite | create, get, list, update, delete | check, write, commit and read again are separate awaits |
| Custom sources, diagnostics, diff, templates | `datasources/custom.py`, `core/` | none | pure functions | |
| CLI, front end, examples, deployment | `cli.py`, `frontend/` ... | none | start-up, user interface | |

How they interact: the config endpoints edit the file and call `registry.refresh()`; queries look a
source up in the registry and hold on to the instance; HTTP sources ask the token manager before every
request; orchestrated sources run the engine, which writes spans; the MCP tools run a query and then
record it with the trace sink, whose events go, awaited, through the feed to every viewer;
cross queries go to the DuckDB engine, which reads through the registry's instances; the explore pipeline
makes an engine of its own for each request. Trace, history and saved queries are written on one SQLite connection
(`mcp_server/server.py`), so that every COMMIT makes durable what anybody has written there. Cached tokens are written
on a second connection to the same file (`_token_db`, `registry.py:280`), which the sources with two-step auth share:
a COMMIT for one makes durable what the others have written, and each connection may find the file locked by the other.

What makes each correct is listed with its module below. `PROJECT.json` names every component with
its status, and the hazards of the code with the properties that guard against them.

## 2. Modules

Each module is named for its component, its actions for the functions they translate; an action is
what one coroutine does between two awaits. History variables (`overlap`, `orderly`, `doom`, `alone`,
`dangling`, `stale`, `recorded`, `during`...) record what a property has to know of the past and
guard no action; `spared` (DatasetStore) does so only to bound the files that cannot be removed. Operators introduced by "Seeded fault" are variants of an action with a bug in it:
no specification uses them; they show that a property would notice the bug.

**TokenAuth** (`token_manager.py`, `_request_with_auth_retry` of `http_api.py`). A requester is a
coroutine: fast path, queue on the lock, double-check, expired row with a refresh token, refresh or
login, INSERT, COMMIT, data request; on 401 DELETE, COMMIT and once more. Tokens are numbered by the
login server, which is external: it mints, accepts, revokes and may lose its answer. `row` is what this
process reads of the table, `disk` what is committed; a COMMIT by one coroutine commits what the others
have written, those of other sources among them (`OtherSourceCommits`), since the tokens share a connection. The
INSERT, the DELETE and either COMMIT may find the database locked (`WriteFails`): nobody rolls back, so what a failing
COMMIT was for stays on the connection (`dangling`), with a lock on the file that makes the writes of the
other connection fail, until the next COMMIT succeeds. Cancellation may hit any await (what was asked of the connection
is carried out all the same, `CarriedOut`); a restart loses locks, coroutines and what was not committed. Correct means: single flight, a retry with another token, a cache
that survives, every request answered.

**CredentialCell**: what the token layer promises with all of that left out. A cell holds at most one
usable credential; one is minted only while the cell is empty, only the newest is ever installed, and
only a new process may find an older one again. TokenAuth implements it under
`value <- usable row, newest <- tokens minted, epoch <- restarts`.

**SourceRegistry** (`registry.py`, `config.py`, `web/routes/config.py`). `file` is the sequence of
`[[sources]]` blocks, duplicates included; each endpoint edits it and calls `refresh`, which parses it,
makes the token manager if there is none (an await, which may fail: `TokenManagerFails`), connects one source after
another (an await each) and
then diffs and swaps with no await. Replaced instances drain for `Grace` units of time (`Tick`) while
queries run. Start-up connects all sources together and gives up on the first failure; it closes the last
instances of the ids declared before that one.

**DatasetStore** (`core/dataset.py` and its helpers). One dataset (they live in separate directories)
down to the file operation: version directories with result, manifest and exports, `metadata.json`
absent, torn or a version list. The write of `metadata.json` truncates and then fills; `rmtree` lists and
unlinks one entry after another, goes on past one that cannot be removed (`UnlinkFails`, for a version directory all of
its files or only itself) and may not be able to remove the directory itself, and the route answers the same; `spared`
is what the last delete could not remove. A write may fail anywhere and a restart may come
anywhere. A file is known by the request that wrote it.

**Orchestration** (`orchestration/`, spans of `core/trace.py`). A flow is validated when its source is
built and then run: templates are abstracted to one reference, known by its root (a step's name, its
`output_key`, `item`, another loop variable), below which what it refers to may be missing even if the root is bound
(`INVALID_BINDING`); an HTTP answer to success or failure, rows that are not objects (`badRows`) when the result is built, `on_error`
to its three forms, an iteration's rows to its number and column set. `context`, `spans` and `execution` are those
of the code.

**AgentFeed** (`mcp_server/tools.py`, `core/trace.py`, `web/ws.py`). Calls run a query, insert an
execution, COMMIT, tell every socket, update it, COMMIT, tell again; sockets are live, stalled or dead;
the heartbeat pings in rounds. `rows` is the table as the shared connection sees it, `disk` as committed.

**Federation** (`engine/duckdb.py`, with the registry's changes). A query attaches SQL sources that are
not attached yet, fetches each table of HTTP sources and replaces the view of that name, and runs its
statement on what the catalog then holds. A row is known by the generation of the configuration it came
from and the query that fetched it. One action is everything between two fetches.

**SqlSource** (`datasources/mysql.py`, `postgresql.py`). A call waits for a connection, prepares its
session (ROLLBACK, read-only, timeout), runs, fetches, returns the connection; `Raised` maps each class of
error to the code each method raises. The pool is external: what the code relies on is that a MySQL session
outlives the checkout, with an open transaction and its snapshot (`session`), unless the pool replaces the
connection, and that asyncpg resets it. `Unaided` is what the process does by itself, the end of a timeout among it;
`AwaitsServer` what waits for the server with no timeout: a connection, the settings, the statements of the other methods,
the prepare. `version` counts the changes other clients commit. A statement is
known by what `_scan_sql` and `enforce_limit` see of it and by how many rows it selects.

**HttpSource** (`datasources/http_api.py`). One request at a time per call; the server answers with any
status, with or without a length, with JSON of so many rows or with something else, too much of it, or not at
all. `Executed` checks in the code's order: header, status, JSON, size, rows. `schema_info` describes
declared resources at once and samples the others one after another. The 401 retry is in TokenAuth.

**Explore** (`web/routes/explore.py`, `core/llm.py`, `core/llm_guard.py`). A stream goes from `identify` over
the LLM's reply and its scan to the run on one source or on an engine of its own; `events` is what was
streamed. A source is known by the generation of its configuration. `Leave` is the cancellation at any await. `Break` is
an exception outside every `try`: from `PromptLoader()`, `_build_llm_client()` or `model_dump()`. A reply has, beside its
class and the sources it names, three independent facts: whether it opens with an allowed word, whether it has a dangerous
keyword, and whether it `writes`; the scan sees the first two only. An engine is `up` when DuckDB is connected and `loaded`
when its extensions are; if they cannot be, it stays up, since `connect()` is outside the `try` whose `finally` disconnects.
`kept` says that a temporary file could not be unlinked.
From the end of one fetch to the next await nothing comes in between (`Busy`).

**Suggestions** (`web/routes/explore.py`, `GET /explore/suggestions`). The two passes over the sources, the
LLM's answer, and the templates with their limits, padding and removal of duplicates, as folds over the schemas.

**AuditTrail** (`web/routes/query.py`, `history.py`, `agents.py`, `core/trace.py`, `core/db.py`). A query's
INSERT, UPDATE and INSERT with a COMMIT after each, and its answer, and what the history page and
the statistics read in between; `view` is what the connection sees, `disk` what is committed. A write that
fails leaves what was written before to the next COMMIT of anyone.

**SavedQueries** (`web/routes/saved.py`). Create, update, delete, get and list with an action per statement
and per COMMIT, each of which may fail (`Fails`). Unique names and ids that are never given twice are the table's.

**ConfigFile** (`config.py`, `web/routes/config.py`). `config.toml` as lines known by their kind, an `id` line also by
the `value` that TOML reads of it and the `raw` text that `_ID_LINE_RE` takes from between its double quotes, with no
escape undone (`Unseen` if there are none): the editor's
scan for the blocks of `[[sources]]` against what a TOML parser reads of the same lines (`Toml`), and a write in
place that a failure or a crash cuts short. `IdLine` is what `json.dumps` writes: `Decoded` says what TOML reads of
it (the id, or for characters beyond U+FFFF nothing, as it refuses their two escapes), `Captured` what the scan
takes from it (the id, or, if it has escapes, a text that is no id or another one). **SourceList** is what the endpoints promise: a list of sources
to which one is appended, of which the first of an id is replaced or removed, and which a reload
serves; ConfigFile implements it under `sources <- Toml(before)`.

**MC modules** give the constants small values. Four of them put two or three modules side by side, whose behaviours
are those of one of them (the variables that are not in use have the value `Unused`): `MCSources` a
SQL and an HTTP source, `MCEngines` what runs on DuckDB engines (the two endpoints of `explore.py`, and cross
queries), `MCTables` the two APIs over the shared SQLite connection, `MCSourceRegistry` the registry and the text of
the file it is loaded from. The **proof modules** hold the theorems of section 5: `TokenAuthProofs`,
`DatasetStoreProofs`, `OrchestrationProofs` and `AgentFeedProofs` extend the module they are named for;
`SourceRegistryProofs` (SourceRegistry and ConfigFile), `EngineProofs` (Explore and Federation),
`SourcesProofs` (SqlSource and HttpSource) and `TablesProofs` (AuditTrail and SavedQueries) extend the MC module.

The modules share no state: what one component needs of another appears in its module as an action
(the registry's swap is `Change` in Federation and Explore; COMMITs of others are `OthersCommit` in AuditTrail and
SavedQueries; restarts appear in each). A module composing registry and federation engine is part of the plan.

## 3. Runs

All runs are exhaustive within their bounds. `CHECK_DEADLOCK FALSE` everywhere: the bounds on requests
let a behaviour end, and in SourceRegistry and Federation the process may be stopped.

| run | what it shows | bounds, and why they are enough |
|---|---|---|
| `TokenAuth_requests` | `SingleFlight`, `RetryUsesAnotherToken`, `CachedRowIsDurable`, `ImplementsCell`, `EveryRequestAnswered` | two requesters, all faults, commits of another source, a restart, two revocations: both attempts of a request may be refused, with every interleaving of two recoveries; the proofs are for any number |
| `TokenAuth_storm` (violated) | `OneReloginPerRejectedToken` | three requesters, one revocation |
| `SourceRegistry_race` | `RegistryInv` (`RegisteredAreConnected`, `OneGeneration`), `InFlightUndisturbed`, `ServesFile`, `OneTokenManager` | two refreshers and three refreshes: two may overlap and a third come alone after them; two ids, two classes (one with token auth), so that sources are added twice, change class and disappear; a query of one unit against a grace period of two |
| `DatasetStore_requests` | `DatasetInv` (`VersionsUnshared`, `ChainIsComplete`), `ChainGrows` (`NoLostVersion`, `LatestIsNewest`), `DeletedStaysDeleted`, `FingerprintIsOwn` | two clients, four requests of every kind, failing writes, two files or directories that cannot be removed, two restarts: an abandoned version, an export from it and a snapshot after it fit in one behaviour, and so do a snapshot, a delete that leaves `metadata.json` or a version, and a second delete |
| `Orchestration_runs` | `ResultOfLastStep`, `EveryIterationReturned`, `BoundFlowsRun`, `TraceTellsRun` (`ExecutionTellsOutcome`, `SpansCoverRequests`) | 2904 flows of one to three steps (linear, foreach in both modes, legacy foreach, every way to store and to refer), arrays of up to three items: first, middle and last iteration differ; every reference may be missing below its root |
| `AgentFeed_gaps` | `FeedOrder`, `NoGaps`, `OneExecutionPerQuery`, `FeedInv` (`SeenIsStored`) | two calls whose statements share the connection, two sockets that may break (a stall is only a delay for safety: any send may come late), a restart |
| `AgentFeed_live` | `EveryQueryAnswered`, `DeadClientsPruned` | one call, two sockets, every fault, a restart |
| `Engines_queries` | `FederationInv` (`OwnFetch`), `FetchedRowsAreCurrent` | three queries, two at a time, over one attached source and two fetched ones, two changes of the registry |
| `Sources_calls` | SqlSource: `SessionsArePrepared` (`RunsUnderOwnSettings`, `NothingWritten`, `ClosedPoolIsUnused`), `AnswersAreRight` (`RowsNotOlderThanCall`, `RowsAsAsked`), `EverySqlCallAnswered`; HttpSource: `AnswersWithinLimits`, `EveryResourceDescribed` | two calls for one connection of either driver, so that one waits and takes over the other's session; eight requests around a cap of two rows; one change by another client; a disconnect. Of an HTTP source one call, since calls only share the client, which is closed at any time; three resources (sampled, declared, one that only a schema reaches); sizes and rows up to one above their limits of one |
| `Engines_explorations` | Explore: `StreamsInOrder` (`EventsInOrder`, `OnlyScannedRuns`), `EveryEngineReleased`, `EveryAnswerCurrent`; Suggestions: `SuggestionsAsPromised` (`ThreeToFive`, `AboutTablesRead`) | two streams over a SQL source alone, a SQL with a fetched one and two fetched ones, so that an engine may fail with a table fetched; two changes of the registry; replies of each kind, statements that write and pass the scan among them. Three sources with five schemas, equal names and repeated columns among them; 8, 6, 5 stand for the code's 15, 10, 5 |
| `SourceRegistry_edits` | `FileInv` (`BlocksAreSources`), `KeepsOtherSections`, `ImplementsSourceList` | three requests or edits by hand on files with no source, and with four: an id three times, once in single quotes, a table of steps with an id, another section in between; four ids, of which one is written with escapes and one with escapes that TOML refuses; one write that is cut short at any line |
| `Tables_requests` | AuditTrail: `QueriesOnRecord` (`AnswerIsOnRecord`, `TablesAgree`, `AnsweredIsListed`); SavedQueries: `AnswersAreDurable` (with `IdsUnshared`), `NoLostUpdate` | three requests, so that one's COMMIT or delete comes between two steps of another and a third finds what they left; a page of two rows; a statement or COMMIT that fails, a restart |

The type invariant of a module is part of the first invariant of its run that is a conjunction
(`RegistryInv`, `DatasetInv`, ...); those of the modules with proofs are proved as well.
Requesters, refreshers, clients, calls, sockets and queries are interchangeable, so the runs without liveness
use symmetry; those with liveness do not.

Several properties carry a condition, which is where the code's guarantee ends:
`ServesFile` and `OneTokenManager` speak of refreshes that do not overlap (a refresh that begins
alone restores the guarantee), `NoLostVersion`, `LatestIsNewest`, `DeletedStaysDeleted` and
`FingerprintIsOwn` of requests that come one at a time, with nothing but another delete after a delete that left
something, `VersionsUnshared` and `ChainIsComplete` of a
dataset nobody deletes, `OneExecutionPerQuery` of queries that succeed, `OwnFetch` and
`FetchedRowsAreCurrent` of queries that read one fetched table or run alone, `NoLostUpdate` of updates that no
other update of the field and no delete follows, `AboutTablesRead` of the templates' answer, `CachedRowIsDurable` of
times when no statement waits for its COMMIT and no COMMIT that failed or was not reached is still due,
`EnginesReleased` of engines whose extensions were loaded, the second half of `EverySqlCallAnswered` of a server
that answers everything but statements. In every one of
these runs the model contains the behaviours outside the condition too.

### Fairness

`TokenAuth_requests`: weak fairness of each coroutine's step. asyncio runs every ready coroutine, locks are
handed over first come first served, every HTTP call has a timeout (`http_api.py`, the login request
of `token_manager.py`), so the failure disjunct of a step is enabled when the success is not, and a statement on a
locked database fails when SQLite's busy timeout ends.
Arrivals, cancellation, commits of other sources, expiry, revocation and restarts are not fair.

`AgentFeed_live`: strong fairness of a call's step and of the heartbeat's (a peer that reads again and
again lets the send through), and weak fairness of `link[v] = "stalled" /\ Break(v)`: the WebSocket
server, uvicorn, closes a connection whose keepalive is not answered. Nothing else is fair; without
that last assumption a viewer that never reads again blocks the query's answer for good.

`Sources_calls`: weak fairness of `Unaided` only, what a SQL call does with no help of the server: the timer of
`wait_for` fires, an acquire of a closing pool fails, and what asyncmy has read is processed. So a MySQL statement that
has begun is answered unconditionally. Nothing else of a call has a timeout in the code: a connection, the session's
settings (`mysql.py:225-230`, `postgresql.py:169-170`), `list_resources` and `schema_info` (`mysql.py:311-330`, `:358-373`,
`postgresql.py:269-270`, `:320-321`), the prepare of an empty result (`postgresql.py:225-226`). A server that stops answering
there hangs the call and holds its connection for good. That every call which asks for a connection is answered is
therefore stated under an assumption of its own, `ServerAnswers` (weak fairness of `AwaitsServer`), as a premise of the
property: the server answers, if only with an error, all but the statements of `execute`, and the pool, which serves
waiters first come first served, gets its connections. A statement need never end by itself, and nothing makes calls begin,
other clients write or the source disconnect.

## 4. Where the code departs from its documents

One is shown by a run and listed as a finding: the second login after concurrent 401s (`TokenAuth_storm`).
The following are stated as definitions in a section "Departures" of their modules; TLC refutes each when it is added
to the cfg of the module's run (guarded with `IsHttp =>` and the like in the MC modules with several parts; those of
ConfigFile through a definition of MCSourceRegistry, and the two about a comment with `HandFiles <- NotedHeader` or
`NotedBlock`).

- `DeletedMeansGone`, `dataset.py:291`: a dataset of which files could not be removed is answered with
  `{"deleted": true}` all the same (`web/routes/datasets.py:180`: "Delete a dataset and all of its versions.").
- `ErrorsAreTold`, `explore.py:216`, `:230`, `:322`: an exception of `PromptLoader()`, `_build_llm_client()` or, after the
  statement has run, `model_dump(mode="json")` (bytes that are not UTF-8, say) ends the stream with neither `done` nor
  `error` (`explore.py:188`: "Any error aborts the pipeline and emits an error event.").
- `OnlyReadsRun`, `llm_guard.py:16`: what the scan passes may write: `SELECT 1 LIMIT 1; COPY ...`, `ATTACH`, `SELECT ... INTO`, `SET`
  (`openspec/specs/explore-mode.md:123`: "SELECT only, no DDL/DML").
- `NoEngineLeft`, `explore.py:293`, `duckdb.py:66`: an engine whose extensions cannot be loaded is never disconnected,
  and a temporary file that cannot be unlinked stays; the `finally` of `explore.py:300` is there for neither to happen.
- `SeesEverySource`, `config.py:347`: PUT and DELETE do not find a source whose id is written with escapes (as `config.py:437`
  does itself), or by hand in single quotes, and answer 404 (`config.py:393-394`).
- `WritesValidToml`, `config.py:437`: `json.dumps` writes a character beyond U+FFFF as two escapes, which TOML refuses: the file
  does not load any more (`config.py:429-430`: "which produces valid TOML basic strings").
- `FileInv` itself with `HandFiles <- LiteralAboveStep`: of a source whose id is in single quotes, and which has a table with an
  `id` in double quotes, the scan takes the table's id for the source's (`config.py:393-394`), so that an update or delete
  of another id hits it.
- `ServesNewest`, `registry.py:394`: of two overlapping refreshes the older may swap last, and the edited source is
  not served (`openspec/specs/config-panel.md:53-55`).
- `SnapshotsAreRecorded`, `dataset.py:152`: of two concurrent snapshots, both answered with success, one may be missing
  from the chain (`openspec/specs/dataset-engine.md:187`).
- `FailuresAreSpans`, `engine.py:263`: `finish_span` is called with the span of id 0, so a failed step's span stays
  `ok` (`openspec/specs/orchestration.md:200`).
- `SchemaIsFull`, `mysql.py:373`: the catalog is cut at one `fetchmany(1000)` (`mysql.py:343-344`: "the full schema").
- SqlSource's `ErrorsAreCoded`, `mysql.py:176`: while `disconnect` waits the pool attribute is still set, and a call gets the
  driver's RuntimeError (`mysql.py:200-203`).
- `FetchesWithinCap`, `mysql.py:135`: a statement that mentions LIMIT anywhere, `credit_limit` for one, is sent without a
  limit and fetched whole (`openspec/specs/sql-datasource.md:111`).
- `SettingsEndWithCheckout`, `mysql.py:227`: read-only and timeout are the session's and stay for the next
  `schema_info` (`mysql.py:222-223`: "for the lifetime of this connection checkout").
- HttpSource's `ErrorsAreCoded`, `http_api.py:401`: a body that is not JSON, and a connection that breaks, leave `execute` as
  the library's exception (`openspec/specs/http-api-datasource.md:167`).
- `SamplingSurvives`, `http_api.py:667`: the same, while a schema is sampled, fails the schema of all resources
  (`http_api.py:665-666`).
- `BadReplyIsInvalidSql`, `llm.py:344`: a reply that is a JSON array has no `get` and is reported as an LLM that is
  unavailable (`llm.py:128-130`). `TextIsTriedAsSql`, `llm.py:338`: a reply that is not JSON is refused (`llm.py:325-326`:
  "Falls back to treating the entire response as SQL").
- `ErrorRateIsAShare`, `agents.py:213`: executions are counted before those in error, with an await in between, so the rate may
  exceed one (`agents.py:273`).
- `MissingIs404`, `saved.py:249`: a row deleted between an update's commit and its re-reading ends in an assertion
  error, a 500 (`saved.py:176`).
- `WrittenWhole`, `config.py:480`: the file is written in place, not to a temporary file and renamed
  (`config.py:476`, `openspec/specs/config-panel.md:53-54`).
- `KeepsComments`, `config.py:570`: the comments of a block, and those above the next header, go with it
  (`web/routes/config.py:7-8`). `KeepsOtherSources`, `config.py:364`: a `[[sources]]` header that a comment follows on
  its line is no header to the editor, so its source goes with the one above.
- `RequiredFieldsPresent`, `config.py:196`: the required fields are looked for among the dataclass's attributes, which are always
  there (`config.py:183`).

The models contain the following ones as well, without a definition of their own; each is what the code does,
read next to the sentence it contradicts.

- `registry.py:264` Two overlapping refreshes each create a token manager, with locks of their own
  (`registry.py:255-256`: "reuses an existing token manager"). `OneTokenManager` allows it under `overlap`.
- `registry.py:386` Only an instance whose class changed counts as edited; one edited in another way is replaced
  and never closed (`openspec/specs/datasource-abstraction.md:186`: the old instance is "draining").
- `registry.py:232` When start-up fails, sources after the first failing one stay connected
  (`registry.py:231`: "disconnect sources already connected").
- `registry.py:417` A drain closes its instance after the grace period whatever runs on it (`registry.py:341`:
  "In-flight queries on old instances are undisturbed"). `InFlightUndisturbed` holds for shorter queries.
- `dataset_storage.py:98` Writers make their directory again, so a snapshot or export in progress leaves part
  of a dataset behind its delete (`web/routes/datasets.py:180`).
- `snapshot.py:115` The export of a version that is being written is counted in its fingerprint
  (`tests/test_dataset_core.py:187`: the fingerprint is stable for the same data).
- `validation.py:132` Validation accepts a step's name although its answer is stored under `output_key`: the flow
  fails when it runs (`openspec/specs/orchestration.md:194`: "never at runtime").
- `validation.py:164` A foreach step that uses its own loop variable is rejected unless it is called `item`
  (`validation.py:149-150`).
- `engine.py:534` With both `output` and `output_key` the answer is stored under one name and looked up under the
  other: no rows (`orchestration/models.py:104-106`). `ResultOfLastStep` excepts that case.
- `engine.py:462` Separate mode returns the last iteration only (`orchestration/models.py:51`).
- `trace.py:126` Notification is awaited: a viewer that does not read holds the answer back
  (`trace.py:106-107`: "never blocks the query response").
- `tools.py:164` A query that fails is not recorded (`trace.py:105`), and `tools.py:168` one may be recorded in a
  closed scenario (`mcp_server/server.py:206`: "becomes read-only").
- `duckdb.py:205` Queries share one connection and its views with no lock (`openspec/specs/duckdb-cross-source.md:197-198`
  says each takes its own connection): with two fetched tables a query may join another's rows.
- `duckdb.py:158` A SQL source is attached once: after an edit cross queries go on reading the old database
  (`openspec/specs/datasource-abstraction.md:178-179`); `duckdb.py:260` a removed HTTP source's view goes on
  answering (`:187`).
- `llm_guard.py:44` `scan_sql` looks at keywords before the first word, the reverse of its docstring's order.
- `http_api.py` `health_check` takes every status below 400 for healthy, its docstring only 2xx.

Without a document that says otherwise: POST of a source with a blank type writes a block that no longer
loads; every update adds a blank line; of two overlapping deletes of a saved query both are answered 200; a failing
INSERT leaves its transaction open for the next COMMIT of anyone; `schema_info` of an HTTP source sends no token.

## 5. Proofs

Eight modules hold theorems, for every value of the constants that their named assumptions admit: any
number of requesters, refreshers, clients, calls, sockets, streams and queries, any files, flows and statements, any
bounds. 37 are listed in `PROJECT.json`; 35 of them are properties that a run checks, which shows what they
say on a small instance. A theorem has no hypothesis of its own unless the table names one.

| module | theorem: property |
|---|---|
| `TokenAuthProofs` | `TypeCorrect`, `Invariance`; `LoginsAreSingleFlight`: `SingleFlight`; `RetriesUseAnotherToken`: `RetryUsesAnotherToken`; `Durability`: `CachedRowIsDurable`; `Refinement`: `ImplementsCell` |
| `SourceRegistryProofs` | `RegistryIsConsistent`: `RegistryInv`; `QueriesAreUndisturbed`, if `QueryTime < Grace`: `InFlightUndisturbed`; `FileIsServed`: `ServesFile`; `ManagerIsReused`: `OneTokenManager`; if `HandFilesArePlain` and `NoIdIsAnothers`, `BlocksStaySources`: `FileInv`; if `HandFilesArePlain`, `OtherSectionsStay`: `KeepsOtherSections`; `FileIsAList`: `ImplementsSourceList` |
| `DatasetStoreProofs` | `StoreIsConsistent`: `DatasetInv`; `ChainOnlyGrows`: `ChainGrows`; `DeletesAreFinal`: `DeletedStaysDeleted`; `FingerprintsAreOwn`: `FingerprintIsOwn` |
| `OrchestrationProofs` | `TraceIsComplete`: `TraceTellsRun`; `LastStepAnswers`: `ResultOfLastStep`; `IterationsAreReturned`: `EveryIterationReturned`; `ReferencesResolve`: `BoundFlowsRun` |
| `AgentFeedProofs` | `SeenIsKept`: `FeedInv`; `EventsAreInOrder`: `FeedOrder`; `NothingIsMissed`, if writes do not fail and calls are not cancelled: `NoGaps`; `QueriesAreTraced`, if queries do not fail either: `OneExecutionPerQuery` |
| `EngineProofs` | `StreamsPassEveryStep`: `StreamsInOrder`; `EnginesAreReleased`: `EveryEngineReleased`; `AnswersAreCurrent`: `EveryAnswerCurrent`; `QueriesReadTheirOwn`: `FederationInv`; `RowsAreCurrent`: `FetchedRowsAreCurrent` |
| `SourcesProofs` | `SessionsAreKeptApart`: `SessionsArePrepared`; `RowsAreRight`: `AnswersAreRight`; `AnswersAreLimited`: `AnswersWithinLimits`; `SchemasAreComplete`: `EveryResourceDescribed` |
| `TablesProofs` | `QueriesAreOnRecord`: `QueriesOnRecord`; `SavedAnswersAreDurable`: `AnswersAreDurable`; `UpdatesAreNotLost`: `NoLostUpdate` |

### Assumptions

Beside the types of the constants the assumptions say:

- SourceRegistry: `InitialFile` is a sequence of blocks, and `None`, the lookup that finds nothing, is no instance.
- Orchestration: the steps of a flow refer to each other by position (`Flow(n)`); a flow has a step
  (`datasources/orchestrated.py:123` refuses a source without), and its legacy `foreach` clause, if it has one, names
  what it iterates over.
- AgentFeed: finitely many calls and sockets, as a process has. Calls that have no row yet are counted against queries,
  and a broadcast goes through the sockets one after another.
- Federation: a statement refers to finitely many tables; attached and fetched sources have different ids.
- Explore: finitely many HTTP sources, other ids than the SQL sources'; a request selects a list of ids that is not empty
  (`explore.py` refuses an empty one).
- ConfigFile: requests describe sources with an id that is not blank, and TOML reads of what is written for an id that id or
  nothing. The three theorems have `HandFilesArePlain` as their hypothesis: in what a person writes no comment follows a header
  on its line, and if the scan sees an id in a source's block at all, the first one is seen above the source's nested tables
  and above any id line in single quotes. Without the first half, `KeepsOtherSources` of section 4 is what happens; without
  the second, `LiteralAboveStep`. That no source is known by another's id (the second half of `FileInv`) needs
  `NoIdIsAnothers` too: no id is the text of another with its escapes not undone (`a\u00e9` of `aé`), neither in
  what requests write nor in what a person writes; otherwise a request for the one would find the other. Ids with escapes,
  ids in single quotes and ids that TOML refuses are all allowed: a source that is not found is not
  mistaken. The files of the run are such, one with a nested table that has an id of its own among them.
- SqlSource: a statement with a LIMIT mentions it. `enforce_limit` looks for the word anywhere in the text
  (`mysql.py:135`), so a LIMIT it does not find does not exist; the proof of `RowsAsAsked` needs it.
- HttpSource: `Resources` is a list of records with a method; the limits are at least one.
- SavedQueries: finitely many requests, since `Counted` (below) counts them.

### Arguments

Hardly any of the properties is inductive (`CachedRowIsDurable` is, with the types: a statement goes on to its COMMIT,
which makes row and disk the same, or else fails or is cut off, which sets `dangling`). For the others, the invariant
that is, and what it adds:

**TokenAuth** (`TokenInv`). `attempt` is only bounded because only a first attempt gets to `delete`, so the types
need `OneRetry`. For `SingleFlight` one has to know that whoever is in the critical section holds the lock
(`LockHeld`). `RetryUsesAnotherToken` is about a row read long after the 401: a retry gets either the
cached row, so once deleted a refused token must never come back (`RejectedIsGone`), or one it minted itself,
which must be newer than everything anybody has seen (`MintedIsNewest`, `TokensExist`). That a login only
runs while no usable row exists (`NothingUsableYet`) follows from the double-check and the lock, and is what
the refinement needs: `Mint` and `MintFails` map to the cell's `Mint`, `Insert` to `Install` (a
stutter if the token has expired by then), `Delete` and `Expire` to `Drop` (or a stutter, if no usable
row is touched), `Restart` to `Reload`, everything else to a stutter.

**SourceRegistry** (`Inv`). What is registered is open because refreshes are numbered apart (`FreshOps`): what a
refresh has built bears its number (`BuiltConnected`), so that no drain, which is of an instance that was
published, can close it (`NoneDrained`). `DrainOutlastsQueries` compares each drain with the queries on its instance:
a drain begins with the grace period and only after its instance can no longer be looked up.
`ServesFile` needs what a refresh that runs alone has still to do: what it has built and what is left of
its blocks make the file (`FileServed`), that it is alone unless `overlap` says otherwise (`Alone`), and that
it finds or makes the manager (`EnsuredOnce`). The loop's dict, in which a later duplicate wins but the first
one's place counts, is described by highest and lowest positions (`HighestPosition`).

**DatasetStore** (`Inv`). Three layers. `Shape` holds always: requests are numbered apart, and there is always a free
version number, as each directory is due to a request that has chosen (`Numbered`). `NothingDeleted` holds until
the first delete: a version directory has one writer, and what a finished writer leaves is complete and stays (each
step of a client *respects* the other clients' directories). `OneAtATime` holds while requests do not
overlap: the last version of the chain is the highest, the chain has all that was recorded, and what the one
request under way has done so far; of a delete that is, that what is left of the dataset is still on its list or
has been spared, and that the directory only stays if something has been.

**Orchestration** (`Inv`). `Traced`: the spans so far are those of the requests so far, but for the one that
has just been answered (`Pending`); each is of an earlier step or iteration, so that none is double.
`Gathered`: what a foreach has collected are iterations 1 to k in order. `Bound`: if each reference is to an
earlier linear step, those before the current one have bound their names (a skipped one to null). `Resulting`
follows an answer from the name it is stored under to the one it is returned from.

**AgentFeed** (`Inv`). `SeenIsStored` needs that a call that has committed finds its row on disk (`Committed`) and has a
row to itself (`Owned`); that the table is never longer than the queries begun is counted (`Counted`).
`FeedOrder` needs what has still to be told: nobody whom a broadcast has still to reach has heard
of it (`Untold`). `NoGaps` adds `Delivered`: a connected socket has heard of an execution, or is among those its
call's broadcast has still to reach. `OneExecutionPerQuery` adds `Balanced`: rows and calls that have run
their query without a row yet add up to the queries executed.

**ConfigFile** (`TextInv`). Each request replaces some lines by others (`Edits`): a block, with perhaps the
blank line above it, or none, by the lines of a block or none, and a header or nothing but blank lines
comes next. Such an edit keeps a file plain (`EditedIsPlain`). The start of a block above it or below it keeps the
lines under it, only further up or down (`OwnAbove`, `OwnBelow`), so that TOML reads the same source there, and
what belongs to other sections is neither cut nor added to. The sources, the blocks and the other sections
are lines in order (`Ascending`), and a list that is increasing and reaches every number of a set is
determined by the set (`InOrder`): that takes the place of an induction over the lines. `TextInv` then adds
what a write under way is to become: its text differs from `before` as the request says (`Changes`), and its
sources as SourceList says (`Carries`). Of a write that is cut short, all sources but the last are as they were to be,
and the last has its id or none (`CutToml`). `Fill` maps to `AddOne`, `UpdateOne` or `RemoveOne`, `WriteFails` and
`Crash` to `Lose`, `HandEdit` to `Rewrite`, the rest to stutters.

**Explore** (`ExploreInv`). How many events a stream has sent follows from where it is suspended (`InOrder`). From the
end of its last fetch to its next await a stream is the only one at work, so that what is registered then was
registered while its query ran; what it reads and what it is about to read are of that time (`Current`). An engine is loaded
just while it is filled (`Held`; one that could not be is up and rests), and its files and the tables still to fetch never
exceed the sources. That nothing runs which the scan has not passed is carried from the scan to the end of the run
(`Current`): the three facts about a reply are independent, and the scan reads two of them.

**Federation** (`QueriesInv`). `Running` says of a query between two fetches that the instance it fetches from was
registered while it ran and that, as long as it is alone, the views it is done with are its own;
`Answered` keeps that of its last answer. Another query that begins ends `alone`; a statement that
reads at most one fetched table needs no more, as the arrival of its rows and its run are one step.

**SqlSource** (`Inv`). A connection is checked out by one call, and a call at work has one (`Owners`); the session under
a statement of `execute` was prepared by its own call, with no transaction open (`Prepared`), so
it reads the present; `Underway` carries that, and the number of rows fetched, to the answer, on MySQL over
sessions that other calls have left behind.

**HttpSource** (`HttpInv`). A schema in progress has described the first resources of its list, in order, and has the
others still to do, the next of which declares no columns (`Partly`). Only a schema keeps a list, and only a
response that was waited for is ever recorded, which is what tells an answer of `execute` from the others.
`MCSources` is the module proved about, which is one source or the other: `IsSql => Inv` and `IsHttp => HttpInv`.

**AuditTrail** (`AuditInv`). The disk's history is a beginning of the connection's (`Histories`); where
the two tables stand for a query at each of its commits (`QueryOK`), and that no row is inserted any more for what a
page lists, so that a row it leaves out is older than all it has (`ReaderOK`).

**SavedQueries** (`SavedInv`). Ids are never more than requests (`Counted`) and are given once (`Apart`), unless a
restart has lost the row. What a request has written is seen until its commit and is on disk after it
(`CreateOK`, `UpdateOK`, `DeleteOK`), or else a restart has undone it, or a delete or another update of the field has
overtaken it. Any COMMIT makes all of it durable, and the connection loses writes only in a restart.

The lemmas about a step have a case for each action, or for each kind of action where several do the same to the
state a conjunct is about. What the proofs need of sequences and sets (a highest element, an appended
element, a count with one more) is stated once, before the first lemma about a step.

### What stays with TLC

- Liveness (`EveryRequestAnswered`, `EveryQueryAnswered`, `DeadClientsPruned`, `EverySqlCallAnswered`), since fairness and
  `ENABLED` are out of the prover's reach.
- Suggestions (`SuggestionsAsPromised`): its templates are folds over the schemas, and what a fold gives is an induction
  over its data, which is out of reach as well.

No module of the project declares a RECURSIVE operator.

## 6. Not modelled

The text of files, SQL, templates and messages; type inference; the front end; external services beyond what
they answer. `PROJECT.json` gives the reason for each component. Four parts are pure functions without state or
order and are left to unit tests: the dataset diff (SQL inside DuckDB), the look-up of a custom source's class, the
diagnosis of failed executions, and the templates of questions. Within modelled components: building
login requests and extracting tokens from answers, the flattening of HTTP rows, names of columns and types, the
trace's listings, several datasets at once, several sources' token caches at once (of the others their commits are
modelled), environment substitution and the sections of `config.toml` other than the sources.

Failures that are left out: a COMMIT that SQLite itself rolls back, as on a full disk, which takes back the statements of
other coroutines too (the models' failing COMMITs leave what they were for on the connection); the token database failing at
start-up, which ends the process before any source is connected (`registry.py:201`); `close()` of a DuckDB connection that
raises, and the release of an engine whose `connect()` failed by the collection of garbage; writes of the trace that
fail in Orchestration (they may in AgentFeed and AuditTrail; the registry gives no source a trace sink);
a write of `config.toml` that ends within a line; HTTP bodies whose announced length is that of a compressed form.
A `max_rows` of 0 cannot be asked for (`core/models.py:84`).

## 7. Plan

Written so far, in this order, the most stateful first: TokenAuth with CredentialCell and its proofs,
SourceRegistry, DatasetStore, Orchestration, AgentFeed, Federation; then SqlSource, HttpSource, Explore with
Suggestions, ConfigFile with SourceList, AuditTrail and SavedQueries; then the proofs about SourceRegistry, DatasetStore,
Orchestration, AgentFeed, Federation, SqlSource, HttpSource, AuditTrail, SavedQueries, Explore and ConfigFile with its
refinement of SourceList.

Next, modules:
1. *ServedQueries*: composition of SourceRegistry and Federation through an abstract registry
   (`id -> generation`), which SourceRegistry is to be shown to implement for refreshes that do not overlap.
2. Abstract specifications: a version chain that only grows (DatasetStore, sequential), a feed that delivers a
   prefix of the trace (AgentFeed).
3. Explore's streams under fairness: every stream ends by the LLM client's timeout.

Next, theorems: the refinements of the abstract specifications above.
