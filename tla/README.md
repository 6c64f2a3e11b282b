# Formal model of open-network-solver

TLA+ modules, TLC configurations and machine-checked proofs for the
closest-facility routing system of this repository: an ETL that turns an
OpenStreetMap extract into a routable network, a FastAPI service that answers
closest-facility questions on it from a streaming replica through a Redis
cache, and a web map that asks them. Paths below are relative to the
repository root (`src/` in `PROJECT.json`).

## 1. Inventory

| Component | State it keeps | Operations |
|---|---|---|
| ETL orchestrator, `infra/etl/load_osm.py` | a sequence of stages; everything durable is in PostgreSQL | `main`: already-loaded check, staging rebuild, osm2pgsql, noding, cost, snapping, vacuum, `_swap`, flush |
| Staging SQL, `infra/etl/sql/0*.sql` | `routing_next.*` | build `ways`, vertices, costs, `facilities` |
| Swap, provenance, rollback, `infra/etl/swap_schema.sql` | schemas `routing`, `routing_next`, `routing_prev`, `routing_failed`; `etl_runs` | one transaction; an operator's rollback |
| Cache flush, `load_osm.py:377-483` | none; a RESP conversation over a socket | `SCAN`/`DEL` of `cf:*`, then `cfc:*` |
| Deferred clean-up, `infra/etl/drop_old_routing.sql` | `routing_prev` | drop it after a retention time |
| Request flow and cache, `services/`, `cache/` | Redis keys with TTL, the `function_version` of the process | build key, GET, replica call, SET |
| Repository and pool, `repositories/routing_repo.py`, `main.py:86-99` | 5+5 connections | `closest_facility`, `list_categories` under a 5 s timeout |
| Start-up, `main.py:46-170` | `app.state` | read `function_version` from the replica, open the pools |
| `closest_facility()`, `alembic/versions/20260623_0003_*.py` | none (reads the network) | snap, box, Dijkstra, join, limit |
| Alembic chain, `alembic/` | function body, `function_version`, tables | upgrade, downgrade |
| HTTP API, `api/`, `models/api.py`, `errors.py` | rate-limit counters | validate, envelope, `readyz`, `etl-status` |
| UI store, `open-routing-service-ui/src/store/searchStore.ts` | the search form, results, `isLoading` | `submit`, `loadCategories`, `clear`, setters |
| UI clients, map layers, badge, widgets | what is drawn; a poll timer | render, poll `readyz` |
| Observability, deployment files | log records, counters, configuration | none that controls anything above |

How they interact. The ETL talks to PostgreSQL by subprocesses (`psql`,
`osm2pgsql`), each its own connection and transaction, and to Redis over a
socket, after the commit. The service never talks to the ETL: they share the
primary's WAL (the service reads its *replica*), and Redis. The service and
the migrations share the function body and the row of `function_version`,
which the service reads once. The UI sees only HTTP.

What is hard:

* **Crash and partial failure.** A load dies between or inside subprocesses,
  and what a stage committed stays; `01_node_network.sql` has no transaction.
* **Two loads at once.** Nothing excludes them; they share `routing_next`.
* **Lost acknowledgement.** The swap commits, the connection drops.
* **Asynchrony.** Requests interleave with the swap, the replica's replay, the
  two scans of the flush, entries' expiry, SETs that outlive their sender,
  restarts, migrations.
* **Limits.** A pool of ten under two timeouts, SCAN replies that arrive in several
  segments, buffers whose limits differ between UI and API.
* **Rewrites.** Seven bodies of one function, each for speed or to mend the last, and a
  chain of migrations that can be run in both directions over what loads left.
* **Late responses** in the UI.

What makes each correct: publication is atomic, recorded and reversible and a
failed or killed load harms neither what is served nor the next load
(ETL); an answer is computed on one network, goes out of use when its network
or function body does, every request is answered in bounded time with a status that tells
what happened, and no connection is lost (service); the network is the roads of the
extract and an answer the cheapest facilities on them (SQL); the installed body and the
live tables fit each other (migrations); the final state of the UI
is that of the last search asked for. `PROJECT.json` lists the hazards line by
line, with the properties aimed at each.

## 2. Modules

| Module | Models |
|---|---|
| `NetworkPublication` | the abstract promise of the swap: the served network is replaced in one step, the replaced one kept, the PBF recorded |
| `EtlPipeline` | `load_osm.main`, the SQL it runs, the rollback; shown to implement `NetworkPublication` |
| `RoadNetwork` | what the import and the SQL stages compute: tags, noding, costs, snapping, categories |
| `ClosestFacility` | the stages of one load over an extract, then calls of the seven bodies of `closest_facility()` |
| `MigrationChain` | the eleven Alembic revisions, up and down, beside loads, swaps and rollbacks |
| `ServingCache` | requests, cache, replica, flush, migrations and restarts |
| `CacheFlush` | the RESP client of the flush, command by command and reply by reply |
| `ServiceRequests` | validation, rate limit, pools, timeouts, statuses, `readyz`, shutdown |
| `SearchUi` | the web client: search store, request, map and layers |
| `EtlPipelineProofs`, `ServingCacheProofs`, `CacheFlushProofs`, `RoadNetworkProofs`, `ClosestFacilityProofs`, `MigrationChainProofs`, `ServiceRequestsProofs`, `SearchUiProofs` | theorems about the module they are named for |
| `MCClosestFacility`, `MCCacheFlush`, `MCServiceRequests`, `MCSearchUi` | extracts and questions; keys and cursors; symmetry of requests; symmetry of places |

The modules share seams and not state. What `EtlPipeline` has as "complete over complete
inputs" is what `RoadNetwork` computes; its flush is one step of `ServingCache`'s scans,
which `CacheFlush` spells out; `ServingCache` lets a query fail where `ServiceRequests`
says when and with which status; its migrations are those of `MigrationChain`.

### EtlPipeline

One process per execution `r` of `main`; `pc[r]` names the next stage. The
stages are the lines of `main` in order; a stage whose SQL commits statement by
statement, or that streams its input, is two actions (`NodingBegin`/`NodingEnd`,
`Osm2pgsqlBegin`/`Osm2pgsqlEnd`), so its half-done state is visible to a crash
and to another run. The swap is `DetectLive` (`live_exists`, read by `\gset`
before `BEGIN`) followed by the transaction `SwapCommit`.

The rows are abstracted to where they come from. A schema is a record: `loader`
(the run that loaded it), `tables` (which exist), `built` (which stages are
complete *over complete inputs*: noding an import that was cut short does not
make a network), and `fk` (does the facilities table have its foreign key).
`Ready(r)` is what the next subprocess needs to find in the database; without
it the subprocess fails, as PostgreSQL would, and `FailureCode` is the exit
status `main` gives that.

`Hazards` says what may go wrong in a run of the model: `error` (any subprocess
fails), `crash`, `ack_lost` (the swap commits but psql is not told),
`redis_down`, `rollback`. `Overlap` says whether a load may start while another
is active. `flushPending` is the ETL's half of the cache: Redis may hold answers
of a replaced network.

`NetworkPublication` is implemented under the mapping `live <- NetworkIn("routing")`,
where a schema maps to the run that built it, to nothing if it holds no `ways`
(the namespace Alembic creates before the first load), and to a value no
abstract network equals if it is not whole. So a half-built, lost or
twice-published network is a step the abstract module does not have.

### ServingCache

The primary is the sequence `wal` of the states it committed (swap, rollback,
migration, downgrade); the replica is a position in it, `replayed`. A request
takes one action per `await`: `Begin` builds the key with the version this
process read, `Hit`/`MissOrError` is the GET, `Snap` and `Route` are the
statements of `closest_facility()`, `ListCategories` the other query, `Store` the
SET. An answer is the pair of WAL positions it was read at. `Snap` takes
`ways_vertices_pgr` until the call ends, and `Replay` of a swap waits for it,
because the transaction takes ACCESS EXCLUSIVE locks
(`swap_schema.sql:60-65`); the rollback takes none. A SET is a message that may be
applied long after the request stopped waiting (0.5 s), or lost.

The flush is a SCAN of each namespace: what is there when the scan starts must be
returned before it ends (`toScan`), what is written meanwhile may be
(`DeleteKey` of any key present). `CutFlushShort` ends it anywhere.
`function_version` is read at start-up and restart, from the replica; when that
read fails the process uses the fallback of the settings.

`owed` is bookkeeping for `FlushClearsWhatItFound`: what was there when the flush began and has
not been deleted, expired or overwritten since. No guard reads it; a flush that is cut short owes
nothing any more.

### RoadNetwork and ClosestFacility

An extract is data: where its nodes are, ways as sequences of nodes with the tags
`routing.lua` reads, points of interest. Distances are exact in a plane of metres with the
sum-of-differences metric; the operator `<->`, which compares degrees, sees east-west
differences `Stretch` times as long, as it does away from the equator. That the *nearest*
vertex is chosen by one and *judged* by the other is in the model, and so is the difference
between the two. `cost_time` is an integer because `TimeUnits` is a multiple of every
speed the extracts have (`TimeUnitsAreFine`). Names of edges are the spans they were cut from; vertices are points, as for
`pgr_extractVertices`.

`ClosestFacility` runs the stages once, in order (`Import`, `NodeNetwork`, `CostColumns`,
`SnapFacilities`), and then answers questions. `ClosestFacilityV2` .. `V8` are the
bodies of the seven revisions, put together from the steps they share as they share them
in SQL: `Guarded` (checks, nearest vertex, 250 m), `Wanted` or `WantedInBox`, `EdgesInBox`,
`Dijkstra` (any choice of `CheapestPaths`), `RoutesByEdge` or `RoutesByVertex`, `Ranked`. A body returns a *set* of
answers: any of several nearest vertices, of several cheapest paths, of several orders of
equal rows. Dijkstra itself is external (pgRouting); what it returns is defined, not how.
The two errors that made v2 and v3 be replaced are errors here too. What is assumed of an
extract (`IsExtract`): nodes and points of interest are at points of the plane, `maxspeed` is absent or
a whole number with its unit, and an id names one point of interest or area, as the surrogate
`facility_id` does; of a question, its fields and what `models/api.py` lets through; and that SQL's NULL
is no point.

### MigrationChain

One revision is one step: an `alembic` command is one transaction, and `upgrade +1` is a
command. A schema is what later statements look at: which tables and columns exist,
*whose* points of interest its facilities are, whose the category counts are, its foreign
keys by name, which are looked up in all schemas. `EtlBuild` needs the helper
`facility_category()` that revision 10 brings and revision 10's downgrade drops; without it
a load stops in `03_facilities.sql`. `EtlSwap` needs `etl_runs`. `SwapBackAny` says whether an
operator may put back a schema that was retired at another revision.

### CacheFlush

A reply is the sequence of its lines. TCP keeps their order and nothing else: `Read` takes
everything that has arrived, `ReadCut` a prefix that happens to end in a line,
`ReadEof` nothing. `Parse` is `_parse_scan` on what it is handed, `Receive` what the
loop does with it: the replies of SELECT and DEL are not looked at. `Parse` takes the line
after one that begins with `$` for a key, so after a cut it may take a cursor or an empty line for
one and delete it; `LinesAssumption` says that nothing else in the database has such a name, nor an
entry that of a marker. Redis carries
a command out or refuses it (`NOAUTH`, `LOADING`), closes the connection or hangs. `owed` is
what the namespaces held when the flush began and nobody deleted, expired or wrote since.

### ServiceRequests

A request is admitted, refused (422, 429) or answered from the cache, and otherwise makes
one call, or two in the case of `readyz`; a call waits for a connection of its pool
and then for the database, and `asyncio.timeout` is around both. The pool has a timeout
of its own, `poolTimeout`, one of `PoolTimeouts`: the default (10 s) is longer than the
call's (5 s), and nothing in the settings keeps it so. What the driver raises when a database
is away is not in the repository: `unreachable` (`OperationalError`) or any `error`.
Time passes in ticks. No tick passes a timer that has run out and not fired, nor a request that
waits while its pool has a connection free, since handing one over takes no time. When the call's own
timer runs out over the wait for a full pool the outcome is `exhausted`, over a query it is `timeout`;
when the pool's runs out it is `pool`. Awaits of
Redis (0.5 s) take no tick. At SIGTERM no request is accepted any more; the pools are
disposed of when nobody is in flight or the grace period of `Dockerfile:65` is over.

### SearchUi

One action is one browser event with the store update it makes, the render that
causes and the effects of that render: React finishes them before the next event.
`Show` is the part every store update shares. It takes the layers whose effects run, which
are those whose dependencies are other objects than before (`OnIncident`, `OnResults`, `OnClear`): each draws itself
if `map.isStyleLoaded()`, or else adds a listener for the map's `load` event, which
fires once; a listener added before stays, and draws what it was made for. MapLibre is external.
`isStyleLoaded()` is false while a source or a tile is loading, before `load` and after it, also a source
that the layer before has just added: so the layers that find it true are a prefix of the layers in their
order, any prefix at any time (`StyleLoadedFor`). `wired` says whether `FacilityLayer`'s click handlers are on the map. There is no action for a click on a marker:
its handlers are never added (section 5). The fields of the form other than
the incident travel with the request and affect nothing else.

## 3. Runs

| Run | Question | Result |
|---|---|---|
| `etl_pipeline` | three loads in sequence, every hazard, any PBF and `--force` | all invariants, action properties, refinement and termination hold |
| `etl_overlapping_runs` | two loads at once | `PublishedWhole` violated |
| `closest_facility` | is the network the roads, and are the answers of all bodies those of the roads? | holds |
| `closest_facility_own_vertex` | is a facility on the incident's vertex found? | violated |
| `migration_chain` | the whole chain, up and down, among loads, swaps and rollbacks | holds |
| `serving_cache` | answers on one network; a flush clears what it found; no answer of an older body after a restart; requests end; stale answers leave the cache | holds |
| `cache_flush` | what does "flush done" mean, and does the flush end? | holds |
| `flush_cut_reply` | is a failure of the flush logged as one? | violated |
| `service_requests` | pools, timeouts, rate limit, statuses, probes, shutdown | holds |
| `service_pool_exhausted` | is a call that gets no connection a 503? | violated |
| `ui_search` | responses, clears, errors, selections and the map's load in any order, with sources and tiles loading at any time | holds |
| `ui_tiles_loading` | does the loaded map show the results? | violated |

Properties of `etl_pipeline`:

* `PublishedWhole`: no schema that queries or a rollback can reach is half built.
* `LiveHasProvenance`, `StatusDescribesLive`: what is live is on record, and what
  `GET /v1/etl-status` reports is what is live, until an operator rolls back.
* `ExitCodeTruthful`: exit statuses 1, 2, 4 mean nothing was published; 0 that the
  PBF is on record. (5 may lie: section 5.)
* `LeftoversNeverBlock`: no stage trips over what a failed or killed load left.
* `FlushFollowsCommit`: a flush that went through came after the commit.
* `LiveIsNeverLost`: a live network is only ever retired, intact, to
  `routing_prev`, or to `routing_failed` by a rollback.
* `PublishesAtomically`: `EtlPipeline` implements `NetworkPublication`.
* `RunsEnd`: a load that was started ends.

Properties of `serving_cache`: `OneNetworkPerAnswer` (only a rollback, which
takes no locks, can fall between two statements of a call),
`FlushClearsWhatItFound`, `KeyVersionIsNotAhead` (a version a process read is never
ahead of the body that computed an answer kept under it; a downgrade, which moves
bodies backwards, is excepted, because an entry written before it can be met by
a process that read the version before it), `RequestsEnd`, `StaleEntriesExpire`.

Properties of `ui_search`: `OneSearchAtATime` (the spinner stands for exactly one
request; it is what makes responses arrive in order, since the client neither numbers nor
aborts them; `clear()` leaves it on for that long, on which this depends),
`ResultsNeverGoBack`, `OnlyTheLastComesBack` (`clear()` lets the request in flight go on, so a cleared list can
fill again: only with the answer of that one request, and then no other is under way), `NothingLostBeforeLoad` (until the load event each layer
shows what the store holds or has a listener that will draw it, whenever the style is and is not loaded; what
happens after the event is section 5).

Properties of `closest_facility`:

* `NodingKeepsTheRoads`: cutting at shared nodes, pricing and reversing one-way streets
  keep every journey, at its length and its time, against the roads node by node.
* `NothingCloserLeftOut`: where the box holds all edges, each row costs what the cheapest
  way along the *roads* costs, and who is left out is behind k rows that are not dearer.
* `RowsAreJustified`: one row a facility, ordered by a cost that is the whole route's, on
  a vertex of a facility that was asked for. (Not: each row's facility matches the filter.
  The final join takes every facility on a matching vertex; section 5.)
* `RewritesKeepTheAnswer`: v6 = v7 = v8 on every question, and v5 where nothing is one-way.
* `WiderBufferNeverWorse`: the box, the candidates and the paths all change with the
  buffer, and no row is lost and none is dearer.
* `SnapDecidesByDistance`: what choosing by degrees and judging by metres guarantees: attached within the
  limit over `Stretch`, never attached beyond the limit. Between the two it depends on where the other vertices are,
  which is less than the sources say (section 5).
* `CategoriesOfTheNetwork`: the table counts the facilities that are left after snapping.

Properties of `migration_chain`: `BodyFindsItsColumns`, `CountsOfTheLiveFacilities`,
`UpgradesGoThrough` (the tables the installed body, `GET /v1/facility-categories` and
the next revision read are there, whatever was loaded, migrated and rolled back),
`LabelNamesTheBody` (from v5 on), `NoBrokenBodyComesBack`.

Properties of `cache_flush`: `DoneMeansFlushed` (every reply whole and none an error: all
that was there is gone), `KeepsToItsNamespaces` (whatever replies it is served), `FlushEnds`.

Properties of `service_requests`: `SlotsAreReturned` (whichever of six ways a call ends),
`WaitsAreBounded` (the queue for the pool included), `StatusIsTruthful` (504 and 500 have their cause where
the pools gave every call a connection, 503 and a ready probe always; the status of an exhausted pool is
section 5), `NobodyIsCutOff` (the
grace period being longer than each operation, as 30 s is).

**Bounds.** `MaxRuns = 3` with two PBFs: a load over a network, a load over a
network with a `routing_prev` to drop, with the same or another PBF and forced or
not; a fourth load meets no schema configuration the third does not. `MaxWal = 3`:
a swap and whatever comes after it (another swap, a rollback to the first network,
a migration, a downgrade after a migration). One request slot and one SET under way: a SET
outlives its request, so the next request of the slot and the old SET are
concurrent writers; requests share no state but Redis. One question and the
categories key: both namespaces. `MaxRestarts = 1`: before and after it is what the keys of two processes need. Restarts are not
fair, so the liveness properties hold without any. The run starts from a loaded network and a
service that has read its version (one that could not is what a restart leaves): before the
first load every query fails and nothing is cached but an empty category list. `ui_search`
has three searches (one shown, one in flight, one to overtake it), two incidents, and answers
of none, one or two results; the two incidents are symmetric.

`closest_facility` has five extracts: a crossing with a street that is one-way against its
digitisation, a bridge that crosses without a node, a river whose way round leaves the
box, a border cut through a way, with a roundabout and a building, and a corner whose vertex two facilities share, with a
third facility between the two limits of snapping. 21 questions vary place,
buffer, filter, k and cost mode, and include an invalid one and one off the graph. The
metric and the flat plane lose nothing the properties tell apart: the SQL compares
distances and adds lengths. `migration_chain` has three loads: one live, one retired, one
staged; a fourth replaces one of these. `SwapBackAny` is `FALSE`: what
`migration_chain` shows is under an operator who does not swap back across a migration
(with `TRUE` TLC violates `BodyFindsItsColumns`: section 5). `service_requests` has two requests for one connection, which is
contention at its limit; the pool's timeout is 1 or 3 ticks, below and above the call's 2;
`service_pool_exhausted` has only the longer one, as the settings do by default; the limit of 1 a window of 2 ticks admits, refuses and recovers. `cache_flush`
has two entries under different cursors, a categories entry and a foreign key; two cut replies are
one more than it takes to leave the conversation a reply behind.

**Deadlock** is not checked where the system may stop: loads run out (`MaxRuns`, `MaxLoads`),
so does the primary's sequence, a flush is over, and a service has been stopped.
It is checked in the two runs of `SearchUi`.

**Fairness.** `EtlPipeline!FairSpec`: weak fairness of a run's next step
(`Advance` or `Fail`): `subprocess.run` returns, successfully or not. Nobody has to
start a load or to roll back, and no hazard has to happen. `ServingCache!FairSpec`:
weak fairness of the disjunction of ways a request goes on by a timeout or an error
(every await is under `asyncio.wait_for`, `routing_repo.py:106` and the 0.5 s of the
cache wrapper), so a request ends although Redis and the replica may never answer;
of expiry (every SET carries `ex=`); of a SET being applied or lost. `Replay` is
strongly fair: a query in progress disables it, but lock requests queue in order and
a query is bounded, so it is not passed over for ever. No step of the ETL and no
successful query is fair. `CacheFlush!FairSpec`: weak fairness of the loader (its socket has a
timeout of 5 s) and of a Redis that is up; it need not stay up.

**Mutants.** Each property of a passing run is paired in `PROJECT.json` with a
plausible bug in a modelled operation (an operator whose comment starts "Mutant:")
under which the same run violates it.

## 4. What is proved

`EtlPipelineProofs`, for every number of loads, set of PBFs, set of hook files and
set of hazards:

* `TypeCorrect`: `Spec => []TypeOK`, overlapping loads included.
* Under `~Overlap` (one load at a time, an assumption of the operator's procedure that
  the code does not enforce): `LiveNeverHalfBuilt`, `ProvenanceNeverMissing`,
  `ExitCodesAreTruthful`, `LeftoversAreHarmless`, `LiveNeverLost`,
  `ImplementsPublication`.

None of these invariants is inductive alone: that the swap publishes a whole network
depends on what the stages before it did to the staging schema. The inductive
invariant `Safe` adds

* `OneAtATime`: one active run;
* `StagingMatchesStage`: for every stage of the active run, exactly what
  `routing_next` holds there (built by this run, over complete inputs);
* `LiveExistsIsFresh`: at `swap`, `live_exists`, read in an earlier step, still says
  whether live holds a network (its network may have been rolled back since: the
  *fact* survives, the network need not);
* `PrevNeedsLive`: there is something to roll back to only if something is live;
* `EveryNetworkRecorded`: the run that loaded any kept schema has a row for its PBF;
* `PublishersAreThrough`: a run found in a schema or in `etl_runs` has passed its swap.

`SequentialRunsSafe` proves it with one lemma for the stages that build, one for the
swap (shared by `SwapCommit` and `SwapAckLost`), one for the other steps. The refinement
maps each step: the swap to `Publish`, the rollback to `PutBack`, all others to a
stutter, because they leave every schema but `routing_next` alone. The assumptions on
constants are the named `ASSUME`s of `EtlPipeline` (types, and that the sentinels are
not run numbers or schemas); TLC evaluates them in every run.

`SearchUiProofs`, for every set of places and any number of searches and ranks:
`NeverTwoSearches`, `ResultsMoveForward`, `OnlyTheLastAnswers` and `SelectionInList` (the highlighted rank is one
of the list shown; no run checks it), from the inductive invariant
`StoreSafe`: the request in flight, if any, is the last one submitted, and newer than the
results shown. `NoUpdateIsLost`, without any hypothesis, from `MapSafe`: an effect that does not run leaves a
layer whose picture has not changed, and of a layer's listeners the last one draws what the store holds. `TypeCorrect`: the
types (no run checks them).

`MigrationChainProofs`, for every number of loads. `FunctionSafe` is inductive and about
revision, body, label and helper alone: from revision 7 (v5) on the label is the body's, before it
is one of 1 to 4, and v8 and the helper are there exactly from revision 10 on. It gives
`LabelIsTheBodys` and `BrokenBodiesStayAway`, and with `SchemasTyped` `TypeCorrect`. `SchemasFit` says
what a revision needs of the live schema and leaves it with (`Fits(s, r)`), that the retired schema fits
the revision *it was retired at*, and that a staged one is complete and so fits any; it is an
invariant under `~SwapBackAny` and gives `BodiesFindTheirColumns`, `UpgradesNeverStick` and
`CountsAreOfTheLive`. The part of `Fits` about counts (they are absent, or the live
facilities', or the network was emptied by a downgrade) is what keeps the seed of revision 11,
which deletes nothing, from mixing old counts with new ones. Assumed: `Absent` and `Mixed` are no
numbers and no schemas.

`ServiceRequestsProofs`, for every finite set of requests and all sizes of pool, timeouts,
rate limit, window and grace period. `Safe` adds to the properties what each request in a call has
waited and met (`InCall`): its clock never passes its timer, only `readyz` makes a second
call, and then the outcome of the first is on record; and that during draining no request is
younger than SIGTERM (`DrainingCounts`). Each action touches one request; `OneRequest` is
what is left to show of such a step, and `TickSafe` is where the guard of `Tick` (no timer has
run out) is used. Results: `NoConnectionLeaks`, `NobodyWaitsForEver`, `StatusTellsWhatHappened`,
`ShutdownIsGraceful`. `StatusTellsWhatHappened` says nothing of
504 and 500 for a call that was given no connection: there the service does not do what it documents (section 5).

Also of `EtlPipeline`, under `~Overlap`: `StatusIsOfLive` and `FlushComesAfterCommit`, from `Informed`
on top of `Safe`: the times read grow from one load to the next (`ClocksAgree`), and the live network is
the newest one on record unless an operator rolled back (`LiveIsNewest`).

`ServingCacheProofs`, for any number of requests, questions and commits, without any hypothesis:

* `ServingTyped`: the types, with what bounds the numbers (`LogGrows`: a commit changes the body
  by one at most) and what a request holds at each step.
* `FlushClears`, from `FlushProgress`: while `cf:` is scanned, what is owed of it is on the scan's list, and
  once `cfc:` is, everything still owed is.
* `AnsweredOnOneNetwork`, from `Reads` (a request that routes has `ways_vertices_pgr` locked at the position
  it read) and `NetworksChange` (the network of two positions of the log differs only if a swap
  or a rollback lies between).
* `KeyVersionFollowsBody`, from `Versions`: what a process read as `function_version` is no newer than
  where the replica is, and without downgrades bodies only move forward in the log.

`CacheFlushProofs`, for all keys, namespaces, cursors, slots, faults and cuts.
`OthersSpared` is about data: what `Parse` returns is always an entry or a line that names nothing
else, *however the reply was cut*, because in every stream a `$` line is followed by a key, a cursor
or nothing (`Paired`, kept by concatenation, cutting and reading). `FlushedWhenDone` is about the protocol:
without trouble client and server are in lockstep (`Lockstep`), and every key owed is ahead of the
loader: in a pattern not begun, in the batch about to be deleted, or in a slot whose cursor has not
been passed (`Pending`).

`RoadNetworkProofs` and `ClosestFacilityProofs`, for every set of extracts, questions and bodies. `Staged`
is inductive: what each stage finds is what the stages before it computed from the extract. On it:

* `AnswersAreJustified` and `CategoriesMatch`. `RankedInOrder` is what ROW_NUMBER and LIMIT give,
  `RoutesJustified` what the aggregation of v5 gives, for every path pgRouting may return;
  `FacilityIdIsKey` and `OneRowEach` keep a facility from having two rows.
* `AttachedByDistance`, from `DegreesAndMetres` and `NearestIsNear`: the metric of `<->` is never less than
  metres and at most `Stretch` times as much. `VerticesArePoints` and `FacilitiesAtPoints` say that the noded
  ends and the centroids are points at all.
* `RewritesAgree`: the box holds everything wanted (`InTheBox`), ranking sees nothing of a row but its cost
  (`OrderKept`), and there are as many rows with attributes as without (`RowsPairUp`, `RankedAlike`).
* `WiderIsNoWorse`: a wider box holds more edges (`BoxGrows`, `WiderSeesMore`), more arcs and more rounds of
  relaxation make no place dearer (`RoundsAreMonotone`, `MoreArcsNoDearer`), a path pgRouting may return costs
  what the rounds say (`DijkstraIsPriced`), and where every row has a counterpart that is no dearer, the i-th row
  is no cheaper than the i-th of the counterparts and others, whatever their number (`CheaperRows`).
* `NodingKeepsRoads`, for extracts that are `WellFormed` (01_node_network.sql loses no point of a way, and no two
  split nodes share a place; a way with a missing point becomes one edge that nothing joins at the junctions inside it). The argument
  has three parts. *Costs*: `CostsAreCheapest` shows that the rounds of relaxation end in a function that no
  arc improves (`Unimprovable`), and that it is above every such function; so that one set of arcs is no dearer
  than another follows from giving, for the costs of the first, a function that no arc of the second
  improves, and nothing need be said about paths. *Milestones*: each way has marks, the cost of getting to each of its nodes
  from the first (`Marks`, from the partial lengths of its line, `MeasuresExist`); a hop of the roads and an edge
  both cost the difference between two marks (`RoadArcsAre`, `EdgeOfPiece`, `ArcsArePieces`, `PiecesHaveArcs`), whichever way
  round the edge is stored. *Both ways*: the roads are no dearer, because a vehicle that may take an edge may take
  its hops one by one (`AlongTheWay`, `RoadsNoDearer`); the edges are no dearer, because the cheapest *offer* a
  node has, from a split node of one of its ways and with no split node between, is improved by no hop (`OfferMovesOn`,
  `EdgesNoDearer`). A node that is no junction has one slot on one way (`OneSlot`), which is what makes offers move on.
* `NoneCloserIsLeftOut`, from `JourneysAgree` (the same, stated of the edges a search sees), `DijkstraIsPriced`,
  and `RankedByCost`: each row costs what its facility's vertex costs, and what LIMIT leaves over is no cheaper than any row
  (`LeftOver`).

What the last two assume of the constants is `TimeUnitsAreFine`: `TimeUnits` is a multiple of every speed the
roads of the extracts have. The database divides floating point numbers and adds the quotients; the model's unit of
time has to be fine enough for its whole-number division to leave nothing over, or rounding each hop and
rounding each edge would differ in the model where they do not in the code.

The library's induction theorems cannot be used, because they take an operator. `RoadNetworkProofs`
proves what takes their place from `WFMin`, which speaks of sets: `SetInduction`, and `NatRecursion`, that
functions defined by recursion on numbers exist. With it `Line` and `CheapestPaths`, which are written as such
functions, are shown to be sequences of points and of arcs, and `Costs` and `Total` to be natural numbers.

Model-checked only: liveness under fairness (`RunsEnd`, `RequestsEnd`, `StaleEntriesExpire`,
`FlushEnds`), which TLAPS does not do. Every other property of the passing runs is a theorem, under the hypotheses
named above.

## 5. Where code and documentation disagree

Five of these have a run of their own that ends in a counterexample:

1. `etl_overlapping_runs`. `main` takes no lock. A second load drops or rebuilds
   `routing_next` under the first, whose swap then promotes unfinished tables, against
   `swap_schema.sql:23-24`.
2. `closest_facility_own_vertex`. `pgr_dijkstra` returns no row for the start itself, and the answer
   is built from its rows: a facility on the incident's own vertex, the closest there is, is missing,
   against `20260622_0003:30-31`.
3. `flush_cut_reply`. `_read_response` takes what ends in CRLF for the whole reply
   (`load_osm.py:438`). A reply to `SCAN ... COUNT 500` is tens of kilobytes, several TCP segments; cut
   behind a line it is parsed short, every later reply is read one command late, keys are left, and "flush
   done" is logged, against `load_osm.py:378-380`. An error reply or a connection closed by
   Redis ends in "flush done" as well.
4. `service_pool_exhausted`. A call that the exhausted pool gives no connection is a 504, because the call's
   5 s are over before the pool's 10 s (or a 500 if the pool's timeout is not longer: SQLAlchemy's own
   `TimeoutError`, which no handler knows), against the 503 of `errors.py:48`, `docs/architecture.md:112`
   and `docs/runbooks/local-operations.md:243`. `readyz` is 503 meanwhile.
5. `ui_tiles_loading`. A layer that finds the style loading after the `load`
   event waits for an event that has passed (`RouteLayer.tsx:77`, and its siblings), against `RouteLayer.tsx:14`.
   A listener left from before the event may also draw an older list over a newer one.

The others are stated at the end of their modules and have no run. Listed as an INVARIANT of the run named,
each is violated by TLC within seconds:

6. `SwapFailureLeavesLiveUntouched` (`etl_pipeline`). Any failure of the swap's psql is reported as
   "live schema untouched" (`load_osm.py:45,372`), also one after the server committed; then the
   flush is skipped too.
7. `LiveFacilitiesHaveFk` (`etl_pipeline`). `03_facilities.sql:64` looks the constraint's name up in
   `pg_constraint` of all schemas, finds the live one's and adds none, against `03_facilities.sql:10`.
8. `HeadIsWhatIsLive` (`etl_pipeline`). The documented rollback leaves `etl_runs` as it is: its newest row is
   the network that was put away, and a reload of that PBF is skipped, against `models/etl_runs.py:8-9`.
9. `RowsAreAskedFor` (`closest_facility`). A row may be of a facility outside the filter or the buffer, if it
   shares its vertex with one inside (`20260623_0003:253`), against `20260622_0003:10` and
   `tests/unit/test_phase2_closest_facility.py:210`. It may take the place of one that was asked for.
10. `SnappableFacilityStays` (`closest_facility`). The vertex is chosen by degrees and only then judged by
    metres: a facility is deleted although a vertex is within 100 m, against `03_facilities.sql:9`. The incident
    is treated the same way: with a vertex within 250 m it may be "off graph", against `errors.py:34`.
    `SnapDecidesByDistance` bounds how far off the choice can be.
11. `BodyFindsItsColumns` (`migration_chain` with `SwapBackAny = TRUE`). The documented swap back renames
    schemas, whatever was migrated since the network was retired: the installed body then reads columns that
    are not there (`swap_schema.sql:30-31`, `drop_old_routing.sql:6-7`).
12. `MigrationInvalidates` (`serving_cache`). `function_version` is read at start-up only, against
    `main.py:54-56`.
13. `ClearedStaysEmpty` (`ui_search`). `submit` stores its answer although `clear()` ran meanwhile
    (`searchStore.ts:149`), against the test at `searchStore.test.ts:137`. `OnlyTheLastComesBack` says what can come back.
14. `MarkersRespond` (`ui_search`). `FacilityLayer`'s handlers are wired in a child's effect, before
    the parent's effect creates the map, and only then (`FacilityLayer.tsx:154-192`). The model's `Mount` is that
    order and nothing else touches `wired`, so a run would only repeat it.

Last, `README.md:37` has the cache free of the replaced network after the flush; but reads go to a replica that may
not have replayed the swap the flush followed, and what they find there is cached again. `StaleEntriesExpire`
of `serving_cache` is what holds instead: the TTL bounds it.

What the models show beside, without a statement in the repository to violate:

* The body of a 429 is not an `ErrorResponse`. `list_categories` has no branch for `DBAPIError`;
  the status is 500 either way.
* `settings.shutdown_grace_s` is exposed and logged and governs nothing: `Dockerfile:65` has a 30.
* `downgrade` past `20260622_0001` fails while `routing_prev` holds the foreign key's name (lines 127-131
  look it up in all schemas).
* Counts of a load are left over an emptied table by: a load at `20260623_0003`, downgrade past
  `20260622_0001`, upgrade to the head (`Emptied`).
* A load that exits 0 although its flush failed is documented in the code as intended
  (`load_osm.py:380-382`); `docs/runbooks/local-operations.md:117-118` does not mention it.

## 6. Not modelled, and the plan

Left out because no control depends on them: `observability/`, middleware, deployment files,
form inputs, setters of form fields and what a feature looks like (rendering), URL building and geocoders,
the readiness badge (nothing reads it), `healthz`, `spike-oq1.ps1`.
`drop_old_routing.sql` has no behaviour to model: psql does not substitute `:retention_hours` inside a
dollar-quoted block, so the script fails before it changes anything.

What is left to prove is liveness, which stays with TLC. Where the model could still grow: the deferred cleanup,
once its script runs at all; start-up, beyond what `ServiceRequests` has of it; and the map's layers, beyond which
search they show.
