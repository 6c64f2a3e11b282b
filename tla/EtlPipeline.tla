---------------------------- MODULE EtlPipeline ----------------------------
(***************************************************************************)
(* The OSM loader: infra/etl/load_osm.py (main and its stages), the SQL it *)
(* feeds to psql (01_node_network, 02_cost_columns, 03_facilities,         *)
(* swap_schema) and the manual rollback that swap_schema.sql documents.    *)
(*                                                                         *)
(* A run is one execution of load_osm.main.  It talks to the database      *)
(* through a sequence of psql / osm2pgsql subprocesses; between two of     *)
(* them it can die, and what it committed stays.  Runs share the schemas   *)
(* `routing` (live), `routing_next` (staging) and `routing_prev`, the      *)
(* table etl_runs, and the Redis cache, and nothing locks one run out of   *)
(* another: Overlap says whether the operator lets two run at once.        *)
(*                                                                         *)
(* Data is abstracted to where it came from: a schema holds the tables one *)
(* run loaded (`loader`), which of them exist (`tables`), which build      *)
(* stages are complete over complete inputs (`built`), and whether its     *)
(* facilities carry the foreign key to its vertices (`fk`).                *)
(***************************************************************************)
EXTENDS Naturals

CONSTANTS
  MaxRuns,    \* executions of load_osm.main (bounds the model)
  Pbfs,       \* PBF contents, identified with their sha256
  Baseline,   \* the Alembic migration, loader of the empty routing.facilities
  Absent,     \* "no such schema"
  NoRow,      \* "no etl_runs row"
  Hooks,      \* phase-2 SQL files present in the image
  Overlap,    \* may a run start while another one is active?
  Hazards     \* what may go wrong, a subset of HazardKind

Runs       == 1..MaxRuns
HazardKind == {"error", "crash", "ack_lost", "redis_down", "rollback"}
Hook       == {"cost", "snap"}
Table      == {"ways_import", "facilities", "ways", "ways_vertices_pgr"}
Stage      == {"import", "network"} \union Hook
Name       == {"routing", "routing_next", "routing_prev", "routing_failed"}

ASSUME MaxRunsAssumption == MaxRuns \in Nat
ASSUME HooksAssumption   == Hooks \subseteq Hook
ASSUME HazardsAssumption == Hazards \subseteq HazardKind
ASSUME OverlapAssumption == Overlap \in BOOLEAN
ASSUME NamesAssumption   ==
  Baseline \notin Runs /\ NoRow \notin Runs /\ Absent \notin Runs

Schema == [loader: Runs \union {Baseline}, tables: SUBSET Table,
           built: SUBSET Stage, fk: BOOLEAN]

ASSUME AbsentAssumption == Absent \notin Schema

VARIABLES
  db,           \* Name -> Schema or Absent
  etlRuns,      \* sha256 -> the run that last wrote its etl_runs row, or NoRow
  clock,        \* the ETL host's clock, read by _swap
  flushPending, \* TRUE while Redis may hold answers from a replaced network
  pc,           \* where each run is in main
  job,          \* its arguments: the PBF and --force
  exitCode,     \* its exit status (meaningful once it is done)
  liveExists,   \* psql's :live_exists
  counted,      \* whose tables _swap counted
  completedAt,  \* completed_at, 0 until read
  flushed       \* did this run's cache flush go through?

local == <<pc, job, exitCode, liveExists, counted, completedAt, flushed>>
vars  == <<db, etlRuns, clock, flushPending, local>>

-----------------------------------------------------------------------------
(* Program counters: each names the next thing main does.                  *)
Build == {"drop_staging", "create_staging", "osm2pgsql", "osm2pgsql_running",
          "noding", "noding_running", "cost", "snap", "vacuum", "count"}
Swap  == {"detect_live", "swap"}
Doing == {"check", "pgr_version", "flush"} \union Build \union Swap
Stop  == {"idle", "done", "crashed"}

Active(r) == pc[r] \in Doing

Goto(r, label) == pc' = [pc EXCEPT ![r] = label]

(* A stage that exits, or the uncaught CalledProcessError (status 1).      *)
Exit(r, code) == Goto(r, "done") /\ exitCode' = [exitCode EXCEPT ![r] = code]

Has(schema, tables) == db[schema] # Absent /\ tables \subseteq db[schema].tables

Staging == db["routing_next"]
Live    == db["routing"]

(* The network exists once the ETL's own table does: swap_schema.sql       *)
(* ignores the empty namespace Alembic creates.                            *)
LiveHasWays == Has("routing", {"ways"})

SetStaging(schema) == db' = [db EXCEPT !["routing_next"] = schema]

(* A stage's output is complete only over complete inputs: it adds `stage` *)
(* to what is built when everything in `inputs` is.                        *)
Built(schema, stage, inputs) ==
  schema.built \union (IF inputs \subseteq schema.built THEN {stage} ELSE {})

-----------------------------------------------------------------------------
AlembicShape == [loader |-> Baseline, tables |-> {"facilities"},
                 built |-> {}, fk |-> FALSE]

Init ==
  /\ \E routing \in {Absent, AlembicShape} :
       db = [n \in Name |-> IF n = "routing" THEN routing ELSE Absent]
  /\ etlRuns = [p \in Pbfs |-> NoRow]
  /\ clock = 0
  /\ flushPending = FALSE
  /\ pc = [r \in Runs |-> "idle"]
  /\ job \in [Runs -> [pbf: Pbfs, force: BOOLEAN]]
  /\ exitCode = [r \in Runs |-> 0]
  /\ liveExists = [r \in Runs |-> FALSE]
  /\ counted = [r \in Runs |-> Baseline]
  /\ completedAt = [r \in Runs |-> 0]
  /\ flushed = [r \in Runs |-> FALSE]

(* main, up to the checks that need no database.  Runs are numbered in the *)
(* order they start.                                                       *)
MayStart(r) ==
  /\ pc[r] = "idle"
  /\ \A q \in Runs : q < r => pc[q] # "idle"
  /\ Overlap \/ \A q \in Runs : ~Active(q)

Start(r) ==
  /\ MayStart(r)
  /\ Goto(r, "check")
  /\ UNCHANGED <<db, etlRuns, clock, flushPending, job, exitCode,
                 liveExists, counted, completedAt, flushed>>

(* PBF missing, or an environment variable missing.                        *)
RejectConfig(r) ==
  /\ "error" \in Hazards
  /\ MayStart(r)
  /\ Exit(r, 2)
  /\ UNCHANGED <<db, etlRuns, clock, flushPending, job, liveExists, counted,
                 completedAt, flushed>>

AlreadyLoaded(r) == ~job[r].force /\ etlRuns[job[r].pbf] # NoRow

SkipLoaded(r) ==
  /\ pc[r] = "check"
  /\ AlreadyLoaded(r)
  /\ Exit(r, 0)
  /\ UNCHANGED <<db, etlRuns, clock, flushPending, job, liveExists, counted,
                 completedAt, flushed>>

CheckLoaded(r) ==
  /\ pc[r] = "check"
  /\ ~AlreadyLoaded(r)
  /\ Goto(r, "pgr_version")
  /\ UNCHANGED <<db, etlRuns, clock, flushPending, job, exitCode,
                 liveExists, counted, completedAt, flushed>>

PgrVersionOk(r) ==
  /\ pc[r] = "pgr_version"
  /\ Goto(r, "drop_staging")
  /\ UNCHANGED <<db, etlRuns, clock, flushPending, job, exitCode,
                 liveExists, counted, completedAt, flushed>>

PgrTooOld(r) ==
  /\ "error" \in Hazards
  /\ pc[r] = "pgr_version"
  /\ Exit(r, 2)
  /\ UNCHANGED <<db, etlRuns, clock, flushPending, job, liveExists, counted,
                 completedAt, flushed>>

-----------------------------------------------------------------------------
(* Building the staging schema.  Ready(r) is what the next subprocess needs *)
(* to find in the database; without it the subprocess fails.               *)
Ready(r) ==
  CASE pc[r] = "create_staging"    -> Staging = Absent
    [] pc[r] = "osm2pgsql"         -> Staging # Absent
    [] pc[r] = "osm2pgsql_running" ->
         Has("routing_next", {"ways_import", "facilities"}) /\ Staging.loader = r
    [] pc[r] = "noding"            -> Has("routing_next", {"ways_import"})
    [] pc[r] = "noding_running"    ->
         Has("routing_next", {"ways_import", "ways", "ways_vertices_pgr"})
    [] pc[r] = "cost"              -> "cost" \in Hooks => Has("routing_next", {"ways"})
    [] pc[r] = "snap"              ->
         "snap" \in Hooks => Has("routing_next", {"facilities", "ways_vertices_pgr"})
    [] pc[r] \in {"vacuum", "count"} ->
         Has("routing_next", {"ways", "ways_vertices_pgr"})
    [] pc[r] = "swap"              ->
         /\ Staging # Absent
         /\ liveExists[r] => Has("routing", {"ways", "ways_vertices_pgr"})
    [] OTHER                       -> TRUE

(* The subprocess at `from` succeeds, changes the staging schema to        *)
(* `schema`, and main goes on.                                             *)
Stagewise(r, from, to, schema) ==
  /\ pc[r] = from
  /\ Ready(r)
  /\ Goto(r, to)
  /\ SetStaging(schema)
  /\ UNCHANGED <<etlRuns, clock, flushPending, job, exitCode, liveExists,
                 counted, completedAt, flushed>>

(* Mutant: IF EXISTS ... CASCADE lost, a leftover staging schema stays.    *)
DropStagingOnlyEmpty(r) ==
  Stagewise(r, "drop_staging", "create_staging",
            IF Staging # Absent /\ Staging.tables # {} THEN Staging ELSE Absent)

DropStaging(r) == Stagewise(r, "drop_staging", "create_staging", Absent)

CreateStaging(r) ==
  Stagewise(r, "create_staging", "osm2pgsql",
            [loader |-> r, tables |-> {}, built |-> {}, fk |-> FALSE])

(* osm2pgsql --create (re)creates its tables, then streams the PBF.        *)
Osm2pgsqlBegin(r) ==
  Stagewise(r, "osm2pgsql", "osm2pgsql_running",
            [Staging EXCEPT !.loader = r, !.built = {},
                            !.tables = @ \union {"ways_import", "facilities"}])

Osm2pgsqlEnd(r) ==
  Stagewise(r, "osm2pgsql_running", "noding",
            [Staging EXCEPT !.built = Built(Staging, "import", {})])

(* 01_node_network.sql runs without a transaction: ways exists, still      *)
(* without source and target, long before the script ends.                 *)
NodingBegin(r) ==
  Stagewise(r, "noding", "noding_running",
            [Staging EXCEPT !.built = @ \intersect {"import"},
                            !.tables = @ \union {"ways", "ways_vertices_pgr"}])

NodingEnd(r) ==
  Stagewise(r, "noding_running", "cost",
            [Staging EXCEPT !.built = Built(Staging, "network", {"import"}),
                            !.tables = @ \ {"ways_import"}])

(* Mutant: the hook's failure is logged and main goes on.                  *)
ApplyCostFailureIgnored(r) ==
  \E ok \in BOOLEAN :
    Stagewise(r, "cost", "snap",
              IF ok THEN [Staging EXCEPT !.built = Built(Staging, "cost", {"network"})]
              ELSE Staging)

(* _apply_phase2_hooks skips a hook whose file is not in the image.        *)
ApplyCost(r) ==
  Stagewise(r, "cost", "snap",
            IF "cost" \in Hooks
            THEN [Staging EXCEPT !.built = Built(Staging, "cost", {"network"})]
            ELSE Staging)

(* 03_facilities.sql adds its foreign key only IF NOT EXISTS a constraint  *)
(* of that name in pg_constraint, which lists those of every schema.       *)
FkNameTaken == \E n \in Name : db[n] # Absent /\ db[n].fk

SnapFacilities(r) ==
  Stagewise(r, "snap", "vacuum",
            IF "snap" \in Hooks
            THEN [Staging EXCEPT !.built = Built(Staging, "snap", {"import", "network"}),
                                 !.fk    = @ \/ ~FkNameTaken]
            ELSE Staging)

(* VACUUM of facilities may fail; that is caught.                          *)
VacuumStaging(r) == Stagewise(r, "vacuum", "count", Staging)

-----------------------------------------------------------------------------
(* _swap: two row counts and a clock reading, then swap_schema.sql.       *)
CountStaging(r) ==
  /\ pc[r] = "count"
  /\ Ready(r)
  /\ Goto(r, "detect_live")
  /\ counted' = [counted EXCEPT ![r] = Staging.loader]
  /\ clock' = clock + 1
  /\ completedAt' = [completedAt EXCEPT ![r] = clock + 1]
  /\ UNCHANGED <<db, etlRuns, flushPending, job, exitCode, liveExists,
                 flushed>>

(* SELECT EXISTS (...) AS live_exists \gset, before BEGIN.                 *)
DetectLive(r) ==
  /\ pc[r] = "detect_live"
  /\ liveExists' = [liveExists EXCEPT ![r] = LiveHasWays]
  /\ Goto(r, "swap")
  /\ UNCHANGED <<db, etlRuns, clock, flushPending, job, exitCode, counted,
                 completedAt, flushed>>

(* Mutant: live is renamed before the old routing_prev is dropped, so the  *)
(* DROP takes the schema just retired.                                     *)
SwapTransactionDropsLast(r) ==
  /\ db' = [db EXCEPT !["routing_prev"] = IF liveExists[r] THEN Absent ELSE @,
                      !["routing"]      = Staging,
                      !["routing_next"] = Absent]
  /\ etlRuns' = [etlRuns EXCEPT ![job[r].pbf] = r]

(* Mutant: INSERT ... ON CONFLICT DO NOTHING.                              *)
SwapTransactionKeepsRow(r) ==
  /\ db' = [db EXCEPT !["routing_prev"] = IF liveExists[r] THEN Live ELSE @,
                      !["routing"]      = Staging,
                      !["routing_next"] = Absent]
  /\ etlRuns' = [etlRuns EXCEPT ![job[r].pbf] = IF @ = NoRow THEN r ELSE @]

(* Mutant: the provenance row is written by a later statement of its own.  *)
SwapTransactionNoRow(r) ==
  /\ db' = [db EXCEPT !["routing_prev"] = IF liveExists[r] THEN Live ELSE @,
                      !["routing"]      = Staging,
                      !["routing_next"] = Absent]
  /\ UNCHANGED etlRuns

(* Mutant: each ALTER SCHEMA commits on its own, so a run can die in       *)
(* between; here a reload dies after the first.                            *)
SwapTransactionTorn(r) ==
  /\ db' = IF liveExists[r]
           THEN [db EXCEPT !["routing_prev"] = Live, !["routing"] = Absent]
           ELSE [db EXCEPT !["routing"] = Staging, !["routing_next"] = Absent]
  /\ etlRuns' = [etlRuns EXCEPT ![job[r].pbf] = r]

(* The transaction of swap_schema.sql: retire live to prev (or drop what   *)
(* Alembic left), promote staging, upsert the provenance row.              *)
SwapTransaction(r) ==
  /\ db' = [db EXCEPT !["routing_prev"] = IF liveExists[r] THEN Live ELSE @,
                      !["routing"]      = Staging,
                      !["routing_next"] = Absent]
  /\ etlRuns' = [etlRuns EXCEPT ![job[r].pbf] = r]

(* Redis may hold answers of what the swap replaces; with no schema at all  *)
(* every query failed and nothing was cached.                              *)
MakesStale == flushPending' = (flushPending \/ Live # Absent)

(* Mutant: the flush is dispatched before the transaction commits.         *)
SwapCommitFlushesFirst(r) ==
  /\ pc[r] = "swap"
  /\ Ready(r)
  /\ SwapTransaction(r)
  /\ Exit(r, 0)
  /\ MakesStale
  /\ flushed' = [flushed EXCEPT ![r] = TRUE]
  /\ UNCHANGED <<clock, job, liveExists, counted, completedAt>>

SwapCommit(r) ==
  /\ pc[r] = "swap"
  /\ Ready(r)
  /\ SwapTransaction(r)
  /\ Goto(r, "flush")
  /\ MakesStale
  /\ UNCHANGED <<clock, job, exitCode, liveExists, counted, completedAt,
                 flushed>>

(* The connection drops after the server commits and before psql is told:  *)
(* psql fails, and _swap takes that for a swap that did not happen.        *)
SwapAckLost(r) ==
  /\ "ack_lost" \in Hazards
  /\ pc[r] = "swap"
  /\ Ready(r)
  /\ SwapTransaction(r)
  /\ Exit(r, 5)
  /\ MakesStale
  /\ UNCHANGED <<clock, job, liveExists, counted, completedAt, flushed>>

(* _flush_via_socket reaches the end of both namespaces.                   *)
FlushDone(r) ==
  /\ pc[r] = "flush"
  /\ flushPending' = FALSE
  /\ flushed' = [flushed EXCEPT ![r] = TRUE]
  /\ Exit(r, 0)
  /\ UNCHANGED <<db, etlRuns, clock, job, liveExists, counted, completedAt>>

(* Mutant: the exception escapes, the run fails.                           *)
FlushFailsFatally(r) ==
  /\ "redis_down" \in Hazards
  /\ pc[r] = "flush"
  /\ Exit(r, 1)
  /\ UNCHANGED <<db, etlRuns, clock, flushPending, job, liveExists, counted,
                 completedAt, flushed>>

(* REDIS_URL unset, or any exception: logged, and the run still succeeds.  *)
FlushFails(r) ==
  /\ "redis_down" \in Hazards
  /\ pc[r] = "flush"
  /\ Exit(r, 0)
  /\ UNCHANGED <<db, etlRuns, clock, flushPending, job, liveExists, counted,
                 completedAt, flushed>>

-----------------------------------------------------------------------------
(* Mutant: sys.exit(exc.returncode); psql returns 3 for a script error.    *)
FailureCodeOfPsql(label) == IF label \in Swap THEN 3 ELSE 1

(* A subprocess returns non-zero: by accident, or because it did not find  *)
(* what it needs.  sys.exit(4) and sys.exit(5) where main catches it, an   *)
(* uncaught CalledProcessError (status 1) where it does not.               *)
FailureCode(label) ==
  IF label \in {"osm2pgsql", "osm2pgsql_running", "noding", "noding_running",
                "cost", "snap"} THEN 4
  ELSE IF label \in Swap THEN 5 ELSE 1

(* Mutant: on failure, main starts over instead of exiting.                *)
FailStartsOver(r) ==
  /\ pc[r] \in Doing \ {"flush"}
  /\ "error" \in Hazards \/ ~Ready(r)
  /\ Goto(r, "drop_staging")
  /\ UNCHANGED <<db, etlRuns, clock, flushPending, job, exitCode, liveExists,
                 counted, completedAt, flushed>>

Fail(r) ==
  /\ pc[r] \in Doing \ {"flush"}
  /\ "error" \in Hazards \/ ~Ready(r)
  /\ Exit(r, FailureCode(pc[r]))
  /\ UNCHANGED <<db, etlRuns, clock, flushPending, job, liveExists, counted,
                 completedAt, flushed>>

(* The process or its host dies; the database keeps what was committed.    *)
Crash(r) ==
  /\ "crash" \in Hazards
  /\ Active(r)
  /\ Goto(r, "crashed")
  /\ UNCHANGED <<db, etlRuns, clock, flushPending, job, exitCode,
                 liveExists, counted, completedAt, flushed>>

(* The rollback the header of swap_schema.sql gives the operator: two      *)
(* renames in one transaction; no flush, etl_runs untouched.               *)
Rollback ==
  /\ "rollback" \in Hazards
  /\ Live # Absent /\ db["routing_prev"] # Absent
  /\ db["routing_failed"] = Absent
  /\ db' = [db EXCEPT !["routing_failed"] = Live,
                      !["routing"]        = db["routing_prev"],
                      !["routing_prev"]   = Absent]
  /\ flushPending' = TRUE
  /\ UNCHANGED <<etlRuns, clock, local>>

-----------------------------------------------------------------------------
Advance(r) ==
  \/ SkipLoaded(r) \/ CheckLoaded(r) \/ PgrVersionOk(r)
  \/ DropStaging(r) \/ CreateStaging(r)
  \/ Osm2pgsqlBegin(r) \/ Osm2pgsqlEnd(r)
  \/ NodingBegin(r) \/ NodingEnd(r)
  \/ ApplyCost(r) \/ SnapFacilities(r) \/ VacuumStaging(r)
  \/ CountStaging(r) \/ DetectLive(r) \/ SwapCommit(r)
  \/ FlushDone(r)

Disturb(r) ==
  \/ RejectConfig(r) \/ PgrTooOld(r) \/ SwapAckLost(r) \/ FlushFails(r)
  \/ Fail(r) \/ Crash(r)

Next == \/ \E r \in Runs : Start(r) \/ Advance(r) \/ Disturb(r)
        \/ Rollback

Spec == Init /\ [][Next]_vars

(* A run that was started keeps going: subprocess calls return.  Nobody is *)
(* obliged to start a run, to roll back, or to make anything fail.         *)
FairSpec == Spec /\ \A r \in Runs : WF_vars(Advance(r) \/ Fail(r))

-----------------------------------------------------------------------------
(* Properties.                                                             *)

TypeOK ==
  /\ db \in [Name -> Schema \union {Absent}]
  /\ etlRuns \in [Pbfs -> Runs \union {NoRow}]
  /\ clock \in Nat
  /\ flushPending \in BOOLEAN
  /\ pc \in [Runs -> Doing \union Stop]
  /\ job \in [Runs -> [pbf: Pbfs, force: BOOLEAN]]
  /\ exitCode \in [Runs -> {0, 1, 2, 4, 5}]
  /\ liveExists \in [Runs -> BOOLEAN]
  /\ counted \in [Runs -> Runs \union {Baseline}]
  /\ completedAt \in [Runs -> Nat]
  /\ flushed \in [Runs -> BOOLEAN]

(* A network queries can be answered from: every stage of one run finished *)
(* over finished inputs, and the import scaffolding is gone.               *)
Whole(schema) ==
  /\ schema.loader \in Runs
  /\ schema.tables = Table \ {"ways_import"}
  /\ schema.built = {"import", "network"} \union Hooks

(* No schema a query or a rollback can reach holds half-built tables       *)
(* (swap_schema.sql:23-24), at whatever stage runs failed or died.         *)
PublishedWhole ==
  /\ LiveHasWays => Whole(Live)
  /\ \A n \in {"routing_prev", "routing_failed"} :
       db[n] # Absent => Whole(db[n])

(* Data is never live without a provenance row for its PBF                 *)
(* (swap_schema.sql:25-26), across reloads, --force and rollbacks.         *)
LiveHasProvenance ==
  LiveHasWays => etlRuns[job[Live.loader].pbf] # NoRow

(* GET /v1/etl-status reports the row with the greatest completed_at.      *)
Reported(r) ==
  /\ \E p \in Pbfs : etlRuns[p] = r
  /\ \A p \in Pbfs : etlRuns[p] # NoRow => completedAt[etlRuns[p]] <= completedAt[r]

(* Until an operator rolls back, what it reports, counts included, is the  *)
(* network being served.                                                   *)
StatusDescribesLive ==
  \A r \in Runs : Reported(r) /\ db["routing_failed"] = Absent =>
    LiveHasWays /\ Live.loader = r /\ counted[r] = r

(* The exit status tells the operator the truth: 1, 2 and 4 mean that the  *)
(* run published nothing, 0 that its PBF is on record (load_osm.py:40-45). *)
PublishedBy(r) ==
  \/ \E p \in Pbfs : etlRuns[p] = r
  \/ \E n \in {"routing", "routing_prev", "routing_failed"} :
       db[n] # Absent /\ db[n].loader = r

ExitCodeTruthful ==
  \A r \in Runs : pc[r] = "done" =>
    /\ exitCode[r] \in {1, 2, 4} => ~PublishedBy(r)
    /\ exitCode[r] = 0 => etlRuns[job[r].pbf] # NoRow

(* Whatever an earlier run left behind when it failed or was killed, no    *)
(* stage of a later one trips over it.                                     *)
LeftoversNeverBlock == ~Overlap => \A r \in Runs : Ready(r)

(* Once the load being served has flushed Redis, no answer computed on the *)
(* network it replaced is left there by the loader (design D9: the flush   *)
(* comes after the COMMIT).                                                *)
FlushFollowsCommit ==
  \A r \in Runs :
    flushed[r] /\ LiveHasWays /\ Live.loader = r /\ db["routing_failed"] = Absent
      => ~flushPending

(* A step that changes what is live either retires it intact to            *)
(* routing_prev or puts routing_prev back; only the empty Alembic schema   *)
(* is ever thrown away.                                                    *)
LiveIsNeverLost ==
  [][Live' # Live /\ LiveHasWays =>
       \/ db'["routing_prev"] = Live
       \/ db'["routing_failed"] = Live /\ Live' = db["routing_prev"]]_db

(* A run that was started ends, whatever goes wrong.                       *)
RunsEnd == \A r \in Runs : Active(r) ~> ~Active(r)

(* The loader implements NetworkPublication: what is live is a whole       *)
(* network or nothing, replaced and recorded in one step.                  *)
HalfBuilt == "half-built"

NetworkIn(name) ==
  IF ~Has(name, {"ways"}) THEN Absent
  ELSE IF Whole(db[name]) THEN db[name].loader ELSE HalfBuilt

Publication == INSTANCE NetworkPublication WITH
  Networks <- Runs, Nothing <- Absent,
  live     <- NetworkIn("routing"),
  prev     <- NetworkIn("routing_prev"),
  recorded <- {p \in Pbfs : etlRuns[p] # NoRow}

PublishesAtomically == Publication!PubSpec

-----------------------------------------------------------------------------
(* What the repository says of the loader and the code does not do.  No    *)
(* cfg lists it: as an INVARIANT of etl_pipeline each is violated.         *)

(* load_osm.py:45 and 372: after exit status 5 the live schema is          *)
(* untouched.                                                              *)
SwapFailureLeavesLiveUntouched ==
  \A r \in Runs : pc[r] = "done" /\ exitCode[r] = 5 => ~PublishedBy(r)

(* 03_facilities.sql:10: the facilities of a loaded network reference its  *)
(* vertices.                                                               *)
LiveFacilitiesHaveFk ==
  LiveHasWays /\ "snap" \in Hooks => Live.fk

(* models/etl_runs.py:8-9: the head of etl_runs is the source of truth for *)
(* what is live.  An operator's rollback leaves the row of the network     *)
(* that failed at the head, and a reload of its PBF is skipped.            *)
HeadIsWhatIsLive ==
  \A r \in Runs : Reported(r) => LiveHasWays /\ Live.loader = r
=============================================================================
