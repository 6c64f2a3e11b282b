------------------------- MODULE EtlPipelineProofs -------------------------
(***************************************************************************)
(* Proofs about EtlPipeline, for any number of runs, any PBFs and any      *)
(* hazards.                                                                *)
(***************************************************************************)
EXTENDS EtlPipeline, TLAPS

USE DEF Runs

(***************************************************************************)
(* Every variable keeps its type; in particular a run ends with one of the *)
(* statuses 0, 1, 2, 4, 5 and every schema is one the stages can build.    *)
(***************************************************************************)
LEMMA StagewiseType ==
  ASSUME TypeOK, NEW r \in Runs, NEW from, NEW to \in Doing,
         NEW schema \in Schema \union {Absent},
         Stagewise(r, from, to, schema)
  PROVE  TypeOK'
BY DEF TypeOK, Stagewise, SetStaging, Goto, Name

LEMMA BuiltType ==
  ASSUME NEW schema \in Schema, NEW stage \in Stage, NEW inputs
  PROVE  Built(schema, stage, inputs) \in SUBSET Stage
BY DEF Built, Schema

LEMMA AdvanceType ==
  ASSUME TypeOK, NEW r \in Runs, Advance(r)
  PROVE  TypeOK'
<1> USE DEF Doing, Build, Swap
<1>1. Staging \in Schema \union {Absent}
  BY DEF TypeOK, Staging, Name
<1>2. CASE SkipLoaded(r)
  BY <1>2 DEF TypeOK, SkipLoaded, Exit, Goto, Stop
<1>3. CASE CheckLoaded(r)
  BY <1>3 DEF TypeOK, CheckLoaded, Goto
<1>4. CASE PgrVersionOk(r)
  BY <1>4 DEF TypeOK, PgrVersionOk, Goto
<1>5. CASE DropStaging(r)
  BY <1>5, StagewiseType DEF DropStaging
<1>6. CASE CreateStaging(r)
  <2>1. [loader |-> r, tables |-> {}, built |-> {}, fk |-> FALSE] \in Schema
    BY DEF Schema
  <2>2. QED
    BY <1>6, <2>1, StagewiseType DEF CreateStaging
<1>7. CASE Osm2pgsqlBegin(r)
  <2>1. Staging \in Schema
    BY <1>1, <1>7 DEF Osm2pgsqlBegin, Stagewise, Ready
  <2>2. [Staging EXCEPT !.loader = r, !.built = {},
           !.tables = @ \union {"ways_import", "facilities"}] \in Schema
    BY <2>1 DEF Schema, Table
  <2>3. QED
    BY <1>7, <2>2, StagewiseType DEF Osm2pgsqlBegin
<1>8. CASE Osm2pgsqlEnd(r)
  <2>1. Staging \in Schema
    BY <1>1, <1>8 DEF Osm2pgsqlEnd, Stagewise, Ready, Has, Staging
  <2>2. Built(Staging, "import", {}) \in SUBSET Stage
    BY <2>1, BuiltType DEF Stage
  <2>3. [Staging EXCEPT !.built = Built(Staging, "import", {})] \in Schema
    BY <2>1, <2>2 DEF Schema
  <2>4. QED
    BY <1>8, <2>3, StagewiseType DEF Osm2pgsqlEnd
<1>9. CASE NodingBegin(r)
  <2>1. Staging \in Schema
    BY <1>1, <1>9 DEF NodingBegin, Stagewise, Ready, Has, Staging
  <2>2. [Staging EXCEPT !.built = @ \intersect {"import"},
           !.tables = @ \union {"ways", "ways_vertices_pgr"}] \in Schema
    BY <2>1 DEF Schema, Table
  <2>3. QED
    BY <1>9, <2>2, StagewiseType DEF NodingBegin
<1>10. CASE NodingEnd(r)
  <2>1. Staging \in Schema
    BY <1>1, <1>10 DEF NodingEnd, Stagewise, Ready, Has, Staging
  <2>2. Built(Staging, "network", {"import"}) \in SUBSET Stage
    BY <2>1, BuiltType DEF Stage
  <2>3. [Staging EXCEPT !.built = Built(Staging, "network", {"import"}),
           !.tables = @ \ {"ways_import"}] \in Schema
    BY <2>1, <2>2 DEF Schema
  <2>4. QED
    BY <1>10, <2>3, StagewiseType DEF NodingEnd
<1>11. CASE ApplyCost(r)
  <2>1. CASE "cost" \in Hooks
    <3>1. Staging \in Schema
      BY <1>1, <1>11, <2>1 DEF ApplyCost, Stagewise, Ready, Has, Staging
    <3>2. Built(Staging, "cost", {"network"}) \in SUBSET Stage
      BY <3>1, BuiltType DEF Stage, Hook
    <3>3. [Staging EXCEPT !.built = Built(Staging, "cost", {"network"})] \in Schema
      BY <3>1, <3>2 DEF Schema
    <3>4. QED
      BY <1>11, <2>1, <3>3, StagewiseType DEF ApplyCost
  <2>2. CASE "cost" \notin Hooks
    BY <1>1, <1>11, <2>2, StagewiseType DEF ApplyCost
  <2>3. QED
    BY <2>1, <2>2
<1>12. CASE SnapFacilities(r)
  <2>1. CASE "snap" \in Hooks
    <3>1. Staging \in Schema
      BY <1>1, <1>12, <2>1 DEF SnapFacilities, Stagewise, Ready, Has, Staging
    <3>2. Built(Staging, "snap", {"import", "network"}) \in SUBSET Stage
      BY <3>1, BuiltType DEF Stage, Hook
    <3>3. (Staging.fk \/ ~FkNameTaken) \in BOOLEAN
      BY DEF Schema
    <3>4. [Staging EXCEPT !.built = Built(Staging, "snap", {"import", "network"}),
                          !.fk    = @ \/ ~FkNameTaken] \in Schema
      BY <3>1, <3>2, <3>3 DEF Schema
    <3>5. QED
      BY <1>12, <2>1, <3>4, StagewiseType DEF SnapFacilities
  <2>2. CASE "snap" \notin Hooks
    BY <1>1, <1>12, <2>2, StagewiseType DEF SnapFacilities
  <2>3. QED
    BY <2>1, <2>2
<1>13. CASE VacuumStaging(r)
  BY <1>1, <1>13, StagewiseType DEF VacuumStaging
<1>14. CASE CountStaging(r)
  <2>1. Staging.loader \in Runs \union {Baseline}
    BY <1>1, <1>14 DEF CountStaging, Ready, Has, Staging, Schema
  <2>2. QED
    BY <1>14, <2>1 DEF TypeOK, CountStaging, Goto
<1>15. CASE DetectLive(r)
  BY <1>15 DEF TypeOK, DetectLive, Goto, LiveHasWays, Has
<1>16. CASE SwapCommit(r)
  BY <1>1, <1>16 DEF TypeOK, SwapCommit, MakesStale, SwapTransaction, Goto, Live, Name
<1>17. CASE FlushDone(r)
  BY <1>17 DEF TypeOK, FlushDone, Exit, Goto, Stop
<1>18. QED
  BY <1>2, <1>3, <1>4, <1>5, <1>6, <1>7, <1>8, <1>9, <1>10, <1>11, <1>12,
     <1>13, <1>14, <1>15, <1>16, <1>17 DEF Advance

LEMMA DisturbType ==
  ASSUME TypeOK, NEW r \in Runs, Disturb(r)
  PROVE  TypeOK'
<1> USE DEF Doing, Build, Swap, Stop
<1>1. CASE RejectConfig(r)
  BY <1>1 DEF TypeOK, RejectConfig, Exit, Goto
<1>2. CASE PgrTooOld(r)
  BY <1>2 DEF TypeOK, PgrTooOld, Exit, Goto
<1>3. CASE SwapAckLost(r)
  <2>1. Staging \in Schema \union {Absent} /\ Live \in Schema \union {Absent}
    BY DEF TypeOK, Staging, Live, Name
  <2>2. QED
    BY <1>3, <2>1 DEF TypeOK, SwapAckLost, MakesStale, SwapTransaction, Exit, Goto, Name
<1>4. CASE FlushFails(r)
  BY <1>4 DEF TypeOK, FlushFails, Exit, Goto
<1>5. CASE Fail(r)
  <2>1. FailureCode(pc[r]) \in {0, 1, 2, 4, 5}
    BY DEF FailureCode
  <2>2. QED
    BY <1>5, <2>1 DEF TypeOK, Fail, Exit, Goto
<1>6. CASE Crash(r)
  BY <1>6 DEF TypeOK, Crash, Goto
<1>7. QED
  BY <1>1, <1>2, <1>3, <1>4, <1>5, <1>6 DEF Disturb

LEMMA StepType == TypeOK /\ [Next]_vars => TypeOK'
<1> SUFFICES ASSUME TypeOK, [Next]_vars
             PROVE  TypeOK'
  OBVIOUS
<1>1. ASSUME NEW r \in Runs, Start(r)
      PROVE  TypeOK'
  BY <1>1 DEF TypeOK, Start, Goto, Doing
<1>2. CASE Rollback
  BY <1>2 DEF TypeOK, Rollback, Live, Name, local
<1>3. CASE UNCHANGED vars
  BY <1>3 DEF TypeOK, vars, local
<1>4. QED
  BY <1>1, <1>2, <1>3, AdvanceType, DisturbType DEF Next

LEMMA InitType == Init => TypeOK
<1> SUFFICES ASSUME Init PROVE TypeOK
  OBVIOUS
<1>1. AlembicShape \in Schema
  BY DEF AlembicShape, Schema, Table
<1>2. db \in [Name -> Schema \union {Absent}]
  BY <1>1 DEF Init
<1>3. QED
  BY <1>2 DEF Init, TypeOK, Stop

\* Every state component keeps its type, overlapping loads included.
THEOREM TypeCorrect == Spec => []TypeOK
BY InitType, StepType, PTL DEF Spec

-----------------------------------------------------------------------------
(***************************************************************************)
(* Safety of runs that do not overlap.  PublishedWhole says nothing of the *)
(* staging schema, so it is not inductive: the strengthening says what     *)
(* staging holds at each point of main, which is what makes the network    *)
(* whole when swap_schema.sql promotes it.                                 *)
(***************************************************************************)
OneAtATime ==
  \A q, r \in Runs : Active(q) /\ Active(r) => q = r

Raw == {"ways_import", "facilities"}

(* Staging belongs to run r and holds these tables, built this far.        *)
Holds(r, tables, built) ==
  /\ Staging # Absent
  /\ Staging.loader = r
  /\ Staging.tables = tables
  /\ Staging.built = built

Finished == {"vacuum", "count", "detect_live", "swap"}

StageHolds(r) ==
  /\ pc[r] = "create_staging"    => Staging = Absent
  /\ pc[r] = "osm2pgsql"         => Holds(r, {}, {})
  /\ pc[r] = "osm2pgsql_running" => Holds(r, Raw, {})
  /\ pc[r] = "noding"            => Holds(r, Raw, {"import"})
  /\ pc[r] = "noding_running"    => Holds(r, Table, {"import"})
  /\ pc[r] = "cost" =>
       Holds(r, Table \ {"ways_import"}, {"import", "network"})
  /\ pc[r] = "snap" =>
       Holds(r, Table \ {"ways_import"},
             {"import", "network"} \union (Hooks \intersect {"cost"}))
  /\ pc[r] \in Finished =>
       Holds(r, Table \ {"ways_import"}, {"import", "network"} \union Hooks)

StagingMatchesStage == \A r \in Runs : StageHolds(r)

LiveExistsIsFresh ==
  \A r \in Runs : pc[r] = "swap" => liveExists[r] = LiveHasWays

PrevNeedsLive == db["routing_prev"] # Absent => LiveHasWays

Recorded(name) == etlRuns[job[db[name].loader].pbf] # NoRow

EveryNetworkRecorded ==
  /\ LiveHasWays => Recorded("routing")
  /\ \A n \in {"routing_prev", "routing_failed"} : db[n] # Absent => Recorded(n)

(* A run that has not reached the end of swap_schema.sql published nothing *)
(* and one that did may only be flushing, dead, or done with 0 or 5.       *)
PublishersAreThrough ==
  \A r \in Runs :
    /\ PublishedBy(r) =>
         \/ pc[r] \in {"flush", "crashed"}
         \/ pc[r] = "done" /\ exitCode[r] \in {0, 5}
    /\ pc[r] = "flush" => etlRuns[job[r].pbf] # NoRow
    /\ pc[r] = "done" /\ exitCode[r] = 0 => etlRuns[job[r].pbf] # NoRow

Safe ==
  /\ TypeOK
  /\ OneAtATime
  /\ StagingMatchesStage
  /\ LiveExistsIsFresh
  /\ PublishedWhole
  /\ PrevNeedsLive
  /\ EveryNetworkRecorded
  /\ PublishersAreThrough

-----------------------------------------------------------------------------
(* While one run is active every other one is stopped, so it constrains    *)
(* neither staging nor :live_exists.                                       *)
LEMMA OthersStopped ==
  ASSUME OneAtATime, NEW r \in Runs, Active(r), NEW q \in Runs, q # r
  PROVE  ~Active(q)
BY DEF OneAtATime

LEMMA StoppedHoldsNothing ==
  ASSUME NEW r \in Runs, ~Active(r)
  PROVE  StageHolds(r) /\ pc[r] # "swap"
BY DEF StageHolds, Active, Doing, Build, Swap, Finished

(* A build step writes only to staging: it is safe when what it leaves     *)
(* there is what the next stage of this run expects.                       *)
LEMMA StagewiseSafe ==
  ASSUME Safe, TypeOK', NEW r \in Runs, NEW from \in Build, NEW to \in Build,
         NEW schema, Stagewise(r, from, to, schema), StageHolds(r)'
  PROVE  Safe'
<1>1. /\ pc' = [pc EXCEPT ![r] = to]
      /\ pc[r] = from
      /\ db' = [db EXCEPT !["routing_next"] = schema]
      /\ UNCHANGED <<etlRuns, job, exitCode, liveExists>>
  BY DEF Stagewise, Goto, SetStaging
<1>2. \A n \in Name : n # "routing_next" => db'[n] = db[n]
  BY <1>1 DEF Safe, TypeOK
<1>3. \A q \in Runs : q # r => pc'[q] = pc[q] /\ ~Active(q) /\ ~Active(q)'
  BY <1>1, OthersStopped DEF Safe, TypeOK, Active, Doing
<1>4. pc'[r] = to
  BY <1>1 DEF Safe, TypeOK
<1>5. OneAtATime'
  BY <1>3 DEF OneAtATime
<1>6. StagingMatchesStage'
  <2>1. ASSUME NEW q \in Runs, q # r PROVE StageHolds(q)'
    BY <2>1, <1>3 DEF StageHolds, Active, Doing, Build, Swap, Finished
  <2>2. QED
    BY <2>1 DEF StagingMatchesStage
<1>7. LiveExistsIsFresh'
  BY <1>3, <1>4 DEF LiveExistsIsFresh, Active, Doing, Build, Swap
<1>8. Live' = Live /\ LiveHasWays' = LiveHasWays
  BY <1>2 DEF Live, LiveHasWays, Has, Name
<1>9. PublishedWhole' /\ PrevNeedsLive'
  BY <1>2, <1>8 DEF Safe, PublishedWhole, PrevNeedsLive, Whole, Name
<1>10. EveryNetworkRecorded'
  BY <1>1, <1>2, <1>8 DEF Safe, EveryNetworkRecorded, Recorded, Name
<1>11. PublishersAreThrough'
  <2>1. \A q \in Runs : PublishedBy(q)' => PublishedBy(q)
    BY <1>1, <1>2 DEF PublishedBy, Name
  <2>2. ~PublishedBy(r)
    BY <1>1 DEF Safe, PublishersAreThrough, Build
  <2>3. QED
    BY <1>1, <1>3, <1>4, <2>1, <2>2 DEF Safe, PublishersAreThrough, Build
<1>12. QED
  BY <1>5, <1>6, <1>7, <1>9, <1>10, <1>11 DEF Safe

(* A step that moves one run on and touches no schema and no row is safe   *)
(* when the run may be at its new label.                                   *)
LEMMA LocalSafe ==
  ASSUME Safe, TypeOK', NEW r \in Runs, NEW to,
         \A q \in Runs : q # r => ~Active(q),
         pc' = [pc EXCEPT ![r] = to],
         UNCHANGED <<db, etlRuns, job>>,
         \A q \in Runs : q # r =>
           exitCode'[q] = exitCode[q] /\ liveExists'[q] = liveExists[q],
         StageHolds(r)',
         to = "swap" => liveExists'[r] = LiveHasWays,
         PublishedBy(r) =>
           \/ to \in {"flush", "crashed"}
           \/ to = "done" /\ exitCode'[r] \in {0, 5},
         to = "flush" => etlRuns[job[r].pbf] # NoRow,
         to = "done" /\ exitCode'[r] = 0 => etlRuns[job[r].pbf] # NoRow
  PROVE  Safe'
<1>1. \A q \in Runs : q # r => pc'[q] = pc[q] /\ ~Active(q)'
  BY DEF Safe, TypeOK, Active
<1>2. pc'[r] = to
  BY DEF Safe, TypeOK
<1>3. OneAtATime'
  BY <1>1 DEF OneAtATime
<1>4. StagingMatchesStage'
  <2>1. ASSUME NEW q \in Runs, q # r PROVE StageHolds(q)'
    BY <2>1, <1>1 DEF StageHolds, Active, Doing, Build, Swap, Finished
  <2>2. QED
    BY <2>1 DEF StagingMatchesStage
<1>5. LiveHasWays' = LiveHasWays /\ Live' = Live
  BY DEF LiveHasWays, Has, Live
<1>6. LiveExistsIsFresh'
  BY <1>1, <1>2, <1>5 DEF LiveExistsIsFresh, Active, Doing, Swap
<1>7. PublishedWhole' /\ PrevNeedsLive' /\ EveryNetworkRecorded'
  BY <1>5 DEF Safe, PublishedWhole, PrevNeedsLive, EveryNetworkRecorded, Recorded,
              Whole
<1>8. PublishersAreThrough'
  <2>1. \A q \in Runs : PublishedBy(q)' => PublishedBy(q)
    BY DEF PublishedBy
  <2>2. QED
    BY <1>1, <1>2, <2>1 DEF Safe, PublishersAreThrough
<1>9. QED
  BY <1>3, <1>4, <1>6, <1>7, <1>8 DEF Safe

LEMMA BuildStepSafe ==
  ASSUME Safe, TypeOK', NEW r \in Runs,
         \/ DropStaging(r) \/ CreateStaging(r)
         \/ Osm2pgsqlBegin(r) \/ Osm2pgsqlEnd(r)
         \/ NodingBegin(r) \/ NodingEnd(r)
         \/ ApplyCost(r) \/ SnapFacilities(r) \/ VacuumStaging(r)
  PROVE  Safe'
<1> USE DEF Build
<1>0. StageHolds(r) /\ Staging' = db'["routing_next"]
  BY DEF Safe, StagingMatchesStage, Staging
<1> DEFINE Result(from, to, schema) ==
      Stagewise(r, from, to, schema) => pc[r] = from /\ pc'[r] = to /\ Staging' = schema
<1>1. \A from, to, schema : Result(from, to, schema)
  BY DEF Stagewise, Goto, SetStaging, Staging, Safe, TypeOK, Name
<1> HIDE DEF Result
<1>2. CASE DropStaging(r)
  <2>1. Result("drop_staging", "create_staging", Absent)
    BY <1>1
  <2>2. StageHolds(r)'
    BY <1>2, <2>1 DEF DropStaging, Result, StageHolds, Finished
  <2>3. QED
    BY <1>2, <2>2, StagewiseSafe DEF DropStaging
<1>3. CASE CreateStaging(r)
  <2> DEFINE new == [loader |-> r, tables |-> {}, built |-> {}, fk |-> FALSE]
  <2>1. new # Absent
    <3>1. new \in Schema
      BY DEF Schema
    <3>2. QED
      BY <3>1, AbsentAssumption
  <2>2. Result("create_staging", "osm2pgsql", new)
    BY <1>1
  <2>3. StageHolds(r)'
    BY <1>3, <2>1, <2>2 DEF CreateStaging, Result, StageHolds, Holds, Finished
  <2>4. QED
    BY <1>3, <2>3, StagewiseSafe DEF CreateStaging
<1>4. Staging \in Schema \union {Absent}
  BY DEF Safe, TypeOK, Staging, Name
<1>5. CASE Osm2pgsqlBegin(r)
  <2> DEFINE new == [Staging EXCEPT !.loader = r, !.built = {},
                       !.tables = @ \union {"ways_import", "facilities"}]
  <2>1. Result("osm2pgsql", "osm2pgsql_running", new)
    BY <1>1
  <2>2. Holds(r, {}, {}) /\ Staging \in Schema
    BY <1>0, <1>4, <1>5, <2>1 DEF Osm2pgsqlBegin, Result, StageHolds, Holds
  <2>3. new \in Schema /\ new.loader = r /\ new.tables = Raw /\ new.built = {}
    BY <2>2 DEF Holds, Schema, Raw, Table
  <2>4. new # Absent
    BY <2>3, AbsentAssumption
  <2>5. StageHolds(r)'
    BY <1>5, <2>1, <2>3, <2>4
       DEF Osm2pgsqlBegin, Result, StageHolds, Holds, Finished
  <2>6. QED
    BY <1>5, <2>5, StagewiseSafe DEF Osm2pgsqlBegin
<1>6. CASE Osm2pgsqlEnd(r)
  <2> DEFINE new == [Staging EXCEPT !.built = Built(Staging, "import", {})]
  <2>1. Result("osm2pgsql_running", "noding", new)
    BY <1>1
  <2>2. Holds(r, Raw, {}) /\ Staging \in Schema
    BY <1>0, <1>4, <1>6, <2>1 DEF Osm2pgsqlEnd, Result, StageHolds, Holds
  <2>3. new \in Schema /\ new.loader = r /\ new.tables = Raw /\ new.built = {"import"}
    BY <2>2 DEF Holds, Schema, Built, Stage
  <2>4. new # Absent
    BY <2>3, AbsentAssumption
  <2>5. StageHolds(r)'
    BY <1>6, <2>1, <2>3, <2>4
       DEF Osm2pgsqlEnd, Result, StageHolds, Holds, Finished
  <2>6. QED
    BY <1>6, <2>5, StagewiseSafe DEF Osm2pgsqlEnd
<1>7. CASE NodingBegin(r)
  <2> DEFINE new == [Staging EXCEPT !.built = @ \intersect {"import"},
                       !.tables = @ \union {"ways", "ways_vertices_pgr"}]
  <2>1. Result("noding", "noding_running", new)
    BY <1>1
  <2>2. Holds(r, Raw, {"import"}) /\ Staging \in Schema
    BY <1>0, <1>4, <1>7, <2>1 DEF NodingBegin, Result, StageHolds, Holds
  <2>3. new \in Schema /\ new.loader = r /\ new.tables = Table /\ new.built = {"import"}
    BY <2>2 DEF Holds, Schema, Raw, Table
  <2>4. new # Absent
    BY <2>3, AbsentAssumption
  <2>5. StageHolds(r)'
    BY <1>7, <2>1, <2>3, <2>4
       DEF NodingBegin, Result, StageHolds, Holds, Finished
  <2>6. QED
    BY <1>7, <2>5, StagewiseSafe DEF NodingBegin
<1>8. CASE NodingEnd(r)
  <2> DEFINE new == [Staging EXCEPT !.built = Built(Staging, "network", {"import"}),
                       !.tables = @ \ {"ways_import"}]
  <2>1. Result("noding_running", "cost", new)
    BY <1>1
  <2>2. Holds(r, Table, {"import"}) /\ Staging \in Schema
    BY <1>0, <1>4, <1>8, <2>1 DEF NodingEnd, Result, StageHolds, Holds
  <2>3. /\ new \in Schema /\ new.loader = r
        /\ new.tables = Table \ {"ways_import"}
        /\ new.built = {"import", "network"}
    BY <2>2 DEF Holds, Schema, Built, Stage
  <2>4. new # Absent
    BY <2>3, AbsentAssumption
  <2>5. StageHolds(r)'
    BY <1>8, <2>1, <2>3, <2>4
       DEF NodingEnd, Result, StageHolds, Holds, Finished
  <2>6. QED
    BY <1>8, <2>5, StagewiseSafe DEF NodingEnd
<1>9. CASE ApplyCost(r)
  <2> DEFINE new == IF "cost" \in Hooks
                    THEN [Staging EXCEPT !.built = Built(Staging, "cost", {"network"})]
                    ELSE Staging
  <2>1. Result("cost", "snap", new)
    BY <1>1
  <2>2. /\ Holds(r, Table \ {"ways_import"}, {"import", "network"})
        /\ Staging \in Schema
    BY <1>0, <1>4, <1>9, <2>1 DEF ApplyCost, Result, StageHolds, Holds
  <2>3. /\ new \in Schema /\ new.loader = r
        /\ new.tables = Table \ {"ways_import"}
        /\ new.built = {"import", "network"} \union (Hooks \intersect {"cost"})
    BY <2>2 DEF Holds, Schema, Built, Stage, Hook
  <2>4. new # Absent
    BY <2>3, AbsentAssumption
  <2>5. StageHolds(r)'
    BY <1>9, <2>1, <2>3, <2>4
       DEF ApplyCost, Result, StageHolds, Holds, Finished
  <2>6. QED
    BY <1>9, <2>5, StagewiseSafe DEF ApplyCost
<1>10. CASE SnapFacilities(r)
  <2> DEFINE new == IF "snap" \in Hooks
                    THEN [Staging EXCEPT !.built = Built(Staging, "snap", {"import", "network"}),
                                         !.fk    = @ \/ ~FkNameTaken]
                    ELSE Staging
  <2>1. Result("snap", "vacuum", new)
    BY <1>1
  <2>2. /\ Holds(r, Table \ {"ways_import"},
                 {"import", "network"} \union (Hooks \intersect {"cost"}))
        /\ Staging \in Schema
    BY <1>0, <1>4, <1>10, <2>1 DEF SnapFacilities, Result, StageHolds, Holds
  <2>3. /\ new.loader = r
        /\ new.tables = Table \ {"ways_import"}
        /\ new.built = {"import", "network"} \union Hooks
    BY <2>2, HooksAssumption DEF Holds, Schema, Built, Stage, Hook
  <2>4. new # Absent
    <3>1. (Staging.fk \/ ~FkNameTaken) \in BOOLEAN
      OBVIOUS
    <3>2. new \in Schema
      BY <2>2, <3>1 DEF Schema, Built, Stage, Hook
    <3>3. QED
      BY <3>2, AbsentAssumption
  <2>5. StageHolds(r)'
    BY <1>10, <2>1, <2>3, <2>4
       DEF SnapFacilities, Result, StageHolds, Holds, Finished
  <2>6. QED
    BY <1>10, <2>5, StagewiseSafe DEF SnapFacilities
<1>11. CASE VacuumStaging(r)
  <2>1. Result("vacuum", "count", Staging)
    BY <1>1
  <2>2. StageHolds(r)'
    BY <1>0, <1>11, <2>1 DEF VacuumStaging, Result, StageHolds, Holds, Finished
  <2>3. QED
    BY <1>11, <2>2, StagewiseSafe DEF VacuumStaging
<1>12. QED
  BY <1>2, <1>3, <1>5, <1>6, <1>7, <1>8, <1>9, <1>10, <1>11

(* The transaction of swap_schema.sql promotes what the stages finished    *)
(* and retires what was live, which :live_exists described correctly.      *)
LEMMA SwapTransactionSafe ==
  ASSUME Safe, TypeOK', NEW r \in Runs, NEW to \in {"flush", "done"},
         pc[r] = "swap", SwapTransaction(r), Goto(r, to),
         UNCHANGED <<job, liveExists>>,
         \A q \in Runs : q # r => exitCode'[q] = exitCode[q],
         to = "done" => exitCode'[r] = 5
  PROVE  Safe'
<1>1. /\ Holds(r, Table \ {"ways_import"}, {"import", "network"} \union Hooks)
      /\ liveExists[r] = LiveHasWays
  BY DEF Safe, StagingMatchesStage, StageHolds, Finished, LiveExistsIsFresh
<1>2. /\ db'["routing"] = Staging
      /\ db'["routing_next"] = Absent
      /\ db'["routing_prev"] = IF LiveHasWays THEN Live ELSE db["routing_prev"]
      /\ db'["routing_failed"] = db["routing_failed"]
      /\ etlRuns' = [etlRuns EXCEPT ![job[r].pbf] = r]
  BY <1>1 DEF SwapTransaction, Safe, TypeOK, Name
<1>3. \A q \in Runs : q # r => pc'[q] = pc[q] /\ ~Active(q) /\ ~Active(q)'
  <2>1. Active(r)
    BY DEF Active, Doing, Swap
  <2>2. QED
    BY <2>1, OthersStopped DEF Goto, Safe, TypeOK, Active
<1>4. pc'[r] = to
  BY DEF Goto, Safe, TypeOK
<1>5. Whole(Staging) /\ Staging.loader = r
  BY <1>1 DEF Holds, Whole
<1>6. LiveHasWays' /\ Live' = Staging
  BY <1>1, <1>2 DEF LiveHasWays, Has, Live, Holds, Table
<1>7. OneAtATime'
  BY <1>3 DEF OneAtATime
<1>8. StagingMatchesStage'
  <2>1. ASSUME NEW q \in Runs PROVE StageHolds(q)'
    BY <1>3, <1>4 DEF StageHolds, Active, Doing, Build, Swap, Finished
  <2>2. QED
    BY <2>1 DEF StagingMatchesStage
<1>9. LiveExistsIsFresh'
  BY <1>3, <1>4 DEF LiveExistsIsFresh, Active, Doing, Swap
<1>10. PublishedWhole' /\ PrevNeedsLive'
  BY <1>2, <1>5, <1>6 DEF Safe, PublishedWhole, PrevNeedsLive, Whole, Live
<1>11. /\ job[r].pbf \in Pbfs /\ etlRuns'[job[r].pbf] = r
       /\ \A p \in Pbfs : etlRuns[p] # NoRow => etlRuns'[p] # NoRow
       /\ \A p \in Pbfs : etlRuns'[p] \in {etlRuns[p], r}
  BY <1>2, NamesAssumption DEF Safe, TypeOK
<1>12. EveryNetworkRecorded'
  <2>1. Recorded("routing")'
    BY <1>2, <1>5, <1>11, NamesAssumption DEF Recorded
  <2>2. ASSUME NEW n \in {"routing", "routing_prev", "routing_failed"},
               Recorded(n), db[n].loader \in Runs
        PROVE  etlRuns'[job'[db[n].loader].pbf] # NoRow
    BY <1>11, <2>2 DEF Recorded, Safe, TypeOK
  <2>3. db'["routing_prev"] # Absent => Recorded("routing_prev")'
    BY <1>2, <2>2
       DEF Safe, EveryNetworkRecorded, PublishedWhole, Whole, Recorded, Live
  <2>4. db'["routing_failed"] # Absent => Recorded("routing_failed")'
    BY <1>2, <2>2
       DEF Safe, EveryNetworkRecorded, PublishedWhole, Whole, Recorded
  <2>5. QED
    BY <2>1, <2>3, <2>4 DEF EveryNetworkRecorded
<1>13. PublishersAreThrough'
  <2>1. ASSUME NEW q \in Runs, q # r, PublishedBy(q)' PROVE PublishedBy(q)
    <3>1. CASE \E p \in Pbfs : etlRuns'[p] = q
      BY <1>11, <2>1, <3>1 DEF PublishedBy
    <3>2. CASE \E n \in {"routing", "routing_prev", "routing_failed"} :
                 db'[n] # Absent /\ db'[n].loader = q
      BY <1>2, <1>5, <2>1, <3>2 DEF PublishedBy, Live, LiveHasWays, Has
    <3>3. QED
      BY <2>1, <3>1, <3>2 DEF PublishedBy
  <2>2. etlRuns'[job'[r].pbf] # NoRow
    BY <1>11, NamesAssumption
  <2>3. ASSUME NEW q \in Runs, q # r, etlRuns[job[q].pbf] # NoRow
        PROVE  etlRuns'[job'[q].pbf] # NoRow
    BY <1>11, <2>3 DEF Safe, TypeOK
  <2>4. QED
    BY <1>3, <1>4, <2>1, <2>2, <2>3 DEF Safe, PublishersAreThrough
<1>14. QED
  BY <1>7, <1>8, <1>9, <1>10, <1>12, <1>13 DEF Safe

LEMMA RollbackSafe ==
  ASSUME Safe, TypeOK', Rollback
  PROVE  Safe'
<1>1. /\ db'["routing"] = db["routing_prev"]
      /\ db'["routing_prev"] = Absent
      /\ db'["routing_failed"] = Live
      /\ db'["routing_next"] = db["routing_next"]
      /\ db["routing_prev"] # Absent
      /\ UNCHANGED <<etlRuns, pc, job, exitCode, liveExists>>
  BY DEF Rollback, local, Safe, TypeOK, Name
<1>2. LiveHasWays /\ Whole(Live) /\ Whole(db["routing_prev"])
  BY <1>1 DEF Safe, PrevNeedsLive, PublishedWhole
<1>3. LiveHasWays' /\ Live' = db["routing_prev"]
  BY <1>1, <1>2 DEF LiveHasWays, Has, Live, Whole, Table
<1>4. OneAtATime'
  BY <1>1 DEF Safe, OneAtATime, Active
<1>5. StagingMatchesStage'
  BY <1>1 DEF Safe, StagingMatchesStage, StageHolds, Holds, Staging
<1>6. LiveExistsIsFresh'
  BY <1>1, <1>2, <1>3 DEF Safe, LiveExistsIsFresh
<1>7. PublishedWhole' /\ PrevNeedsLive' /\ EveryNetworkRecorded'
  BY <1>1, <1>2, <1>3
     DEF Safe, PublishedWhole, PrevNeedsLive, EveryNetworkRecorded, Recorded, Whole, Live
<1>8. PublishersAreThrough'
  BY <1>1 DEF Safe, PublishersAreThrough, PublishedBy, Live, LiveHasWays, Has
<1>9. QED
  BY <1>4, <1>5, <1>6, <1>7, <1>8 DEF Safe

(* The steps that touch no schema: bookkeeping, failures and deaths.       *)
LEMMA OtherStepSafe ==
  ASSUME Safe, TypeOK', ~Overlap, NEW r \in Runs,
         \/ Start(r) \/ RejectConfig(r)
         \/ SkipLoaded(r) \/ CheckLoaded(r) \/ PgrVersionOk(r) \/ PgrTooOld(r)
         \/ CountStaging(r) \/ DetectLive(r)
         \/ FlushDone(r) \/ FlushFails(r) \/ Fail(r) \/ Crash(r)
  PROVE  Safe'
<1> USE DEF Goto, Exit
<1>0. /\ pc \in [Runs -> Doing \union Stop]
      /\ exitCode \in [Runs -> {0, 1, 2, 4, 5}]
      /\ liveExists \in [Runs -> BOOLEAN]
      /\ job[r].pbf \in Pbfs
  BY DEF Safe, TypeOK
<1>1. \A q \in Runs : q # r => ~Active(q)
  <2>1. CASE Active(r)
    BY <2>1, OthersStopped DEF Safe
  <2>2. CASE ~Active(r)
    BY <2>2 DEF MayStart, Start, RejectConfig, SkipLoaded, CheckLoaded, PgrVersionOk,
       PgrTooOld, CountStaging, DetectLive, FlushDone, FlushFails, Fail, Crash,
       Active, Doing, Build, Swap
  <2>3. QED
    BY <2>1, <2>2
<1>2. /\ PublishedBy(r) =>
           \/ pc[r] \in {"flush", "crashed"}
           \/ pc[r] = "done" /\ exitCode[r] \in {0, 5}
      /\ pc[r] = "flush" => etlRuns[job[r].pbf] # NoRow
      /\ StageHolds(r)
  BY DEF Safe, PublishersAreThrough, StagingMatchesStage
<1>3. CASE Start(r)
  <2>1. StageHolds(r)'
    BY <1>0, <1>3 DEF Start, StageHolds, Finished
  <2>2. QED
    BY <1>0, <1>1, <1>2, <1>3, <2>1, LocalSafe DEF Start, MayStart
<1>4. CASE RejectConfig(r)
  <2>1. StageHolds(r)'
    BY <1>0, <1>4 DEF RejectConfig, StageHolds, Finished
  <2>2. pc[r] \notin {"flush", "crashed", "done"}
    BY <1>4 DEF RejectConfig, MayStart
  <2>3. exitCode'[r] # 0
    BY <1>0, <1>4 DEF RejectConfig
  <2>4. QED
    BY <1>0, <1>1, <1>2, <1>4, <2>1, <2>2, <2>3, LocalSafe DEF RejectConfig
<1>5. CASE SkipLoaded(r)
  <2>1. StageHolds(r)'
    BY <1>0, <1>5 DEF SkipLoaded, StageHolds, Finished
  <2>2. QED
    BY <1>0, <1>1, <1>2, <1>5, <2>1, LocalSafe DEF SkipLoaded, AlreadyLoaded
<1>6. CASE CheckLoaded(r)
  <2>1. StageHolds(r)'
    BY <1>0, <1>6 DEF CheckLoaded, StageHolds, Finished
  <2>2. QED
    BY <1>0, <1>1, <1>2, <1>6, <2>1, LocalSafe DEF CheckLoaded
<1>7. CASE PgrVersionOk(r)
  <2>1. StageHolds(r)'
    BY <1>0, <1>7 DEF PgrVersionOk, StageHolds, Finished
  <2>2. QED
    BY <1>0, <1>1, <1>2, <1>7, <2>1, LocalSafe DEF PgrVersionOk
<1>8. CASE PgrTooOld(r)
  <2>1. StageHolds(r)'
    BY <1>0, <1>8 DEF PgrTooOld, StageHolds, Finished
  <2>2. pc[r] \notin {"flush", "crashed", "done"}
    BY <1>8 DEF PgrTooOld
  <2>3. exitCode'[r] # 0
    BY <1>0, <1>8 DEF PgrTooOld
  <2>4. QED
    BY <1>0, <1>1, <1>2, <1>8, <2>1, <2>2, <2>3, LocalSafe DEF PgrTooOld
<1>9. CASE CountStaging(r)
  <2>1. StageHolds(r)'
    BY <1>0, <1>2, <1>9 DEF CountStaging, StageHolds, Holds, Staging, Finished
  <2>2. QED
    BY <1>0, <1>1, <1>2, <1>9, <2>1, LocalSafe DEF CountStaging
<1>10. CASE DetectLive(r)
  <2>1. StageHolds(r)'
    BY <1>0, <1>2, <1>10 DEF DetectLive, StageHolds, Holds, Staging, Finished
  <2>2. QED
    BY <1>0, <1>1, <1>2, <1>10, <2>1, LocalSafe DEF DetectLive
<1>11. CASE FlushDone(r)
  <2>1. StageHolds(r)'
    BY <1>0, <1>11 DEF FlushDone, StageHolds, Finished
  <2>2. QED
    BY <1>0, <1>1, <1>2, <1>11, <2>1, LocalSafe DEF FlushDone
<1>12. CASE FlushFails(r)
  <2>1. StageHolds(r)'
    BY <1>0, <1>12 DEF FlushFails, StageHolds, Finished
  <2>2. QED
    BY <1>0, <1>1, <1>2, <1>12, <2>1, LocalSafe DEF FlushFails
<1>13. CASE Fail(r)
  <2>1. StageHolds(r)'
    BY <1>0, <1>13 DEF Fail, StageHolds, Finished
  <2>2. pc[r] \notin {"flush", "crashed", "done"} /\ FailureCode(pc[r]) # 0
    BY <1>13 DEF Fail, FailureCode, Doing, Build, Swap
  <2>3. exitCode'[r] # 0
    BY <1>0, <1>13, <2>2 DEF Fail
  <2>4. QED
    BY <1>0, <1>1, <1>2, <1>13, <2>1, <2>2, <2>3, LocalSafe DEF Fail
<1>14. CASE Crash(r)
  <2>1. StageHolds(r)'
    BY <1>0, <1>14 DEF Crash, StageHolds, Finished
  <2>2. QED
    BY <1>0, <1>1, <1>2, <1>14, <2>1, LocalSafe DEF Crash
<1>15. QED
  BY <1>3, <1>4, <1>5, <1>6, <1>7, <1>8, <1>9, <1>10, <1>11, <1>12, <1>13, <1>14

LEMMA StepSafe == ~Overlap => (Safe /\ [Next]_vars => Safe')
<1> SUFFICES ASSUME ~Overlap, Safe, [Next]_vars
             PROVE  Safe'
  OBVIOUS
<1>1. TypeOK'
  BY StepType DEF Safe
<1>2. ASSUME NEW r \in Runs, Start(r)
      PROVE  Safe'
  BY <1>1, <1>2, OtherStepSafe
<1>3. ASSUME NEW r \in Runs, Advance(r)
      PROVE  Safe'
  <2>1. CASE SwapCommit(r)
    BY <1>1, <2>1, SwapTransactionSafe DEF SwapCommit
  <2>2. CASE ~SwapCommit(r)
    BY <1>1, <1>3, <2>2, OtherStepSafe, BuildStepSafe DEF Advance
  <2>3. QED
    BY <2>1, <2>2
<1>4. ASSUME NEW r \in Runs, Disturb(r)
      PROVE  Safe'
  <2>1. CASE SwapAckLost(r)
    <3>1. exitCode'[r] = 5 /\ \A q \in Runs : q # r => exitCode'[q] = exitCode[q]
      BY <2>1 DEF SwapAckLost, MakesStale, Exit, Safe, TypeOK
    <3>2. QED
      BY <1>1, <2>1, <3>1, SwapTransactionSafe DEF SwapAckLost, Exit
  <2>2. CASE ~SwapAckLost(r)
    BY <1>1, <1>4, <2>2, OtherStepSafe DEF Disturb
  <2>3. QED
    BY <2>1, <2>2
<1>5. CASE Rollback
  BY <1>1, <1>5, RollbackSafe
<1>6. CASE UNCHANGED vars
  BY <1>1, <1>6 DEF vars, local, Safe, OneAtATime, Active, StagingMatchesStage,
     StageHolds, Holds, Staging, LiveExistsIsFresh, PublishedWhole, Whole, Live,
     LiveHasWays, Has, PrevNeedsLive, EveryNetworkRecorded, Recorded,
     PublishersAreThrough, PublishedBy
<1>7. QED
  BY <1>2, <1>3, <1>4, <1>5, <1>6 DEF Next

LEMMA InitSafe == Init => Safe
<1> SUFFICES ASSUME Init PROVE Safe
  OBVIOUS
<1>1. TypeOK
  BY InitType
<1>2. /\ \A r \in Runs : pc[r] = "idle"
      /\ \A n \in Name : n # "routing" => db[n] = Absent
      /\ \A p \in Pbfs : etlRuns[p] = NoRow
      /\ Live # Absent => Live.loader = Baseline /\ Live.tables = {"facilities"}
  BY DEF Init, Live, Name, AlembicShape
<1>3. ~LiveHasWays
  BY <1>2 DEF LiveHasWays, Has, Live
<1>4. \A r \in Runs : ~Active(r) /\ StageHolds(r)
  BY <1>2 DEF Active, Doing, Build, Swap, StageHolds, Finished
<1>5. OneAtATime /\ StagingMatchesStage /\ LiveExistsIsFresh
  BY <1>2, <1>4 DEF OneAtATime, StagingMatchesStage, LiveExistsIsFresh
<1>6. PublishedWhole /\ PrevNeedsLive /\ EveryNetworkRecorded
  BY <1>2, <1>3 DEF PublishedWhole, PrevNeedsLive, EveryNetworkRecorded, Name
<1>7. PublishersAreThrough
  BY <1>2, NamesAssumption DEF PublishersAreThrough, PublishedBy, Live, Name
<1>8. QED
  BY <1>1, <1>5, <1>6, <1>7 DEF Safe

(***************************************************************************)
(* As long as the operator runs one load at a time, the strengthened       *)
(* invariant holds through every failure, crash, lost acknowledgement,     *)
(* refused lock and rollback.                                              *)
(***************************************************************************)
THEOREM SequentialRunsSafe == ~Overlap => (Spec => []Safe)
<1> SUFFICES ASSUME ~Overlap PROVE Spec => []Safe
  OBVIOUS
<1>1. Init => Safe
  BY InitSafe
<1>2. Safe /\ [Next]_vars => Safe'
  BY StepSafe
<1>3. QED
  BY <1>1, <1>2, PTL DEF Spec

(***************************************************************************)
(* No schema a query or a rollback reaches ever holds half-built tables.   *)
(***************************************************************************)
THEOREM LiveNeverHalfBuilt == ~Overlap => (Spec => []PublishedWhole)
<1> SUFFICES ASSUME ~Overlap PROVE Spec => []PublishedWhole
  OBVIOUS
<1>0. Spec => []Safe
  BY SequentialRunsSafe
<1>1. Safe => PublishedWhole
  BY DEF Safe
<1>2. QED
  BY <1>0, <1>1, PTL

(***************************************************************************)
(* Data is never live without a provenance row for its PBF.                *)
(***************************************************************************)
THEOREM ProvenanceNeverMissing == ~Overlap => (Spec => []LiveHasProvenance)
<1> SUFFICES ASSUME ~Overlap PROVE Spec => []LiveHasProvenance
  OBVIOUS
<1>0. Spec => []Safe
  BY SequentialRunsSafe
<1>1. Safe => LiveHasProvenance
  BY DEF Safe, EveryNetworkRecorded, Recorded, LiveHasProvenance, Live
<1>2. QED
  BY <1>0, <1>1, PTL

(***************************************************************************)
(* Exit statuses 1, 2 and 4 mean nothing was published, 0 that the PBF is  *)
(* on record.                                                              *)
(***************************************************************************)
THEOREM ExitCodesAreTruthful == ~Overlap => (Spec => []ExitCodeTruthful)
<1> SUFFICES ASSUME ~Overlap PROVE Spec => []ExitCodeTruthful
  OBVIOUS
<1>0. Spec => []Safe
  BY SequentialRunsSafe
<1>1. Safe => ExitCodeTruthful
  BY DEF Safe, PublishersAreThrough, ExitCodeTruthful
<1>2. QED
  BY <1>0, <1>1, PTL

(***************************************************************************)
(* No stage ever trips over what an earlier run left behind.               *)
(***************************************************************************)
THEOREM LeftoversAreHarmless == Spec => []LeftoversNeverBlock
<1>1. Safe => LeftoversNeverBlock
  <2> SUFFICES ASSUME Safe, NEW r \in Runs PROVE Ready(r)
    BY DEF LeftoversNeverBlock
  <2>1. StageHolds(r) /\ (pc[r] = "swap" => liveExists[r] = LiveHasWays)
    BY DEF Safe, StagingMatchesStage, LiveExistsIsFresh
  <2>2. LiveHasWays => Has("routing", {"ways", "ways_vertices_pgr"})
    BY DEF Safe, PublishedWhole, Whole, Live, LiveHasWays, Has, Table
  <2>3. QED
    BY <2>1, <2>2 DEF Ready, StageHolds, Holds, Finished, Has, Staging, Raw, Table
<1>2. CASE Overlap
  <2>1. LeftoversNeverBlock
    BY <1>2 DEF LeftoversNeverBlock
  <2>2. QED
    BY <2>1, PTL
<1>3. CASE ~Overlap
  <2>1. Spec => []Safe
    BY <1>3, SequentialRunsSafe
  <2>2. QED
    BY <1>1, <2>1, PTL
<1>4. QED
  BY <1>2, <1>3

(***************************************************************************)
(* What is live is retired intact or put back, never lost: of all steps    *)
(* only the swap and the rollback touch it.                                *)
(***************************************************************************)
LEMMA StepKeepsLive ==
  ASSUME Safe, Safe', [Next]_vars, Live' # Live, LiveHasWays
  PROVE  \/ db'["routing_prev"] = Live
         \/ db'["routing_failed"] = Live /\ Live' = db["routing_prev"]
<1> USE DEF Safe, TypeOK, Name, Live
<1>1. ASSUME NEW r \in Runs, SwapTransaction(r), pc[r] = "swap"
      PROVE  db'["routing_prev"] = Live
  BY <1>1 DEF SwapTransaction, LiveExistsIsFresh
<1>2. CASE Rollback
  BY <1>2 DEF Rollback
<1>3. ASSUME NEW r \in Runs, NEW from, NEW to, NEW schema,
             Stagewise(r, from, to, schema)
      PROVE  FALSE
  BY <1>3 DEF Stagewise, SetStaging
<1>4. QED
  BY <1>1, <1>2, <1>3 DEF Next, Advance, Disturb, vars, local, Start, RejectConfig,
     SkipLoaded, CheckLoaded, PgrVersionOk, PgrTooOld, DropStaging, CreateStaging,
     Osm2pgsqlBegin, Osm2pgsqlEnd, NodingBegin, NodingEnd, ApplyCost, SnapFacilities,
     VacuumStaging, CountStaging, DetectLive, SwapCommit, SwapAckLost, MakesStale, FlushDone,
     FlushFails, Fail, Crash

\* Without overlapping loads, whatever replaces the live network either retires
\* it intact to routing_prev or puts routing_prev back (swap_schema.sql and the
\* operator's rollback).
THEOREM LiveNeverLost == ~Overlap => (Spec => LiveIsNeverLost)
<1> SUFFICES ASSUME ~Overlap PROVE Spec => LiveIsNeverLost
  OBVIOUS
<1>0. Spec => []Safe
  BY SequentialRunsSafe
<1>1. Safe /\ Safe' /\ [Next]_vars =>
        [Live' # Live /\ LiveHasWays =>
           \/ db'["routing_prev"] = Live
           \/ db'["routing_failed"] = Live /\ Live' = db["routing_prev"]]_db
  BY StepKeepsLive
<1>2. QED
  BY <1>0, <1>1, PTL DEF Spec, LiveIsNeverLost

-----------------------------------------------------------------------------
(***************************************************************************)
(* The loader implements NetworkPublication.                               *)
(***************************************************************************)
LEMMA NetworkInLive ==
  ASSUME Safe
  PROVE  NetworkIn("routing") = IF LiveHasWays THEN Live.loader ELSE Absent
BY DEF Safe, NetworkIn, PublishedWhole, LiveHasWays, Live

LEMMA NetworkInPrev ==
  ASSUME Safe
  PROVE  NetworkIn("routing_prev") =
           IF db["routing_prev"] # Absent THEN db["routing_prev"].loader ELSE Absent
BY DEF Safe, NetworkIn, PublishedWhole, Has, Whole, Table

(* The same of the next state.                                             *)
LEMMA NetworkInNext ==
  ASSUME Safe'
  PROVE  /\ NetworkIn("routing")' = IF LiveHasWays' THEN Live'.loader ELSE Absent
         /\ NetworkIn("routing_prev")' =
              IF db'["routing_prev"] # Absent THEN db'["routing_prev"].loader ELSE Absent
BY DEF Safe, NetworkIn, PublishedWhole, LiveHasWays, Live, Has, Whole, Table

LEMMA SwapPublishes ==
  ASSUME Safe, Safe', NEW r \in Runs, pc[r] = "swap", SwapTransaction(r),
         UNCHANGED job
  PROVE  Publication!Publish(r, job[r].pbf)
<1>1. /\ Holds(r, Table \ {"ways_import"}, {"import", "network"} \union Hooks)
      /\ liveExists[r] = LiveHasWays
      /\ ~PublishedBy(r)
  BY DEF Safe, StagingMatchesStage, StageHolds, Finished, LiveExistsIsFresh,
         PublishersAreThrough
<1>2. /\ Live' = Staging
      /\ db'["routing_prev"] = IF LiveHasWays THEN Live ELSE db["routing_prev"]
      /\ etlRuns' = [etlRuns EXCEPT ![job[r].pbf] = r]
      /\ job[r].pbf \in Pbfs
  BY <1>1 DEF SwapTransaction, Safe, TypeOK, Name, Live
<1>3. LiveHasWays'
  BY <1>1, <1>2 DEF LiveHasWays, Has, Live, Holds, Table
<1>4. NetworkIn("routing")' = r
  BY <1>1, <1>2, <1>3, NetworkInNext DEF Holds
<1>5. NetworkIn("routing_prev")' = NetworkIn("routing")
  <2>1. CASE LiveHasWays
    BY <1>2, <2>1, NetworkInLive, NetworkInNext DEF LiveHasWays, Has, Live
  <2>2. CASE ~LiveHasWays
    BY <1>2, <2>2, NetworkInLive, NetworkInNext DEF Safe, PrevNeedsLive
  <2>3. QED
    BY <2>1, <2>2
<1>6. r \notin {NetworkIn("routing"), NetworkIn("routing_prev")}
  BY <1>1, NetworkInLive, NetworkInPrev, NamesAssumption
     DEF PublishedBy, Live, LiveHasWays, Has
<1>7. {p \in Pbfs : etlRuns'[p] # NoRow}
        = {p \in Pbfs : etlRuns[p] # NoRow} \union {job[r].pbf}
  BY <1>2, NamesAssumption DEF Safe, TypeOK
<1>8. QED
  BY <1>4, <1>5, <1>6, <1>7 DEF Publication!Publish

LEMMA RollbackPutsBack ==
  ASSUME Safe, Safe', Rollback
  PROVE  Publication!PutBack
<1>1. /\ Live' = db["routing_prev"] /\ db'["routing"] = db["routing_prev"]
      /\ db'["routing_prev"] = Absent
      /\ db["routing_prev"] # Absent
      /\ UNCHANGED etlRuns
  BY DEF Rollback, Safe, TypeOK, Name, Live
<1>2. db["routing_prev"].loader \in Runs /\ "ways" \in db["routing_prev"].tables
  BY <1>1 DEF Safe, PublishedWhole, Whole, Table
<1>3. NetworkIn("routing")' = NetworkIn("routing_prev")
  BY <1>1, <1>2, NetworkInNext, NetworkInPrev DEF LiveHasWays, Has
<1>4. NetworkIn("routing_prev")' = Absent /\ NetworkIn("routing_prev") # Absent
  BY <1>1, <1>2, NetworkInNext, NetworkInPrev, NamesAssumption
<1>5. QED
  BY <1>1, <1>3, <1>4 DEF Publication!PutBack

(* Every other step leaves the abstract state alone.                       *)
LEMMA QuietStep ==
  ASSUME Safe, Safe', db'["routing"] = db["routing"],
         db'["routing_prev"] = db["routing_prev"], UNCHANGED etlRuns
  PROVE  UNCHANGED Publication!pubVars
BY DEF Publication!pubVars, NetworkIn, Has, Whole

LEMMA StepRefines ==
  ASSUME Safe, Safe', [Next]_vars
  PROVE  [Publication!PubNext]_Publication!pubVars
<1> USE DEF Name, Safe, TypeOK
<1>1. ASSUME NEW r \in Runs, SwapCommit(r) \/ SwapAckLost(r)
      PROVE  Publication!PubNext
  <2>1. pc[r] = "swap" /\ SwapTransaction(r) /\ UNCHANGED job
    BY <1>1 DEF SwapCommit, SwapAckLost
  <2>2. job[r].pbf \in Pbfs
    OBVIOUS
  <2>3. Publication!Publish(r, job[r].pbf)
    BY <2>1, SwapPublishes
  <2>4. \E n \in Runs, p \in Pbfs : Publication!Publish(n, p)
    BY <2>2, <2>3 DEF Publication!Publish
  <2>5. QED
    BY <2>4 DEF Publication!PubNext
<1>2. CASE Rollback
  BY <1>2, RollbackPutsBack DEF Publication!PubNext
<1>3. ASSUME NEW r \in Runs, NEW from, NEW to, NEW schema,
             Stagewise(r, from, to, schema)
      PROVE  UNCHANGED Publication!pubVars
  BY <1>3, QuietStep DEF Stagewise, SetStaging
<1>4. CASE UNCHANGED <<db, etlRuns>>
  BY <1>4, QuietStep
<1>5. QED
  BY <1>1, <1>2, <1>3, <1>4 DEF Next, Advance, Disturb, vars, local, Start,
     RejectConfig, SkipLoaded, CheckLoaded, PgrVersionOk, PgrTooOld, DropStaging,
     CreateStaging, Osm2pgsqlBegin, Osm2pgsqlEnd, NodingBegin, NodingEnd, ApplyCost,
     SnapFacilities, VacuumStaging, CountStaging, DetectLive, FlushDone, FlushFails,
     Fail, Crash

LEMMA InitRefines == Init => Publication!PubInit
<1> SUFFICES ASSUME Init PROVE Publication!PubInit
  OBVIOUS
<1>1. Safe
  BY InitSafe
<1>2. /\ db["routing_prev"] = Absent /\ \A p \in Pbfs : etlRuns[p] = NoRow
      /\ ~LiveHasWays
  BY DEF Init, Name, AlembicShape, LiveHasWays, Has
<1>3. QED
  BY <1>1, <1>2, NetworkInLive, NetworkInPrev DEF Publication!PubInit

(***************************************************************************)
(* What is live is nothing or a whole network, replaced in one step that   *)
(* also records it, whatever happens to the run around that step.          *)
(***************************************************************************)
THEOREM ImplementsPublication == ~Overlap => (Spec => PublishesAtomically)
<1> SUFFICES ASSUME ~Overlap PROVE Spec => PublishesAtomically
  OBVIOUS
<1>0. Spec => []Safe
  BY SequentialRunsSafe
<1>1. Safe /\ Safe' /\ [Next]_vars => [Publication!PubNext]_Publication!pubVars
  BY StepRefines
<1>2. QED
  BY <1>0, <1>1, InitRefines, PTL DEF Spec, PublishesAtomically, Publication!PubSpec

-----------------------------------------------------------------------------
(***************************************************************************)
(* What GET /v1/etl-status reports, and what the flush leaves.  The times  *)
(* that _swap reads grow from one load to the next, so the row of the load *)
(* being served is the newest until an operator rolls back.                *)
(***************************************************************************)
Counted == {"detect_live", "swap"}

Row(p) == etlRuns[p] # NoRow

ClocksAgree ==
  /\ \A r \in Runs : completedAt[r] <= clock
  /\ \A r \in Runs : pc[r] \in Counted =>
       /\ counted[r] = r
       /\ \A p \in Pbfs : Row(p) => completedAt[etlRuns[p]] < completedAt[r]

LiveIsNewest ==
  db["routing_failed"] = Absent =>
    \A p \in Pbfs : Row(p) =>
      /\ LiveHasWays /\ counted[Live.loader] = Live.loader
      /\ etlRuns[job[Live.loader].pbf] = Live.loader
      /\ etlRuns[p] # Live.loader =>
           completedAt[etlRuns[p]] < completedAt[Live.loader]

FlushedIsDone == \A r \in Runs : flushed[r] => pc[r] = "done"

Informed == ClocksAgree /\ LiveIsNewest /\ FlushedIsDone /\ FlushFollowsCommit

(* What all steps but four have in common.                                 *)
Quiet ==
  /\ UNCHANGED <<etlRuns, clock, flushPending, counted, completedAt, flushed, job>>
  /\ \A n \in {"routing", "routing_failed"} : db'[n] = db[n]
  /\ \A q \in Runs : /\ pc'[q] \in Counted => pc[q] \in Counted
                     /\ pc[q] = "done" => pc'[q] = "done"

LEMMA InformingSteps ==
  ASSUME Safe, [Next]_vars
  PROVE  \/ \E r \in Runs : \/ SwapCommit(r) \/ SwapAckLost(r)
                            \/ CountStaging(r) \/ FlushDone(r)
         \/ Rollback \/ Quiet
<1> USE DEF Counted
<1>0. /\ pc \in [Runs -> Doing \union Stop]
      /\ db \in [Name -> Schema \union {Absent}]
  BY DEF Safe, TypeOK
<1>1. ASSUME NEW r \in Runs, NEW from \in Build, NEW to \in Build, NEW schema,
             Stagewise(r, from, to, schema)
      PROVE  Quiet
  BY <1>0, <1>1 DEF Stagewise, SetStaging, Goto, Name, Build, Quiet
<1>2. ASSUME NEW r \in Runs,
             \/ DropStaging(r) \/ CreateStaging(r) \/ Osm2pgsqlBegin(r)
             \/ Osm2pgsqlEnd(r) \/ NodingBegin(r) \/ NodingEnd(r) \/ ApplyCost(r)
             \/ SnapFacilities(r) \/ VacuumStaging(r)
      PROVE  Quiet
  <2>1. {"drop_staging", "create_staging", "osm2pgsql", "osm2pgsql_running",
         "noding", "noding_running", "cost", "snap", "vacuum", "count"} \subseteq Build
    BY DEF Build
  <2>2. QED
    BY <1>1, <1>2, <2>1 DEF DropStaging, CreateStaging, Osm2pgsqlBegin, Osm2pgsqlEnd,
       NodingBegin, NodingEnd, ApplyCost, SnapFacilities, VacuumStaging
<1>3. ASSUME NEW r \in Runs,
             Start(r) \/ RejectConfig(r) \/ SkipLoaded(r) \/ CheckLoaded(r)
               \/ PgrVersionOk(r) \/ PgrTooOld(r)
      PROVE  Quiet
  BY <1>0, <1>3 DEF Start, MayStart, RejectConfig, SkipLoaded, CheckLoaded,
     PgrVersionOk, PgrTooOld, Exit, Goto, Quiet
<1>4. ASSUME NEW r \in Runs, DetectLive(r) \/ FlushFails(r) \/ Fail(r) \/ Crash(r)
      PROVE  Quiet
  BY <1>0, <1>4 DEF DetectLive, FlushFails, Fail, Crash, Active, Doing, Build, Swap,
     Exit, Goto, Quiet
<1>5. CASE UNCHANGED vars
  BY <1>5 DEF vars, local, Quiet
<1>6. QED
  BY <1>2, <1>3, <1>4, <1>5 DEF Next, Advance, Disturb

LEMMA InformedStep == ~Overlap => (Safe /\ Safe' /\ Informed /\ [Next]_vars => Informed')
<1> SUFFICES ASSUME ~Overlap, Safe, Safe', Informed, [Next]_vars
             PROVE  Informed'
  OBVIOUS
<1>0. /\ db \in [Name -> Schema \union {Absent}]
      /\ etlRuns \in [Pbfs -> Runs \union {NoRow}] /\ NoRow \notin Runs
      /\ job \in [Runs -> [pbf: Pbfs, force: BOOLEAN]]
      /\ pc \in [Runs -> Doing \union Stop] /\ clock \in Nat
      /\ completedAt \in [Runs -> Nat] /\ counted \in [Runs -> Runs \union {Baseline}]
      /\ flushed \in [Runs -> BOOLEAN] /\ flushPending \in BOOLEAN
  BY NamesAssumption DEF Safe, TypeOK
<1>1. CASE Quiet
  <2>1. LiveHasWays' = LiveHasWays /\ Live' = Live
    BY <1>1 DEF Quiet, LiveHasWays, Has, Live
  <2>2. ClocksAgree'
    BY <1>1 DEF Quiet, Informed, ClocksAgree, Row
  <2>3. LiveIsNewest'
    BY <1>1, <2>1 DEF Quiet, Informed, LiveIsNewest, Row
  <2>4. FlushedIsDone' /\ FlushFollowsCommit'
    BY <1>1, <2>1 DEF Quiet, Informed, FlushedIsDone, FlushFollowsCommit
  <2>5. QED
    BY <2>2, <2>3, <2>4 DEF Informed
<1>2. CASE Rollback
  <2>1. db'["routing_failed"] # Absent
    BY <1>0, <1>2 DEF Rollback, Live, Name
  <2>2. UNCHANGED <<etlRuns, clock, pc, counted, completedAt, flushed>>
    BY <1>2 DEF Rollback, local
  <2>3. QED
    BY <2>1, <2>2 DEF Informed, ClocksAgree, LiveIsNewest, FlushedIsDone,
       FlushFollowsCommit, Row
<1>3. ASSUME NEW r \in Runs, FlushDone(r)
      PROVE  Informed'
  <2>1. /\ UNCHANGED <<db, etlRuns, clock, counted, completedAt, job>>
        /\ pc' = [pc EXCEPT ![r] = "done"] /\ flushed' = [flushed EXCEPT ![r] = TRUE]
        /\ ~flushPending'
    BY <1>3 DEF FlushDone, Exit, Goto
  <2>2. LiveHasWays' = LiveHasWays /\ Live' = Live
    BY <2>1 DEF LiveHasWays, Has, Live
  <2>3. ClocksAgree' /\ LiveIsNewest'
    BY <1>0, <2>1, <2>2 DEF Informed, ClocksAgree, LiveIsNewest, Row, Counted
  <2>4. FlushedIsDone' /\ FlushFollowsCommit'
    BY <1>0, <2>1 DEF Informed, FlushedIsDone, FlushFollowsCommit
  <2>5. QED
    BY <2>3, <2>4 DEF Informed
<1>4. ASSUME NEW r \in Runs, CountStaging(r)
      PROVE  Informed'
  <2>1. /\ pc[r] = "count" /\ pc' = [pc EXCEPT ![r] = "detect_live"]
        /\ clock' = clock + 1 /\ completedAt' = [completedAt EXCEPT ![r] = clock + 1]
        /\ counted' = [counted EXCEPT ![r] = Staging.loader]
        /\ UNCHANGED <<db, etlRuns, flushPending, flushed, job>>
    BY <1>4 DEF CountStaging, Goto
  <2>2. Staging.loader = r
    BY <2>1 DEF Safe, StagingMatchesStage, StageHolds, Finished, Holds
  <2>3. ~PublishedBy(r)
    BY <2>1 DEF Safe, PublishersAreThrough
  <2>4. \A q \in Runs : q # r => pc'[q] = pc[q] /\ pc[q] \notin Counted
    <3>1. Active(r)
      BY <2>1 DEF Active, Doing, Build
    <3>2. QED
      BY <1>0, <2>1, <3>1 DEF Safe, OneAtATime, Active, Doing, Swap, Counted
  <2>5. LiveHasWays' = LiveHasWays /\ Live' = Live
    BY <2>1 DEF LiveHasWays, Has, Live
  <2>6. ClocksAgree'
    <3>1. \A q \in Runs : completedAt'[q] <= clock'
      BY <1>0, <2>1 DEF Informed, ClocksAgree
    <3>2. counted'[r] = r
      BY <1>0, <2>1, <2>2
    <3>3. ASSUME NEW p \in Pbfs, etlRuns[p] # NoRow
          PROVE  completedAt'[etlRuns[p]] < completedAt'[r]
      <4>1. etlRuns[p] \in Runs /\ etlRuns[p] # r
        BY <1>0, <2>3, <3>3 DEF PublishedBy
      <4>2. completedAt[etlRuns[p]] <= clock
        BY <4>1 DEF Informed, ClocksAgree
      <4>3. QED
        BY <1>0, <2>1, <4>1, <4>2
    <3>4. QED
      BY <2>1, <2>4, <3>1, <3>2, <3>3 DEF ClocksAgree, Row
  <2>7. LiveIsNewest'
    <3> SUFFICES ASSUME db["routing_failed"] = Absent, NEW p \in Pbfs, Row(p)
                 PROVE  /\ LiveHasWays /\ counted'[Live.loader] = Live.loader
                        /\ etlRuns[job[Live.loader].pbf] = Live.loader
                        /\ etlRuns[p] # Live.loader =>
                             completedAt'[etlRuns[p]] < completedAt'[Live.loader]
      BY <2>1, <2>5 DEF LiveIsNewest, Row
    <3>1. /\ LiveHasWays /\ counted[Live.loader] = Live.loader
          /\ etlRuns[job[Live.loader].pbf] = Live.loader
          /\ etlRuns[p] # Live.loader =>
               completedAt[etlRuns[p]] < completedAt[Live.loader]
      BY DEF Informed, LiveIsNewest
    <3>2. Live.loader \in Runs
      BY <3>1 DEF Safe, PublishedWhole, Whole
    <3>3. Live.loader # r /\ etlRuns[p] # r /\ etlRuns[p] \in Runs
      BY <1>0, <2>3, <3>1 DEF PublishedBy, Live, LiveHasWays, Has, Row
    <3>4. QED
      BY <1>0, <2>1, <3>1, <3>2, <3>3
  <2>8. FlushedIsDone' /\ FlushFollowsCommit'
    BY <1>0, <2>1, <2>5 DEF Informed, FlushedIsDone, FlushFollowsCommit
  <2>9. QED
    BY <2>6, <2>7, <2>8 DEF Informed
<1>5. ASSUME NEW r \in Runs, SwapCommit(r) \/ SwapAckLost(r)
      PROVE  Informed'
  <2>1. /\ pc[r] = "swap" /\ SwapTransaction(r)
        /\ \E to \in {"flush", "done"} : pc' = [pc EXCEPT ![r] = to]
        /\ UNCHANGED <<clock, job, counted, completedAt, flushed>>
    BY <1>5 DEF SwapCommit, SwapAckLost, Exit, Goto
  <2>2. /\ Live' = Staging /\ etlRuns' = [etlRuns EXCEPT ![job[r].pbf] = r]
        /\ db'["routing_failed"] = db["routing_failed"] /\ job[r].pbf \in Pbfs
    BY <1>0, <2>1 DEF SwapTransaction, Live, Name
  <2>3. Holds(r, Table \ {"ways_import"}, {"import", "network"} \union Hooks)
    BY <2>1 DEF Safe, StagingMatchesStage, StageHolds, Finished
  <2>4. LiveHasWays' /\ Live'.loader = r
    BY <2>2, <2>3 DEF LiveHasWays, Has, Live, Holds, Table
  <2>5. \A q \in Runs : q # r => pc'[q] = pc[q] /\ pc[q] \notin Counted
    <3>1. Active(r)
      BY <2>1 DEF Active, Doing, Swap
    <3>2. QED
      BY <1>0, <2>1, <3>1 DEF Safe, OneAtATime, Active, Doing, Swap, Counted
  <2>6. /\ counted[r] = r
        /\ \A p \in Pbfs : Row(p) => completedAt[etlRuns[p]] < completedAt[r]
    BY <2>1 DEF Informed, ClocksAgree, Counted
  <2>7. pc'[r] \notin Counted /\ \A q \in Runs : pc[q] = "done" => pc'[q] = "done"
    BY <1>0, <2>1 DEF Counted
  <2>8. ClocksAgree'
    BY <2>1, <2>5, <2>7 DEF Informed, ClocksAgree
  <2>9. LiveIsNewest'
    <3>1. etlRuns'[job[r].pbf] = r
      BY <1>0, <2>2
    <3>2. \A p \in Pbfs : etlRuns'[p] # NoRow /\ etlRuns'[p] # r =>
                           completedAt[etlRuns'[p]] < completedAt[r]
      BY <1>0, <2>2, <2>6 DEF Row
    <3>3. QED
      BY <2>1, <2>4, <2>6, <3>1, <3>2 DEF LiveIsNewest, Row
  <2>10. FlushedIsDone' /\ FlushFollowsCommit'
    <3>1. ~flushed[r]
      BY <2>1 DEF Informed, FlushedIsDone
    <3>2. FlushedIsDone'
      BY <2>1, <2>7 DEF Informed, FlushedIsDone
    <3>3. FlushFollowsCommit'
      BY <2>1, <2>4, <3>1 DEF FlushFollowsCommit
    <3>4. QED
      BY <3>2, <3>3
  <2>11. QED
    BY <2>8, <2>9, <2>10 DEF Informed
<1>6. QED
  BY <1>1, <1>2, <1>3, <1>4, <1>5, InformingSteps

LEMMA InformedInit == Init => Informed
<1> SUFFICES ASSUME Init PROVE Informed
  OBVIOUS
<1>1. /\ clock = 0 /\ \A r \in Runs : completedAt[r] = 0 /\ pc[r] = "idle" /\ ~flushed[r]
      /\ \A p \in Pbfs : etlRuns[p] = NoRow
  BY DEF Init
<1>2. QED
  BY <1>1 DEF Informed, ClocksAgree, LiveIsNewest, FlushedIsDone,
     FlushFollowsCommit, Row, Counted

LEMMA SequentialRunsInform == ~Overlap => (Spec => []Informed)
<1> SUFFICES ASSUME ~Overlap PROVE Spec => []Informed
  OBVIOUS
<1>1. Spec => []Safe
  BY SequentialRunsSafe
<1>2. Safe /\ Safe' /\ Informed /\ [Next]_vars => Informed'
  BY InformedStep
<1>3. QED
  BY <1>1, <1>2, InformedInit, PTL DEF Spec

(***************************************************************************)
(* Until an operator rolls back, the row GET /v1/etl-status reports is of  *)
(* the network being served, and so are its counts.                        *)
(***************************************************************************)
THEOREM StatusIsOfLive == ~Overlap => (Spec => []StatusDescribesLive)
<1> SUFFICES ASSUME ~Overlap PROVE Spec => []StatusDescribesLive
  OBVIOUS
<1>1. Spec => []Safe /\ []Informed
  BY SequentialRunsSafe, SequentialRunsInform
<1>2. Safe /\ Informed => StatusDescribesLive
  <2> SUFFICES ASSUME Safe, Informed, NEW r \in Runs, Reported(r),
                      db["routing_failed"] = Absent
               PROVE  LiveHasWays /\ Live.loader = r /\ counted[r] = r
    BY DEF StatusDescribesLive
  <2>1. PICK p \in Pbfs : etlRuns[p] = r
    BY DEF Reported
  <2>2. r # NoRow
    BY NamesAssumption
  <2>3. /\ LiveHasWays /\ counted[Live.loader] = Live.loader
        /\ etlRuns[job[Live.loader].pbf] = Live.loader
        /\ r # Live.loader => completedAt[r] < completedAt[Live.loader]
    BY <2>1, <2>2 DEF Informed, LiveIsNewest, Row
  <2>4. Live.loader \in Runs
    BY <2>3 DEF Safe, PublishedWhole, Whole
  <2>5. job[Live.loader].pbf \in Pbfs /\ completedAt \in [Runs -> Nat]
    BY <2>4 DEF Safe, TypeOK
  <2>6. completedAt[Live.loader] <= completedAt[r]
    BY <2>3, <2>4, <2>5, NamesAssumption DEF Reported
  <2>7. QED
    BY <2>3, <2>4, <2>5, <2>6
<1>3. QED
  BY <1>1, <1>2, PTL

(***************************************************************************)
(* Once the load being served has flushed Redis, nothing computed on the   *)
(* network it replaced is left there: the flush comes after the commit and *)
(* nothing but the next commit makes an answer stale again.                *)
(***************************************************************************)
THEOREM FlushComesAfterCommit == ~Overlap => (Spec => []FlushFollowsCommit)
<1> SUFFICES ASSUME ~Overlap PROVE Spec => []FlushFollowsCommit
  OBVIOUS
<1>1. Spec => []Informed
  BY SequentialRunsInform
<1>2. Informed => FlushFollowsCommit
  BY DEF Informed
<1>3. QED
  BY <1>1, <1>2, PTL
=============================================================================
