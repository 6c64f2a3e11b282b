-------------------------- MODULE MigrationChain --------------------------
(***************************************************************************)
(* The Alembic chain (open-routing-service/alembic/versions) against the   *)
(* catalogue it shares with the loader.  A revision changes the live       *)
(* schema, the function closest_facility(), its label in function_version  *)
(* and the helper facility_category(); the loader builds a staging schema  *)
(* that needs the helper and swaps it in; an operator may swap back.       *)
(*                                                                         *)
(* An alembic command runs its revisions in one transaction (env.py), and  *)
(* `alembic upgrade +1` is a command, so one revision is one step here.    *)
(* A schema is what later statements look at: which tables and columns it  *)
(* has, whose points of interest its facilities are (0: none), whose the   *)
(* counts in facility_categories are, and its foreign keys by name.        *)
(***************************************************************************)
EXTENDS Naturals

CONSTANTS
  MaxLoads,     \* loads (bounds the model)
  SwapBackAny,  \* may an operator swap back to a schema that was retired at
                \* another revision?
  Mixed,        \* counts of facilities that are not all there
  Absent        \* no such schema, table or row

ASSUME MaxLoadsAssumption    == MaxLoads \in Nat
ASSUME SwapBackAnyAssumption == SwapBackAny \in BOOLEAN
ASSUME AbsentAssumption      == Absent \notin Nat /\ Mixed \notin Nat

VARIABLES
  rev,       \* how many revisions are applied
  body,      \* the installed body of closest_facility(), 2..8, or Absent
  label,     \* function_version, or Absent without the table
  helper,    \* does facility_category(jsonb) exist?
  db,        \* schema name -> what it holds, or Absent
  loads,     \* loads begun
  retiredAt  \* the revision routing_prev was retired at

fns    == <<body, label, helper>>
record == <<loads, retiredAt>>
vars   == <<rev, fns, db, record>>

Revisions ==
  <<"20260620_0001", "20260622_0001", "20260622_0002", "20260622_0003",
    "20260622_0004", "20260622_0005", "20260622_0006", "20260623_0001",
    "20260623_0002", "20260623_0003", "20260623_0004">>
Head  == 11
Names == {"routing", "routing_next", "routing_prev", "routing_failed"}
Loads == 0..MaxLoads

AlembicKey == "fk_facilities_vertex_id"
LoaderKey  == "fk_facilities_vertex_id_staging"

Schema ==
  [ways : BOOLEAN,                         \* ways and ways_vertices_pgr
   costs : BOOLEAN,                        \* ways has its cost columns
   pois : Loads \union {Absent},           \* the table facilities
   category : BOOLEAN,                     \* its column category
   counts : Loads \union {Absent, Mixed},  \* the table facility_categories
   keys : SUBSET {AlembicKey, LoaderKey}]

ASSUME NoSchemaAssumption == Absent \notin Schema

live == db["routing"]

EmptySchema == [ways |-> FALSE, costs |-> FALSE, pois |-> Absent,
                category |-> FALSE, counts |-> Absent, keys |-> {}]

\* pg_constraint is searched by name in every schema.
KeyTaken(key) == \E n \in Names : db[n] # Absent /\ key \in db[n].keys

Init ==
  /\ rev = 0 /\ body = Absent /\ label = Absent /\ helper = FALSE
  /\ db = [n \in Names |-> Absent]
  /\ loads = 0 /\ retiredAt = 0

-----------------------------------------------------------------------------
(* Upgrades                                                                *)
To(n)   == rev = n - 1 /\ rev' = n
From(n) == rev = n /\ rev' = n - 1

UpgradeBaseline ==
  /\ To(1)
  /\ label' = 1
  /\ UNCHANGED <<body, helper, db, record>>

\* Mutant: the table is left to the first load.
FacilitiesDeferred == To(2) /\ UNCHANGED <<fns, db, record>>

\* routing and its facilities, with a foreign key if there are vertices.
UpgradeFacilities ==
  /\ To(2)
  /\ LET old == IF live = Absent THEN EmptySchema ELSE live
         new == [old EXCEPT !.pois = IF @ = Absent THEN 0 ELSE @]
     IN  db' = [db EXCEPT !["routing"] =
                 IF new.ways /\ ~KeyTaken(AlembicKey)
                 THEN [new EXCEPT !.keys = @ \union {AlembicKey}] ELSE new]
  /\ UNCHANGED <<fns, record>>

UpgradeCostColumns ==
  /\ To(3)
  /\ db' = [db EXCEPT !["routing"].costs = live.ways]
  /\ UNCHANGED <<fns, record>>

\* A new body and its label.
Install(n, version) ==
  /\ To(n)
  /\ body' = version /\ label' = version
  /\ UNCHANGED <<helper, db, record>>

UpgradeV2 == Install(4, 2)
UpgradeV3 == Install(5, 3)
UpgradeV4 == Install(6, 4)
UpgradeV5 == Install(7, 5)
UpgradeV6 == Install(8, 6)
UpgradeV7 == Install(9, 7)

\* ALTER TABLE routing.facilities fails without the table.
HasFacilities == live # Absent /\ live.pois # Absent

UpgradeV8 ==
  /\ To(10)
  /\ HasFacilities
  /\ helper' = TRUE
  /\ db' = [db EXCEPT !["routing"].category = TRUE]
  /\ body' = 8 /\ label' = 8
  /\ UNCHANGED record

\* Mutant: the table is created and not seeded.
CategoriesUnseeded ==
  /\ To(11)
  /\ HasFacilities /\ live.category
  /\ db' = [db EXCEPT !["routing"].counts = IF @ = Absent THEN 0 ELSE @]
  /\ UNCHANGED <<fns, record>>

\* The seed updates the categories there are and deletes none.
UpgradeCategories ==
  /\ To(11)
  /\ HasFacilities /\ live.category
  /\ db' = [db EXCEPT !["routing"].counts =
              IF @ \in {Absent, 0, live.pois} THEN live.pois ELSE Mixed]
  /\ UNCHANGED <<fns, record>>

-----------------------------------------------------------------------------
(* Downgrades                                                              *)
DowngradeCategories ==
  /\ From(11)
  /\ db' = [db EXCEPT !["routing"].counts = Absent]
  /\ UNCHANGED <<fns, record>>

\* Mutant: the category column goes, the body that reads it stays.
DowngradeV8ColumnOnly ==
  /\ From(10)
  /\ HasFacilities
  /\ db' = [db EXCEPT !["routing"].category = FALSE]
  /\ helper' = FALSE
  /\ label' = 7
  /\ UNCHANGED <<body, record>>

\* Mutant: the helper is not dropped.
DowngradeV8KeepsHelper ==
  /\ From(10)
  /\ HasFacilities
  /\ db' = [db EXCEPT !["routing"].category = FALSE]
  /\ body' = 7 /\ label' = 7
  /\ UNCHANGED <<helper, record>>

DowngradeV8 ==
  /\ From(10)
  /\ HasFacilities
  /\ db' = [db EXCEPT !["routing"].category = FALSE]
  /\ helper' = FALSE
  /\ body' = 7 /\ label' = 7
  /\ UNCHANGED record

\* Mutant: the body goes back, the label does not.
RestoreUnlabelled(n, version) ==
  /\ From(n)
  /\ body' = version
  /\ UNCHANGED <<label, helper, db, record>>

\* The body before, kept in the revision's own file.
Restore(n, version) ==
  /\ From(n)
  /\ body' = version /\ label' = version
  /\ UNCHANGED <<helper, db, record>>

DowngradeV7 == Restore(9, 6)
DowngradeV6 == Restore(8, 5)

\* Mutant: the downgrade puts the old, broken body back.
RestoreBroken(n, version) ==
  /\ From(n)
  /\ body' = version /\ label' = version
  /\ UNCHANGED <<helper, db, record>>

\* Only the label goes back: the body before was broken.
Relabel(n, version) ==
  /\ From(n)
  /\ label' = version
  /\ UNCHANGED <<body, helper, db, record>>

DowngradeV5 == Relabel(7, 4)
DowngradeV4 == Relabel(6, 3)
DowngradeV3 == Relabel(5, 2)

DowngradeV2 ==
  /\ From(4)
  /\ body' = Absent /\ label' = 1
  /\ UNCHANGED <<helper, db, record>>

DowngradeCostColumns ==
  /\ From(3)
  /\ db' = [db EXCEPT !["routing"].costs = FALSE]
  /\ UNCHANGED <<fns, record>>

\* The key is looked up by name anywhere and dropped from routing.facilities,
\* which fails if it is another schema that has it.
DowngradeFacilities ==
  /\ From(2)
  /\ KeyTaken(AlembicKey) => AlembicKey \in live.keys
  /\ db' = [db EXCEPT !["routing"] =
              [@ EXCEPT !.pois = Absent, !.category = FALSE, !.keys = {}]]
  /\ UNCHANGED <<fns, record>>

DowngradeBaseline ==
  /\ From(1)
  /\ label' = Absent
  /\ UNCHANGED <<body, helper, db, record>>

-----------------------------------------------------------------------------
(* The loader and the operator                                             *)
\* A build that finds the helper is complete; one that does not stops in
\* 03_facilities.sql, and main swaps nothing in.
EtlBuild ==
  /\ loads < MaxLoads
  /\ loads' = loads + 1
  /\ db' = [db EXCEPT !["routing_next"] =
              IF ~helper THEN Absent
              ELSE [ways |-> TRUE, costs |-> TRUE, pois |-> loads', category |-> TRUE,
                    counts |-> loads',
                    keys |-> IF \E n \in Names \ {"routing_next"} :
                                  db[n] # Absent /\ LoaderKey \in db[n].keys
                             THEN {} ELSE {LoaderKey}]]
  /\ UNCHANGED <<rev, fns, retiredAt>>

\* The provenance row needs etl_runs, or the transaction is rolled back.
EtlSwap ==
  /\ db["routing_next"] # Absent
  /\ rev >= 1
  /\ IF live # Absent /\ live.ways
     THEN /\ db' = [db EXCEPT !["routing_prev"] = live, !["routing"] = db["routing_next"],
                              !["routing_next"] = Absent]
          /\ retiredAt' = rev
     ELSE /\ db' = [db EXCEPT !["routing"] = db["routing_next"], !["routing_next"] = Absent]
          /\ UNCHANGED retiredAt
  /\ UNCHANGED <<rev, fns, loads>>

\* The two renames of swap_schema.sql's header.
Rollback ==
  /\ db["routing_prev"] # Absent /\ db["routing_failed"] = Absent
  /\ live # Absent
  /\ SwapBackAny \/ retiredAt = rev
  /\ db' = [db EXCEPT !["routing_failed"] = live, !["routing"] = db["routing_prev"],
                      !["routing_prev"] = Absent]
  /\ UNCHANGED <<rev, fns, record>>

Upgrade ==
  \/ UpgradeBaseline \/ UpgradeFacilities \/ UpgradeCostColumns
  \/ UpgradeV2 \/ UpgradeV3 \/ UpgradeV4 \/ UpgradeV5 \/ UpgradeV6 \/ UpgradeV7
  \/ UpgradeV8 \/ UpgradeCategories

Downgrade ==
  \/ DowngradeCategories \/ DowngradeV8 \/ DowngradeV7 \/ DowngradeV6
  \/ DowngradeV5 \/ DowngradeV4 \/ DowngradeV3 \/ DowngradeV2
  \/ DowngradeCostColumns \/ DowngradeFacilities \/ DowngradeBaseline

Next == Upgrade \/ Downgrade \/ EtlBuild \/ EtlSwap \/ Rollback

Spec == Init /\ [][Next]_vars

-----------------------------------------------------------------------------
(* Properties                                                              *)
TypeOK ==
  /\ rev \in 0..Head /\ helper \in BOOLEAN
  /\ body \in (2..8) \union {Absent} /\ label \in (1..8) \union {Absent}
  /\ db \in [Names -> Schema \union {Absent}]
  /\ loads \in Loads /\ retiredAt \in 0..Head
  /\ label = Absent <=> rev = 0
  /\ body = Absent <=> rev < 4
  /\ helper <=> rev >= 10

\* What a call of the installed body reads.
Finds(b) ==
  /\ live.costs /\ live.pois # Absent
  /\ b = 8 => live.category /\ helper

\* Where a network is live, the installed body finds every column and function
\* it reads, whatever was migrated, loaded or rolled back before.
BodyFindsItsColumns ==
  body # Absent /\ live # Absent /\ live.ways => Finds(body)

\* A network whose facilities a downgrade dropped and an upgrade put back empty.
Emptied == live.ways /\ live.pois = 0

\* At the head, GET /v1/facility-categories reads counts of the facilities that
\* are live, those the migration seeded as well as those a load brought.  Only
\* an emptied network may keep the counts a load at 20260623_0003 left behind.
CountsOfTheLiveFacilities ==
  rev = Head => live # Absent /\ (live.counts = live.pois \/ Emptied)

\* No catalogue makes the next upgrade fail.
UpgradesGoThrough ==
  /\ rev = 9  => HasFacilities
  /\ rev = 10 => HasFacilities /\ live.category
  /\ rev = 2  => live # Absent

\* From v5 on the label is the installed body's, also after a downgrade, so
\* an answer cached under it comes from that body.
LabelNamesTheBody == label # Absent /\ label >= 5 => body = label

\* No downgrade installs one of the bodies that were replaced as broken
\* (20260622_0004:176: "downgrade would re-introduce the bug").
NoBrokenBodyComesBack ==
  [][rev' < rev /\ body' # Absent => body' >= 5 \/ body' = body]_vars
=============================================================================
