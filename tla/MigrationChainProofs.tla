------------------------ MODULE MigrationChainProofs ------------------------
(***************************************************************************)
(* Theorems about MigrationChain, for any number of loads.                 *)
(***************************************************************************)
EXTENDS MigrationChain, TLAPS

-----------------------------------------------------------------------------
(* The function, its label and its helper.                                 *)

(* From revision 7 (v5) on the label is the body's; before, it is one of   *)
(* those of the broken bodies, whatever a downgrade left installed.        *)
FunctionSafe ==
  /\ rev \in 0..Head /\ helper \in BOOLEAN
  /\ body \in (2..8) \union {Absent} /\ label \in (1..8) \union {Absent}
  /\ helper <=> rev >= 10
  /\ label = Absent <=> rev = 0
  /\ body = Absent <=> rev < 4
  /\ rev >= 7 => body = label /\ body >= 5
  /\ rev \in 1..6 => label <= 4
  /\ body = 8 <=> rev >= 10

LEMMA InitFunctionSafe == Init => FunctionSafe
<1> SUFFICES ASSUME Init PROVE FunctionSafe
  OBVIOUS
<1>1. rev = 0 /\ body = Absent /\ label = Absent
  BY DEF Init
<1>2. ~helper /\ helper \in BOOLEAN
  BY DEF Init
<1>3. QED
  BY <1>1, <1>2, AbsentAssumption DEF FunctionSafe, Head

LEMMA UpgradeFunctionSafe ==
  ASSUME FunctionSafe, Upgrade
  PROVE  FunctionSafe'
<1>1. CASE UpgradeBaseline
  BY <1>1, AbsentAssumption DEF FunctionSafe, UpgradeBaseline, To, Head
<1>2. CASE UpgradeFacilities \/ UpgradeCostColumns
  BY <1>2 DEF FunctionSafe, UpgradeFacilities, UpgradeCostColumns, To, fns, Head
<1>3. ASSUME NEW n \in 4..6, NEW version \in 2..4, n = version + 2, Install(n, version)
      PROVE  FunctionSafe'
  BY <1>3, AbsentAssumption DEF FunctionSafe, Install, To, Head
<1>4. ASSUME NEW n \in 7..9, NEW version \in 5..7, n = version + 2, Install(n, version)
      PROVE  FunctionSafe'
  BY <1>4, AbsentAssumption DEF FunctionSafe, Install, To, Head
<1>5. CASE UpgradeV8
  BY <1>5, AbsentAssumption DEF FunctionSafe, UpgradeV8, To, Head
<1>6. CASE UpgradeCategories
  BY <1>6 DEF FunctionSafe, UpgradeCategories, To, fns, Head
<1>7. QED
  BY <1>1, <1>2, <1>3, <1>4, <1>5, <1>6
     DEF Upgrade, UpgradeV2, UpgradeV3, UpgradeV4, UpgradeV5, UpgradeV6, UpgradeV7

LEMMA DowngradeFunctionSafe ==
  ASSUME FunctionSafe, Downgrade
  PROVE  FunctionSafe'
<1>1. CASE DowngradeCategories
  BY <1>1 DEF FunctionSafe, DowngradeCategories, From, fns, Head
<1>2. CASE DowngradeV8
  <2>1. rev = 10 /\ rev' = 9 /\ body' = 7 /\ label' = 7
    BY <1>2 DEF FunctionSafe, DowngradeV8, From, Head
  <2>2. ~helper' /\ helper' \in BOOLEAN
    BY <1>2 DEF DowngradeV8
  <2>3. QED
    BY <2>1, <2>2, AbsentAssumption DEF FunctionSafe, Head
<1>3. CASE DowngradeV7 \/ DowngradeV6
  BY <1>3, AbsentAssumption
     DEF FunctionSafe, DowngradeV7, DowngradeV6, Restore, From, Head
<1>4. CASE DowngradeV5 \/ DowngradeV4 \/ DowngradeV3
  BY <1>4, AbsentAssumption
     DEF FunctionSafe, DowngradeV5, DowngradeV4, DowngradeV3, Relabel, From, Head
<1>5. CASE DowngradeV2
  BY <1>5, AbsentAssumption DEF FunctionSafe, DowngradeV2, From, Head
<1>6. CASE DowngradeCostColumns \/ DowngradeFacilities
  BY <1>6 DEF FunctionSafe, DowngradeCostColumns, DowngradeFacilities, From, fns, Head
<1>7. CASE DowngradeBaseline
  BY <1>7, AbsentAssumption DEF FunctionSafe, DowngradeBaseline, From, Head
<1>8. QED
  BY <1>1, <1>2, <1>3, <1>4, <1>5, <1>6, <1>7 DEF Downgrade

LEMMA StepFunctionSafe == FunctionSafe /\ [Next]_vars => FunctionSafe'
<1> SUFFICES ASSUME FunctionSafe, [Next]_vars PROVE FunctionSafe'
  OBVIOUS
<1>1. CASE Upgrade
  BY <1>1, UpgradeFunctionSafe
<1>2. CASE Downgrade
  BY <1>2, DowngradeFunctionSafe
<1>3. CASE EtlBuild \/ EtlSwap \/ Rollback \/ UNCHANGED vars
  BY <1>3 DEF EtlBuild, EtlSwap, Rollback, vars, fns, FunctionSafe
<1>4. QED
  BY <1>1, <1>2, <1>3 DEF Next

(* The inductive invariant about the function holds of every behaviour.    *)
THEOREM FunctionIsSafe == Spec => []FunctionSafe
<1>1. Init => FunctionSafe
  BY InitFunctionSafe
<1>2. FunctionSafe /\ [Next]_vars => FunctionSafe'
  BY StepFunctionSafe
<1>3. QED
  BY <1>1, <1>2, PTL DEF Spec

(* From v5 on the label answers are cached under is that of the body that  *)
(* computed them, also after downgrades (20260623_0003:463).               *)
THEOREM LabelIsTheBodys == Spec => []LabelNamesTheBody
<1>1. FunctionSafe => LabelNamesTheBody
  BY DEF FunctionSafe, LabelNamesTheBody, Head
<1>2. QED
  BY <1>1, FunctionIsSafe, PTL

(* No downgrade installs one of the bodies that were replaced as broken    *)
(* (20260622_0004:176).                                                    *)
THEOREM BrokenBodiesStayAway == Spec => NoBrokenBodyComesBack
<1>1. FunctionSafe /\ [Next]_vars =>
        [rev' < rev /\ body' # Absent => body' >= 5 \/ body' = body]_vars
  <2> SUFFICES ASSUME FunctionSafe, Next, rev' < rev, body' # Absent
               PROVE  body' >= 5 \/ body' = body
    BY DEF vars
  <2>1. CASE Upgrade
    BY <2>1 DEF FunctionSafe, Upgrade, UpgradeBaseline, UpgradeFacilities,
                UpgradeCostColumns, UpgradeV2, UpgradeV3, UpgradeV4, UpgradeV5,
                UpgradeV6, UpgradeV7, UpgradeV8, UpgradeCategories, Install, To
  <2>2. CASE Downgrade
    BY <2>2 DEF Downgrade, DowngradeCategories, DowngradeV8, DowngradeV7,
                DowngradeV6, DowngradeV5, DowngradeV4, DowngradeV3, DowngradeV2,
                DowngradeCostColumns, DowngradeFacilities, DowngradeBaseline,
                Restore, Relabel, From, fns
  <2>3. CASE EtlBuild \/ EtlSwap \/ Rollback
    BY <2>3 DEF EtlBuild, EtlSwap, Rollback, fns
  <2>4. QED
    BY <2>1, <2>2, <2>3 DEF Next
<1>2. QED
  BY <1>1, FunctionIsSafe, PTL DEF Spec, NoBrokenBodyComesBack

-----------------------------------------------------------------------------
(* The schemas.                                                            *)
Retired == db["routing_prev"]
Staged  == db["routing_next"]

(* Every schema has its type, and from revision 2 on there is a live one:  *)
(* the statements of a revision that change its tables find it.            *)
SchemasTyped ==
  /\ db \in [Names -> Schema \union {Absent}]
  /\ loads \in Loads /\ retiredAt \in 0..Head
  /\ rev >= 2 => live # Absent

(* What revision r needs of the live schema s, and leaves it with.         *)
Fits(s, r) ==
  /\ r >= 2 => s.pois # Absent
  /\ r >= 3 /\ s.ways => s.costs
  /\ r >= 10 => s.category
  /\ r < Head /\ s.counts # Absent => s.ways
  /\ \/ s.counts \in {Absent, s.pois}
     \/ s.ways /\ s.pois \in {0, Absent}
  /\ r = Head => s.counts = s.pois \/ (s.ways /\ s.pois = 0)

(* What a load that found the helper has built.                            *)
Complete(s) ==
  /\ s.ways /\ s.costs /\ s.category
  /\ s.pois \in Loads /\ s.counts = s.pois

(* The live schema fits the applied revision, the retired one that it was  *)
(* retired at, and a staged one fits any.                                  *)
SchemasFit ==
  /\ live # Absent => Fits(live, rev)
  /\ Retired # Absent => Retired.ways /\ Fits(Retired, retiredAt)
  /\ Staged # Absent => Complete(Staged)

LEMMA CompleteFits ==
  ASSUME NEW s \in Schema, Complete(s), NEW r \in 0..Head
  PROVE  Fits(s, r)
BY AbsentAssumption, MaxLoadsAssumption DEF Complete, Fits, Loads, Head

LEMMA InitSchemas == Init => SchemasTyped /\ SchemasFit
<1> SUFFICES ASSUME Init PROVE SchemasTyped /\ SchemasFit
  OBVIOUS
<1>1. \A n \in Names : db[n] = Absent
  BY DEF Init
<1>2. live = Absent /\ Retired = Absent /\ Staged = Absent
  BY <1>1 DEF live, Retired, Staged, Names
<1>3. SchemasTyped
  BY <1>2, MaxLoadsAssumption DEF Init, SchemasTyped, Names, Loads, Head
<1>4. QED
  BY <1>2, <1>3 DEF SchemasFit

(* A revision that changes only the live schema.                           *)
LEMMA LiveRevised ==
  ASSUME SchemasTyped, rev' \in 0..Head, UNCHANGED record,
         NEW s \in Schema, db' = [db EXCEPT !["routing"] = s]
  PROVE  /\ SchemasTyped'
         /\ SchemasFit /\ Fits(s, rev') => SchemasFit'
<1>1. live' = s /\ Retired' = Retired /\ Staged' = Staged
  BY DEF SchemasTyped, Names, live, Retired, Staged
<1>2. SchemasTyped'
  BY <1>1, NoSchemaAssumption DEF SchemasTyped, record, Names
<1>3. ASSUME SchemasFit, Fits(s, rev') PROVE SchemasFit'
  BY <1>1, <1>3 DEF SchemasFit, record, Fits, Complete
<1>4. QED
  BY <1>2, <1>3

(* A revision that changes no schema.                                      *)
LEMMA LiveKept ==
  ASSUME SchemasTyped, rev' \in 0..Head, UNCHANGED <<db, record>>,
         rev' >= 2 => rev >= 2
  PROVE  /\ SchemasTyped'
         /\ SchemasFit /\ (live # Absent => Fits(live, rev')) => SchemasFit'
<1>1. live' = live /\ Retired' = Retired /\ Staged' = Staged
  BY DEF live, Retired, Staged
<1>2. SchemasTyped'
  BY <1>1 DEF SchemasTyped, record
<1>3. ASSUME SchemasFit, live # Absent => Fits(live, rev') PROVE SchemasFit'
  BY <1>1, <1>3 DEF SchemasFit, record, Fits, Complete
<1>4. QED
  BY <1>2, <1>3

LEMMA LiveTyped ==
  ASSUME SchemasTyped
  PROVE  /\ live \in Schema \union {Absent}
         /\ rev >= 2 => live \in Schema
BY DEF SchemasTyped, live, Names

(* What each revision makes of the live schema, shown to be a schema and,  *)
(* if the one before fitted, to fit.                                       *)
LEMMA UpgradeSchemas ==
  ASSUME SchemasTyped, rev \in 0..Head, rev' \in 0..Head, Upgrade
  PROVE  SchemasTyped' /\ (SchemasFit => SchemasFit')
<1> USE MaxLoadsAssumption DEF Head
<1>1. CASE UpgradeBaseline
  <2>1. rev = 0 /\ rev' = 1 /\ UNCHANGED <<db, record>>
    BY <1>1 DEF UpgradeBaseline, To
  <2>2. SchemasFit => (live # Absent => Fits(live, rev'))
    BY <2>1 DEF SchemasFit, Fits
  <2>3. QED
    BY <2>1, <2>2, LiveKept
<1>2. CASE UpgradeFacilities
  <2> DEFINE old == IF live = Absent THEN EmptySchema ELSE live
             new == [old EXCEPT !.pois = IF @ = Absent THEN 0 ELSE @]
             s   == IF new.ways /\ ~KeyTaken(AlembicKey)
                    THEN [new EXCEPT !.keys = @ \union {AlembicKey}] ELSE new
  <2>1. rev = 1 /\ rev' = 2 /\ UNCHANGED record /\ db' = [db EXCEPT !["routing"] = s]
    BY <1>2 DEF UpgradeFacilities, To
  <2>2. old \in Schema
    BY LiveTyped DEF Schema, EmptySchema, Loads
  <2>3. new \in Schema /\ new.pois # Absent
    BY <2>2, AbsentAssumption DEF Schema, Loads
  <2>4. s \in Schema
    BY <2>3 DEF Schema
  <2>5. /\ s.ways = old.ways /\ s.counts = old.counts
        /\ s.pois = IF old.pois = Absent THEN 0 ELSE old.pois
    BY <2>2, <2>3 DEF Schema
  <2>6. SchemasFit => Fits(old, 1)
    BY <2>1, AbsentAssumption DEF SchemasFit, Fits, EmptySchema
  <2>7. Fits(old, 1) => Fits(s, 2)
    BY <2>5, AbsentAssumption DEF Fits
  <2>8. QED
    BY <2>1, <2>4, <2>6, <2>7, LiveRevised
<1>3. CASE UpgradeCostColumns
  <2> DEFINE s == [live EXCEPT !.costs = live.ways]
  <2>1. rev = 2 /\ rev' = 3 /\ UNCHANGED record /\ db' = [db EXCEPT !["routing"] = s]
    BY <1>3 DEF UpgradeCostColumns, To, live
  <2>2. live \in Schema /\ live # Absent
    BY <2>1, LiveTyped, NoSchemaAssumption
  <2>3. s \in Schema
    BY <2>2 DEF Schema
  <2>4. SchemasFit => Fits(s, rev')
    BY <2>1, <2>2 DEF SchemasFit, Fits, Schema
  <2>5. QED
    BY <2>1, <2>3, <2>4, LiveRevised
<1>4. ASSUME NEW n \in 4..9, NEW version \in 2..7, Install(n, version)
      PROVE  SchemasTyped' /\ (SchemasFit => SchemasFit')
  <2>1. rev = n - 1 /\ rev' = n /\ UNCHANGED <<db, record>>
    BY <1>4 DEF Install, To
  <2>2. SchemasFit => (live # Absent => Fits(live, rev'))
    BY <2>1 DEF SchemasFit, Fits
  <2>3. QED
    BY <2>1, <2>2, LiveKept
<1>5. CASE UpgradeV8
  <2> DEFINE s == [live EXCEPT !.category = TRUE]
  <2>1. rev = 9 /\ rev' = 10 /\ UNCHANGED record /\ db' = [db EXCEPT !["routing"] = s]
    BY <1>5 DEF UpgradeV8, To, live
  <2>2. live \in Schema /\ live # Absent
    BY <2>1, LiveTyped, NoSchemaAssumption
  <2>3. s \in Schema
    BY <2>2 DEF Schema
  <2>4. SchemasFit => Fits(s, rev')
    BY <2>1, <2>2 DEF SchemasFit, Fits, Schema
  <2>5. QED
    BY <2>1, <2>3, <2>4, LiveRevised
<1>6. CASE UpgradeCategories
  <2> DEFINE c == IF live.counts \in {Absent, 0, live.pois} THEN live.pois ELSE Mixed
             s == [live EXCEPT !.counts = c]
  <2>1. /\ rev = 10 /\ rev' = 11 /\ UNCHANGED record
        /\ db' = [db EXCEPT !["routing"] = s] /\ live.pois # Absent
    BY <1>6 DEF UpgradeCategories, To, HasFacilities, live
  <2>2. live \in Schema /\ live # Absent
    BY <2>1, LiveTyped, NoSchemaAssumption
  <2>3. c \in Loads \union {Absent, Mixed}
    BY <2>2 DEF Schema
  <2>4. s \in Schema
    BY <2>2, <2>3 DEF Schema
  <2>5. /\ s.counts = c /\ s.ways = live.ways /\ s.pois = live.pois
        /\ s.costs = live.costs /\ s.category = live.category
    BY <2>2 DEF Schema
  <2>6. Fits(live, 10) => Fits(s, 11)
    BY <2>1, <2>5 DEF Fits
  <2>7. QED
    BY <2>1, <2>2, <2>4, <2>6, LiveRevised DEF SchemasFit
<1>7. QED
  BY <1>1, <1>2, <1>3, <1>4, <1>5, <1>6
     DEF Upgrade, UpgradeV2, UpgradeV3, UpgradeV4, UpgradeV5, UpgradeV6, UpgradeV7

LEMMA DowngradeSchemas ==
  ASSUME SchemasTyped, rev \in 0..Head, rev' \in 0..Head, Downgrade
  PROVE  SchemasTyped' /\ (SchemasFit => SchemasFit')
<1> USE MaxLoadsAssumption DEF Head
<1>1. CASE DowngradeCategories
  <2> DEFINE s == [live EXCEPT !.counts = Absent]
  <2>1. rev = 11 /\ rev' = 10 /\ UNCHANGED record /\ db' = [db EXCEPT !["routing"] = s]
    BY <1>1 DEF DowngradeCategories, From, live
  <2>2. live \in Schema /\ live # Absent
    BY <2>1, LiveTyped, NoSchemaAssumption
  <2>3. s \in Schema
    BY <2>2 DEF Schema
  <2>4. SchemasFit => Fits(s, rev')
    BY <2>1, <2>2 DEF SchemasFit, Fits, Schema
  <2>5. QED
    BY <2>1, <2>3, <2>4, LiveRevised
<1>2. CASE DowngradeV8
  <2> DEFINE s == [live EXCEPT !.category = FALSE]
  <2>1. rev = 10 /\ rev' = 9 /\ UNCHANGED record /\ db' = [db EXCEPT !["routing"] = s]
    BY <1>2 DEF DowngradeV8, From, live
  <2>2. live \in Schema /\ live # Absent
    BY <2>1, LiveTyped, NoSchemaAssumption
  <2>3. s \in Schema
    BY <2>2 DEF Schema
  <2>4. SchemasFit => Fits(s, rev')
    BY <2>1, <2>2 DEF SchemasFit, Fits, Schema
  <2>5. QED
    BY <2>1, <2>3, <2>4, LiveRevised
<1>3. ASSUME NEW n \in 4..9, From(n), UNCHANGED <<db, record>>
      PROVE  SchemasTyped' /\ (SchemasFit => SchemasFit')
  <2>1. rev = n /\ rev' = n - 1
    BY <1>3 DEF From
  <2>2. SchemasFit => (live # Absent => Fits(live, rev'))
    BY <2>1 DEF SchemasFit, Fits
  <2>3. QED
    BY <1>3, <2>1, <2>2, LiveKept
<1>4. CASE DowngradeCostColumns
  <2> DEFINE s == [live EXCEPT !.costs = FALSE]
  <2>1. rev = 3 /\ rev' = 2 /\ UNCHANGED record /\ db' = [db EXCEPT !["routing"] = s]
    BY <1>4 DEF DowngradeCostColumns, From, live
  <2>2. live \in Schema /\ live # Absent
    BY <2>1, LiveTyped, NoSchemaAssumption
  <2>3. s \in Schema
    BY <2>2 DEF Schema
  <2>4. SchemasFit => Fits(s, rev')
    BY <2>1, <2>2 DEF SchemasFit, Fits, Schema
  <2>5. QED
    BY <2>1, <2>3, <2>4, LiveRevised
<1>5. CASE DowngradeFacilities
  <2> DEFINE s == [live EXCEPT !.pois = Absent, !.category = FALSE, !.keys = {}]
  <2>1. rev = 2 /\ rev' = 1 /\ UNCHANGED record /\ db' = [db EXCEPT !["routing"] = s]
    BY <1>5 DEF DowngradeFacilities, From, live
  <2>2. live \in Schema /\ live # Absent
    BY <2>1, LiveTyped, NoSchemaAssumption
  <2>3. s \in Schema
    BY <2>2 DEF Schema
  <2>4. SchemasFit => Fits(s, rev')
    BY <2>1, <2>2 DEF SchemasFit, Fits, Schema
  <2>5. QED
    BY <2>1, <2>3, <2>4, LiveRevised
<1>6. CASE DowngradeBaseline
  <2>1. rev = 1 /\ rev' = 0 /\ UNCHANGED <<db, record>>
    BY <1>6 DEF DowngradeBaseline, From
  <2>2. SchemasFit => (live # Absent => Fits(live, rev'))
    BY <2>1 DEF SchemasFit, Fits
  <2>3. QED
    BY <2>1, <2>2, LiveKept
<1>7. QED
  BY <1>1, <1>2, <1>3, <1>4, <1>5, <1>6
     DEF Downgrade, DowngradeV7, DowngradeV6, DowngradeV5, DowngradeV4, DowngradeV3,
         DowngradeV2, Restore, Relabel

LEMMA EtlBuildSchemas ==
  ASSUME SchemasTyped, EtlBuild
  PROVE  SchemasTyped' /\ (SchemasFit => SchemasFit')
<1> DEFINE built == [ways |-> TRUE, costs |-> TRUE, pois |-> loads', category |-> TRUE,
                     counts |-> loads',
                     keys |-> IF \E n \in Names \ {"routing_next"} :
                                   db[n] # Absent /\ LoaderKey \in db[n].keys
                              THEN {} ELSE {LoaderKey}]
           s == IF ~helper THEN Absent ELSE built
<1>1. /\ db' = [db EXCEPT !["routing_next"] = s]
      /\ loads' = loads + 1 /\ loads < MaxLoads /\ rev' = rev /\ retiredAt' = retiredAt
  BY DEF EtlBuild
<1>2. loads' \in Loads
  BY <1>1, MaxLoadsAssumption DEF SchemasTyped, Loads
<1>3. s \in Schema \union {Absent}
  BY <1>2 DEF Schema
<1>4. s # Absent => Complete(s)
  BY <1>2 DEF Complete
<1>5. live' = live /\ Retired' = Retired /\ Staged' = s
  BY <1>1 DEF SchemasTyped, Names, live, Retired, Staged
<1>6. SchemasTyped'
  BY <1>1, <1>2, <1>3, <1>5 DEF SchemasTyped
<1>7. ASSUME SchemasFit PROVE SchemasFit'
  BY <1>1, <1>4, <1>5, <1>7 DEF SchemasFit, Fits, Complete
<1>8. QED
  BY <1>6, <1>7

LEMMA EtlSwapSchemas ==
  ASSUME SchemasTyped, rev \in 0..Head, EtlSwap
  PROVE  SchemasTyped' /\ (SchemasFit => SchemasFit')
<1>1. rev' = rev /\ loads' = loads /\ Staged # Absent
  BY DEF EtlSwap, Staged
<1>2. Staged \in Schema
  BY <1>1 DEF SchemasTyped, Names, Staged
<1>3. SchemasFit => Fits(Staged, rev)
  BY <1>1, <1>2, CompleteFits DEF SchemasFit
<1>4. CASE live # Absent /\ live.ways
  <2>1. /\ db' = [db EXCEPT !["routing_prev"] = live, !["routing"] = Staged,
                            !["routing_next"] = Absent]
        /\ retiredAt' = rev
    BY <1>4 DEF EtlSwap, Staged
  <2>2. live' = Staged /\ Retired' = live /\ Staged' = Absent
    BY <2>1 DEF SchemasTyped, Names, live, Retired, Staged
  <2>3. SchemasTyped'
    BY <1>1, <1>2, <2>1, <2>2, LiveTyped DEF SchemasTyped
  <2>4. ASSUME SchemasFit PROVE SchemasFit'
    BY <1>1, <1>3, <1>4, <2>1, <2>2, <2>4 DEF SchemasFit, Fits
  <2>5. QED
    BY <2>3, <2>4
<1>5. CASE ~(live # Absent /\ live.ways)
  <2>1. /\ db' = [db EXCEPT !["routing"] = Staged, !["routing_next"] = Absent]
        /\ retiredAt' = retiredAt
    BY <1>5 DEF EtlSwap, Staged
  <2>2. live' = Staged /\ Retired' = Retired /\ Staged' = Absent
    BY <2>1 DEF SchemasTyped, Names, live, Retired, Staged
  <2>3. SchemasTyped'
    BY <1>1, <1>2, <2>1, <2>2 DEF SchemasTyped
  <2>4. ASSUME SchemasFit PROVE SchemasFit'
    BY <1>1, <1>3, <2>1, <2>2, <2>4 DEF SchemasFit, Fits
  <2>5. QED
    BY <2>3, <2>4
<1>6. QED
  BY <1>4, <1>5

LEMMA RollbackSchemas ==
  ASSUME SchemasTyped, Rollback
  PROVE  SchemasTyped' /\ (SchemasFit /\ ~SwapBackAny => SchemasFit')
<1>1. /\ rev' = rev /\ loads' = loads /\ retiredAt' = retiredAt
      /\ Retired # Absent /\ live # Absent
      /\ ~SwapBackAny => retiredAt = rev
      /\ db' = [db EXCEPT !["routing_failed"] = live, !["routing"] = Retired,
                          !["routing_prev"] = Absent]
  BY DEF Rollback, Retired, record
<1>2. live' = Retired /\ Retired' = Absent /\ Staged' = Staged
  BY <1>1 DEF SchemasTyped, Names, live, Retired, Staged
<1>3. Retired \in Schema \union {Absent}
  BY DEF SchemasTyped, Names, Retired
<1>4. SchemasTyped'
  BY <1>1, <1>2, <1>3, LiveTyped DEF SchemasTyped
<1>5. ASSUME SchemasFit, ~SwapBackAny PROVE SchemasFit'
  BY <1>1, <1>2, <1>5 DEF SchemasFit, Fits, Complete
<1>6. QED
  BY <1>4, <1>5

LEMMA StepSchemas ==
  ASSUME FunctionSafe, SchemasTyped, [Next]_vars
  PROVE  SchemasTyped' /\ (SchemasFit /\ ~SwapBackAny => SchemasFit')
<1>1. rev \in 0..Head /\ rev' \in 0..Head
  BY StepFunctionSafe DEF FunctionSafe
<1>2. CASE Upgrade
  BY <1>1, <1>2, UpgradeSchemas
<1>3. CASE Downgrade
  BY <1>1, <1>3, DowngradeSchemas
<1>4. CASE EtlBuild
  BY <1>4, EtlBuildSchemas
<1>5. CASE EtlSwap
  BY <1>1, <1>5, EtlSwapSchemas
<1>6. CASE Rollback
  BY <1>6, RollbackSchemas
<1>7. CASE UNCHANGED vars
  <2>1. SchemasTyped'
    BY <1>7 DEF vars, record, SchemasTyped, live
  <2>2. SchemasFit => SchemasFit'
    BY <1>7 DEF vars, record, SchemasFit, live, Retired, Staged, Fits, Complete
  <2>3. QED
    BY <2>1, <2>2
<1>8. QED
  BY <1>2, <1>3, <1>4, <1>5, <1>6, <1>7 DEF Next

(* Every state component keeps its type, whatever is migrated, loaded or   *)
(* rolled back, also across a migration.                                   *)
THEOREM TypeCorrect == Spec => []TypeOK
<1>1. Init => FunctionSafe /\ SchemasTyped
  BY InitFunctionSafe, InitSchemas
<1>2. FunctionSafe /\ SchemasTyped /\ [Next]_vars => FunctionSafe' /\ SchemasTyped'
  BY StepFunctionSafe, StepSchemas
<1>3. FunctionSafe /\ SchemasTyped => TypeOK
  BY DEF FunctionSafe, SchemasTyped, TypeOK
<1>4. QED
  BY <1>1, <1>2, <1>3, PTL DEF Spec

(* The inductive invariant about the schemas.                              *)
THEOREM SchemasAreSafe ==
  ~SwapBackAny => (Spec => [](FunctionSafe /\ SchemasTyped /\ SchemasFit))
<1> SUFFICES ASSUME ~SwapBackAny
             PROVE  Spec => [](FunctionSafe /\ SchemasTyped /\ SchemasFit)
  OBVIOUS
<1>1. Init => FunctionSafe /\ SchemasTyped /\ SchemasFit
  BY InitFunctionSafe, InitSchemas
<1>2. FunctionSafe /\ SchemasTyped /\ SchemasFit /\ [Next]_vars
        => FunctionSafe' /\ SchemasTyped' /\ SchemasFit'
  BY StepFunctionSafe, StepSchemas
<1>3. QED
  BY <1>1, <1>2, PTL DEF Spec

(* Where a network is live, the installed body finds every column and the  *)
(* helper it reads, as long as no rollback crosses a migration             *)
(* (20260623_0003:463, swap_schema.sql:30).                                *)
THEOREM BodiesFindTheirColumns == ~SwapBackAny => (Spec => []BodyFindsItsColumns)
<1> SUFFICES ASSUME ~SwapBackAny PROVE Spec => []BodyFindsItsColumns
  OBVIOUS
<1>1. FunctionSafe /\ SchemasTyped /\ SchemasFit => BodyFindsItsColumns
  <2> SUFFICES ASSUME FunctionSafe, SchemasFit, body # Absent, live # Absent, live.ways
               PROVE  Finds(body)
    BY DEF BodyFindsItsColumns
  <2>1. rev \in 4..Head /\ Fits(live, rev)
    BY DEF FunctionSafe, SchemasFit, Head
  <2>2. live.costs /\ live.pois # Absent
    BY <2>1 DEF Fits, Head
  <2>3. body = 8 => rev >= 10 /\ helper
    BY DEF FunctionSafe
  <2>4. rev >= 10 => live.category
    BY <2>1 DEF Fits
  <2>5. QED
    BY <2>2, <2>3, <2>4 DEF Finds
<1>2. QED
  BY <1>1, SchemasAreSafe, PTL

(* No catalogue that loads, rollbacks and earlier revisions leave makes    *)
(* the next upgrade fail.                                                  *)
THEOREM UpgradesNeverStick == ~SwapBackAny => (Spec => []UpgradesGoThrough)
<1> SUFFICES ASSUME ~SwapBackAny PROVE Spec => []UpgradesGoThrough
  OBVIOUS
<1>1. FunctionSafe /\ SchemasTyped /\ SchemasFit => UpgradesGoThrough
  BY DEF SchemasTyped, SchemasFit, Fits, UpgradesGoThrough, HasFacilities
<1>2. QED
  BY <1>1, SchemasAreSafe, PTL

(* At the head, the counts served are those of the live facilities         *)
(* (20260623_0004:47).                                                     *)
THEOREM CountsAreOfTheLive == ~SwapBackAny => (Spec => []CountsOfTheLiveFacilities)
<1> SUFFICES ASSUME ~SwapBackAny PROVE Spec => []CountsOfTheLiveFacilities
  OBVIOUS
<1>1. FunctionSafe /\ SchemasTyped /\ SchemasFit => CountsOfTheLiveFacilities
  BY DEF SchemasTyped, SchemasFit, Fits, CountsOfTheLiveFacilities, Emptied, Head
<1>2. QED
  BY <1>1, SchemasAreSafe, PTL
=============================================================================
