---------------------------- MODULE RoadNetwork ----------------------------
(***************************************************************************)
(* What the loader's import and SQL stages compute: the osm2pgsql style    *)
(* (infra/etl/routing.lua) that keeps the routable ways and the points of  *)
(* interest, the noding script that cuts ways into edges, the script that  *)
(* prices them, and the script that attaches facilities to vertices.       *)
(*                                                                         *)
(* An extract is data: where its nodes are, its ways as sequences of nodes *)
(* with the tags the style reads, its points of interest.  A point is a    *)
(* pair of metres and the true distance of two points is the sum of the    *)
(* two coordinate differences; the geometry operator <->, which compares   *)
(* degrees, sees east-west differences Stretch = 1/cos(latitude) times as  *)
(* long.  An edge's gid is the span of the way it was cut from; a vertex   *)
(* is its point, because pgr_extractVertices tells vertices by geometry.   *)
(***************************************************************************)
EXTENDS Integers, Sequences, FiniteSets, SequencesExt, FiniteSetsExt

CONSTANTS
  Stretch,     \* 1 / cos(latitude) of the region, rounded up
  TimeUnits,   \* cost_time is counted in 3.6/TimeUnits seconds
  CleanForm,   \* tag value written with blanks or capitals -> lower(trim(it))
  Null         \* SQL NULL

ASSUME StretchAssumption   == Stretch \in Nat \ {0}
ASSUME TimeUnitsAssumption == TimeUnits \in Nat \ {0}

-----------------------------------------------------------------------------
(* Geometry                                                                *)
Absolute(n)    == IF n < 0 THEN -n ELSE n
East(p, q)     == Absolute(p[1] - q[1])
North(p, q)    == Absolute(p[2] - q[2])
Distance(p, q) == East(p, q) + North(p, q)             \* ST_Distance, geography
Degrees(p, q)  == Stretch * East(p, q) + North(p, q)   \* p <-> q

Total(numbers) ==
  LET sum[n \in 0..Len(numbers)] == IF n = 0 THEN 0 ELSE sum[n - 1] + numbers[n]
  IN  sum[Len(numbers)]

SumOver(s, Op(_)) == Total([i \in DOMAIN s |-> Op(s[i])])
Hops(s)           == [i \in 1..(Len(s) - 1) |-> <<s[i], s[i + 1]>>]
Length(line)      == SumOver(Hops(line), LAMBDA h : Distance(h[1], h[2]))

\* ORDER BY the_geom <-> p LIMIT 1: any vertex no other is nearer than.
Nearest(vertices, p) ==
  {v \in vertices : \A u \in vertices : Degrees(v, p) <= Degrees(u, p)}

-----------------------------------------------------------------------------
(* What an extract holds.  The id of a point of interest or an area stands *)
(* for the surrogate facility_id, so it names one facility.                *)
Point == Int \X Int

ASSUME NullAssumption == Null \notin Point

IsExtract(x) ==
  /\ IsFiniteSet(x.pois) /\ IsFiniteSet(x.ways)
  /\ \A n \in DOMAIN x.pos : x.pos[n] \in Point
  /\ \A poi \in x.pois : poi.geom \in Point
  /\ \A way \in x.ways : /\ way.nodes \in Seq(ToSet(way.nodes))
                         /\ way.maxspeed \in {<<>>} \union (Int \X BOOLEAN)
  /\ \A p, q \in x.pois : p.id = q.id => p = q
  /\ \A v, w \in x.ways : v.id = w.id => v = w
  /\ \A p \in x.pois, w \in x.ways : p.id # w.id

-----------------------------------------------------------------------------
(* routing.lua                                                             *)
TagIdByHighway ==
  [motorway |-> 101, motorway_link |-> 102, trunk |-> 103, trunk_link |-> 104,
   primary |-> 105, primary_link |-> 106, secondary |-> 107,
   secondary_link |-> 108, tertiary |-> 109, tertiary_link |-> 110,
   residential |-> 111, living_street |-> 112, unclassified |-> 113,
   service |-> 114]

FacilityKeys == {"amenity", "shop", "tourism"}

\* tags is a set of <<key, value>>; maxspeed is <<>> when the tag is absent or
\* holds no number, else <<number, is it in miles per hour?>>.
ParseMaxspeed(m) ==
  IF m = <<>> \/ m[1] <= 0 THEN Null
  ELSE IF m[2] THEN (m[1] * 1609344 + 500000) \div 1000000
  ELSE m[1]

OnewayDirection(way) ==
  CASE way.oneway \in {"yes", "true", "1"} -> 1
    [] way.oneway \in {"-1", "reverse"}    -> -1
    [] way.oneway \in {"no", "false", "0"} -> 0
    [] OTHER -> IF \/ way.highway \in {"motorway", "motorway_link"}
                   \/ way.junction \in {"roundabout", "circular"}
                THEN 1 ELSE 0

IsFacility(tags) == \E t \in tags : t[1] \in FacilityKeys

\* as_linestring(): nodes the extract lacks are left out, a point equal to the
\* one before it is collapsed, and fewer than two points make no line.
Line(extract, nodes) ==
  LET Skips(line, n) == \/ n \notin DOMAIN extract.pos
                        \/ line # <<>> /\ line[Len(line)] = extract.pos[n]
      line[i \in Nat] ==
        IF i = 0 THEN <<>>
        ELSE IF Skips(line[i - 1], nodes[i]) THEN line[i - 1]
        ELSE Append(line[i - 1], extract.pos[nodes[i]])
  IN  line[Len(nodes)]

Routable(way) == way.highway \in DOMAIN TagIdByHighway

WaysImport(extract) ==
  {way \in extract.ways : Routable(way) /\ Len(Line(extract, way.nodes)) >= 2}

\* The middle of a closed way's bounding box stands for its centroid.
Centroid(line) ==
  LET Middle(S) == (Min(S) + Max(S)) \div 2
  IN  <<Middle({line[i][1] : i \in DOMAIN line}), Middle({line[i][2] : i \in DOMAIN line})>>

AreaFacilities(extract) ==
  {way \in extract.ways :
     /\ ~Routable(way) /\ IsFacility(way.tags)
     /\ Len(way.nodes) > 3 /\ way.nodes[1] = way.nodes[Len(way.nodes)]
     /\ Len(Line(extract, way.nodes)) > 3}

Facilities(extract) ==
       {[id |-> poi.id, tags |-> poi.tags, geom |-> poi.geom, vertex |-> Null,
         category |-> Null] : poi \in {n \in extract.pois : IsFacility(n.tags)}}
  \union
       {[id |-> way.id, tags |-> way.tags, vertex |-> Null, category |-> Null,
         geom |-> Centroid(Line(extract, way.nodes))] : way \in AreaFacilities(extract)}

-----------------------------------------------------------------------------
(* 01_node_network.sql                                                     *)
\* Mutant: a junction needs three references, not two.
JunctionsOfThree(extract) ==
  LET nodes == UNION {ToSet(way.nodes) : way \in WaysImport(extract)}
      Slots(n) == UNION {{<<way.id, i>> : i \in {j \in DOMAIN way.nodes : way.nodes[j] = n}} :
                           way \in WaysImport(extract)}
  IN  {n \in nodes : Cardinality(Slots(n)) > 2}

\* _junction: a node in two or more slots of way_nodes, of one way or of two.
Junctions(extract) ==
  LET nodes == UNION {ToSet(way.nodes) : way \in WaysImport(extract)}
      Slots(n) == UNION {{<<way.id, i>> : i \in {j \in DOMAIN way.nodes : way.nodes[j] = n}} :
                           way \in WaysImport(extract)}
  IN  {n \in nodes : Cardinality(Slots(n)) >= 2}

Aligned(extract, way) == Len(Line(extract, way.nodes)) = Len(way.nodes)

\* _splits: the junctions on the way, and its two ends.
Splits(extract, way) ==
  {1, Len(way.nodes)}
    \union {i \in DOMAIN way.nodes : way.nodes[i] \in Junctions(extract)}

\* _edge_ranges: consecutive splits; a way that is not aligned is one edge.
Spans(extract, way) ==
  IF Aligned(extract, way)
  THEN LET S == Splits(extract, way)
       IN  {span \in S \X S : /\ span[1] < span[2]
                              /\ \A s \in S : ~(span[1] < s /\ s < span[2])}
  ELSE {<<1, Len(Line(extract, way.nodes))>>}

\* A way digitised against the travel direction is turned round.
EdgeOf(extract, way, from, to) ==
  LET piece == SubSeq(Line(extract, way.nodes), from, to)
      line  == IF OnewayDirection(way) = -1 THEN Reverse(piece) ELSE piece
  IN  [gid |-> <<way.id, from, to>>, tag_id |-> TagIdByHighway[way.highway],
       maxspeed |-> ParseMaxspeed(way.maxspeed),
       oneway |-> Absolute(OnewayDirection(way)), geom |-> line,
       source |-> line[1], target |-> line[Len(line)],
       cost_distance |-> Null, cost_time |-> Null]

NodedWays(extract) ==
  UNION {{EdgeOf(extract, way, span[1], span[2]) : span \in Spans(extract, way)} :
           way \in WaysImport(extract)}

\* pgr_extractVertices: one vertex for each point where an edge starts or ends.
ExtractVertices(ways) == {w.source : w \in ways} \union {w.target : w \in ways}

-----------------------------------------------------------------------------
(* 02_cost_columns.sql                                                     *)
DefaultSpeed ==
  [t \in 101..114 |->
     CASE t = 101 -> 110
       [] t = 102 -> 90
       [] t = 103 -> 100
       [] t \in {104, 105} -> 80
       [] t \in {106, 107} -> 60
       [] t \in {108, 109} -> 50
       [] t = 110 -> 40
       [] t \in {111, 113} -> 30
       [] t \in {112, 114} -> 20]

Speed(way) ==
  Max({1, IF way.maxspeed \in {Null, 0} THEN DefaultSpeed[way.tag_id] ELSE way.maxspeed})

Priced(way) ==
  [way EXCEPT !.cost_distance = Length(way.geom),
              !.cost_time     = (Length(way.geom) * TimeUnits) \div Speed(way)]

-----------------------------------------------------------------------------
(* 03_facilities.sql and the helper facility_category(tags)                *)
SnapLimit == 100

\* The snapped facilities of a choice of nearest vertices: those whose vertex
\* is too far by true distance, or who have none, are deleted.
Snapped(facilities, nearest) ==
  {[f EXCEPT !.vertex = nearest[f.id]] :
     f \in {g \in facilities : /\ nearest[g.id] # Null
                               /\ Distance(g.geom, nearest[g.id]) <= SnapLimit}}

\* Every choice the KNN subquery may make, one vertex for each facility.
NearestVertices(facilities, vertices) ==
  LET Candidates(id) ==
        IF vertices = {} THEN {Null}
        ELSE UNION {Nearest(vertices, f.geom) : f \in {g \in facilities : g.id = id}}
      ids == {f.id : f \in facilities}
  IN  {pick \in [ids -> UNION {Candidates(id) : id \in ids}] :
         \A id \in ids : pick[id] \in Candidates(id)}

Clean(value)      == IF value \in DOMAIN CleanForm THEN CleanForm[value] ELSE value
TagValues(tags, k) == {Clean(t[2]) : t \in {u \in tags : u[1] = k}} \ {""}

FacilityCategory(tags) ==
  CASE <<"emergency", "ambulance_station">> \in tags -> "ambulance_station"
    [] TagValues(tags, "amenity") # {} -> CHOOSE c \in TagValues(tags, "amenity") : TRUE
    [] TagValues(tags, "shop") # {}    -> CHOOSE c \in TagValues(tags, "shop") : TRUE
    [] TagValues(tags, "tourism") # {} -> CHOOSE c \in TagValues(tags, "tourism") : TRUE
    [] OTHER -> "other"

Categorised(facilities) ==
  {[f EXCEPT !.category = FacilityCategory(f.tags)] : f \in facilities}

\* facility_categories: how many facilities each category has.
CategoryCounts(facilities) ==
  [c \in {f.category : f \in facilities} |->
     Cardinality({f \in facilities : f.category = c})]
=============================================================================
