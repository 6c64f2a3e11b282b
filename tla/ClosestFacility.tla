-------------------------- MODULE ClosestFacility --------------------------
(***************************************************************************)
(* The database function closest_facility() in the seven bodies the        *)
(* Alembic revisions installed (v2 .. v8), asked about networks that the   *)
(* loader's stages built from an extract.                                  *)
(*                                                                         *)
(* The stages run once, in their order; from then on the network is read   *)
(* only, and a call is one step that stores a question and an answer the   *)
(* function may give: PostgreSQL is free to pick any of several nearest    *)
(* vertices, pgr_dijkstra any of several cheapest paths, and ROW_NUMBER    *)
(* any order of rows with equal costs.                                     *)
(***************************************************************************)
EXTENDS RoadNetwork

CONSTANTS
  Extracts,    \* the extracts a load may start from
  Questions,   \* the calls to try
  Bodies       \* the bodies to ask, a subset of 2..8

ASSUME ExtractsAssumption == \A x \in Extracts : IsExtract(x)
ASSUME BodiesAssumption == Bodies \subseteq 2..8

(* What the request model lets through (models/api.py).                    *)
ASSUME QuestionsAssumption ==
  \A q \in Questions :
    /\ DOMAIN q = {"incident", "buffer", "filter", "k", "cost_mode"}
    /\ q.incident \in Point /\ q.buffer \in Nat /\ q.k \in Nat

\* The speed of a road by its tags.
RoadSpeed(way) ==
  IF ParseMaxspeed(way.maxspeed) \in {Null, 0} THEN DefaultSpeed[TagIdByHighway[way.highway]]
  ELSE ParseMaxspeed(way.maxspeed)

(* The database divides floating point numbers: the model's unit of time   *)
(* is fine enough for its division to leave nothing over.                  *)
ASSUME TimeUnitsAreFine ==
  \A x \in Extracts : \A way \in WaysImport(x) : TimeUnits % RoadSpeed(way) = 0

VARIABLES
  extract,     \* the extract being loaded
  stage,       \* the last stage that is complete: "extract", "import", "noding",
               \* "cost" or "facilities"
  ways,        \* edges
  vertices,    \* ways_vertices_pgr
  facilities,
  categories,  \* facility_categories: category -> count
  asked,       \* the last call: body and question, or Null
  answer       \* what it returned or raised, or Null

network == <<extract, stage, ways, vertices, facilities, categories>>
vars    == <<network, asked, answer>>

-----------------------------------------------------------------------------
(* The load                                                                *)
Init ==
  /\ extract \in Extracts
  /\ stage = "extract"
  /\ ways = {} /\ vertices = {} /\ facilities = {} /\ categories = <<>>
  /\ asked = Null /\ answer = Null

\* osm2pgsql with routing.lua.
Import ==
  /\ stage = "extract"
  /\ stage' = "import"
  /\ facilities' = Facilities(extract)
  /\ UNCHANGED <<extract, ways, vertices, categories, asked, answer>>

\* 01_node_network.sql
NodeNetwork ==
  /\ stage = "import"
  /\ stage' = "noding"
  /\ ways' = NodedWays(extract)
  /\ vertices' = ExtractVertices(ways')
  /\ UNCHANGED <<extract, facilities, categories, asked, answer>>

\* 02_cost_columns.sql
CostColumns ==
  /\ stage = "noding"
  /\ stage' = "cost"
  /\ ways' = {Priced(w) : w \in ways}
  /\ UNCHANGED <<extract, vertices, facilities, categories, asked, answer>>

\* Mutant: the categories are counted before the far facilities are deleted.
SnapAfterCounting ==
  /\ stage = "cost"
  /\ stage' = "facilities"
  /\ \E nearest \in NearestVertices(facilities, vertices) :
       facilities' = Categorised(Snapped(facilities, nearest))
  /\ categories' = CategoryCounts(Categorised(facilities))
  /\ UNCHANGED <<extract, ways, vertices, asked, answer>>

\* 03_facilities.sql
SnapFacilities ==
  /\ stage = "cost"
  /\ stage' = "facilities"
  /\ \E nearest \in NearestVertices(facilities, vertices) :
       facilities' = Categorised(Snapped(facilities, nearest))
  /\ categories' = CategoryCounts(facilities')
  /\ UNCHANGED <<extract, ways, vertices, asked, answer>>

-----------------------------------------------------------------------------
(* pgr_dijkstra: any cheapest path for each destination that is not the    *)
(* start itself and can be reached.  A path is a sequence of arcs.         *)

\* Mutant: one-way streets are open both ways.
ArcsBothWays(edges, costMode, oneWayAware) ==
  LET Cost(w) == IF costMode = "distance" THEN w.cost_distance ELSE w.cost_time
  IN  UNION {{[from |-> w.source, to |-> w.target, way |-> w, cost |-> Cost(w)],
              [from |-> w.target, to |-> w.source, way |-> w, cost |-> Cost(w)]} : w \in edges}

Arcs(edges, costMode, oneWayAware) ==
  LET Cost(w) == IF costMode = "distance" THEN w.cost_distance ELSE w.cost_time
      Forward(w)  == [from |-> w.source, to |-> w.target, way |-> w, cost |-> Cost(w)]
      Backward(w) == [from |-> w.target, to |-> w.source, way |-> w, cost |-> Cost(w)]
  IN  {Forward(w) : w \in edges}
        \union {Backward(w) : w \in {e \in edges : ~(oneWayAware /\ e.oneway = 1)}}

\* One round of relaxation of the costs known so far.
Relax(arcs, known) ==
  LET Out     == {a \in arcs : a.from \in DOMAIN known}
      Into(v) == {known[a.from] + a.cost : a \in {b \in Out : b.to = v}}
      Kept(v) == IF v \in DOMAIN known THEN {known[v]} ELSE {}
  IN  [v \in DOMAIN known \union {a.to : a \in Out} |-> Min(Kept(v) \union Into(v))]

\* The cheapest cost of every place reachable from start.
Costs(arcs, start) ==
  LET after[n \in Nat] == IF n = 0 THEN [v \in {start} |-> 0]
                          ELSE Relax(arcs, after[n - 1])
  IN  after[Cardinality({a.to : a \in arcs})]

End(path, start) == IF path = <<>> THEN start ELSE path[Len(path)].to

CheapestPaths(arcs, cost, start) ==
  LET OnTime     == {a \in arcs : /\ a.from \in DOMAIN cost
                                  /\ cost[a.from] + a.cost = cost[a.to]}
      Longer(p)  == {Append(p, a) : a \in {b \in OnTime : b.from = End(p, start)}}
      paths[n \in Nat] == IF n = 0 THEN {<<>>} ELSE UNION {Longer(p) : p \in paths[n - 1]}
  IN  UNION {paths[n] : n \in 0..Cardinality(DOMAIN cost \ {start})}

Dijkstra(arcs, start, ends) ==
  LET cost       == Costs(arcs, start)
      paths      == CheapestPaths(arcs, cost, start)
      PathsTo(v) == {p \in paths : End(p, start) = v}
      reached    == (ends \intersect DOMAIN cost) \ {start}
  IN  {choice \in [reached -> paths] : \A v \in reached : choice[v] \in PathsTo(v)}

-----------------------------------------------------------------------------
(* The stages the bodies share                                             *)
\* Mutant: the facilities' limit for the incident.
FacilitySnap == 100

MaxSnap      == 250
DetourFactor == 2

Error(code) == [error |-> code, rows |-> <<>>]
Rows(rows)  == [error |-> "none", rows |-> rows]

\* The checks before the search: the cost mode, and a vertex near enough.
Guarded(q, OffGraph, Search(_)) ==
  IF q.cost_mode \notin {"distance", "time"} THEN {Error("invalid_cost_mode")}
  ELSE IF vertices = {} THEN {OffGraph}
  ELSE UNION {IF Distance(v, q.incident) > MaxSnap THEN {OffGraph} ELSE Search(v) :
                v \in Nearest(vertices, q.incident)}

\* Does the bounding box of a set of points meet the box around the incident?
InBox(points, q) ==
  LET r == q.buffer * DetourFactor
      Meets(i) == /\ Min({p[i] : p \in points}) <= q.incident[i] + r
                  /\ Max({p[i] : p \in points}) >= q.incident[i] - r
  IN  Meets(1) /\ Meets(2)

EdgesInBox(q) == {w \in ways : InBox(ToSet(w.geom), q)}

Wanted(q) ==
  {f \in facilities : /\ f.vertex # Null
                      /\ Distance(f.geom, q.incident) <= q.buffer
                      /\ q.filter \subseteq f.tags}

\* Mutant: the prefilter takes the place of the distance check.
InBoxOnly(q) ==
  {f \in facilities : f.vertex # Null /\ InBox({f.geom}, q) /\ q.filter \subseteq f.tags}

WantedInBox(q) == {f \in Wanted(q) : InBox({f.geom}, q)}

Vertices(fs) == {f.vertex : f \in fs}

\* totals, paths and combined, joined with every facility on the vertex.
Route(f, path) ==
  [facility         |-> f.id,
   total_cost       |-> SumOver(path, LAMBDA a : a.cost),
   total_distance_m |-> SumOver(path, LAMBDA a : a.way.cost_distance),
   total_time_s     |-> SumOver(path, LAMBDA a : a.way.cost_time),
   route            |-> [i \in DOMAIN path |-> path[i].way.gid]]

OnVertex(v) == {f \in facilities : f.vertex = v}

\* v4 groups by the running agg_cost: a row for each edge of each path.
RoutesByEdge(paths) ==
  UNION {{[Route(f, paths[v]) EXCEPT
             !.total_cost = SumOver(SubSeq(paths[v], 1, i - 1), LAMBDA a : a.cost),
             !.route      = <<@[i]>>] : f \in OnVertex(v), i \in DOMAIN paths[v]} :
           v \in DOMAIN paths}

RoutesByVertex(paths) ==
  UNION {{Route(f, paths[v]) : f \in OnVertex(v)} : v \in DOMAIN paths}

\* v8 adds the facility's own columns.
WithAttributes(routes) ==
  UNION {{[facility          |-> r.facility,
           total_cost        |-> r.total_cost,
           total_distance_m  |-> r.total_distance_m,
           total_time_s      |-> r.total_time_s,
           route             |-> r.route,
           facility_category |-> IF f.category = Null THEN FacilityCategory(f.tags)
                                 ELSE f.category,
           facility_geom     |-> f.geom] : r \in {s \in routes : s.facility = f.id}} :
           f \in facilities}

\* Mutant: LIMIT before ORDER BY.
LimitedFirst(routes, k) ==
  {Rows(SetToSortSeq(chosen, LAMBDA r, t : r.total_cost < t.total_cost)) :
     chosen \in kSubset(Min({k, Cardinality(routes)}), routes)}

\* ROW_NUMBER() OVER (ORDER BY total_cost), ORDER BY rank LIMIT k.
Ranked(routes, k) ==
  {Rows(s) : s \in
    {t \in TupleOf(routes, Min({k, Cardinality(routes)})) :
       \A i \in DOMAIN t :
         /\ \A j \in 1..(i - 1) : t[j] # t[i]
         /\ \A r \in routes \ {t[j] : j \in 1..i} : t[i].total_cost <= r.total_cost}}

-----------------------------------------------------------------------------
(* The bodies                                                              *)
\* No facility to go to: an empty answer.  Else the routes, put together by
\* Assemble from the cheapest paths through the given edges.
Search(q, start, wanted, edges, oneWayAware, Assemble(_)) ==
  IF wanted = {} THEN {Rows(<<>>)}
  ELSE UNION {Ranked(Assemble(paths), q.k) :
                paths \in Dijkstra(Arcs(edges, q.cost_mode, oneWayAware),
                                   start, Vertices(wanted))}

\* A bad format() directive where an incident is off the graph, an ambiguous
\* column name wherever a route is wanted.
ClosestFacilityV2(q) ==
  Guarded(q, Error("format"),
          LAMBDA v : IF Wanted(q) = {} THEN {Rows(<<>>)} ELSE {Error("ambiguous")})

\* v3 mends format().
ClosestFacilityV3(q) ==
  Guarded(q, Error("incident_off_graph"),
          LAMBDA v : IF Wanted(q) = {} THEN {Rows(<<>>)} ELSE {Error("ambiguous")})

\* v4 mends the names.
ClosestFacilityV4(q) ==
  Guarded(q, Error("incident_off_graph"),
          LAMBDA v : Search(q, v, Wanted(q), ways, FALSE, RoutesByEdge))

\* v5 mends the aggregation.
ClosestFacilityV5(q) ==
  Guarded(q, Error("incident_off_graph"),
          LAMBDA v : Search(q, v, Wanted(q), ways, FALSE, RoutesByVertex))

\* v6 searches the edges in the box and minds one-way streets.
ClosestFacilityV6(q) ==
  Guarded(q, Error("incident_off_graph"),
          LAMBDA v : Search(q, v, Wanted(q), EdgesInBox(q), TRUE, RoutesByVertex))

\* v7 looks for facilities in the box first.
ClosestFacilityV7(q) ==
  Guarded(q, Error("incident_off_graph"),
          LAMBDA v : Search(q, v, WantedInBox(q), EdgesInBox(q), TRUE, RoutesByVertex))

\* v8 returns the facility's attributes as well.
ClosestFacilityV8(q) ==
  Guarded(q, Error("incident_off_graph"),
          LAMBDA v : Search(q, v, WantedInBox(q), EdgesInBox(q), TRUE,
                            LAMBDA paths : WithAttributes(RoutesByVertex(paths))))

Answers(body, q) ==
  CASE body = 2 -> ClosestFacilityV2(q)
    [] body = 3 -> ClosestFacilityV3(q)
    [] body = 4 -> ClosestFacilityV4(q)
    [] body = 5 -> ClosestFacilityV5(q)
    [] body = 6 -> ClosestFacilityV6(q)
    [] body = 7 -> ClosestFacilityV7(q)
    [] body = 8 -> ClosestFacilityV8(q)

Ask(body, q) ==
  /\ stage = "facilities"
  /\ asked' = [body |-> body, q |-> q]
  /\ answer' \in Answers(body, q)
  /\ UNCHANGED network

Next ==
  \/ Import \/ NodeNetwork \/ CostColumns \/ SnapFacilities
  \/ \E body \in Bodies, q \in Questions : Ask(body, q)

Spec == Init /\ [][Next]_vars

-----------------------------------------------------------------------------
(* The reference: the roads of the extract, from node to node, without     *)
(* edges, vertices or a box.                                               *)
RoadArcs(costMode) ==
  UNION {LET n == way.nodes
             Metres(i) == Distance(extract.pos[n[i]], extract.pos[n[i + 1]])
             Cost(i)   == IF costMode = "distance" THEN Metres(i)
                          ELSE (Metres(i) * TimeUnits) \div RoadSpeed(way)
             steps     == 1..(Len(n) - 1)
         IN  {[from |-> n[i], to |-> n[i + 1], cost |-> Cost(i)] :
                i \in {j \in steps : OnewayDirection(way) # -1}}
             \union
             {[from |-> n[i + 1], to |-> n[i], cost |-> Cost(i)] :
                i \in {j \in steps : OnewayDirection(way) # 1}} :
         way \in WaysImport(extract)}

SplitNodes ==
  UNION {{way.nodes[i] : i \in Splits(extract, way)} : way \in WaysImport(extract)}

\* The extracts the node-by-node noding is meant for: no collapsed or missing
\* points, and no two split nodes in one place.
WellFormed ==
  /\ \A way \in WaysImport(extract) : Aligned(extract, way)
  /\ \A m, n \in SplitNodes : extract.pos[m] = extract.pos[n] => m = n

NodeAt(v) == CHOOSE n \in SplitNodes : extract.pos[n] = v

-----------------------------------------------------------------------------
(* Properties                                                              *)
\* Noding, splitting at shared nodes and turning one-way streets round keep
\* every road journey: from each split node the edges reach exactly the nodes
\* the roads of the extract reach, at the same length and in the same time.
\* (01_node_network.sql with 02_cost_columns.sql.)
NodingKeepsTheRoads ==
  stage = "cost" /\ WellFormed =>
    \A m \in SplitNodes, mode \in {"distance", "time"} :
      LET road == Costs(RoadArcs(mode), m)
          edge == Costs(Arcs(ways, mode, TRUE), extract.pos[m])
      IN  \A n \in SplitNodes :
            LET v == extract.pos[n]
            IN  /\ n \in DOMAIN road <=> v \in DOMAIN edge
                /\ n \in DOMAIN road => road[n] = edge[v]

\* What a call asks for: facilities in the buffer that match the filter.
MustServe(q) ==
  {f \in facilities : Distance(f.geom, q.incident) <= q.buffer /\ q.filter \subseteq f.tags}

Facility(id) == CHOOSE f \in facilities : f.id = id
Answered     == asked # Null /\ answer.error = "none"
Served       == {answer.rows[i].facility : i \in DOMAIN answer.rows}

\* Since v6, where all edges are in the box: every row costs what the cheapest
\* way along the extract's roads costs, in the travel direction, and a facility
\* is left out only behind k rows that are not dearer (or on the incident's own
\* vertex, see OwnVertexIsServed).
NothingCloserLeftOut ==
  Answered /\ asked.body >= 6 /\ WellFormed /\ EdgesInBox(asked.q) = ways =>
    \E v \in Nearest(vertices, asked.q.incident) :
      LET road  == Costs(RoadArcs(asked.q.cost_mode), NodeAt(v))
          At(f) == NodeAt(f.vertex)
      IN  /\ \A i \in DOMAIN answer.rows :
               answer.rows[i].total_cost = road[At(Facility(answer.rows[i].facility))]
          /\ \A f \in MustServe(asked.q) :
               \/ f.id \in Served \/ f.vertex = v \/ At(f) \notin DOMAIN road
               \/ /\ Len(answer.rows) = asked.q.k
                  /\ \A i \in DOMAIN answer.rows :
                       answer.rows[i].total_cost <= road[At(f)]

\* Since v5: each facility has one row, the rows are ordered by a cost that is
\* the length or the time of the whole route, and each row's vertex is the
\* vertex of a facility that was asked for.
RowsAreJustified ==
  Answered /\ asked.body >= 5 =>
    LET rows == answer.rows
        q    == asked.q
    IN  \A i \in DOMAIN rows :
          /\ rows[i].total_cost = IF q.cost_mode = "distance" THEN rows[i].total_distance_m
                                                               ELSE rows[i].total_time_s
          /\ Facility(rows[i].facility).vertex \in Vertices(MustServe(q))
          /\ \A j \in 1..(i - 1) : /\ rows[j].facility # rows[i].facility
                                   /\ rows[j].total_cost <= rows[i].total_cost

\* The rewrites for speed keep the answers: the facility prefilter of v7 and the
\* attributes of v8 change no row, and on two-way roads inside the box v6 says
\* what v5 says.  (20260623_0002 claims the first: correctness is unchanged.)
RewritesKeepTheAnswer ==
  stage = "facilities" /\ asked = Null =>
    \A q \in Questions :
      LET Bare(row) == [c \in DOMAIN row \ {"facility_category", "facility_geom"} |-> row[c]]
          v8        == {[a EXCEPT !.rows = [i \in DOMAIN @ |-> Bare(@[i])]] : a \in ClosestFacilityV8(q)}
      IN  /\ ClosestFacilityV7(q) = ClosestFacilityV6(q)
          /\ v8 = ClosestFacilityV7(q)
          /\ (\A w \in ways : w.oneway = 0) /\ EdgesInBox(q) = ways =>
               ClosestFacilityV5(q) = ClosestFacilityV6(q)

\* Asking for a wider buffer never loses a row and never makes the i-th one
\* dearer, although the box, the candidates and the paths all change with it.
WiderBufferNeverWorse ==
  stage = "facilities" /\ asked = Null =>
    \A p, q \in Questions :
      q = [p EXCEPT !.buffer = q.buffer] /\ p.buffer < q.buffer
          /\ Cardinality(Nearest(vertices, p.incident)) <= 1 =>
        \A narrow \in ClosestFacilityV8(p), wide \in ClosestFacilityV8(q) :
          /\ wide.error = narrow.error
          /\ \A i \in DOMAIN narrow.rows :
               /\ i \in DOMAIN wide.rows
               /\ wide.rows[i].total_cost <= narrow.rows[i].total_cost

\* The nearest vertex is chosen by degrees and judged by metres.  Still, what is
\* nearer to a road than the limit divided by Stretch is always attached to it,
\* and what is farther from every vertex than the limit never is: the incident
\* (250 m, since v3) and the facilities (100 m).
SnapDecidesByDistance ==
  LET Near(p, limit) == \E v \in vertices : Distance(p, v) * Stretch <= limit
      Far(p, limit)  == \A v \in vertices : Distance(p, v) > limit
      OffGraph       == answer.error = "incident_off_graph"
      kept           == {f.id : f \in facilities}
  IN  /\ asked # Null /\ asked.body >= 3 /\ asked.q.cost_mode \in {"distance", "time"} =>
           /\ Near(asked.q.incident, 250) => ~OffGraph
           /\ Far(asked.q.incident, 250)  => OffGraph
      /\ stage = "facilities" =>
           \A f \in Facilities(extract) : /\ Near(f.geom, 100) => f.id \in kept
                                          /\ Far(f.geom, 100)  => f.id \notin kept

\* The category table that swaps in with a network counts the facilities an
\* answer can name, and every category an answer shows is in the table.
CategoriesOfTheNetwork ==
  stage = "facilities" =>
    /\ \A c \in DOMAIN categories :
         categories[c] = Cardinality({f \in facilities : /\ f.vertex # Null
                                                         /\ FacilityCategory(f.tags) = c})
    /\ Answered /\ asked.body = 8 =>
         \A i \in DOMAIN answer.rows : answer.rows[i].facility_category \in DOMAIN categories

\* What 20260622_0003:30 describes ("NULL when routed via vertex only (no
\* edges)"): a facility on the very vertex the incident snaps to has a row.
OwnVertexIsServed ==
  Answered /\ asked.body = 8 =>
    \A v \in vertices : Nearest(vertices, asked.q.incident) = {v} =>
      \A f \in MustServe(asked.q) :
        f.vertex = v =>
          \/ f.id \in Served
          \/ \E i \in DOMAIN answer.rows : i = asked.q.k /\ answer.rows[i].total_cost = 0

\* What the header of 20260622_0003 says of the candidates ("facilities within
\* buffer_m via ST_DWithin", "filtered further when facility_filter JSONB is
\* given"): every row is of a facility in the buffer that matches the filter.
\* The join back to facilities goes by the vertex alone.
RowsAreAskedFor ==
  Answered /\ asked.body >= 5 =>
    Served \subseteq {f.id : f \in MustServe(asked.q)}

\* What the header of 03_facilities.sql says it deletes ("rows that could not be
\* snapped (no vertex within 100 m)"): a facility with a vertex within 100 m
\* stays.  The nearest vertex by degrees may be farther, and it alone is judged.
SnappableFacilityStays ==
  stage = "facilities" =>
    \A f \in Facilities(extract) :
      (\E v \in vertices : Distance(f.geom, v) <= 100)
        => f.id \in {g.id : g \in facilities}
=============================================================================
