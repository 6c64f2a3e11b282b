----------------------- MODULE ClosestFacilityProofs -----------------------
(***************************************************************************)
(* Theorems about ClosestFacility, for any extracts and questions.         *)
(***************************************************************************)
EXTENDS ClosestFacility, RoadNetworkProofs

(* What each stage has built.                                              *)
Edges(x) == {Priced(w) : w \in NodedWays(x)}

SnappedFrom(x) ==
  \E nearest \in NearestVertices(Facilities(x), ExtractVertices(NodedWays(x))) :
    facilities = Categorised(Snapped(Facilities(x), nearest))

Staged ==
  /\ extract \in Extracts
  /\ stage \in {"extract", "import", "noding", "cost", "facilities"}
  /\ stage \in {"import", "noding", "cost"} => facilities = Facilities(extract)
  /\ stage = "noding" => ways = NodedWays(extract)
  /\ stage \in {"cost", "facilities"} => ways = Edges(extract)
  /\ stage \in {"noding", "cost", "facilities"} =>
       vertices = ExtractVertices(NodedWays(extract))
  /\ stage = "facilities" =>
       SnappedFrom(extract) /\ categories = CategoryCounts(facilities)
  /\ stage # "facilities" => asked = Null /\ answer = Null

LEMMA StagedInit == Init => Staged
  BY DEF Init, Staged

LEMMA StagedStep == Staged /\ [Next]_vars => Staged'
<1> SUFFICES ASSUME Staged, [Next]_vars PROVE Staged'
  OBVIOUS
<1>1. CASE Import
  BY <1>1 DEF Import, Staged
<1>2. CASE NodeNetwork
  BY <1>2 DEF NodeNetwork, Staged
<1>3. CASE CostColumns
  BY <1>3 DEF CostColumns, Staged, Edges
<1>4. CASE SnapFacilities
  <2>1. /\ stage = "cost" /\ stage' = "facilities"
        /\ \E nearest \in NearestVertices(facilities, vertices) :
             facilities' = Categorised(Snapped(facilities, nearest))
        /\ categories' = CategoryCounts(facilities')
        /\ UNCHANGED <<extract, ways, vertices, asked, answer>>
    BY <1>4 DEF SnapFacilities
  <2>2. facilities = Facilities(extract) /\ vertices = ExtractVertices(NodedWays(extract))
    BY <2>1 DEF Staged
  <2>3. SnappedFrom(extract)'
    BY <2>1, <2>2 DEF SnappedFrom
  <2>4. QED
    BY <2>1, <2>3 DEF Staged
<1>5. ASSUME UNCHANGED network, stage = "facilities" \/ UNCHANGED <<asked, answer>>
      PROVE  Staged'
  <2>1. UNCHANGED <<extract, stage, ways, vertices, facilities, categories>>
    BY <1>5 DEF network
  <2>2. SnappedFrom(extract) => SnappedFrom(extract)'
    BY <2>1 DEF SnappedFrom
  <2>3. QED
    BY <1>5, <2>1, <2>2 DEF Staged
<1>6. CASE \E body \in Bodies, q \in Questions : Ask(body, q)
  BY <1>5, <1>6 DEF Ask
<1>7. CASE UNCHANGED vars
  BY <1>5, <1>7 DEF vars
<1>8. QED
  BY <1>1, <1>2, <1>3, <1>4, <1>6, <1>7 DEF Next

-----------------------------------------------------------------------------
(* The facilities an answer can name.                                      *)
Attached ==
  /\ \A f \in facilities : f.vertex # Null /\ f.category = FacilityCategory(f.tags)
  /\ \A f, g \in facilities : f.id = g.id => f = g
  /\ IsFiniteSet(facilities)

LEMMA FacilitiesAttached ==
  ASSUME Staged, stage = "facilities"
  PROVE  Attached
<1>1. IsExtract(extract) /\ SnappedFrom(extract)
  BY ExtractsAssumption DEF Staged
<1>2. PICK nearest : facilities = Categorised(Snapped(Facilities(extract), nearest))
  BY <1>1 DEF SnappedFrom
<1>3. \A f \in Facilities(extract) : Unsnapped(f)
  BY FacilitiesUnsnapped
<1>4. facilities = {AttachedRow(f, nearest) :
                      f \in {g \in Facilities(extract) : WithinReach(g, nearest)}}
  BY <1>2, <1>3, SnappedRows
<1>5. ASSUME NEW f
      PROVE  /\ AttachedRow(f, nearest).id = f.id
             /\ AttachedRow(f, nearest).tags = f.tags
             /\ AttachedRow(f, nearest).vertex = nearest[f.id]
             /\ AttachedRow(f, nearest).category = FacilityCategory(f.tags)
  BY DEF AttachedRow, Row
<1>6. ASSUME NEW f \in facilities
      PROVE  f.vertex # Null /\ f.category = FacilityCategory(f.tags)
  BY <1>4, <1>5 DEF WithinReach
<1>7. ASSUME NEW f \in facilities, NEW g \in facilities, f.id = g.id
      PROVE  f = g
  <2>1. PICK a, b \in Facilities(extract) :
          f = AttachedRow(a, nearest) /\ g = AttachedRow(b, nearest)
    BY <1>4
  <2>2. a.id = b.id
    BY <1>5, <1>7, <2>1
  <2>3. a = b
    BY <1>1, <2>2, FacilityIdIsKey
  <2>4. QED
    BY <2>1, <2>3
<1>8. IsFiniteSet(facilities)
  <2>1. PICK G : G = {g \in Facilities(extract) : WithinReach(g, nearest)}
    OBVIOUS
  <2>2. IsFiniteSet(G)
    BY <1>1, <2>1, FacilitiesFinite, FS_Subset
  <2>3. PICK h : h = [f \in G |-> AttachedRow(f, nearest)]
    OBVIOUS
  <2>4. DOMAIN h = G /\ facilities = {h[f] : f \in G}
    BY <1>4, <2>1, <2>3
  <2>5. QED
    BY <2>2, <2>4, FiniteImage
<1>9. QED
  BY <1>6, <1>7, <1>8 DEF Attached

-----------------------------------------------------------------------------
(* Paths.                                                                  *)
Extensions(arcs, cost, start, P) ==
  UNION {{Append(p, a) : a \in {b \in {c \in arcs : /\ c.from \in DOMAIN cost
                                                   /\ cost[c.from] + c.cost = cost[c.to]} :
                                  b.from = End(p, start)}} : p \in P}

(* Every cheapest path is in a set that is closed under extensions.        *)
Closed(W, arcs, cost, start) ==
  <<>> \in W /\ Extensions(arcs, cost, start, W) \subseteq W

LEMMA CheapestPathsWithin ==
  ASSUME NEW arcs, NEW cost, NEW start, NEW W, Closed(W, arcs, cost, start)
  PROVE  CheapestPaths(arcs, cost, start) \subseteq W
<1> DEFINE V == SUBSET W
           Longer(P) == Extensions(arcs, cost, start, P)
           Def(g) == [n \in Nat |-> IF n = 0 THEN {<<>>} ELSE Longer(g[n - 1])]
           paths == CHOOSE g : g = Def(g)
<1>1. CheapestPaths(arcs, cost, start) =
        UNION {paths[n] : n \in 0..Cardinality(DOMAIN cost \ {start})}
  BY DEF CheapestPaths, Extensions
<1>2. \A P \in V : Longer(P) \in V
  <2>1. \A P \in V : Longer(P) \subseteq Longer(W)
    BY DEF Extensions
  <2>2. QED
    BY <2>1 DEF Closed
<1> HIDE DEF Longer
<1>3. PICK step : step = [n \in Nat |-> [P \in V |-> Longer(P)]]
  OBVIOUS
<1>4. step \in [Nat -> [V -> V]] /\ {<<>>} \in V
  BY <1>2, <1>3 DEF Closed
<1>5. PICK g \in [Nat -> V] : g[0] = {<<>>} /\ \A n \in Nat : g[n + 1] = step[n][g[n]]
  <2> HIDE DEF V
  <2>1. Steps(step, {<<>>}, V)
    BY <1>4 DEF Steps
  <2>2. \E g : Follows(g, step, {<<>>}, V)
    BY <2>1, NatRecursion
  <2>3. QED
    BY <2>2 DEF Follows
<1>6. g = Def(g)
  <2>1. ASSUME NEW n \in Nat, n # 0 PROVE g[n] = Longer(g[n - 1])
    <3>1. n - 1 \in Nat /\ (n - 1) + 1 = n
      BY <2>1
    <3>2. g[n] = step[n - 1][g[n - 1]]
      BY <1>5, <3>1
    <3>3. QED
      BY <1>3, <1>5, <3>1, <3>2
  <2>2. QED
    BY <1>5, <2>1
<1>7. paths = Def(paths)
  BY <1>6
<1> HIDE DEF paths
<1>8. paths[0] = {<<>>} /\ \A n \in Nat : paths[n + 1] = Longer(paths[n])
  <2>1. paths[0] = {<<>>}
    BY <1>7
  <2>2. ASSUME NEW n \in Nat PROVE paths[n + 1] = Longer(paths[n])
    <3>1. n + 1 \in Nat /\ n + 1 # 0 /\ (n + 1) - 1 = n
      OBVIOUS
    <3>2. QED
      BY <1>7, <3>1
  <2>3. QED
    BY <2>1, <2>2
<1>9. \A n \in Nat : paths[n] \in V
  <2> HIDE DEF V
  <2> DEFINE S == {n \in Nat : paths[n] \in V}
  <2>1. 0 \in S
    BY <1>4, <1>8
  <2>2. \A n \in Nat : n \in S => n + 1 \in S
    BY <1>2, <1>8
  <2>3. \A n \in Nat : n \in S
    <3> HIDE DEF S
    <3>1. QED
      BY <2>1, <2>2, SetInduction
  <2>4. QED
    BY <2>3
<1>10. \A n \in 0..Cardinality(DOMAIN cost \ {start}) : n \in Nat
  OBVIOUS
<1>11. QED
  BY <1>1, <1>9, <1>10

(* A cheapest path is a sequence of arcs, each one there is.               *)
LEMMA CheapestPathsAreWalks ==
  ASSUME NEW arcs, NEW cost, NEW start
  PROVE  CheapestPaths(arcs, cost, start) \subseteq Seq(arcs)
<1>1. \A p \in Seq(arcs), a \in arcs : Append(p, a) \in Seq(arcs)
  BY AppendProperties
<1>2. Closed(Seq(arcs), arcs, cost, start)
  BY <1>1, EmptySeq DEF Closed, Extensions
<1>3. QED
  BY <1>2, CheapestPathsWithin

LEMMA DijkstraWalks ==
  ASSUME NEW arcs, NEW start, NEW ends, NEW paths \in Dijkstra(arcs, start, ends)
  PROVE  DOMAIN paths \subseteq ends /\ \A v \in DOMAIN paths : paths[v] \in Seq(arcs)
  BY CheapestPathsAreWalks DEF Dijkstra

-----------------------------------------------------------------------------
(* Routes and their order.                                                 *)
JustifiedRoutes(routes, mode, ends) ==
  /\ IsFiniteSet(routes)
  /\ \A r \in routes :
       /\ r.total_cost = IF mode = "distance" THEN r.total_distance_m ELSE r.total_time_s
       /\ \E f \in facilities : f.id = r.facility /\ f.vertex \in ends
       /\ \A s \in routes : s.facility = r.facility => s = r

(* There are no more rows than facilities.                                 *)
LEMMA OneRowEach ==
  ASSUME Attached, NEW routes,
         \A r \in routes : \E f \in facilities : f.id = r.facility,
         \A r, s \in routes : s.facility = r.facility => s = r
  PROVE  IsFiniteSet(routes)
<1> DEFINE Of(r) == CHOOSE f \in facilities : f.id = r.facility
<1>1. \A r \in routes : Of(r) \in facilities /\ Of(r).id = r.facility
  OBVIOUS
<1> HIDE DEF Of
<1>2. PICK h : h = [r \in routes |-> Of(r)]
  OBVIOUS
<1>3. h \in Injection(routes, facilities)
  BY <1>1, <1>2 DEF Injection, IsInjective
<1>4. QED
  BY <1>3, FS_Injection DEF Attached

LEMMA ArcCosts ==
  ASSUME NEW edges, NEW mode, NEW aware, NEW a \in Arcs(edges, mode, aware)
  PROVE  a.cost = IF mode = "distance" THEN a.way.cost_distance ELSE a.way.cost_time
  BY DEF Arcs

(* A route costs what its edges measure, in the unit asked for.            *)
LEMMA RouteCosts ==
  ASSUME NEW edges, NEW mode, NEW aware, NEW f,
         NEW path \in Seq(Arcs(edges, mode, aware))
  PROVE  /\ Route(f, path).facility = f.id
         /\ Route(f, path).total_cost =
              IF mode = "distance" THEN Route(f, path).total_distance_m
                                   ELSE Route(f, path).total_time_s
<1> DEFINE costs   == [i \in DOMAIN path |-> path[i].cost]
           lengths == [i \in DOMAIN path |-> path[i].way.cost_distance]
           times   == [i \in DOMAIN path |-> path[i].way.cost_time]
<1>1. /\ Route(f, path).facility = f.id
      /\ Route(f, path).total_cost = Total(costs)
      /\ Route(f, path).total_distance_m = Total(lengths)
      /\ Route(f, path).total_time_s = Total(times)
  BY DEF Route, SumOver
<1>2. ASSUME NEW i \in DOMAIN path
      PROVE  path[i].cost = IF mode = "distance" THEN path[i].way.cost_distance
                                                 ELSE path[i].way.cost_time
  <2>1. path[i] \in Arcs(edges, mode, aware)
    BY ElementOfSeq, LenProperties
  <2>2. QED
    BY <2>1, ArcCosts
<1>3. costs = IF mode = "distance" THEN lengths ELSE times
  BY <1>2
<1> HIDE DEF costs, lengths, times
<1>4. QED
  BY <1>1, <1>3

LEMMA RoutesJustified ==
  ASSUME Attached, NEW edges, NEW mode, NEW aware, NEW start, NEW ends,
         NEW paths \in Dijkstra(Arcs(edges, mode, aware), start, ends)
  PROVE  JustifiedRoutes(RoutesByVertex(paths), mode, ends)
<1>1. /\ DOMAIN paths \subseteq ends
      /\ \A v \in DOMAIN paths : paths[v] \in Seq(Arcs(edges, mode, aware))
  BY DijkstraWalks
<1>2. ASSUME NEW r \in RoutesByVertex(paths)
      PROVE  \E f \in facilities : /\ f.vertex \in DOMAIN paths
                                   /\ r = Route(f, paths[f.vertex]) /\ r.facility = f.id
  <2>1. PICK v \in DOMAIN paths : \E f \in OnVertex(v) : r = Route(f, paths[v])
    BY DEF RoutesByVertex
  <2>2. PICK f \in OnVertex(v) : r = Route(f, paths[v])
    BY <2>1
  <2>3. f \in facilities /\ f.vertex = v
    BY DEF OnVertex
  <2>4. r.facility = f.id
    BY <1>1, <2>2, RouteCosts
  <2>5. QED
    BY <2>2, <2>3, <2>4
<1>3. ASSUME NEW r \in RoutesByVertex(paths)
      PROVE  /\ r.total_cost = IF mode = "distance" THEN r.total_distance_m
                                                    ELSE r.total_time_s
             /\ \E f \in facilities : f.id = r.facility /\ f.vertex \in ends
             /\ \A s \in RoutesByVertex(paths) : s.facility = r.facility => s = r
  <2>1. PICK f \in facilities : /\ f.vertex \in DOMAIN paths
                                /\ r = Route(f, paths[f.vertex]) /\ r.facility = f.id
    BY <1>2
  <2>2. r.total_cost = IF mode = "distance" THEN r.total_distance_m ELSE r.total_time_s
    BY <1>1, <2>1, RouteCosts
  <2>3. ASSUME NEW s \in RoutesByVertex(paths), s.facility = r.facility
        PROVE  s = r
    <3>1. PICK g \in facilities : s = Route(g, paths[g.vertex]) /\ s.facility = g.id
      BY <1>2
    <3>2. g = f
      BY <2>1, <2>3, <3>1 DEF Attached
    <3>3. QED
      BY <2>1, <3>1, <3>2
  <2>4. QED
    BY <1>1, <2>1, <2>2, <2>3
<1>4. IsFiniteSet(RoutesByVertex(paths))
  BY <1>3, OneRowEach
<1>5. QED
  BY <1>3, <1>4 DEF JustifiedRoutes

(* v8 adds columns and changes none; the category it adds is the one that  *)
(* 03_facilities.sql counted.                                              *)
Widened(s, f) ==
  [facility |-> s.facility, total_cost |-> s.total_cost,
   total_distance_m |-> s.total_distance_m, total_time_s |-> s.total_time_s,
   route |-> s.route, facility_category |-> f.category, facility_geom |-> f.geom]

LEMMA AttributesAdded ==
  ASSUME Attached, NEW routes
  PROVE  \A r : r \in WithAttributes(routes) <=>
           \E f \in facilities, s \in routes : s.facility = f.id /\ r = Widened(s, f)
  BY DEF WithAttributes, Attached, Widened

LEMMA WidenedJustified ==
  ASSUME Attached, NEW routes, NEW mode, NEW ends, JustifiedRoutes(routes, mode, ends)
  PROVE  JustifiedRoutes(WithAttributes(routes), mode, ends)
<1>1. ASSUME NEW s, NEW f
      PROVE  /\ Widened(s, f).facility = s.facility
             /\ Widened(s, f).total_cost = s.total_cost
             /\ Widened(s, f).total_distance_m = s.total_distance_m
             /\ Widened(s, f).total_time_s = s.total_time_s
  BY DEF Widened
<1>2. ASSUME NEW r \in WithAttributes(routes)
      PROVE  /\ r.total_cost = IF mode = "distance" THEN r.total_distance_m
                                                    ELSE r.total_time_s
             /\ \E f \in facilities : f.id = r.facility /\ f.vertex \in ends
             /\ \A s \in WithAttributes(routes) : s.facility = r.facility => s = r
  <2>1. PICK f \in facilities : \E s \in routes : s.facility = f.id /\ r = Widened(s, f)
    BY AttributesAdded
  <2>2. PICK s \in routes : s.facility = f.id /\ r = Widened(s, f)
    BY <2>1
  <2>3. /\ r.total_cost = IF mode = "distance" THEN r.total_distance_m ELSE r.total_time_s
        /\ \E g \in facilities : g.id = r.facility /\ g.vertex \in ends
    BY <1>1, <2>2 DEF JustifiedRoutes
  <2>4. ASSUME NEW t \in WithAttributes(routes), t.facility = r.facility
        PROVE  t = r
    <3>1. PICK g \in facilities : \E u \in routes : u.facility = g.id /\ t = Widened(u, g)
      BY AttributesAdded
    <3>2. PICK u \in routes : u.facility = g.id /\ t = Widened(u, g)
      BY <3>1
    <3>3. u.facility = s.facility /\ g.id = f.id
      BY <1>1, <2>2, <2>4, <3>2
    <3>4. u = s /\ g = f
      BY <3>3 DEF JustifiedRoutes, Attached
    <3>5. QED
      BY <2>2, <3>2, <3>4
  <2>5. QED
    BY <2>3, <2>4
<1>3. IsFiniteSet(WithAttributes(routes))
  BY <1>2, OneRowEach
<1>4. QED
  BY <1>2, <1>3 DEF JustifiedRoutes

(* ROW_NUMBER and LIMIT: rows of the set, none twice, none before a        *)
(* cheaper one.                                                            *)
InOrder(rows, routes) ==
  \A i \in DOMAIN rows :
    /\ rows[i] \in routes
    /\ \A j \in 1..(i - 1) : /\ rows[j] \in routes /\ rows[j] # rows[i]
                             /\ rows[j].total_cost <= rows[i].total_cost

LEMMA RankedInOrder ==
  ASSUME NEW routes, IsFiniteSet(routes), NEW k \in Nat, NEW a \in Ranked(routes, k)
  PROVE  a.error = "none" /\ InOrder(a.rows, routes)
<1>1. PICK n : n = Min({k, Cardinality(routes)})
  OBVIOUS
<1>2. n \in Int
  BY <1>1, FS_CardinalityType DEF Min
<1>3. PICK t \in [1..n -> routes] :
        /\ a = Rows(t)
        /\ \A i \in DOMAIN t :
             /\ \A j \in 1..(i - 1) : t[j] # t[i]
             /\ \A r \in routes \ {t[j] : j \in 1..i} : t[i].total_cost <= r.total_cost
  BY <1>1 DEF Ranked, TupleOf
<1>4. a.error = "none" /\ a.rows = t
  BY <1>3 DEF Rows
<1>5. ASSUME NEW i \in 1..n, NEW j \in 1..(i - 1)
      PROVE  t[j] \in routes /\ t[j] # t[i] /\ t[j].total_cost <= t[i].total_cost
  <2>1. j \in 1..n /\ \A l \in 1..j : l \in 1..(i - 1)
    BY <1>2
  <2>2. t[i] \notin {t[l] : l \in 1..j}
    BY <1>3, <2>1
  <2>3. QED
    BY <1>3, <2>1, <2>2
<1>6. QED
  BY <1>3, <1>4, <1>5 DEF InOrder

(* What an answer of a route search is: rows of justified routes, in their *)
(* order.  Widen is RoutesByVertex, or that with the attributes of v8.     *)
RankedRows(q, a, routes) ==
  /\ JustifiedRoutes(routes, q.cost_mode, Vertices(MustServe(q)))
  /\ a \in Ranked(routes, q.k)

LEMMA MoreEnds ==
  ASSUME NEW routes, NEW mode, NEW ends, NEW more, ends \subseteq more,
         JustifiedRoutes(routes, mode, ends)
  PROVE  JustifiedRoutes(routes, mode, more)
  BY DEF JustifiedRoutes

LEMMA PlainSearch ==
  ASSUME Attached, NEW q, NEW start, NEW wanted \in SUBSET MustServe(q), NEW edges,
         NEW aware, NEW a \in Search(q, start, wanted, edges, aware, RoutesByVertex)
  PROVE  a.rows = <<>> \/ \E routes : RankedRows(q, a, routes)
<1>1. CASE wanted = {}
  BY <1>1 DEF Search, Rows
<1>2. CASE wanted # {}
  <2>1. PICK paths \in Dijkstra(Arcs(edges, q.cost_mode, aware), start, Vertices(wanted)) :
          a \in Ranked(RoutesByVertex(paths), q.k)
    BY <1>2 DEF Search
  <2>2. Vertices(wanted) \subseteq Vertices(MustServe(q))
    BY DEF Vertices
  <2>3. JustifiedRoutes(RoutesByVertex(paths), q.cost_mode, Vertices(MustServe(q)))
    BY <2>2, RoutesJustified, MoreEnds
  <2>4. QED
    BY <2>1, <2>3 DEF RankedRows
<1>3. QED
  BY <1>1, <1>2

LEMMA WideSearch ==
  ASSUME Attached, NEW q, NEW start, NEW wanted \in SUBSET MustServe(q), NEW edges,
         NEW aware,
         NEW a \in Search(q, start, wanted, edges, aware,
                          LAMBDA paths : WithAttributes(RoutesByVertex(paths)))
  PROVE  a.rows = <<>> \/ \E routes : RankedRows(q, a, WithAttributes(routes))
<1>1. CASE wanted = {}
  BY <1>1 DEF Search, Rows
<1>2. CASE wanted # {}
  <2>1. PICK paths \in Dijkstra(Arcs(edges, q.cost_mode, aware), start, Vertices(wanted)) :
          a \in Ranked(WithAttributes(RoutesByVertex(paths)), q.k)
    BY <1>2 DEF Search
  <2>2. Vertices(wanted) \subseteq Vertices(MustServe(q))
    BY DEF Vertices
  <2>3. JustifiedRoutes(RoutesByVertex(paths), q.cost_mode, Vertices(MustServe(q)))
    BY <2>2, RoutesJustified, MoreEnds
  <2>4. JustifiedRoutes(WithAttributes(RoutesByVertex(paths)), q.cost_mode,
                        Vertices(MustServe(q)))
    BY <2>3, WidenedJustified
  <2>5. QED
    BY <2>1, <2>4 DEF RankedRows
<1>3. QED
  BY <1>1, <1>2

LEMMA WantedMustBeServed ==
  ASSUME NEW q
  PROVE  Wanted(q) \subseteq MustServe(q) /\ WantedInBox(q) \subseteq MustServe(q)
  BY DEF Wanted, WantedInBox, MustServe

LEMMA PlainAnswers ==
  ASSUME Attached, NEW body \in {5, 6, 7}, NEW q, NEW a \in Answers(body, q), a.error = "none"
  PROVE  a.rows = <<>> \/ \E routes : RankedRows(q, a, routes)
<1>1. \A code : Error(code).error = code
  BY DEF Error
<1>2. CASE body = 5
  <2>1. a \in ClosestFacilityV5(q)
    BY <1>2 DEF Answers
  <2>2. PICK v : a \in Search(q, v, Wanted(q), ways, FALSE, RoutesByVertex)
    BY <1>1, <2>1 DEF ClosestFacilityV5, Guarded
  <2>3. QED
    BY <2>2, PlainSearch, WantedMustBeServed
<1>3. CASE body = 6
  <2>1. a \in ClosestFacilityV6(q)
    BY <1>3 DEF Answers
  <2>2. PICK v : a \in Search(q, v, Wanted(q), EdgesInBox(q), TRUE, RoutesByVertex)
    BY <1>1, <2>1 DEF ClosestFacilityV6, Guarded
  <2>3. QED
    BY <2>2, PlainSearch, WantedMustBeServed
<1>4. CASE body = 7
  <2>1. a \in ClosestFacilityV7(q)
    BY <1>4 DEF Answers
  <2>2. PICK v : a \in Search(q, v, WantedInBox(q), EdgesInBox(q), TRUE, RoutesByVertex)
    BY <1>1, <2>1 DEF ClosestFacilityV7, Guarded
  <2>3. QED
    BY <2>2, PlainSearch, WantedMustBeServed
<1>5. QED
  BY <1>2, <1>3, <1>4

LEMMA WideAnswers ==
  ASSUME Attached, NEW q, NEW a \in Answers(8, q), a.error = "none"
  PROVE  a.rows = <<>> \/ \E routes : RankedRows(q, a, WithAttributes(routes))
<1>1. \A code : Error(code).error = code
  BY DEF Error
<1>2. a \in ClosestFacilityV8(q)
  BY DEF Answers
<1>3. PICK v : a \in Search(q, v, WantedInBox(q), EdgesInBox(q), TRUE,
                            LAMBDA paths : WithAttributes(RoutesByVertex(paths)))
  BY <1>1, <1>2 DEF ClosestFacilityV8, Guarded
<1>4. QED
  BY <1>3, WideSearch, WantedMustBeServed

-----------------------------------------------------------------------------
(* What the two properties say of an answer.                               *)
JustifiedAnswer(q, a) ==
  \A i \in DOMAIN a.rows :
    /\ a.rows[i].total_cost = IF q.cost_mode = "distance" THEN a.rows[i].total_distance_m
                                                          ELSE a.rows[i].total_time_s
    /\ Facility(a.rows[i].facility).vertex \in Vertices(MustServe(q))
    /\ \A j \in 1..(i - 1) : /\ a.rows[j].facility # a.rows[i].facility
                              /\ a.rows[j].total_cost <= a.rows[i].total_cost

CategoriesCounted(a) ==
  \A i \in DOMAIN a.rows : \E f \in facilities : a.rows[i].facility_category = f.category

LEMMA RankedJustified ==
  ASSUME Attached, NEW q, q.k \in Nat, NEW a, NEW routes, RankedRows(q, a, routes)
  PROVE  JustifiedAnswer(q, a)
<1>1. /\ JustifiedRoutes(routes, q.cost_mode, Vertices(MustServe(q)))
      /\ InOrder(a.rows, routes)
  BY RankedInOrder DEF RankedRows, JustifiedRoutes
<1>2. SUFFICES ASSUME NEW i \in DOMAIN a.rows
               PROVE  /\ a.rows[i].total_cost =
                           IF q.cost_mode = "distance" THEN a.rows[i].total_distance_m
                                                       ELSE a.rows[i].total_time_s
                      /\ Facility(a.rows[i].facility).vertex \in Vertices(MustServe(q))
                      /\ \A j \in 1..(i - 1) :
                           /\ a.rows[j].facility # a.rows[i].facility
                           /\ a.rows[j].total_cost <= a.rows[i].total_cost
  BY DEF JustifiedAnswer
<1>3. a.rows[i] \in routes
  BY <1>1 DEF InOrder
<1>4. a.rows[i].total_cost = IF q.cost_mode = "distance" THEN a.rows[i].total_distance_m
                                                        ELSE a.rows[i].total_time_s
  BY <1>1, <1>3 DEF JustifiedRoutes
<1>5. Facility(a.rows[i].facility).vertex \in Vertices(MustServe(q))
  <2>1. PICK f \in facilities :
          f.id = a.rows[i].facility /\ f.vertex \in Vertices(MustServe(q))
    BY <1>1, <1>3 DEF JustifiedRoutes
  <2>2. Facility(a.rows[i].facility) = f
    BY <2>1 DEF Facility, Attached
  <2>3. QED
    BY <2>1, <2>2
<1>6. ASSUME NEW j \in 1..(i - 1)
      PROVE  /\ a.rows[j].facility # a.rows[i].facility
             /\ a.rows[j].total_cost <= a.rows[i].total_cost
  <2>1. /\ a.rows[j] \in routes /\ a.rows[j] # a.rows[i]
        /\ a.rows[j].total_cost <= a.rows[i].total_cost
    BY <1>1 DEF InOrder
  <2>2. QED
    BY <1>1, <1>3, <2>1 DEF JustifiedRoutes
<1>7. QED
  BY <1>4, <1>5, <1>6

LEMMA AnswersJustified ==
  ASSUME Attached, NEW body \in 5..8, NEW q, q.k \in Nat, NEW a \in Answers(body, q),
         a.error = "none"
  PROVE  JustifiedAnswer(q, a)
<1>1. CASE a.rows = <<>>
  BY <1>1 DEF JustifiedAnswer
<1>2. CASE a.rows # <<>>
  <2>1. \E routes : RankedRows(q, a, routes)
    <3>1. CASE body \in {5, 6, 7}
      BY <1>2, <3>1, PlainAnswers
    <3>2. CASE body = 8
      BY <1>2, <3>2, WideAnswers
    <3>3. QED
      BY <3>1, <3>2
  <2>2. QED
    BY <2>1, RankedJustified
<1>3. QED
  BY <1>1, <1>2

LEMMA AnswersCounted ==
  ASSUME Attached, NEW q, q.k \in Nat, NEW a \in Answers(8, q), a.error = "none"
  PROVE  CategoriesCounted(a)
<1>1. CASE a.rows = <<>>
  BY <1>1 DEF CategoriesCounted
<1>2. CASE a.rows # <<>>
  <2>1. PICK routes : RankedRows(q, a, WithAttributes(routes))
    BY <1>2, WideAnswers
  <2>2. InOrder(a.rows, WithAttributes(routes))
    BY <2>1, RankedInOrder DEF RankedRows, JustifiedRoutes
  <2>3. ASSUME NEW i \in DOMAIN a.rows
        PROVE  \E f \in facilities : a.rows[i].facility_category = f.category
    <3>1. PICK f \in facilities : \E r \in routes : a.rows[i] = Widened(r, f)
      BY <2>2, AttributesAdded DEF InOrder
    <3>2. QED
      BY <3>1 DEF Widened
  <2>4. QED
    BY <2>3 DEF CategoriesCounted
<1>3. QED
  BY <1>1, <1>2

-----------------------------------------------------------------------------
(* The rows of an answer are what a call asked for, one for each facility, *)
(* in the order of a cost that is the length or the time of the route      *)
(* (closest_facility(), from v5 on).                                       *)
LEMMA AskJustified ==
  ASSUME Staged, NEW body \in Bodies, NEW q \in Questions, Ask(body, q)
  PROVE  RowsAreJustified' /\ CategoriesOfTheNetwork'
<1>1. /\ stage = "facilities" /\ Attached /\ categories = CategoryCounts(facilities)
  BY FacilitiesAttached DEF Ask, Staged
<1>2. /\ asked' = [body |-> body, q |-> q] /\ answer' \in Answers(body, q)
      /\ facilities' = facilities /\ categories' = categories
  BY DEF Ask, network
<1>3. body \in Int /\ body <= 8 /\ q.k \in Nat
  BY BodiesAssumption, QuestionsAssumption
<1>4. asked'.body = body /\ asked'.q = q
  BY <1>2
<1>5. RowsAreJustified'
  <2>1. SUFFICES ASSUME answer'.error = "none", body >= 5
                 PROVE  JustifiedAnswer(asked.q, answer)'
    BY <1>4 DEF RowsAreJustified, Answered, JustifiedAnswer
  <2>2. JustifiedAnswer(q, answer')
    BY <1>1, <1>2, <1>3, <2>1, AnswersJustified
  <2>3. QED
    BY <1>2, <1>4, <2>2 DEF JustifiedAnswer, Facility, MustServe, Vertices
<1>6. CategoriesOfTheNetwork'
  <2>1. ASSUME NEW c \in DOMAIN categories
        PROVE  categories[c] = Cardinality({f \in facilities :
                                  f.vertex # Null /\ FacilityCategory(f.tags) = c})
    <3>1. {f \in facilities : f.category = c} =
          {f \in facilities : f.vertex # Null /\ FacilityCategory(f.tags) = c}
      BY <1>1 DEF Attached
    <3>2. QED
      BY <1>1, <3>1 DEF CategoryCounts
  <2>2. ASSUME answer'.error = "none", body = 8
        PROVE  \A i \in DOMAIN answer'.rows :
                 answer'.rows[i].facility_category \in DOMAIN categories
    <3>1. CategoriesCounted(answer')
      BY <1>1, <1>2, <1>3, <2>2, AnswersCounted
    <3>2. QED
      BY <1>1, <3>1 DEF CategoriesCounted, CategoryCounts
  <2>3. QED
    BY <1>2, <1>4, <2>1, <2>2 DEF CategoriesOfTheNetwork, Answered
<1>7. QED
  BY <1>5, <1>6

LEMMA NothingAsked == Staged /\ asked = Null => RowsAreJustified /\ CategoriesOfTheNetwork
<1>1. SUFFICES ASSUME Staged, asked = Null, stage = "facilities", NEW c \in DOMAIN categories
               PROVE  categories[c] = Cardinality({f \in facilities :
                                  f.vertex # Null /\ FacilityCategory(f.tags) = c})
  BY DEF RowsAreJustified, CategoriesOfTheNetwork, Answered
<1>2. Attached /\ categories = CategoryCounts(facilities)
  BY <1>1, FacilitiesAttached DEF Staged
<1>3. {f \in facilities : f.category = c} =
      {f \in facilities : f.vertex # Null /\ FacilityCategory(f.tags) = c}
  BY <1>2 DEF Attached
<1>4. QED
  BY <1>1, <1>2, <1>3 DEF CategoryCounts

LEMMA AnswersStep ==
  ASSUME Staged, RowsAreJustified, CategoriesOfTheNetwork, [Next]_vars
  PROVE  RowsAreJustified' /\ CategoriesOfTheNetwork'
<1>1. CASE \E body \in Bodies, q \in Questions : Ask(body, q)
  BY <1>1, AskJustified
<1>2. CASE Import \/ NodeNetwork \/ CostColumns \/ SnapFacilities
  <2>1. (Staged /\ asked = Null)'
    BY <1>2, StagedStep DEF Import, NodeNetwork, CostColumns, SnapFacilities, Staged
  <2>2. (RowsAreJustified /\ CategoriesOfTheNetwork)'
    BY <2>1, NothingAsked, PTL
  <2>3. QED
    BY <2>2
<1>3. CASE UNCHANGED vars
  BY <1>3 DEF vars, network, RowsAreJustified, CategoriesOfTheNetwork, Answered, Facility,
              Vertices, MustServe
<1>4. QED
  BY <1>1, <1>2, <1>3 DEF Next

\* The inductive invariant: what a stage of the load finds is what the stages
\* before it computed from the extract (main() runs the SQL files in order).
THEOREM StagesInOrder == Spec => []Staged
  BY StagedInit, StagedStep, PTL DEF Spec

\* From v5 on, each facility has one row, the rows are in the order of a cost
\* that is the length or the time of the whole route, and each row's vertex is
\* one of a facility that was asked for.
THEOREM AnswersAreJustified == Spec => []RowsAreJustified
<1>1. Init => RowsAreJustified /\ CategoriesOfTheNetwork
  BY StagedInit, NothingAsked DEF Init
<1>2. QED
  BY <1>1, StagesInOrder, AnswersStep, PTL DEF Spec

\* The category table counts the facilities an answer can name, and every
\* category an answer shows is in the table.
THEOREM CategoriesMatch == Spec => []CategoriesOfTheNetwork
<1>1. Init => RowsAreJustified /\ CategoriesOfTheNetwork
  BY StagedInit, NothingAsked DEF Init
<1>2. QED
  BY <1>1, StagesInOrder, AnswersStep, PTL DEF Spec

-----------------------------------------------------------------------------
(* Who is attached to the network, and who is not.                         *)
Near(p, limit) == \E v \in vertices : Distance(p, v) * Stretch <= limit
Far(p, limit)  == \A v \in vertices : Distance(p, v) > limit

LEMMA VerticesPlaced ==
  ASSUME Staged, stage \in {"noding", "cost", "facilities"}
  PROVE  vertices \subseteq Point
<1>1. IsExtract(extract) /\ vertices = ExtractVertices(NodedWays(extract))
  BY ExtractsAssumption DEF Staged
<1>2. QED
  BY <1>1, VerticesArePoints

LEMMA FacilitiesByDistance ==
  ASSUME Staged, stage = "facilities", NEW f \in Facilities(extract)
  PROVE  LET kept == {g.id : g \in facilities}
         IN  /\ Near(f.geom, SnapLimit) => f.id \in kept
             /\ Far(f.geom, SnapLimit)  => f.id \notin kept
<1>1. /\ IsExtract(extract) /\ SnappedFrom(extract) /\ vertices \subseteq Point
      /\ vertices = ExtractVertices(NodedWays(extract))
  BY ExtractsAssumption, VerticesPlaced DEF Staged
<1>2. PICK nearest \in NearestVertices(Facilities(extract), vertices) :
        facilities = Categorised(Snapped(Facilities(extract), nearest))
  BY <1>1 DEF SnappedFrom
<1>3. \A g \in Facilities(extract) : Unsnapped(g)
  BY FacilitiesUnsnapped
<1>4. facilities = {AttachedRow(g, nearest) :
                      g \in {h \in Facilities(extract) : WithinReach(h, nearest)}}
  BY <1>2, <1>3, SnappedRows
<1>5. \A g : AttachedRow(g, nearest).id = g.id
  BY DEF AttachedRow, Row
<1>6. f.id \in {g.id : g \in facilities} <=> WithinReach(f, nearest)
  <2>1. ASSUME NEW g \in Facilities(extract), g.id = f.id PROVE g = f
    BY <1>1, <2>1, FacilityIdIsKey
  <2>2. QED
    BY <1>4, <1>5, <2>1
<1>7. nearest[f.id] \in IF vertices = {} THEN {Null} ELSE Nearest(vertices, f.geom)
  <2>1. \A g \in Facilities(extract) : g.id = f.id => g = f
    BY <1>1, FacilityIdIsKey
  <2>2. nearest[f.id] \in IF vertices = {} THEN {Null}
                          ELSE UNION {Nearest(vertices, g.geom) :
                                        g \in {h \in Facilities(extract) : h.id = f.id}}
    BY <1>2 DEF NearestVertices
  <2>3. QED
    BY <2>1, <2>2
<1>8. f.geom \in Point
  BY <1>1, FacilitiesAtPoints
<1>9. ASSUME Near(f.geom, SnapLimit) PROVE WithinReach(f, nearest)
  <2>1. PICK u \in vertices : Distance(f.geom, u) * Stretch <= SnapLimit
    BY <1>9 DEF Near
  <2>2. nearest[f.id] \in Nearest(vertices, f.geom)
    BY <1>7, <2>1
  <2>3. nearest[f.id] # Null
    BY <1>1, <2>2, NullAssumption DEF Nearest
  <2>4. SnapLimit \in Nat
    BY DEF SnapLimit
  <2>5. Distance(f.geom, nearest[f.id]) <= SnapLimit
    BY <1>1, <1>8, <2>1, <2>2, <2>4, NearestIsNear
  <2>6. QED
    BY <2>3, <2>5 DEF WithinReach
<1>10. ASSUME Far(f.geom, SnapLimit) PROVE ~WithinReach(f, nearest)
  <2>1. SUFFICES ASSUME WithinReach(f, nearest) PROVE FALSE
    OBVIOUS
  <2>2. nearest[f.id] \in vertices /\ Distance(f.geom, nearest[f.id]) <= SnapLimit
    BY <1>7, <2>1 DEF WithinReach, Nearest
  <2>3. Distance(f.geom, nearest[f.id]) \in Nat
    BY <1>1, <1>8, <2>2, DegreesAndMetres
  <2>4. QED
    BY <1>10, <2>2, <2>3 DEF Far, SnapLimit
<1>11. QED
  BY <1>6, <1>9, <1>10

(* What the guard before the search makes of an incident.                  *)
Located(q, a) ==
  \/ vertices = {} /\ a.error = "incident_off_graph"
  \/ \E v \in Nearest(vertices, q.incident) :
       IF Distance(v, q.incident) > MaxSnap THEN a.error = "incident_off_graph"
                                            ELSE a.error # "incident_off_graph"

LEMMA RankedWithoutError ==
  ASSUME NEW routes, NEW k, NEW a \in Ranked(routes, k)
  PROVE  a.error = "none"
  BY DEF Ranked, Rows

LEMMA SearchedWithoutError ==
  ASSUME NEW q, NEW start, NEW wanted, NEW edges, NEW aware, NEW a
  PROVE  /\ a \in Search(q, start, wanted, edges, aware, RoutesByEdge) => a.error = "none"
         /\ a \in Search(q, start, wanted, edges, aware, RoutesByVertex) => a.error = "none"
         /\ a \in Search(q, start, wanted, edges, aware,
                         LAMBDA paths : WithAttributes(RoutesByVertex(paths)))
              => a.error = "none"
<1>1. Rows(<<>>).error = "none"
  BY DEF Rows
<1>2. QED
  BY <1>1, RankedWithoutError DEF Search

LEMMA AnswersLocated ==
  ASSUME NEW body \in 3..8, NEW q, q.cost_mode \in {"distance", "time"},
         NEW a \in Answers(body, q)
  PROVE  Located(q, a)
<1>1. /\ \A code : Error(code).error = code
      /\ Rows(<<>>).error = "none"
  BY DEF Error, Rows
<1>2. CASE body = 3
  <2>1. a \in ClosestFacilityV3(q)
    BY <1>2 DEF Answers
  <2>2. QED
    BY <1>1, <2>1 DEF ClosestFacilityV3, Guarded, Located
<1>3. CASE body = 4
  <2>1. a \in ClosestFacilityV4(q)
    BY <1>3 DEF Answers
  <2>2. \/ vertices = {} /\ a = Error("incident_off_graph")
        \/ \E v \in Nearest(vertices, q.incident) :
             IF Distance(v, q.incident) > MaxSnap THEN a = Error("incident_off_graph")
             ELSE a \in Search(q, v, Wanted(q), ways, FALSE, RoutesByEdge)
    BY <2>1 DEF ClosestFacilityV4, Guarded
  <2>3. QED
    BY <1>1, <2>2, SearchedWithoutError DEF Located
<1>4. CASE body = 5
  <2>1. a \in ClosestFacilityV5(q)
    BY <1>4 DEF Answers
  <2>2. \/ vertices = {} /\ a = Error("incident_off_graph")
        \/ \E v \in Nearest(vertices, q.incident) :
             IF Distance(v, q.incident) > MaxSnap THEN a = Error("incident_off_graph")
             ELSE a \in Search(q, v, Wanted(q), ways, FALSE, RoutesByVertex)
    BY <2>1 DEF ClosestFacilityV5, Guarded
  <2>3. QED
    BY <1>1, <2>2, SearchedWithoutError DEF Located
<1>5. CASE body = 6
  <2>1. a \in ClosestFacilityV6(q)
    BY <1>5 DEF Answers
  <2>2. \/ vertices = {} /\ a = Error("incident_off_graph")
        \/ \E v \in Nearest(vertices, q.incident) :
             IF Distance(v, q.incident) > MaxSnap THEN a = Error("incident_off_graph")
             ELSE a \in Search(q, v, Wanted(q), EdgesInBox(q), TRUE, RoutesByVertex)
    BY <2>1 DEF ClosestFacilityV6, Guarded
  <2>3. QED
    BY <1>1, <2>2, SearchedWithoutError DEF Located
<1>6. CASE body = 7
  <2>1. a \in ClosestFacilityV7(q)
    BY <1>6 DEF Answers
  <2>2. \/ vertices = {} /\ a = Error("incident_off_graph")
        \/ \E v \in Nearest(vertices, q.incident) :
             IF Distance(v, q.incident) > MaxSnap THEN a = Error("incident_off_graph")
             ELSE a \in Search(q, v, WantedInBox(q), EdgesInBox(q), TRUE, RoutesByVertex)
    BY <2>1 DEF ClosestFacilityV7, Guarded
  <2>3. QED
    BY <1>1, <2>2, SearchedWithoutError DEF Located
<1>7. CASE body = 8
  <2>1. a \in ClosestFacilityV8(q)
    BY <1>7 DEF Answers
  <2>2. \/ vertices = {} /\ a = Error("incident_off_graph")
        \/ \E v \in Nearest(vertices, q.incident) :
             IF Distance(v, q.incident) > MaxSnap THEN a = Error("incident_off_graph")
             ELSE a \in Search(q, v, WantedInBox(q), EdgesInBox(q), TRUE,
                          LAMBDA paths : WithAttributes(RoutesByVertex(paths)))
    BY <2>1 DEF ClosestFacilityV8, Guarded
  <2>3. QED
    BY <1>1, <2>2, SearchedWithoutError DEF Located
<1>8. QED
  BY <1>2, <1>3, <1>4, <1>5, <1>6, <1>7

LEMMA LocatedByDistance ==
  ASSUME vertices \subseteq Point, NEW q, q.incident \in Point, NEW a, Located(q, a)
  PROVE  /\ Near(q.incident, MaxSnap) => a.error # "incident_off_graph"
         /\ Far(q.incident, MaxSnap)  => a.error = "incident_off_graph"
<1>1. MaxSnap \in Nat
  BY DEF MaxSnap
<1>2. ASSUME Near(q.incident, MaxSnap) PROVE a.error # "incident_off_graph"
  <2>1. PICK u \in vertices : Distance(q.incident, u) * Stretch <= MaxSnap
    BY <1>2 DEF Near
  <2>2. PICK v \in Nearest(vertices, q.incident) :
          IF Distance(v, q.incident) > MaxSnap THEN a.error = "incident_off_graph"
                                               ELSE a.error # "incident_off_graph"
    BY <2>1 DEF Located
  <2>3. v \in Point
    BY DEF Nearest
  <2>4. Distance(v, q.incident) <= MaxSnap /\ Distance(v, q.incident) \in Nat
    BY <1>1, <2>1, <2>3, NearestIsNear, DegreesAndMetres
  <2>5. QED
    BY <1>1, <2>2, <2>4
<1>3. ASSUME Far(q.incident, MaxSnap) PROVE a.error = "incident_off_graph"
  <2>1. ASSUME NEW v \in Nearest(vertices, q.incident)
        PROVE  Distance(v, q.incident) > MaxSnap
    <3>1. v \in vertices /\ v \in Point
      BY DEF Nearest
    <3>2. QED
      BY <1>3, <3>1, DegreesAndMetres DEF Far
  <2>2. QED
    BY <2>1 DEF Located
<1>4. QED
  BY <1>2, <1>3

IncidentsByDistance ==
  asked # Null /\ asked.body >= 3 /\ asked.q.cost_mode \in {"distance", "time"} =>
    /\ Near(asked.q.incident, MaxSnap) => answer.error # "incident_off_graph"
    /\ Far(asked.q.incident, MaxSnap)  => answer.error = "incident_off_graph"

LEMMA IncidentsStep ==
  ASSUME Staged, IncidentsByDistance, [Next]_vars
  PROVE  IncidentsByDistance'
<1>1. ASSUME NEW body \in Bodies, NEW q \in Questions, Ask(body, q)
      PROVE  IncidentsByDistance'
  <2>1. /\ stage = "facilities" /\ asked' = [body |-> body, q |-> q]
        /\ answer' \in Answers(body, q) /\ vertices' = vertices
    BY <1>1 DEF Ask, network
  <2>2. vertices \subseteq Point /\ q.incident \in Point /\ body \in 2..8
    BY <2>1, VerticesPlaced, QuestionsAssumption, BodiesAssumption
  <2>3. asked'.body = body /\ asked'.q = q
    BY <2>1
  <2>4. SUFFICES ASSUME body >= 3, q.cost_mode \in {"distance", "time"}
                 PROVE  /\ Near(q.incident, MaxSnap) => answer'.error # "incident_off_graph"
                        /\ Far(q.incident, MaxSnap)  => answer'.error = "incident_off_graph"
    BY <2>1, <2>3 DEF IncidentsByDistance, Near, Far
  <2>5. Located(q, answer')
    BY <2>1, <2>2, <2>4, AnswersLocated
  <2>6. QED
    BY <2>2, <2>5, LocatedByDistance
<1>2. CASE Import \/ NodeNetwork \/ CostColumns \/ SnapFacilities
  <2>1. asked' = Null
    BY <1>2 DEF Import, NodeNetwork, CostColumns, SnapFacilities, Staged
  <2>2. QED
    BY <2>1 DEF IncidentsByDistance
<1>3. CASE UNCHANGED vars
  BY <1>3 DEF vars, network, IncidentsByDistance, Near, Far
<1>4. QED
  BY <1>1, <1>2, <1>3 DEF Next

\* The nearest vertex is chosen by degrees and judged by metres; still, what is
\* well within a limit of a vertex is attached, and what is beyond it of every
\* vertex is not (03_facilities.sql, closest_facility() from v3 on).
THEOREM AttachedByDistance == Spec => []SnapDecidesByDistance
<1>1. Init => IncidentsByDistance
  BY DEF Init, IncidentsByDistance
<1>2. Spec => []IncidentsByDistance
  BY <1>1, StagesInOrder, IncidentsStep, PTL DEF Spec
<1>3. Staged /\ IncidentsByDistance => SnapDecidesByDistance
  <2>1. SUFFICES ASSUME Staged, IncidentsByDistance PROVE SnapDecidesByDistance
    OBVIOUS
  <2>2. stage = "facilities" =>
          \A f \in Facilities(extract) :
            /\ Near(f.geom, SnapLimit) => f.id \in {g.id : g \in facilities}
            /\ Far(f.geom, SnapLimit)  => f.id \notin {g.id : g \in facilities}
    BY <2>1, FacilitiesByDistance
  <2>3. MaxSnap = 250 /\ SnapLimit = 100
    BY DEF MaxSnap, SnapLimit
  <2>4. QED
    BY <2>1, <2>2, <2>3 DEF SnapDecidesByDistance, IncidentsByDistance, Near, Far
<1>4. QED
  BY <1>2, <1>3, StagesInOrder, PTL

-----------------------------------------------------------------------------
(* The rewrites for speed.                                                 *)
LEMMA FacilitiesPlaced ==
  ASSUME Staged, stage = "facilities", NEW f \in facilities
  PROVE  f.geom \in Point
<1>1. IsExtract(extract) /\ SnappedFrom(extract)
  BY ExtractsAssumption DEF Staged
<1>2. PICK nearest : facilities = Categorised(Snapped(Facilities(extract), nearest))
  BY <1>1 DEF SnappedFrom
<1>3. \A g \in Facilities(extract) : Unsnapped(g)
  BY FacilitiesUnsnapped
<1>4. \E g \in Facilities(extract) : f = AttachedRow(g, nearest)
  BY <1>2, <1>3, SnappedRows
<1>5. \A g : AttachedRow(g, nearest).geom = g.geom
  BY DEF AttachedRow, Row
<1>6. QED
  BY <1>1, <1>4, <1>5, FacilitiesAtPoints

(* What is wanted is in the box: the facility prefilter drops nothing.     *)
LEMMA InTheBox ==
  ASSUME NEW q, q.incident \in Point, q.buffer \in Nat, NEW g \in Point,
         Distance(g, q.incident) <= q.buffer
  PROVE  InBox({g}, q)
<1>1. PICK r : r = q.buffer * DetourFactor
  OBVIOUS
<1>2. r \in Nat /\ q.buffer <= r
  BY <1>1 DEF DetourFactor
<1>3. PICK a, b, c, d \in Int :
        a = g[1] /\ b = g[2] /\ c = q.incident[1] /\ d = q.incident[2]
  BY DEF Point
<1>4. Absolute(a - c) + Absolute(b - d) <= q.buffer
  BY <1>3 DEF Distance, East, North
<1>5. a <= c + r /\ a >= c - r /\ b <= d + r /\ b >= d - r
  BY <1>2, <1>4 DEF Absolute
<1>6. {p[1] : p \in {g}} = {a} /\ {p[2] : p \in {g}} = {b}
  BY <1>3
<1>7. Min({a}) = a /\ Max({a}) = a /\ Min({b}) = b /\ Max({b}) = b
  BY DEF Min, Max
<1>8. QED
  BY <1>1, <1>3, <1>5, <1>6, <1>7 DEF InBox

LEMMA PrefilterDropsNothing ==
  ASSUME Staged, stage = "facilities", NEW q \in Questions
  PROVE  WantedInBox(q) = Wanted(q)
<1>1. q.incident \in Point /\ q.buffer \in Nat
  BY QuestionsAssumption
<1>2. ASSUME NEW f \in Wanted(q) PROVE InBox({f.geom}, q)
  BY <1>1, FacilitiesPlaced, InTheBox DEF Wanted
<1>3. QED
  BY <1>2 DEF WantedInBox

(* Where no street is one-way, minding one-way streets changes nothing.    *)
LEMMA OnewayMakesNoDifference ==
  ASSUME NEW edges, \A w \in edges : w.oneway = 0, NEW mode
  PROVE  Arcs(edges, mode, FALSE) = Arcs(edges, mode, TRUE)
<1>1. {e \in edges : ~(FALSE /\ e.oneway = 1)} = {e \in edges : ~(TRUE /\ e.oneway = 1)}
  OBVIOUS
<1>2. QED
  BY <1>1 DEF Arcs

-----------------------------------------------------------------------------
(* The bare rows.                                                          *)
Bare(row) == [c \in DOMAIN row \ {"facility_category", "facility_geom"} |-> row[c]]

BareAnswer(a) == [a EXCEPT !.rows = [i \in DOMAIN @ |-> Bare(@[i])]]

IsRoute(r) ==
  r = [facility |-> r.facility, total_cost |-> r.total_cost,
       total_distance_m |-> r.total_distance_m, total_time_s |-> r.total_time_s,
       route |-> r.route]

LEMMA BareWidened ==
  ASSUME NEW r, IsRoute(r), NEW f
  PROVE  Bare(Widened(r, f)) = r
<1>1. PICK w : w = Widened(r, f)
  OBVIOUS
<1>2. /\ DOMAIN w = {"facility", "total_cost", "total_distance_m", "total_time_s", "route",
                     "facility_category", "facility_geom"}
      /\ w["facility"] = r.facility /\ w["total_cost"] = r.total_cost
      /\ w["total_distance_m"] = r.total_distance_m
      /\ w["total_time_s"] = r.total_time_s /\ w["route"] = r.route
  BY <1>1 DEF Widened
<1>3. DOMAIN w \ {"facility_category", "facility_geom"} =
        {"facility", "total_cost", "total_distance_m", "total_time_s", "route"}
  BY <1>2
<1>4. Bare(w) = [c \in {"facility", "total_cost", "total_distance_m", "total_time_s", "route"}
                   |-> w[c]]
  BY <1>3 DEF Bare
<1>5. Bare(w) = [facility |-> r.facility, total_cost |-> r.total_cost,
                 total_distance_m |-> r.total_distance_m, total_time_s |-> r.total_time_s,
                 route |-> r.route]
  BY <1>2, <1>4
<1>6. QED
  BY <1>1, <1>5 DEF IsRoute

(* Ranking sees nothing of a row but its cost.                             *)
Ordered(t, S, n) ==
  /\ t \in [1..n -> S]
  /\ \A i \in 1..n :
       /\ \A j \in 1..(i - 1) : t[j] # t[i]
       /\ \A r \in S \ {t[j] : j \in 1..i} : t[i].total_cost <= r.total_cost

LEMMA OrderKept ==
  ASSUME NEW A, NEW B, NEW g \in Bijection(A, B), NEW n \in Int, NEW t, Ordered(t, A, n),
         \A x \in A : g[x].total_cost = x.total_cost
  PROVE  Ordered([i \in 1..n |-> g[t[i]]], B, n)
<1>1. /\ g \in [A -> B] /\ \A y \in B : \E x \in A : g[x] = y
      /\ \A x, y \in A : g[x] = g[y] => x = y
  BY DEF Bijection, Injection, Surjection, IsInjective
<1>2. PICK u : u = [i \in 1..n |-> g[t[i]]]
  OBVIOUS
<1>3. t \in [1..n -> A] /\ u \in [1..n -> B]
  BY <1>1, <1>2 DEF Ordered
<1>4. ASSUME NEW i \in 1..n
      PROVE  /\ \A j \in 1..(i - 1) : u[j] # u[i]
             /\ \A r \in B \ {u[j] : j \in 1..i} : u[i].total_cost <= r.total_cost
  <2>1. \A j \in 1..i : j \in 1..n
    OBVIOUS
  <2>2. ASSUME NEW j \in 1..(i - 1) PROVE u[j] # u[i]
    <3>1. j \in 1..n /\ t[j] # t[i] /\ t[j] \in A /\ t[i] \in A
      BY <1>3, <2>1 DEF Ordered
    <3>2. QED
      BY <1>1, <1>2, <3>1
  <2>3. ASSUME NEW r \in B \ {u[j] : j \in 1..i} PROVE u[i].total_cost <= r.total_cost
    <3>1. PICK x \in A : g[x] = r
      BY <1>1
    <3>2. x \notin {t[j] : j \in 1..i}
      BY <1>2, <2>1, <2>3, <3>1
    <3>3. t[i].total_cost <= x.total_cost
      BY <3>2 DEF Ordered
    <3>4. QED
      BY <1>2, <1>3, <3>1, <3>3
  <2>4. QED
    BY <2>2, <2>3
<1>5. Ordered(u, B, n)
  BY <1>3, <1>4 DEF Ordered
<1>6. QED
  BY <1>2, <1>5

LEMMA RankedIsOrdered ==
  ASSUME NEW routes, NEW k, NEW n, n = Min({k, Cardinality(routes)})
  PROVE  \A a : a \in Ranked(routes, k) <=> \E t : a = Rows(t) /\ Ordered(t, routes, n)
<1>1. ASSUME NEW t
      PROVE  /\ t \in TupleOf(routes, n)
             /\ \A i \in DOMAIN t :
                  /\ \A j \in 1..(i - 1) : t[j] # t[i]
                  /\ \A r \in routes \ {t[j] : j \in 1..i} : t[i].total_cost <= r.total_cost
             <=> Ordered(t, routes, n)
  BY DEF Ordered, TupleOf
<1>2. QED
  BY <1>1 DEF Ranked

LEMMA NewRows ==
  ASSUME NEW t, NEW u
  PROVE  [Rows(t) EXCEPT !.rows = u] = Rows(u)
  BY DEF Rows

LEMMA BareRows ==
  ASSUME NEW t, NEW n \in Int, NEW A, t \in [1..n -> A]
  PROVE  BareAnswer(Rows(t)) = Rows([i \in 1..n |-> Bare(t[i])])
<1>1. PICK a, u : a = Rows(t) /\ u = [i \in 1..n |-> Bare(t[i])]
  OBVIOUS
<1>2. a.rows = t /\ DOMAIN t = 1..n
  BY <1>1 DEF Rows
<1>3. [i \in DOMAIN a.rows |-> Bare(a.rows[i])] = u
  BY <1>1, <1>2
<1>4. BareAnswer(a) = [a EXCEPT !.rows = u]
  BY <1>3 DEF BareAnswer
<1>5. [a EXCEPT !.rows = u] = Rows(u)
  BY <1>1, NewRows
<1>6. QED
  BY <1>1, <1>4, <1>5

(* With a facility for every route and a route for every row, the rows of  *)
(* v8 are the rows of v7 with something added.                             *)
Routed(routes) ==
  /\ \A r \in routes : IsRoute(r)
  /\ \A r \in routes : \E f \in facilities : f.id = r.facility
  /\ IsFiniteSet(routes)

LEMMA RowsPairUp ==
  ASSUME Attached, NEW routes, Routed(routes), NEW A, A = WithAttributes(routes),
         NEW g, g = [w \in A |-> Bare(w)]
  PROVE  /\ g \in Bijection(A, routes)
         /\ \A w \in A : g[w].total_cost = w.total_cost
<1>1. ASSUME NEW w \in A
      PROVE  \E f \in facilities, s \in routes :
               s.facility = f.id /\ w = Widened(s, f) /\ g[w] = s
  <2>1. PICK f \in facilities : \E s \in routes : s.facility = f.id /\ w = Widened(s, f)
    BY AttributesAdded
  <2>2. PICK s \in routes : s.facility = f.id /\ w = Widened(s, f)
    BY <2>1
  <2>3. Bare(w) = s
    BY <2>2, BareWidened DEF Routed
  <2>4. QED
    BY <2>2, <2>3
<1>2. g \in [A -> routes]
  BY <1>1
<1>3. ASSUME NEW v \in A, NEW w \in A, g[v] = g[w]
      PROVE  v = w
  <2>1. PICK e \in facilities : g[v].facility = e.id /\ v = Widened(g[v], e)
    BY <1>1
  <2>2. PICK f \in facilities : g[w].facility = f.id /\ w = Widened(g[w], f)
    BY <1>1
  <2>3. e = f
    BY <1>3, <2>1, <2>2 DEF Attached
  <2>4. QED
    BY <1>3, <2>1, <2>2, <2>3
<1>4. ASSUME NEW s \in routes PROVE \E w \in A : g[w] = s
  <2>1. PICK f \in facilities : f.id = s.facility
    BY DEF Routed
  <2>2. PICK w : w = Widened(s, f)
    OBVIOUS
  <2>3. w \in A
    BY <2>1, <2>2, AttributesAdded
  <2>4. Bare(w) = s
    BY <2>2, BareWidened DEF Routed
  <2>5. QED
    BY <2>3, <2>4
<1>5. \A w \in A : g[w].total_cost = w.total_cost
  <2>1. \A s, f : Widened(s, f).total_cost = s.total_cost
    BY DEF Widened
  <2>2. QED
    BY <1>1, <2>1
<1>6. QED
  BY <1>2, <1>3, <1>4, <1>5 DEF Bijection, Injection, Surjection, IsInjective

LEMMA RankedAlike ==
  ASSUME Attached, NEW routes, Routed(routes), NEW k \in Nat
  PROVE  {BareAnswer(a) : a \in Ranked(WithAttributes(routes), k)} = Ranked(routes, k)
<1>1. PICK A : A = WithAttributes(routes)
  OBVIOUS
<1>2. PICK g : g = [w \in A |-> Bare(w)]
  OBVIOUS
<1>3. g \in Bijection(A, routes) /\ \A w \in A : g[w].total_cost = w.total_cost
  BY <1>1, <1>2, RowsPairUp
<1>4. PICK h \in Bijection(routes, A) : \A s \in routes : g[h[s]] = s
  <2>1. PICK h : h = [s \in routes |-> CHOOSE w \in A : g[w] = s]
    OBVIOUS
  <2>2. \A s \in routes : h[s] \in A /\ g[h[s]] = s
    BY <1>3, <2>1 DEF Bijection, Surjection
  <2>3. h \in [routes -> A]
    BY <2>1, <2>2
  <2>4. ASSUME NEW w \in A PROVE \E s \in routes : h[s] = w
    <3>1. g[w] \in routes /\ g[h[g[w]]] = g[w]
      BY <1>3, <2>2 DEF Bijection, Injection
    <3>2. h[g[w]] = w
      BY <1>3, <2>2, <3>1 DEF Bijection, Injection, IsInjective
    <3>3. QED
      BY <3>1, <3>2
  <2>5. h \in Bijection(routes, A)
    BY <2>2, <2>3, <2>4 DEF Bijection, Injection, Surjection, IsInjective
  <2>6. QED
    BY <2>2, <2>5
<1>5. \A s \in routes : h[s].total_cost = s.total_cost
  <2>1. \A s \in routes : h[s] \in A
    BY DEF Bijection, Injection
  <2>2. QED
    BY <1>3, <1>4, <2>1
<1>6. Cardinality(A) = Cardinality(routes) /\ Cardinality(routes) \in Nat
  BY <1>4, FS_Bijection, FS_CardinalityType DEF ExistsBijection, Routed
<1>7. PICK n : n = Min({k, Cardinality(routes)})
  OBVIOUS
<1>8. n \in Int
  BY <1>6, <1>7 DEF Min
<1>9. ASSUME NEW a \in Ranked(A, k) PROVE BareAnswer(a) \in Ranked(routes, k)
  <2>1. PICK t : a = Rows(t) /\ Ordered(t, A, n)
    BY <1>6, <1>7, RankedIsOrdered
  <2>2. PICK u : u = [i \in 1..n |-> g[t[i]]]
    OBVIOUS
  <2>3. Ordered(u, routes, n)
    BY <1>3, <1>8, <2>1, <2>2, OrderKept
  <2>4. t \in [1..n -> A]
    BY <2>1 DEF Ordered
  <2>5. u = [i \in 1..n |-> Bare(t[i])]
    BY <1>2, <2>2, <2>4
  <2>6. BareAnswer(a) = Rows(u)
    BY <1>8, <2>1, <2>4, <2>5, BareRows
  <2>7. QED
    BY <1>7, <2>3, <2>6, RankedIsOrdered
<1>10. ASSUME NEW b \in Ranked(routes, k) PROVE \E a \in Ranked(A, k) : BareAnswer(a) = b
  <2>1. PICK u : b = Rows(u) /\ Ordered(u, routes, n)
    BY <1>7, RankedIsOrdered
  <2>2. PICK t : t = [i \in 1..n |-> h[u[i]]]
    OBVIOUS
  <2>3. Ordered(t, A, n)
    BY <1>4, <1>5, <1>8, <2>1, <2>2, OrderKept
  <2>4. t \in [1..n -> A] /\ u \in [1..n -> routes]
    BY <2>1, <2>3 DEF Ordered
  <2>5. ASSUME NEW i \in 1..n PROVE Bare(t[i]) = u[i]
    <3>1. t[i] = h[u[i]] /\ t[i] \in A /\ u[i] \in routes
      BY <2>2, <2>4
    <3>2. QED
      BY <1>2, <1>4, <3>1
  <2>6. u = [i \in 1..n |-> Bare(t[i])]
    BY <2>4, <2>5
  <2>7. BareAnswer(Rows(t)) = b
    BY <1>8, <2>1, <2>4, <2>6, BareRows
  <2>8. Rows(t) \in Ranked(A, k)
    BY <1>6, <1>7, <2>3, RankedIsOrdered
  <2>9. QED
    BY <2>7, <2>8
<1>11. QED
  BY <1>1, <1>9, <1>10

LEMMA RoutesRouted ==
  ASSUME Attached, NEW paths, NEW mode, NEW ends,
         JustifiedRoutes(RoutesByVertex(paths), mode, ends)
  PROVE  Routed(RoutesByVertex(paths))
<1>1. ASSUME NEW r \in RoutesByVertex(paths) PROVE IsRoute(r)
  <2>1. PICK f, path : r = Route(f, path)
    BY DEF RoutesByVertex
  <2>2. PICK a, b, c, d, e :
          r = [facility |-> a, total_cost |-> b, total_distance_m |-> c,
               total_time_s |-> d, route |-> e]
    BY <2>1 DEF Route
  <2>3. QED
    BY <2>2 DEF IsRoute
<1>2. QED
  BY <1>1 DEF Routed, JustifiedRoutes

LEMMA BareOnError ==
  /\ \A code : BareAnswer(Error(code)) = Error(code)
  /\ BareAnswer(Rows(<<>>)) = Rows(<<>>)
<1>1. ASSUME NEW a, a.rows = <<>> PROVE BareAnswer(a) = [a EXCEPT !.rows = <<>>]
  <2>1. [i \in DOMAIN a.rows |-> Bare(a.rows[i])] = <<>>
    BY <1>1
  <2>2. QED
    BY <2>1 DEF BareAnswer
<1>2. ASSUME NEW code
      PROVE  Error(code).rows = <<>> /\ [Error(code) EXCEPT !.rows = <<>>] = Error(code)
  BY DEF Error
<1>3. Rows(<<>>).rows = <<>> /\ [Rows(<<>>) EXCEPT !.rows = <<>>] = Rows(<<>>)
  BY DEF Rows
<1>4. QED
  BY <1>1, <1>2, <1>3

(* The search of v7 and of v8, from one vertex.                            *)
BareSearch(q, v) == Search(q, v, WantedInBox(q), EdgesInBox(q), TRUE, RoutesByVertex)

WideRows(q, v) == Search(q, v, WantedInBox(q), EdgesInBox(q), TRUE,
                         LAMBDA paths : WithAttributes(RoutesByVertex(paths)))

LEMMA SearchesAlike ==
  ASSUME Attached, NEW q, q.k \in Nat, NEW v
  PROVE  {BareAnswer(a) : a \in WideRows(q, v)} = BareSearch(q, v)
<1> DEFINE P == Dijkstra(Arcs(EdgesInBox(q), q.cost_mode, TRUE), v, Vertices(WantedInBox(q)))
<1>1. CASE WantedInBox(q) = {}
  <2>1. WideRows(q, v) = {Rows(<<>>)} /\ BareSearch(q, v) = {Rows(<<>>)}
    BY <1>1 DEF WideRows, BareSearch, Search
  <2>2. QED
    BY <2>1, BareOnError
<1>2. CASE WantedInBox(q) # {}
  <2>1. /\ WideRows(q, v) = UNION {Ranked(WithAttributes(RoutesByVertex(p)), q.k) : p \in P}
        /\ BareSearch(q, v) = UNION {Ranked(RoutesByVertex(p), q.k) : p \in P}
    BY <1>2 DEF WideRows, BareSearch, Search
  <2>2. ASSUME NEW p \in P
        PROVE  {BareAnswer(a) : a \in Ranked(WithAttributes(RoutesByVertex(p)), q.k)}
                 = Ranked(RoutesByVertex(p), q.k)
    BY RoutesJustified, RoutesRouted, RankedAlike
  <2> HIDE DEF P
  <2>3. QED
    BY <2>1, <2>2
<1>3. QED
  BY <1>1, <1>2

LEMMA AttributesChangeNoRow ==
  ASSUME Attached, NEW q, q.k \in Nat
  PROVE  {BareAnswer(a) : a \in ClosestFacilityV8(q)} = ClosestFacilityV7(q)
<1> DEFINE Off    == {Error("incident_off_graph")}
           All(S(_)) == UNION {IF Distance(v, q.incident) > MaxSnap THEN Off ELSE S(v) :
                                 v \in Nearest(vertices, q.incident)}
<1>1. ClosestFacilityV8(q) =
        IF q.cost_mode \notin {"distance", "time"} THEN {Error("invalid_cost_mode")}
        ELSE IF vertices = {} THEN Off
        ELSE UNION {IF Distance(v, q.incident) > MaxSnap THEN Off ELSE WideRows(q, v) :
                      v \in Nearest(vertices, q.incident)}
  BY DEF ClosestFacilityV8, Guarded, WideRows
<1>2. ClosestFacilityV7(q) =
        IF q.cost_mode \notin {"distance", "time"} THEN {Error("invalid_cost_mode")}
        ELSE IF vertices = {} THEN Off
        ELSE UNION {IF Distance(v, q.incident) > MaxSnap THEN Off ELSE BareSearch(q, v) :
                      v \in Nearest(vertices, q.incident)}
  BY DEF ClosestFacilityV7, Guarded, BareSearch
<1>3. \A code : {BareAnswer(a) : a \in {Error(code)}} = {Error(code)}
  BY BareOnError
<1>4. \A v : {BareAnswer(a) : a \in WideRows(q, v)} = BareSearch(q, v)
  BY SearchesAlike
<1>5. QED
  BY <1>1, <1>2, <1>3, <1>4

-----------------------------------------------------------------------------
\* The rewrites for speed keep the answers: the facility prefilter of v7, the
\* attributes of v8 and, where no street is one-way and all edges are in the
\* box, the edge prefilter of v6 (closest_facility(), 20260623_0001 to _0003).
LEMMA AnswersKept ==
  ASSUME Staged
  PROVE  RewritesKeepTheAnswer
<1>1. SUFFICES ASSUME stage = "facilities", NEW q \in Questions
      PROVE  /\ ClosestFacilityV7(q) = ClosestFacilityV6(q)
             /\ {BareAnswer(a) : a \in ClosestFacilityV8(q)} = ClosestFacilityV7(q)
             /\ (\A w \in ways : w.oneway = 0) /\ EdgesInBox(q) = ways =>
                  ClosestFacilityV5(q) = ClosestFacilityV6(q)
  BY DEF RewritesKeepTheAnswer, BareAnswer, Bare
<1>2. ClosestFacilityV7(q) = ClosestFacilityV6(q)
  <2>1. WantedInBox(q) = Wanted(q)
    BY <1>1, PrefilterDropsNothing
  <2>2. QED
    BY <2>1 DEF ClosestFacilityV7, ClosestFacilityV6, Guarded, Search
<1>3. {BareAnswer(a) : a \in ClosestFacilityV8(q)} = ClosestFacilityV7(q)
  BY <1>1, FacilitiesAttached, AttributesChangeNoRow, QuestionsAssumption
<1>4. ASSUME \A w \in ways : w.oneway = 0, EdgesInBox(q) = ways
      PROVE  ClosestFacilityV5(q) = ClosestFacilityV6(q)
  <2>1. Arcs(ways, q.cost_mode, FALSE) = Arcs(ways, q.cost_mode, TRUE)
    BY <1>4, OnewayMakesNoDifference
  <2>2. QED
    BY <1>4, <2>1 DEF ClosestFacilityV5, ClosestFacilityV6, Guarded, Search
<1>5. QED
  BY <1>2, <1>3, <1>4

\* The rewrites for speed keep the answers: the facility prefilter of v7, the
\* attributes of v8 and, where no street is one-way and all edges are in the
\* box, the edge prefilter of v6 (closest_facility(), from v5 to v8).
THEOREM RewritesAgree == Spec => []RewritesKeepTheAnswer
<1>1. Staged => RewritesKeepTheAnswer
  BY AnswersKept
<1>2. QED
  BY <1>1, StagesInOrder, PTL

-----------------------------------------------------------------------------
(* More arcs and more rounds of relaxation never make a place dearer.      *)
Priceable(arcs) == \A a \in arcs : a.cost \in Nat

(* Costs of some of the places that arcs lead to.                          *)
Known(arcs, start) ==
  UNION {[D -> Nat] : D \in SUBSET ({start} \union {a.to : a \in arcs})}

NoDearer(d, c) == DOMAIN c \subseteq DOMAIN d /\ \A v \in DOMAIN c : d[v] <= c[v]

LEMMA LeastOfNaturals ==
  ASSUME NEW S \in SUBSET Nat, S # {}
  PROVE  Min(S) \in S /\ \A n \in S : Min(S) <= n
  BY LeastNumber DEF Min

LEMMA RelaxedCosts ==
  ASSUME NEW arcs, Priceable(arcs), NEW start, NEW known \in Known(arcs, start),
         NEW next, next = Relax(arcs, known)
  PROVE  /\ next \in Known(arcs, start)
         /\ \A v : v \in DOMAIN next <=>
              v \in DOMAIN known \/ \E a \in arcs : a.from \in DOMAIN known /\ a.to = v
         /\ \A v \in DOMAIN known : next[v] <= known[v]
         /\ \A a \in arcs : a.from \in DOMAIN known => next[a.to] <= known[a.from] + a.cost
         /\ \A v \in DOMAIN next :
              \/ v \in DOMAIN known /\ next[v] = known[v]
              \/ \E a \in arcs : /\ a.from \in DOMAIN known /\ a.to = v
                                 /\ next[v] = known[a.from] + a.cost
<1> DEFINE Out     == {a \in arcs : a.from \in DOMAIN known}
           Into(v) == {known[a.from] + a.cost : a \in {b \in Out : b.to = v}}
           Kept(v) == IF v \in DOMAIN known THEN {known[v]} ELSE {}
           All(v)  == Kept(v) \union Into(v)
           D       == DOMAIN known \union {a.to : a \in Out}
<1>1. PICK K : /\ K \subseteq {start} \union {a.to : a \in arcs}
               /\ known \in [K -> Nat]
  BY DEF Known
<1>2. next = [v \in D |-> Min(All(v))]
  BY DEF Relax
<1>3. ASSUME NEW v
      PROVE  /\ All(v) \in SUBSET Nat
             /\ v \in D => All(v) # {}
             /\ v \in DOMAIN known => known[v] \in All(v)
  <2>1. \A a \in Out : known[a.from] + a.cost \in Nat
    BY <1>1 DEF Priceable
  <2>2. QED
    BY <1>1, <2>1
<1>4. \A a \in arcs : a.from \in DOMAIN known =>
        a.to \in D /\ known[a.from] + a.cost \in All(a.to)
  OBVIOUS
<1>5. \A v : \A n \in All(v) :
        \/ v \in DOMAIN known /\ n = known[v]
        \/ \E a \in arcs : a.from \in DOMAIN known /\ a.to = v /\ n = known[a.from] + a.cost
  OBVIOUS
<1>6. \A v : v \in D <=>
        v \in DOMAIN known \/ \E a \in arcs : a.from \in DOMAIN known /\ a.to = v
  OBVIOUS
<1>7. D \in SUBSET ({start} \union {a.to : a \in arcs})
  BY <1>1
<1> HIDE DEF All, D
<1>8. \A v \in D : Min(All(v)) \in All(v) /\ \A n \in All(v) : Min(All(v)) <= n
  BY <1>3, LeastOfNaturals
<1>9. next \in [D -> Nat]
  <2>1. \A v \in D : Min(All(v)) \in Nat
    BY <1>3, <1>8
  <2>2. QED
    BY <1>2, <2>1
<1>10. next \in Known(arcs, start)
  BY <1>7, <1>9 DEF Known
<1>11. \A v \in D : next[v] \in All(v) /\ \A n \in All(v) : next[v] <= n
  BY <1>2, <1>8
<1>12. DOMAIN next = D /\ DOMAIN known \subseteq D
  BY <1>2, <1>6
<1>13. QED
  BY <1>3, <1>4, <1>5, <1>6, <1>10, <1>11, <1>12

LEMMA RelaxingHelps ==
  ASSUME NEW arcs, Priceable(arcs), NEW start, NEW c \in Known(arcs, start)
  PROVE  Relax(arcs, c) \in Known(arcs, start) /\ NoDearer(Relax(arcs, c), c)
  BY RelaxedCosts DEF NoDearer

LEMMA KnownIsNatural ==
  ASSUME NEW arcs, NEW start, NEW c \in Known(arcs, start), NEW v \in DOMAIN c
  PROVE  c[v] \in Nat
  BY DEF Known

LEMMA RelaxingIsMonotone ==
  ASSUME NEW arcs, NEW more, arcs \subseteq more, Priceable(more), NEW start,
         NEW c \in Known(arcs, start), NEW d \in Known(more, start), NoDearer(d, c)
  PROVE  NoDearer(Relax(more, d), Relax(arcs, c))
<1>1. PICK e, f : e = Relax(arcs, c) /\ f = Relax(more, d)
  OBVIOUS
<1>2. Priceable(arcs)
  BY DEF Priceable
<1>3. /\ e \in Known(arcs, start) /\ f \in Known(more, start)
      /\ \A v \in DOMAIN d : v \in DOMAIN f /\ f[v] <= d[v]
      /\ \A a \in more : a.from \in DOMAIN d => a.to \in DOMAIN f /\ f[a.to] <= d[a.from] + a.cost
  BY <1>1, <1>2, RelaxedCosts
<1>4. ASSUME NEW v \in DOMAIN e PROVE v \in DOMAIN f /\ f[v] <= e[v]
  <2>1. CASE v \in DOMAIN c /\ e[v] = c[v]
    <3>1. v \in DOMAIN d /\ d[v] <= c[v]
      BY <2>1 DEF NoDearer
    <3>2. v \in DOMAIN f /\ f[v] <= d[v]
      BY <1>3, <3>1
    <3>3. c[v] \in Nat /\ d[v] \in Nat /\ f[v] \in Nat
      BY <1>3, <2>1, <3>1, <3>2, KnownIsNatural
    <3>4. QED
      BY <2>1, <3>1, <3>2, <3>3
  <2>2. CASE \E a \in arcs : /\ a.from \in DOMAIN c /\ a.to = v
                             /\ e[v] = c[a.from] + a.cost
    <3>1. PICK a \in arcs : a.from \in DOMAIN c /\ a.to = v /\ e[v] = c[a.from] + a.cost
      BY <2>2
    <3>2. a \in more /\ a.from \in DOMAIN d /\ d[a.from] <= c[a.from]
      BY <3>1 DEF NoDearer
    <3>3. v \in DOMAIN f /\ f[v] <= d[a.from] + a.cost
      BY <1>3, <3>1, <3>2
    <3>4. c[a.from] \in Nat /\ d[a.from] \in Nat /\ f[v] \in Nat
      BY <1>3, <3>1, <3>2, <3>3, KnownIsNatural
    <3>5. a.cost \in Nat
      BY <3>2 DEF Priceable
    <3>6. QED
      BY <3>1, <3>2, <3>3, <3>4, <3>5
  <2>3. QED
    BY <1>1, <1>2, <2>1, <2>2, RelaxedCosts
<1>5. QED
  BY <1>1, <1>4 DEF NoDearer

(* The rounds.                                                             *)
Rounds(after, arcs, start) ==
  /\ after \in [Nat -> Known(arcs, start)]
  /\ after[0] = [v \in {start} |-> 0]
  /\ \A n \in Nat : after[n + 1] = Relax(arcs, after[n])

LEMMA CostsAfterRounds ==
  ASSUME NEW arcs, Priceable(arcs), NEW start
  PROVE  \E after : /\ Rounds(after, arcs, start)
                    /\ Costs(arcs, start) = after[Cardinality({a.to : a \in arcs})]
<1> DEFINE c0     == [v \in {start} |-> 0]
           V      == Known(arcs, start)
           Def(g) == [n \in Nat |-> IF n = 0 THEN c0 ELSE Relax(arcs, g[n - 1])]
           after  == CHOOSE g : g = Def(g)
<1>1. Costs(arcs, start) = after[Cardinality({a.to : a \in arcs})]
  BY DEF Costs
<1>2. \A c \in V : Relax(arcs, c) \in V
  BY RelaxingHelps
<1>3. c0 \in V
  <2>1. {start} \in SUBSET ({start} \union {a.to : a \in arcs})
    OBVIOUS
  <2>2. c0 \in [{start} -> Nat]
    OBVIOUS
  <2>3. QED
    BY <2>1, <2>2 DEF Known
<1> HIDE DEF V, c0
<1>4. PICK step : step = [n \in Nat |-> [c \in V |-> Relax(arcs, c)]]
  OBVIOUS
<1>5. PICK g \in [Nat -> V] : g[0] = c0 /\ \A n \in Nat : g[n + 1] = step[n][g[n]]
  <2>1. Steps(step, c0, V)
    BY <1>2, <1>3, <1>4 DEF Steps
  <2>2. \E g : Follows(g, step, c0, V)
    BY <2>1, NatRecursion
  <2>3. QED
    BY <2>2 DEF Follows
<1>6. g = Def(g)
  <2>1. ASSUME NEW n \in Nat, n # 0 PROVE g[n] = Relax(arcs, g[n - 1])
    <3>1. n - 1 \in Nat /\ (n - 1) + 1 = n
      BY <2>1
    <3>2. g[n] = step[n - 1][g[n - 1]]
      BY <1>5, <3>1
    <3>3. QED
      BY <1>4, <1>5, <3>1, <3>2
  <2>2. QED
    BY <1>5, <2>1
<1>7. after = Def(after)
  BY <1>6
<1> HIDE DEF after
<1>8. after[0] = c0 /\ \A n \in Nat : after[n + 1] = Relax(arcs, after[n])
  <2>1. after[0] = c0
    BY <1>7
  <2>2. ASSUME NEW n \in Nat PROVE after[n + 1] = Relax(arcs, after[n])
    <3>1. n + 1 \in Nat /\ n + 1 # 0 /\ (n + 1) - 1 = n
      OBVIOUS
    <3>2. QED
      BY <1>7, <3>1
  <2>3. QED
    BY <2>1, <2>2
<1>9. \A n \in Nat : after[n] \in V
  <2> DEFINE S == {n \in Nat : after[n] \in V}
  <2>1. 0 \in S
    BY <1>3, <1>8
  <2>2. \A n \in Nat : n \in S => n + 1 \in S
    BY <1>2, <1>8
  <2>3. \A n \in Nat : n \in S
    <3> HIDE DEF S
    <3>1. QED
      BY <2>1, <2>2, SetInduction
  <2>4. QED
    BY <2>3
<1>10. after \in [Nat -> V]
  <2>1. after = [n \in Nat |-> after[n]]
    BY <1>7
  <2>2. QED
    BY <1>9, <2>1
<1>11. Rounds(after, arcs, start)
  BY <1>8, <1>10 DEF Rounds, V, c0
<1>12. QED
  BY <1>1, <1>11

LEMMA RoundsAreMonotone ==
  ASSUME NEW arcs, NEW more, arcs \subseteq more, Priceable(more), NEW start,
         NEW a, Rounds(a, arcs, start), NEW b, Rounds(b, more, start),
         NEW m \in Nat, NEW n \in Nat, m <= n
  PROVE  NoDearer(b[n], a[m])
<1>1. \A i \in Nat : a[i] \in Known(arcs, start) /\ b[i] \in Known(more, start)
  BY DEF Rounds
<1>2. \A i \in Nat : a[i + 1] = Relax(arcs, a[i]) /\ b[i + 1] = Relax(more, b[i])
  BY DEF Rounds
<1>3. \A i \in Nat : NoDearer(b[i], a[i])
  <2> DEFINE S == {i \in Nat : NoDearer(b[i], a[i])}
  <2>1. 0 \in S
    BY DEF Rounds, NoDearer
  <2>2. \A i \in Nat : i \in S => i + 1 \in S
    BY <1>1, <1>2, RelaxingIsMonotone
  <2>3. \A i \in Nat : i \in S
    <3> HIDE DEF S
    <3>1. QED
      BY <2>1, <2>2, SetInduction
  <2>4. QED
    BY <2>3
<1>4. \A i \in Nat : NoDearer(b[m + i], a[m])
  <2> DEFINE S == {i \in Nat : NoDearer(b[m + i], a[m])}
  <2>1. 0 \in S
    BY <1>3
  <2>2. ASSUME NEW i \in Nat, i \in S PROVE i + 1 \in S
    <3>1. m + i \in Nat /\ m + (i + 1) = (m + i) + 1 /\ NoDearer(b[m + i], a[m])
      BY <2>2
    <3>2. PICK c, d, e : c = a[m] /\ d = b[m + i] /\ e = b[m + (i + 1)]
      OBVIOUS
    <3>3. /\ NoDearer(d, c) /\ NoDearer(e, d) /\ c \in Known(arcs, start)
          /\ d \in Known(more, start) /\ e \in Known(more, start)
      BY <1>1, <1>2, <3>1, <3>2, RelaxingHelps
    <3>4. ASSUME NEW v \in DOMAIN c PROVE v \in DOMAIN e /\ e[v] <= c[v]
      <4>1. v \in DOMAIN d /\ d[v] <= c[v] /\ v \in DOMAIN e /\ e[v] <= d[v]
        BY <3>3 DEF NoDearer
      <4>2. c[v] \in Nat /\ d[v] \in Nat /\ e[v] \in Nat
        BY <3>3, <4>1, KnownIsNatural
      <4>3. QED
        BY <4>1, <4>2
    <3>5. NoDearer(e, c)
      BY <3>4 DEF NoDearer
    <3>6. QED
      BY <3>2, <3>5
  <2>3. \A i \in Nat : i \in S
    <3> HIDE DEF S
    <3>1. QED
      BY <2>1, <2>2, SetInduction
  <2>4. QED
    BY <2>3
<1>5. n - m \in Nat /\ m + (n - m) = n
  OBVIOUS
<1>6. QED
  BY <1>4, <1>5

LEMMA MoreArcsNoDearer ==
  ASSUME NEW arcs, NEW more, arcs \subseteq more, IsFiniteSet(more), Priceable(more), NEW start
  PROVE  NoDearer(Costs(more, start), Costs(arcs, start))
<1>1. PICK S, T : S = {a.to : a \in arcs} /\ T = {a.to : a \in more}
  OBVIOUS
<1>2. IsFiniteSet(T)
  <2>1. PICK g : g = [a \in more |-> a.to]
    OBVIOUS
  <2>2. DOMAIN g = more /\ T = {g[a] : a \in more}
    BY <1>1, <2>1
  <2>3. QED
    BY <2>2, FiniteImage
<1>3. S \subseteq T
  BY <1>1
<1>4. /\ Cardinality(S) \in Nat /\ Cardinality(T) \in Nat
      /\ Cardinality(S) <= Cardinality(T)
  BY <1>2, <1>3, FS_Subset, FS_CardinalityType
<1>5. Priceable(arcs)
  BY DEF Priceable
<1>6. PICK a : Rounds(a, arcs, start) /\ Costs(arcs, start) = a[Cardinality(S)]
  BY <1>1, <1>5, CostsAfterRounds
<1>7. PICK b : Rounds(b, more, start) /\ Costs(more, start) = b[Cardinality(T)]
  BY <1>1, CostsAfterRounds
<1>8. QED
  BY <1>4, <1>6, <1>7, RoundsAreMonotone

-----------------------------------------------------------------------------
(* What the paths cost.                                                    *)
(* What the rounds leave alone: the start costs nothing.                   *)
LEMMA StartIsFree ==
  ASSUME NEW arcs, IsFiniteSet(arcs), Priceable(arcs), NEW start,
         NEW c, c = Costs(arcs, start)
  PROVE  c \in Known(arcs, start) /\ start \in DOMAIN c /\ c[start] = 0
<1>1. PICK n : n = Cardinality({a.to : a \in arcs})
  OBVIOUS
<1>2. n \in Nat
  <2>1. PICK g, T : g = [a \in arcs |-> a.to] /\ T = {a.to : a \in arcs}
    OBVIOUS
  <2>2. DOMAIN g = arcs /\ T = {g[a] : a \in arcs}
    BY <2>1
  <2>3. IsFiniteSet(T)
    BY <2>2, FiniteImage
  <2>4. QED
    BY <1>1, <2>1, <2>3, FS_CardinalityType
<1>3. PICK a : Rounds(a, arcs, start) /\ c = a[n]
  BY <1>1, CostsAfterRounds
<1>4. NoDearer(c, a[0]) /\ c \in Known(arcs, start)
  <2>1. 0 \in Nat /\ 0 <= n /\ arcs \subseteq arcs
    BY <1>2
  <2>2. NoDearer(a[n], a[0])
    BY <1>2, <1>3, <2>1, RoundsAreMonotone
  <2>3. a[n] \in Known(arcs, start)
    BY <1>2, <1>3 DEF Rounds
  <2>4. QED
    BY <1>3, <2>2, <2>3
<1>5. start \in DOMAIN c /\ c[start] <= 0
  BY <1>3, <1>4 DEF Rounds, NoDearer
<1>6. c[start] \in Nat
  BY <1>4, <1>5, KnownIsNatural
<1>7. QED
  BY <1>4, <1>5, <1>6

PathCosts(path) == [i \in DOMAIN path |-> path[i].cost]

PricedPaths(arcs, cost, start) ==
  {p \in Seq(arcs) : Total(PathCosts(p)) = cost[End(p, start)]}

LEMMA NoPathIsFree ==
  ASSUME NEW arcs, NEW cost, NEW start, cost[start] = 0
  PROVE  <<>> \in PricedPaths(arcs, cost, start)
<1>1. PathCosts(<<>>) = <<>> /\ End(<<>>, start) = start
  BY DEF PathCosts, End
<1>2. QED
  BY <1>1, TotalOfNothing DEF PricedPaths

LEMMA LongerPathsArePriced ==
  ASSUME NEW arcs, Priceable(arcs), NEW cost, NEW start,
         NEW p \in PricedPaths(arcs, cost, start), NEW a \in arcs,
         a.from = End(p, start), cost[a.from] + a.cost = cost[a.to]
  PROVE  Append(p, a) \in PricedPaths(arcs, cost, start)
<1>1. PICK s : s = Append(p, a)
  OBVIOUS
<1>2. /\ s \in Seq(arcs) /\ Len(p) \in Nat /\ Len(s) = Len(p) + 1
      /\ \A i \in 1..Len(p) : s[i] = p[i]
      /\ s[Len(p) + 1] = a
  BY <1>1, AppendProperties, LenProperties DEF PricedPaths
<1>3. /\ DOMAIN p = 1..Len(p) /\ DOMAIN s = 1..Len(s)
      /\ \A i \in 1..Len(p) : p[i] \in arcs
  BY <1>2, LenProperties, ElementOfSeq DEF PricedPaths
<1>4. PICK x, y : x = PathCosts(p) /\ y = PathCosts(s)
  OBVIOUS
<1>5. x \in [1..Len(p) -> Nat] /\ x \in Seq(Nat) /\ Len(x) = Len(p)
  <2>1. x = [i \in 1..Len(p) |-> p[i].cost]
    BY <1>3, <1>4 DEF PathCosts
  <2>2. x \in [1..Len(p) -> Nat]
    BY <1>3, <2>1 DEF Priceable
  <2>3. QED
    BY <1>2, <2>2
<1>6. y = Append(x, a.cost)
  <2>1. \A i \in 1..Len(p) : x[i] = p[i].cost
    BY <1>3, <1>4 DEF PathCosts
  <2>2. y = [i \in 1..(Len(p) + 1) |-> s[i].cost]
    BY <1>2, <1>3, <1>4 DEF PathCosts
  <2>3. PICK e \in Nat : e = a.cost
    BY DEF Priceable
  <2>4. PICK z : z = Append(x, e)
    OBVIOUS
  <2>5. /\ z \in [1..(Len(p) + 1) -> Nat]
        /\ \A i \in 1..Len(p) : z[i] = x[i]
        /\ z[Len(p) + 1] = a.cost
    <3>1. /\ z \in Seq(Nat) /\ Len(z) = Len(x) + 1
          /\ \A i \in 1..Len(x) : z[i] = x[i]
          /\ z[Len(x) + 1] = e
      BY <1>5, <2>4, AppendProperties
    <3>2. z \in [1..Len(z) -> Nat]
      BY <3>1, LenProperties
    <3>3. QED
      BY <1>5, <2>3, <3>1, <3>2
  <2>6. ASSUME NEW i \in 1..(Len(p) + 1) PROVE z[i] = s[i].cost
    <3>1. CASE i \in 1..Len(p)
      BY <1>2, <2>1, <2>5, <3>1
    <3>2. CASE i = Len(p) + 1
      BY <1>2, <2>5, <3>2
    <3>3. QED
      BY <1>2, <3>1, <3>2
  <2>7. QED
    BY <2>2, <2>3, <2>4, <2>5, <2>6
<1>7. Total(y) = Total(x) + a.cost
  BY <1>5, <1>6, TotalOfLonger DEF Priceable
<1>8. Total(x) = cost[a.from]
  BY <1>4 DEF PricedPaths
<1>9. End(s, start) = a.to
  <2>1. s # <<>>
    BY <1>2
  <2>2. QED
    BY <1>2, <2>1 DEF End
<1>10. QED
  BY <1>1, <1>2, <1>4, <1>7, <1>8, <1>9 DEF PricedPaths

(* The paths of pgr_dijkstra are walks and cost what the rounds say.       *)
LEMMA CheapestPathsArePriced ==
  ASSUME NEW arcs, IsFiniteSet(arcs), Priceable(arcs), NEW start,
         NEW c, c = Costs(arcs, start)
  PROVE  CheapestPaths(arcs, c, start) \subseteq PricedPaths(arcs, c, start)
<1>1. PICK W : W = PricedPaths(arcs, c, start)
  OBVIOUS
<1>2. <<>> \in W
  BY <1>1, StartIsFree, NoPathIsFree
<1>3. Extensions(arcs, c, start, W) \subseteq W
  <2>1. ASSUME NEW s \in Extensions(arcs, c, start, W) PROVE s \in W
    <3>1. PICK p \in W, a \in arcs :
            a.from = End(p, start) /\ c[a.from] + a.cost = c[a.to] /\ s = Append(p, a)
      BY DEF Extensions
    <3>2. QED
      BY <1>1, <3>1, LongerPathsArePriced
  <2>2. QED
    BY <2>1
<1>4. Closed(W, arcs, c, start)
  BY <1>2, <1>3 DEF Closed
<1>5. QED
  BY <1>1, <1>4, CheapestPathsWithin

PathsPriced(paths, c, start, ends) ==
  /\ DOMAIN paths = (ends \intersect DOMAIN c) \ {start}
  /\ \A v \in DOMAIN paths : Total(PathCosts(paths[v])) = c[v]

LEMMA DijkstraIsPriced ==
  ASSUME NEW arcs, IsFiniteSet(arcs), Priceable(arcs), NEW start, NEW ends,
         NEW c, c = Costs(arcs, start), NEW paths \in Dijkstra(arcs, start, ends)
  PROVE  PathsPriced(paths, c, start, ends)
<1>1. DOMAIN paths = (ends \intersect DOMAIN c) \ {start}
  BY DEF Dijkstra
<1>2. \A v \in DOMAIN paths : paths[v] \in CheapestPaths(arcs, c, start) /\ End(paths[v], start) = v
  BY DEF Dijkstra
<1>3. \A v \in DOMAIN paths : paths[v] \in PricedPaths(arcs, c, start)
  BY <1>2, CheapestPathsArePriced
<1>4. QED
  BY <1>1, <1>2, <1>3 DEF PricedPaths, PathsPriced

-----------------------------------------------------------------------------
(* The network as the search sees it.                                      *)
LEMMA WaysArePriced ==
  ASSUME Staged, stage = "facilities"
  PROVE  IsFiniteSet(ways) /\ \A w \in ways : IsEdge(w)
<1>1. IsExtract(extract) /\ ways = Edges(extract)
  BY ExtractsAssumption DEF Staged
<1>2. PICK g : g = [w \in NodedWays(extract) |-> Priced(w)]
  OBVIOUS
<1>3. DOMAIN g = NodedWays(extract) /\ ways = {g[w] : w \in NodedWays(extract)}
  BY <1>1, <1>2 DEF Edges
<1>4. IsFiniteSet(ways)
  BY <1>1, <1>3, NetworkFinite, FiniteImage
<1>5. \A w \in ways : IsEdge(w)
  BY <1>1, EdgesArePriced DEF Edges
<1>6. QED
  BY <1>4, <1>5

LEMMA ArcsOfEdges ==
  ASSUME NEW E, IsFiniteSet(E), \A w \in E : IsEdge(w), NEW mode, NEW aware
  PROVE  IsFiniteSet(Arcs(E, mode, aware)) /\ Priceable(Arcs(E, mode, aware))
<1> DEFINE Cost(w) == IF mode = "distance" THEN w.cost_distance ELSE w.cost_time
           Forward(w)  == [from |-> w.source, to |-> w.target, way |-> w, cost |-> Cost(w)]
           Backward(w) == [from |-> w.target, to |-> w.source, way |-> w, cost |-> Cost(w)]
<1>1. PICK B : B = {e \in E : ~(aware /\ e.oneway = 1)}
  OBVIOUS
<1>2. Arcs(E, mode, aware) = {Forward(w) : w \in E} \union {Backward(w) : w \in B}
  BY <1>1 DEF Arcs
<1>3. \A w \in E : Forward(w).cost \in Nat /\ Backward(w).cost \in Nat
  BY DEF IsEdge
<1>4. B \subseteq E
  BY <1>1
<1> HIDE DEF Forward, Backward
<1>5. PICK F, G : F = {Forward(w) : w \in E} /\ G = {Backward(w) : w \in B}
  OBVIOUS
<1>6. IsFiniteSet(F)
  <2>1. PICK g : g = [w \in E |-> Forward(w)]
    OBVIOUS
  <2>2. DOMAIN g = E /\ F = {g[w] : w \in E}
    BY <1>5, <2>1
  <2>3. QED
    BY <2>2, FiniteImage
<1>7. IsFiniteSet(G)
  <2>1. PICK g : g = [w \in B |-> Backward(w)]
    OBVIOUS
  <2>2. DOMAIN g = B /\ G = {g[w] : w \in B}
    BY <1>5, <2>1
  <2>3. QED
    BY <1>4, <2>2, FS_Subset, FiniteImage
<1>8. \A a \in F \union G : a.cost \in Nat
  BY <1>3, <1>4, <1>5
<1>9. QED
  BY <1>2, <1>5, <1>6, <1>7, <1>8, FS_Union DEF Priceable

LEMMA MoreEdgesMoreArcs ==
  ASSUME NEW E, NEW F, E \subseteq F, NEW mode, NEW aware
  PROVE  Arcs(E, mode, aware) \subseteq Arcs(F, mode, aware)
  BY DEF Arcs

(* A wider buffer has a larger box.                                        *)
LEMMA CornersAreIntegers ==
  ASSUME NEW line \in Seq(Point), Len(line) \in Nat \ {0}, NEW i \in {1, 2},
         NEW T, T = {p[i] : p \in ToSet(line)}
  PROVE  Min(T) \in Int /\ Max(T) \in Int
<1>1. PICK n \in Nat \ {0} : n = Len(line)
  OBVIOUS
<1>2. PICK h : h = [j \in 1..n |-> line[j][i]]
  OBVIOUS
<1>3. \A j \in 1..n : line[j] \in Point
  BY <1>1, ElementOfSeq
<1>4. h \in [1..n -> Int]
  BY <1>2, <1>3 DEF Point
<1>5. T = {h[j] : j \in 1..n}
  <2>1. ToSet(line) = {line[j] : j \in 1..n}
    BY <1>1, LenProperties DEF ToSet
  <2>2. QED
    BY <1>2, <2>1
<1>6. T \subseteq Int
  BY <1>4, <1>5
<1>7. Min(T) \in T
  <2>1. PICK m \in 1..n : \A j \in 1..n : h[m] <= h[j]
    BY <1>4, LowestValue
  <2>2. h[m] \in T /\ \A t \in T : h[m] <= t
    BY <1>5, <2>1
  <2>3. QED
    BY <2>2 DEF Min
<1>8. Max(T) \in T
  <2>1. PICK m \in 1..n : \A j \in 1..n : h[m] >= h[j]
    BY <1>4, HighestValue
  <2>2. h[m] \in T /\ \A t \in T : h[m] >= t
    BY <1>5, <2>1
  <2>3. QED
    BY <2>2 DEF Max
<1>9. QED
  BY <1>6, <1>7, <1>8

Wider(q, p) ==
  /\ q.incident = p.incident /\ q.k = p.k /\ q.cost_mode = p.cost_mode /\ q.filter = p.filter
  /\ p.incident \in Point /\ p.k \in Nat /\ p.buffer \in Nat /\ q.buffer \in Nat
  /\ p.buffer <= q.buffer

LEMMA BoxGrows ==
  ASSUME NEW p, NEW q, Wider(q, p), NEW line \in Seq(Point), Len(line) \in Nat \ {0},
         InBox(ToSet(line), p)
  PROVE  InBox(ToSet(line), q)
<1>1. PICK b, d \in Nat : b = p.buffer * DetourFactor /\ d = q.buffer * DetourFactor /\ b <= d
  BY DEF Wider, DetourFactor
<1>2. ASSUME NEW i \in {1, 2}, NEW T, T = {t[i] : t \in ToSet(line)},
             Min(T) <= p.incident[i] + b, Max(T) >= p.incident[i] - b
      PROVE  Min(T) <= q.incident[i] + d /\ Max(T) >= q.incident[i] - d
  <2>1. Min(T) \in Int /\ Max(T) \in Int
    BY <1>2, CornersAreIntegers
  <2>2. PICK x \in Int : x = p.incident[i] /\ x = q.incident[i]
    BY DEF Wider, Point
  <2>3. QED
    BY <1>1, <1>2, <2>1, <2>2
<1>3. PICK A, B : A = {t[1] : t \in ToSet(line)} /\ B = {t[2] : t \in ToSet(line)}
  OBVIOUS
<1>4. /\ Min(A) <= p.incident[1] + b /\ Max(A) >= p.incident[1] - b
      /\ Min(B) <= p.incident[2] + b /\ Max(B) >= p.incident[2] - b
  BY <1>1, <1>3 DEF InBox
<1>5. /\ Min(A) <= q.incident[1] + d /\ Max(A) >= q.incident[1] - d
      /\ Min(B) <= q.incident[2] + d /\ Max(B) >= q.incident[2] - d
  BY <1>2, <1>3, <1>4
<1>6. QED
  BY <1>1, <1>3, <1>5 DEF InBox

LEMMA WiderSeesMore ==
  ASSUME Staged, stage = "facilities", NEW p, NEW q, Wider(q, p)
  PROVE  EdgesInBox(p) \subseteq EdgesInBox(q) /\ Wanted(p) \subseteq Wanted(q)
<1>1. ASSUME NEW w \in EdgesInBox(p) PROVE w \in EdgesInBox(q)
  <2>1. w \in ways /\ InBox(ToSet(w.geom), p)
    BY DEF EdgesInBox
  <2>2. w.geom \in Seq(Point) /\ Len(w.geom) \in Nat \ {0}
    BY <2>1, WaysArePriced DEF IsEdge
  <2>3. InBox(ToSet(w.geom), q)
    BY <2>1, <2>2, BoxGrows
  <2>4. QED
    BY <2>1, <2>3 DEF EdgesInBox
<1>2. ASSUME NEW f \in Wanted(p) PROVE f \in Wanted(q)
  <2>1. /\ f \in facilities /\ f.vertex # Null /\ p.filter \subseteq f.tags
        /\ Distance(f.geom, p.incident) <= p.buffer
    BY DEF Wanted
  <2>2. Distance(f.geom, p.incident) \in Nat
    BY <2>1, FacilitiesPlaced, DegreesAndMetres DEF Wider
  <2>3. Distance(f.geom, q.incident) <= q.buffer
    BY <2>1, <2>2 DEF Wider
  <2>4. QED
    BY <2>1, <2>3 DEF Wanted, Wider
<1>3. QED
  BY <1>1, <1>2

-----------------------------------------------------------------------------
(* Rows that each have a cheaper counterpart: the i-th is no cheaper than  *)
(* the i-th of the counterparts and whatever else there is.                *)
Cheaper(g, S, T) ==
  /\ g \in Injection(S, T)
  /\ \A r \in S : r.total_cost \in Nat /\ g[r].total_cost <= r.total_cost
  /\ \A r \in T : r.total_cost \in Nat

LEMMA OneIsLeftOver ==
  ASSUME NEW T, NEW i \in Nat \ {0}, NEW h \in Injection(1..i, T), NEW u
  PROVE  \E m \in 1..i : h[m] \notin {u[j] : j \in 1..(i - 1)}
<1>1. PICK A, B, U : A = 1..i /\ B = 1..(i - 1) /\ U = {u[j] : j \in 1..(i - 1)}
  OBVIOUS
<1>2. SUFFICES ASSUME \A m \in A : h[m] \in U PROVE FALSE
  BY <1>1
<1>3. IsFiniteSet(A) /\ Cardinality(A) = i
  <2>1. i \in Int /\ 1 \in Int /\ ~(1 > i) /\ i - 1 + 1 = i
    OBVIOUS
  <2>2. QED
    BY <1>1, <2>1, FS_Interval
<1>4. IsFiniteSet(B) /\ Cardinality(B) = i - 1
  <2>1. i - 1 \in Int /\ 1 \in Int /\ (1 > i - 1 => i - 1 = 0) /\ (i - 1) - 1 + 1 = i - 1
    OBVIOUS
  <2>2. QED
    BY <1>1, <2>1, FS_Interval
<1>5. IsFiniteSet(U) /\ Cardinality(U) <= i - 1
  <2>1. PICK f : f = [j \in B |-> u[j]]
    OBVIOUS
  <2>2. f \in Surjection(B, U)
    BY <1>1, <2>1 DEF Surjection
  <2>3. QED
    BY <1>4, <2>2, FS_Surjection
<1>6. Cardinality(U) < Cardinality(A)
  <2>1. Cardinality(U) \in Nat
    BY <1>5, FS_CardinalityType
  <2>2. QED
    BY <1>3, <1>5, <2>1
<1>7. h \in [A -> U]
  BY <1>1, <1>2 DEF Injection
<1>8. \E x, y \in A : x # y /\ h[x] = h[y]
  BY <1>3, <1>5, <1>6, <1>7, FS_PigeonHole
<1>9. QED
  BY <1>1, <1>8 DEF Injection, IsInjective

LEMMA OrderedByCost ==
  ASSUME NEW S, NEW n \in Int, NEW t, Ordered(t, S, n), NEW i \in 1..n, NEW m \in 1..i,
         \A r \in S : r.total_cost \in Nat
  PROVE  t[m] \in S /\ t[i] \in S /\ t[m].total_cost <= t[i].total_cost
<1>1. m \in 1..n /\ t[m] \in S /\ t[i] \in S
  BY DEF Ordered
<1>2. CASE m = i
  BY <1>1, <1>2
<1>3. CASE m # i
  <2>1. m \in 1..(i - 1) /\ \A l \in 1..m : l \in 1..(i - 1)
    BY <1>3
  <2>2. t[i] \notin {t[l] : l \in 1..m}
    BY <2>1 DEF Ordered
  <2>3. QED
    BY <1>1, <2>2 DEF Ordered
<1>4. QED
  BY <1>2, <1>3

LEMMA CheaperRows ==
  ASSUME NEW S, NEW T, NEW g, Cheaper(g, S, T), NEW m \in Int, NEW n \in Int, m <= n,
         NEW t, Ordered(t, S, m), NEW u, Ordered(u, T, n), NEW i \in 1..m
  PROVE  i \in 1..n /\ u[i].total_cost <= t[i].total_cost
<1>1. i \in Nat \ {0} /\ i \in 1..n /\ \A j \in 1..i : j \in 1..m /\ j \in 1..n
  OBVIOUS
<1>2. /\ g \in [S -> T] /\ \A x, y \in S : g[x] = g[y] => x = y
      /\ t \in [1..m -> S] /\ u \in [1..n -> T]
  BY DEF Cheaper, Injection, IsInjective, Ordered
<1>3. PICK h : h = [j \in 1..i |-> g[t[j]]]
  OBVIOUS
<1>4. h \in Injection(1..i, T)
  <2>1. h \in [1..i -> T]
    BY <1>1, <1>2, <1>3
  <2>2. ASSUME NEW a \in 1..i, NEW b \in 1..i, a < b PROVE h[a] # h[b]
    <3>1. a \in 1..(b - 1) /\ a \in 1..m /\ b \in 1..m
      BY <1>1, <2>2
    <3>2. t[a] # t[b]
      BY <3>1 DEF Ordered
    <3>3. QED
      BY <1>2, <1>3, <3>1, <3>2
  <2>3. ASSUME NEW a \in 1..i, NEW b \in 1..i, h[a] = h[b] PROVE a = b
    <3>1. a < b \/ b < a \/ a = b
      OBVIOUS
    <3>2. QED
      BY <2>2, <2>3, <3>1
  <2>4. QED
    BY <2>1, <2>3 DEF Injection, IsInjective
<1>5. PICK j \in 1..i : h[j] \notin {u[l] : l \in 1..(i - 1)}
  <2>1. i \in Nat \ {0}
    BY <1>1
  <2>2. \E j \in 1..i : h[j] \notin {u[l] : l \in 1..(i - 1)}
    BY <1>4, <2>1, OneIsLeftOver
  <2>3. QED
    BY <2>2
<1>6. PICK r : r = h[j]
  OBVIOUS
<1>7. r \in T /\ r = g[t[j]] /\ t[j] \in S
  BY <1>1, <1>2, <1>3, <1>6
<1>8. u[i].total_cost <= r.total_cost
  <2>1. CASE r = u[i]
    BY <1>2, <2>1, <1>1, <1>7 DEF Cheaper
  <2>2. CASE r # u[i]
    <3>1. r \notin {u[l] : l \in 1..i}
      <4>1. \A l \in 1..i : l \in 1..(i - 1) \/ l = i
        BY <1>1
      <4>2. QED
        BY <1>5, <1>6, <2>2, <4>1
    <3>2. QED
      BY <1>1, <1>7, <3>1 DEF Ordered
  <2>3. QED
    BY <2>1, <2>2
<1>9. r.total_cost <= t[j].total_cost
  BY <1>7 DEF Cheaper
<1>10. t[j].total_cost <= t[i].total_cost
  BY OrderedByCost DEF Cheaper
<1>11. /\ u[i].total_cost \in Nat /\ r.total_cost \in Nat
       /\ t[j].total_cost \in Nat /\ t[i].total_cost \in Nat
  <2>1. u[i] \in T /\ t[i] \in S
    BY <1>1, <1>2
  <2>2. QED
    BY <1>7, <2>1 DEF Cheaper
<1>12. QED
  BY <1>1, <1>8, <1>9, <1>10, <1>11

LEMMA CheaperRanked ==
  ASSUME NEW S, NEW T, IsFiniteSet(T), NEW g, Cheaper(g, S, T), NEW k \in Nat,
         NEW a \in Ranked(S, k), NEW b \in Ranked(T, k)
  PROVE  \A i \in DOMAIN a.rows :
           i \in DOMAIN b.rows /\ b.rows[i].total_cost <= a.rows[i].total_cost
<1>1. PICK m, n : m = Min({k, Cardinality(S)}) /\ n = Min({k, Cardinality(T)})
  OBVIOUS
<1>2. m \in Int /\ n \in Int /\ m <= n
  <2>1. /\ IsFiniteSet(S) /\ Cardinality(S) <= Cardinality(T)
    BY FS_Injection DEF Cheaper
  <2>2. PICK x, y \in Nat : x = Cardinality(S) /\ y = Cardinality(T) /\ x <= y
    BY <2>1, FS_CardinalityType
  <2>3. m \in {k, x} /\ m <= k /\ m <= x
    BY <1>1, <2>2 DEF Min
  <2>4. n \in {k, y} /\ n <= k /\ n <= y
    BY <1>1, <2>2 DEF Min
  <2>5. QED
    BY <2>2, <2>3, <2>4
<1>3. PICK t : a = Rows(t) /\ Ordered(t, S, m)
  BY <1>1, RankedIsOrdered
<1>4. PICK u : b = Rows(u) /\ Ordered(u, T, n)
  BY <1>1, RankedIsOrdered
<1>5. a.rows = t /\ b.rows = u /\ DOMAIN t = 1..m /\ DOMAIN u = 1..n
  BY <1>3, <1>4 DEF Rows, Ordered
<1>6. QED
  <2>1. \A i \in 1..m : i \in 1..n /\ u[i].total_cost <= t[i].total_cost
    BY <1>2, <1>3, <1>4, CheaperRows
  <2>2. QED
    BY <1>5, <2>1

-----------------------------------------------------------------------------
(* The row of a facility in an answer of v8.                               *)
RowOf(f, paths) == Widened(Route(f, paths[f.vertex]), f)

LEMMA RowsOfFacilities ==
  ASSUME Attached, NEW paths
  PROVE  \A r : r \in WithAttributes(RoutesByVertex(paths)) <=>
           \E f \in facilities : f.vertex \in DOMAIN paths /\ r = RowOf(f, paths)
<1>1. \A f, path : Route(f, path).facility = f.id
  BY DEF Route
<1>2. \A s : s \in RoutesByVertex(paths) <=>
        \E f \in facilities : f.vertex \in DOMAIN paths /\ s = Route(f, paths[f.vertex])
  BY DEF RoutesByVertex, OnVertex
<1>3. ASSUME NEW r \in WithAttributes(RoutesByVertex(paths))
      PROVE  \E f \in facilities : f.vertex \in DOMAIN paths /\ r = RowOf(f, paths)
  <2>1. PICK f \in facilities, s \in RoutesByVertex(paths) : s.facility = f.id /\ r = Widened(s, f)
    BY AttributesAdded
  <2>2. PICK g \in facilities : g.vertex \in DOMAIN paths /\ s = Route(g, paths[g.vertex])
    BY <1>2
  <2>3. g = f
    BY <1>1, <2>1, <2>2 DEF Attached
  <2>4. QED
    BY <2>1, <2>2, <2>3 DEF RowOf
<1>4. ASSUME NEW f \in facilities, f.vertex \in DOMAIN paths
      PROVE  RowOf(f, paths) \in WithAttributes(RoutesByVertex(paths))
  <2>1. PICK s : s = Route(f, paths[f.vertex])
    OBVIOUS
  <2>2. s \in RoutesByVertex(paths) /\ s.facility = f.id
    BY <1>1, <1>2, <1>4, <2>1
  <2>3. QED
    BY <2>1, <2>2, AttributesAdded DEF RowOf
<1>5. QED
  BY <1>3, <1>4

LEMMA RowCosts ==
  ASSUME NEW f, NEW paths
  PROVE  /\ RowOf(f, paths).facility = f.id
         /\ RowOf(f, paths).total_cost = Total(PathCosts(paths[f.vertex]))
  BY DEF RowOf, Widened, Route, SumOver, PathCosts

(* Paths to the same places and more, none dearer: rows for the same       *)
(* facilities and more, none dearer.                                       *)
PricedFor(paths, c) ==
  \A v \in DOMAIN paths : /\ v \in DOMAIN c /\ c[v] \in Nat
                          /\ Total(PathCosts(paths[v])) = c[v]

LEMMA NoRowDearer ==
  ASSUME Attached, NEW paths, NEW c, PricedFor(paths, c), NEW more, NEW d, PricedFor(more, d),
         DOMAIN paths \subseteq DOMAIN more, NoDearer(d, c), NEW S, NEW T,
         S = WithAttributes(RoutesByVertex(paths)), T = WithAttributes(RoutesByVertex(more))
  PROVE  IsFiniteSet(T) /\ \E g : Cheaper(g, S, T)
<1>1. ASSUME NEW r, r \in S \/ r \in T
      PROVE  r.total_cost \in Nat /\ \E f \in facilities : f.id = r.facility
  <2>1. CASE r \in S
    BY <2>1, RowsOfFacilities, RowCosts DEF PricedFor
  <2>2. CASE r \in T
    BY <2>2, RowsOfFacilities, RowCosts DEF PricedFor
  <2>3. QED
    BY <1>1, <2>1, <2>2
<1>2. ASSUME NEW r \in T, NEW s \in T, s.facility = r.facility PROVE s = r
  <2>1. PICK f \in facilities : r = RowOf(f, more)
    BY RowsOfFacilities
  <2>2. PICK e \in facilities : s = RowOf(e, more)
    BY RowsOfFacilities
  <2>3. e = f
    BY <1>2, <2>1, <2>2, RowCosts DEF Attached
  <2>4. QED
    BY <2>1, <2>2, <2>3
<1>3. IsFiniteSet(T)
  BY <1>1, <1>2, OneRowEach
<1>4. PICK g : g = [r \in S |-> RowOf(CHOOSE f \in facilities : f.id = r.facility, more)]
  OBVIOUS
<1>5. ASSUME NEW r \in S
      PROVE  \E f \in facilities : /\ f.vertex \in DOMAIN paths
                                   /\ r = RowOf(f, paths) /\ g[r] = RowOf(f, more)
  <2>1. PICK f \in facilities : f.vertex \in DOMAIN paths /\ r = RowOf(f, paths)
    BY RowsOfFacilities
  <2>2. r.facility = f.id
    BY <2>1, RowCosts
  <2>3. PICK e : e = CHOOSE x \in facilities : x.id = r.facility
    OBVIOUS
  <2>4. e \in facilities /\ e.id = r.facility
    BY <2>2, <2>3
  <2>5. e = f
    BY <2>2, <2>4 DEF Attached
  <2>6. QED
    BY <1>4, <2>1, <2>3, <2>5
<1>6. ASSUME NEW r \in S PROVE g[r] \in T /\ g[r].total_cost <= r.total_cost
  <2>1. PICK f \in facilities : /\ f.vertex \in DOMAIN paths
                                /\ r = RowOf(f, paths) /\ g[r] = RowOf(f, more)
    BY <1>5
  <2>2. PICK v : v = f.vertex
    OBVIOUS
  <2>3. v \in DOMAIN c /\ v \in DOMAIN more /\ d[v] <= c[v]
    BY <2>1, <2>2 DEF PricedFor, NoDearer
  <2>4. g[r].total_cost = d[v] /\ r.total_cost = c[v]
    BY <2>1, <2>2, <2>3, RowCosts DEF PricedFor
  <2>5. g[r] \in T
    BY <2>1, <2>2, <2>3, RowsOfFacilities
  <2>6. QED
    BY <2>3, <2>4, <2>5
<1>7. ASSUME NEW r \in S, NEW s \in S, g[r] = g[s] PROVE r = s
  <2>1. PICK f \in facilities : r = RowOf(f, paths) /\ g[r] = RowOf(f, more)
    BY <1>5
  <2>2. PICK e \in facilities : s = RowOf(e, paths) /\ g[s] = RowOf(e, more)
    BY <1>5
  <2>3. e.id = f.id
    BY <1>7, <2>1, <2>2, RowCosts
  <2>4. QED
    BY <2>1, <2>2, <2>3 DEF Attached
<1>8. g \in Injection(S, T)
  <2>1. g \in [S -> T]
    BY <1>4, <1>6
  <2>2. QED
    BY <1>7, <2>1 DEF Injection, IsInjective
<1>9. Cheaper(g, S, T)
  BY <1>1, <1>6, <1>8 DEF Cheaper
<1>10. QED
  BY <1>3, <1>9

(* The search of v8 from one vertex.                                       *)
WideSearchOf(q, v) ==
  Dijkstra(Arcs(EdgesInBox(q), q.cost_mode, TRUE), v, Vertices(WantedInBox(q)))

LEMMA WideRowsAre ==
  ASSUME NEW q, NEW v
  PROVE  WideRows(q, v) =
           IF WantedInBox(q) = {} THEN {Rows(<<>>)}
           ELSE UNION {Ranked(WithAttributes(RoutesByVertex(paths)), q.k) :
                         paths \in WideSearchOf(q, v)}
  BY DEF WideRows, Search, WideSearchOf

LEMMA SearchIsPriced ==
  ASSUME Staged, stage = "facilities", NEW q, NEW v, NEW paths \in WideSearchOf(q, v),
         NEW c, c = Costs(Arcs(EdgesInBox(q), q.cost_mode, TRUE), v)
  PROVE  /\ DOMAIN paths = (Vertices(WantedInBox(q)) \intersect DOMAIN c) \ {v}
         /\ PricedFor(paths, c)
<1>1. PICK arcs : arcs = Arcs(EdgesInBox(q), q.cost_mode, TRUE)
  OBVIOUS
<1>2. IsFiniteSet(EdgesInBox(q)) /\ \A w \in EdgesInBox(q) : IsEdge(w)
  <2>1. EdgesInBox(q) \subseteq ways
    BY DEF EdgesInBox
  <2>2. QED
    BY <2>1, WaysArePriced, FS_Subset
<1>3. IsFiniteSet(arcs) /\ Priceable(arcs)
  BY <1>1, <1>2, ArcsOfEdges
<1>4. PICK ends : /\ ends = Vertices(WantedInBox(q))
                  /\ paths \in Dijkstra(arcs, v, ends) /\ c = Costs(arcs, v)
  BY <1>1 DEF WideSearchOf
<1>5. c \in Known(arcs, v)
  BY <1>3, <1>4, StartIsFree
<1>6. PathsPriced(paths, c, v, ends)
  BY <1>3, <1>4, DijkstraIsPriced
<1>7. QED
  BY <1>4, <1>5, <1>6, KnownIsNatural DEF PricedFor, PathsPriced

RowsNoWorse(wide, narrow) ==
  /\ wide.error = narrow.error
  /\ \A i \in DOMAIN narrow.rows :
       i \in DOMAIN wide.rows /\ wide.rows[i].total_cost <= narrow.rows[i].total_cost

LEMMA NothingIsNoBetter ==
  ASSUME NEW wide, wide.error = "none"
  PROVE  RowsNoWorse(wide, Rows(<<>>))
<1>1. Rows(<<>>).error = "none" /\ Rows(<<>>).rows = <<>>
  BY DEF Rows
<1>2. DOMAIN Rows(<<>>).rows = {}
  BY <1>1
<1>3. QED
  BY <1>1, <1>2 DEF RowsNoWorse

LEMMA WiderSearchNoWorse ==
  ASSUME Staged, stage = "facilities", NEW p \in Questions, NEW q \in Questions, Wider(q, p),
         NEW v, NEW narrow \in WideRows(p, v), NEW wide \in WideRows(q, v)
  PROVE  RowsNoWorse(wide, narrow)
<1>1. WantedInBox(p) \subseteq WantedInBox(q) /\ EdgesInBox(p) \subseteq EdgesInBox(q)
  BY PrefilterDropsNothing, WiderSeesMore
<1>2. wide.error = "none" /\ narrow.error = "none"
  BY SearchedWithoutError DEF WideRows
<1>3. CASE WantedInBox(p) = {}
  <2>1. narrow = Rows(<<>>)
    BY <1>3, WideRowsAre
  <2>2. QED
    BY <1>2, <2>1, NothingIsNoBetter
<1>4. CASE WantedInBox(p) # {}
  <2>1. PICK few \in WideSearchOf(p, v) :
          narrow \in Ranked(WithAttributes(RoutesByVertex(few)), p.k)
    BY <1>4, WideRowsAre
  <2>2. PICK more \in WideSearchOf(q, v) :
          wide \in Ranked(WithAttributes(RoutesByVertex(more)), q.k)
    BY <1>1, <1>4, WideRowsAre
  <2>3. PICK A, B : /\ A = Arcs(EdgesInBox(p), p.cost_mode, TRUE)
                    /\ B = Arcs(EdgesInBox(q), q.cost_mode, TRUE)
    OBVIOUS
  <2>4. A \subseteq B
    BY <1>1, <2>3, MoreEdgesMoreArcs DEF Wider
  <2>5. IsFiniteSet(B) /\ Priceable(B)
    <3>1. EdgesInBox(q) \subseteq ways
      BY DEF EdgesInBox
    <3>2. IsFiniteSet(EdgesInBox(q)) /\ \A w \in EdgesInBox(q) : IsEdge(w)
      BY <3>1, WaysArePriced, FS_Subset
    <3>3. QED
      BY <2>3, <3>2, ArcsOfEdges
  <2>6. PICK c, d : /\ c = Costs(A, v) /\ d = Costs(B, v)
                    /\ c = Costs(Arcs(EdgesInBox(p), p.cost_mode, TRUE), v)
                    /\ d = Costs(Arcs(EdgesInBox(q), q.cost_mode, TRUE), v)
    BY <2>3
  <2>7. NoDearer(d, c)
    BY <2>4, <2>5, <2>6, MoreArcsNoDearer
  <2>8. /\ DOMAIN few = (Vertices(WantedInBox(p)) \intersect DOMAIN c) \ {v}
        /\ PricedFor(few, c)
    BY <2>6, SearchIsPriced
  <2>9. /\ DOMAIN more = (Vertices(WantedInBox(q)) \intersect DOMAIN d) \ {v}
        /\ PricedFor(more, d)
    BY <2>6, SearchIsPriced
  <2>10. DOMAIN few \subseteq DOMAIN more
    <3>1. Vertices(WantedInBox(p)) \subseteq Vertices(WantedInBox(q))
      BY <1>1 DEF Vertices
    <3>2. QED
      BY <2>7, <2>8, <2>9, <3>1 DEF NoDearer
  <2>11. PICK S, T : /\ S = WithAttributes(RoutesByVertex(few))
                     /\ T = WithAttributes(RoutesByVertex(more))
    OBVIOUS
  <2>12. IsFiniteSet(T) /\ \E g : Cheaper(g, S, T)
    BY <2>7, <2>8, <2>9, <2>10, <2>11, FacilitiesAttached, NoRowDearer
  <2>13. PICK g : Cheaper(g, S, T)
    BY <2>12
  <2>14. PICK k \in Nat : k = p.k /\ k = q.k
    BY DEF Wider
  <2>15. narrow \in Ranked(S, k) /\ wide \in Ranked(T, k)
    BY <2>1, <2>2, <2>11, <2>14
  <2>16. \A i \in DOMAIN narrow.rows :
           i \in DOMAIN wide.rows /\ wide.rows[i].total_cost <= narrow.rows[i].total_cost
    BY <2>12, <2>13, <2>15, CheaperRanked
  <2>17. QED
    BY <1>2, <2>16 DEF RowsNoWorse
<1>5. QED
  BY <1>3, <1>4

(* One nearest vertex: one place to search from.                           *)
LEMMA OneNearest ==
  ASSUME Staged, stage = "facilities", NEW p, Cardinality(Nearest(vertices, p)) <= 1,
         NEW u \in Nearest(vertices, p), NEW v \in Nearest(vertices, p)
  PROVE  u = v
<1>1. PICK N : N = Nearest(vertices, p)
  OBVIOUS
<1>2. IsFiniteSet(vertices)
  BY ExtractsAssumption, NetworkFinite DEF Staged
<1>3. N \subseteq vertices
  BY <1>1 DEF Nearest
<1>4. IsFiniteSet(N)
  BY <1>2, <1>3, FS_Subset
<1>5. Cardinality(N) = 1
  <2>1. Cardinality(N) \in Nat /\ Cardinality(N) <= 1 /\ N # {}
    BY <1>1, <1>4, FS_CardinalityType
  <2>2. Cardinality(N) # 0
    BY <1>4, <2>1, FS_EmptySet
  <2>3. QED
    BY <2>1, <2>2
<1>6. QED
  BY <1>1, <1>4, <1>5, FS_Singleton

LEMMA AnswersOfV8 ==
  ASSUME NEW q
  PROVE  ClosestFacilityV8(q) =
           IF q.cost_mode \notin {"distance", "time"} THEN {Error("invalid_cost_mode")}
           ELSE IF vertices = {} THEN {Error("incident_off_graph")}
           ELSE UNION {IF Distance(v, q.incident) > MaxSnap THEN {Error("incident_off_graph")}
                       ELSE WideRows(q, v) : v \in Nearest(vertices, q.incident)}
  BY DEF ClosestFacilityV8, Guarded, WideRows

LEMMA WiderNoWorse ==
  ASSUME Staged, stage = "facilities", NEW p \in Questions, NEW q \in Questions, Wider(q, p),
         Cardinality(Nearest(vertices, p.incident)) <= 1,
         NEW narrow \in ClosestFacilityV8(p), NEW wide \in ClosestFacilityV8(q)
  PROVE  RowsNoWorse(wide, narrow)
<1>1. ASSUME NEW code PROVE RowsNoWorse(Error(code), Error(code))
  <2>1. Error(code).rows = <<>> /\ DOMAIN Error(code).rows = {}
    BY DEF Error
  <2>2. QED
    BY <2>1 DEF RowsNoWorse
<1>2. p.cost_mode = q.cost_mode /\ p.incident = q.incident
  BY DEF Wider
<1>3. CASE p.cost_mode \notin {"distance", "time"}
  BY <1>1, <1>2, <1>3, AnswersOfV8
<1>4. CASE p.cost_mode \in {"distance", "time"} /\ vertices = {}
  BY <1>1, <1>2, <1>4, AnswersOfV8
<1>5. CASE p.cost_mode \in {"distance", "time"} /\ vertices # {}
  <2>1. PICK u \in Nearest(vertices, p.incident) :
          narrow \in IF Distance(u, p.incident) > MaxSnap THEN {Error("incident_off_graph")}
                     ELSE WideRows(p, u)
    BY <1>5, AnswersOfV8
  <2>2. PICK v \in Nearest(vertices, p.incident) :
          wide \in IF Distance(v, p.incident) > MaxSnap THEN {Error("incident_off_graph")}
                   ELSE WideRows(q, v)
    BY <1>2, <1>5, AnswersOfV8
  <2>3. u = v
    BY OneNearest
  <2>4. CASE Distance(u, p.incident) > MaxSnap
    BY <1>1, <2>1, <2>2, <2>3, <2>4
  <2>5. CASE ~(Distance(u, p.incident) > MaxSnap)
    BY <2>1, <2>2, <2>3, <2>5, WiderSearchNoWorse
  <2>6. QED
    BY <2>4, <2>5
<1>6. QED
  BY <1>3, <1>4, <1>5

LEMMA WiderIsWider ==
  ASSUME NEW p \in Questions, NEW q \in Questions,
         q = [p EXCEPT !.buffer = q.buffer], p.buffer < q.buffer
  PROVE  Wider(q, p)
<1>1. PICK b \in Nat : b = q.buffer
  BY QuestionsAssumption
<1>2. q = [p EXCEPT !.buffer = b] /\ DOMAIN p = {"incident", "buffer", "filter", "k", "cost_mode"}
  BY <1>1, QuestionsAssumption
<1>3. q.incident = p.incident /\ q.k = p.k /\ q.cost_mode = p.cost_mode /\ q.filter = p.filter
  BY <1>2
<1>4. p.buffer <= q.buffer
  BY QuestionsAssumption
<1>5. QED
  BY <1>3, <1>4, QuestionsAssumption DEF Wider

LEMMA WiderAnswers == Staged => WiderBufferNeverWorse
<1>1. SUFFICES ASSUME Staged, stage = "facilities", NEW p \in Questions, NEW q \in Questions,
                      q = [p EXCEPT !.buffer = q.buffer], p.buffer < q.buffer,
                      Cardinality(Nearest(vertices, p.incident)) <= 1,
                      NEW narrow \in ClosestFacilityV8(p), NEW wide \in ClosestFacilityV8(q)
               PROVE  /\ wide.error = narrow.error
                      /\ \A i \in DOMAIN narrow.rows :
                           /\ i \in DOMAIN wide.rows
                           /\ wide.rows[i].total_cost <= narrow.rows[i].total_cost
  BY DEF WiderBufferNeverWorse
<1>2. Wider(q, p)
  BY <1>1, WiderIsWider
<1>3. RowsNoWorse(wide, narrow)
  BY <1>1, <1>2, WiderNoWorse
<1>4. QED
  BY <1>3 DEF RowsNoWorse

\* Asking for a wider buffer never loses a row and never makes the i-th one
\* dearer (closest_facility() v8: the buffer decides which edges and which
\* facilities the search sees, and so which paths it finds).
THEOREM WiderIsNoWorse == Spec => []WiderBufferNeverWorse
<1>1. Staged => WiderBufferNeverWorse
  BY WiderAnswers
<1>2. QED
  BY <1>1, StagesInOrder, PTL

-----------------------------------------------------------------------------
(* The rounds end in the cheapest costs: costs that no arc improves, and   *)
(* no function that no arc improves is above them.                         *)
Unimprovable(e, arcs, start) ==
  /\ start \in DOMAIN e /\ e[start] = 0
  /\ \A v \in DOMAIN e : e[v] \in Nat
  /\ \A a \in arcs : a.from \in DOMAIN e =>
       a.to \in DOMAIN e /\ e[a.to] <= e[a.from] + a.cost

LEMMA UnimprovableIsBelow ==
  ASSUME NEW arcs, Priceable(arcs), NEW start, NEW after, Rounds(after, arcs, start),
         NEW e, Unimprovable(e, arcs, start), NEW n \in Nat
  PROVE  NoDearer(e, after[n])
<1> DEFINE S == {i \in Nat : NoDearer(e, after[i])}
<1>1. 0 \in S
  BY DEF Rounds, NoDearer, Unimprovable
<1>2. ASSUME NEW i \in Nat, i \in S PROVE i + 1 \in S
  <2>1. PICK c, d : c = after[i] /\ d = after[i + 1]
    OBVIOUS
  <2>2. /\ c \in Known(arcs, start) /\ d = Relax(arcs, c) /\ NoDearer(e, c)
    BY <1>2, <2>1 DEF Rounds
  <2>3. ASSUME NEW v \in DOMAIN d PROVE v \in DOMAIN e /\ e[v] <= d[v]
    <3>1. CASE v \in DOMAIN c /\ d[v] = c[v]
      BY <2>2, <3>1 DEF NoDearer
    <3>2. CASE \E a \in arcs : a.from \in DOMAIN c /\ a.to = v /\ d[v] = c[a.from] + a.cost
      <4>1. PICK a \in arcs : a.from \in DOMAIN c /\ a.to = v /\ d[v] = c[a.from] + a.cost
        BY <3>2
      <4>2. a.from \in DOMAIN e /\ e[a.from] <= c[a.from]
        BY <2>2, <4>1 DEF NoDearer
      <4>3. v \in DOMAIN e /\ e[v] <= e[a.from] + a.cost
        BY <4>1, <4>2 DEF Unimprovable
      <4>4. e[v] \in Nat /\ e[a.from] \in Nat /\ a.cost \in Nat
        BY <4>1, <4>2, <4>3 DEF Unimprovable, Priceable
      <4>5. c[a.from] \in Nat
        BY <2>2, <4>1, KnownIsNatural
      <4>6. QED
        BY <4>1, <4>2, <4>3, <4>4, <4>5
    <3>3. QED
      BY <2>2, <3>1, <3>2, RelaxedCosts
  <2>4. NoDearer(e, d)
    BY <2>3 DEF NoDearer
  <2>5. QED
    BY <2>1, <2>4
<1>3. \A i \in Nat : i \in S
  <2> HIDE DEF S
  <2>1. QED
    BY <1>1, <1>2, SetInduction
<1>4. QED
  BY <1>3

(* The cost of a place is final at a round if no round has a lower one.    *)
Final(after, v, n) ==
  /\ v \in DOMAIN after[n]
  /\ \A k \in Nat : v \in DOMAIN after[k] => after[n][v] <= after[k][v]

FirstFinal(after, v, n) == Final(after, v, n) /\ \A k \in Nat : k < n => ~Final(after, v, k)

LEMMA EachIsFinal ==
  ASSUME NEW arcs, NEW start, NEW after, Rounds(after, arcs, start),
         NEW m \in Nat, NEW v \in DOMAIN after[m]
  PROVE  \E n \in Nat : FirstFinal(after, v, n)
<1>1. \A k \in Nat : v \in DOMAIN after[k] => after[k][v] \in Nat
  BY KnownIsNatural DEF Rounds
<1>2. PICK K : K = {k \in Nat : v \in DOMAIN after[k]}
  OBVIOUS
<1>3. PICK V : V = {after[k][v] : k \in K}
  OBVIOUS
<1>4. V \in SUBSET Nat /\ V # {}
  BY <1>1, <1>2, <1>3
<1>5. PICK x \in V : \A y \in V : x <= y
  BY <1>4, LeastNumber
<1>6. PICK j \in K : x = after[j][v]
  BY <1>3, <1>5
<1>7. j \in Nat /\ Final(after, v, j)
  BY <1>2, <1>3, <1>5, <1>6 DEF Final
<1>8. PICK F : F = {k \in Nat : Final(after, v, k)}
  OBVIOUS
<1>9. F \in SUBSET Nat /\ F # {}
  BY <1>7, <1>8
<1>10. PICK n \in F : \A k \in F : n <= k
  BY <1>9, LeastNumber
<1>11. n \in Nat /\ Final(after, v, n)
  BY <1>8, <1>10
<1>12. ASSUME NEW k \in Nat, k < n PROVE ~Final(after, v, k)
  BY <1>8, <1>10, <1>11, <1>12
<1>13. QED
  BY <1>11, <1>12 DEF FirstFinal

LEMMA FinalStays ==
  ASSUME NEW arcs, Priceable(arcs), NEW start, NEW after, Rounds(after, arcs, start),
         NEW n \in Nat, NEW m \in Nat, n <= m, NEW v, Final(after, v, n)
  PROVE  Final(after, v, m) /\ after[m][v] = after[n][v]
<1>1. NoDearer(after[m], after[n])
  <2>1. arcs \subseteq arcs
    OBVIOUS
  <2>2. QED
    BY <2>1, RoundsAreMonotone
<1>2. v \in DOMAIN after[n] /\ v \in DOMAIN after[m] /\ after[m][v] <= after[n][v]
  BY <1>1 DEF Final, NoDearer
<1>3. after[n][v] <= after[m][v]
  BY <1>2 DEF Final
<1>4. after[n][v] \in Nat /\ after[m][v] \in Nat
  BY <1>2, KnownIsNatural DEF Rounds
<1>5. after[n][v] = after[m][v]
  BY <1>2, <1>3, <1>4
<1>6. QED
  BY <1>2, <1>5 DEF Final

(* A place becomes final one round after another one.                      *)
LEMMA FinalOneByOne ==
  ASSUME NEW arcs, Priceable(arcs), NEW start, NEW after, Rounds(after, arcs, start),
         NEW m \in Nat, NEW v, FirstFinal(after, v, m + 1)
  PROVE  \E a \in arcs : a.to = v /\ FirstFinal(after, a.from, m)
<1>1. m + 1 \in Nat /\ m < m + 1 /\ m <= m + 1
  OBVIOUS
<1>2. PICK c, d : c = after[m] /\ d = after[m + 1]
  OBVIOUS
<1>3. /\ c \in Known(arcs, start) /\ d \in Known(arcs, start) /\ d = Relax(arcs, c)
      /\ v \in DOMAIN d
  BY <1>1, <1>2 DEF Rounds, FirstFinal, Final
<1>4. \A k \in Nat : v \in DOMAIN after[k] => d[v] <= after[k][v]
  BY <1>1, <1>2 DEF FirstFinal, Final
<1>5. \A k \in Nat : k <= m => ~Final(after, v, k)
  BY <1>1 DEF FirstFinal
<1>6. ~(v \in DOMAIN c /\ d[v] = c[v])
  <2>1. SUFFICES ASSUME v \in DOMAIN c, d[v] = c[v] PROVE Final(after, v, m)
    BY <1>5
  <2>2. QED
    BY <1>2, <1>4, <2>1 DEF Final
<1>7. PICK a \in arcs : a.from \in DOMAIN c /\ a.to = v /\ d[v] = c[a.from] + a.cost
  BY <1>3, <1>6, RelaxedCosts
<1>8. PICK u : u = a.from
  OBVIOUS
<1>9. a.cost \in Nat /\ c[u] \in Nat /\ d[v] \in Nat
  BY <1>3, <1>7, <1>8, KnownIsNatural DEF Priceable
(* What is known of u at a round bounds the cost of v one round later.     *)
<1>10. ASSUME NEW k \in Nat, u \in DOMAIN after[k]
       PROVE  /\ k + 1 \in Nat /\ v \in DOMAIN after[k + 1]
              /\ after[k][u] \in Nat /\ after[k + 1][v] \in Nat
              /\ after[k + 1][v] <= after[k][u] + a.cost
              /\ d[v] <= after[k + 1][v]
  <2>1. PICK x, y : x = after[k] /\ y = after[k + 1]
    OBVIOUS
  <2>2. x \in Known(arcs, start) /\ y \in Known(arcs, start) /\ y = Relax(arcs, x)
    BY <2>1 DEF Rounds
  <2>3. v \in DOMAIN y /\ y[v] <= x[u] + a.cost
    BY <1>7, <1>8, <1>10, <2>1, <2>2, RelaxedCosts
  <2>4. x[u] \in Nat /\ y[v] \in Nat
    BY <1>10, <2>1, <2>2, <2>3, KnownIsNatural
  <2>5. QED
    BY <1>4, <2>1, <2>3, <2>4
<1>11. Final(after, u, m)
  <2>1. ASSUME NEW k \in Nat, u \in DOMAIN after[k] PROVE c[u] <= after[k][u]
    BY <1>7, <1>8, <1>9, <1>10, <2>1
  <2>2. QED
    BY <1>2, <1>7, <1>8, <2>1 DEF Final
<1>12. ASSUME NEW k \in Nat, k < m PROVE ~Final(after, u, k)
  <2>1. SUFFICES ASSUME Final(after, u, k) PROVE FALSE
    OBVIOUS
  <2>2. u \in DOMAIN after[k] /\ after[k][u] = c[u]
    BY <1>2, <1>12, <2>1, FinalStays DEF Final
  <2>3. v \in DOMAIN after[k + 1] /\ after[k + 1][v] = d[v]
    BY <1>7, <1>8, <1>9, <1>10, <2>2
  <2>4. Final(after, v, k + 1)
    BY <1>4, <2>3 DEF Final
  <2>5. k + 1 \in Nat /\ k + 1 <= m
    BY <1>12
  <2>6. QED
    BY <1>5, <2>4, <2>5
<1>13. QED
  BY <1>7, <1>8, <1>11, <1>12 DEF FirstFinal

LEMMA FinalInTime ==
  ASSUME NEW arcs, IsFiniteSet(arcs), Priceable(arcs), NEW start,
         NEW after, Rounds(after, arcs, start),
         NEW m \in Nat, NEW v, FirstFinal(after, v, m),
         NEW T, T = {a.to : a \in arcs}
  PROVE  Cardinality(T) \in Nat /\ m <= Cardinality(T)
<1>1. IsFiniteSet(T) /\ Cardinality(T) \in Nat
  <2>1. PICK g : g = [a \in arcs |-> a.to]
    OBVIOUS
  <2>2. DOMAIN g = arcs /\ T = {g[a] : a \in arcs}
    BY <2>1
  <2>3. IsFiniteSet(T)
    BY <2>2, FiniteImage
  <2>4. QED
    BY <2>3, FS_CardinalityType
<1> DEFINE S == {j \in Nat : j <= m => \E u : FirstFinal(after, u, m - j)}
<1>2. 0 \in S
  <2>1. m - 0 = m
    OBVIOUS
  <2>2. QED
    BY <2>1
<1>3. ASSUME NEW j \in Nat, j \in S PROVE j + 1 \in S
  <2>1. SUFFICES ASSUME j + 1 <= m PROVE \E u : FirstFinal(after, u, m - (j + 1))
    OBVIOUS
  <2>2. PICK u : FirstFinal(after, u, m - j)
    BY <1>3, <2>1
  <2>3. PICK i \in Nat : i = m - (j + 1) /\ i + 1 = m - j
    BY <2>1
  <2>4. QED
    BY <2>2, <2>3, FinalOneByOne
<1>4. \A j \in Nat : j <= m => \E u : FirstFinal(after, u, m - j)
  <2>1. \A j \in Nat : j \in S
    <3> HIDE DEF S
    <3>1. QED
      BY <1>2, <1>3, SetInduction
  <2>2. QED
    BY <2>1
<1>5. \A k \in 1..m : \E u \in T : FirstFinal(after, u, k)
  <2> TAKE k \in 1..m
  <2>1. m - k \in Nat /\ m - k <= m /\ m - (m - k) = k
    OBVIOUS
  <2>2. PICK u : FirstFinal(after, u, k)
    BY <1>4, <2>1
  <2>3. PICK i \in Nat : k = i + 1
    <3>1. k - 1 \in Nat /\ k = (k - 1) + 1
      OBVIOUS
    <3>2. QED
      BY <3>1
  <2>4. u \in T
    BY <2>2, <2>3, FinalOneByOne
  <2>5. QED
    BY <2>2, <2>4
<1>6. PICK h : h = [k \in 1..m |-> CHOOSE u \in T : FirstFinal(after, u, k)]
  OBVIOUS
<1>7. \A k \in 1..m : h[k] \in T /\ FirstFinal(after, h[k], k)
  BY <1>5, <1>6
<1>8. ASSUME NEW j \in 1..m, NEW k \in 1..m, h[j] = h[k] PROVE j = k
  <2>1. j \in Nat /\ k \in Nat /\ ~(j < k) /\ ~(k < j)
    BY <1>7, <1>8 DEF FirstFinal
  <2>2. QED
    BY <2>1
<1>9. h \in Injection(1..m, T)
  <2>1. h \in [1..m -> T]
    BY <1>6, <1>7
  <2>2. QED
    BY <1>8, <2>1 DEF Injection, IsInjective
<1>10. Cardinality(1..m) <= Cardinality(T)
  BY <1>1, <1>9, FS_Injection
<1>11. Cardinality(1..m) = m
  <2>1. m \in Int /\ 1 \in Int /\ (1 > m => m = 0) /\ m - 1 + 1 = m
    OBVIOUS
  <2>2. QED
    BY <2>1, FS_Interval
<1>12. QED
  BY <1>1, <1>10, <1>11

\* What the model takes for pgr_dijkstra's costs are the cheapest ones: no arc
\* improves them, and no costs that no arc improves exceed them.
THEOREM CostsAreCheapest ==
  ASSUME NEW arcs, IsFiniteSet(arcs), Priceable(arcs), NEW start,
         NEW c, c = Costs(arcs, start)
  PROVE  /\ Unimprovable(c, arcs, start)
         /\ \A e : Unimprovable(e, arcs, start) => NoDearer(e, c)
<1>1. PICK T : T = {a.to : a \in arcs}
  OBVIOUS
<1>2. PICK after : Rounds(after, arcs, start) /\ c = after[Cardinality(T)]
  BY <1>1, CostsAfterRounds
<1>3. PICK n : n = Cardinality(T)
  OBVIOUS
<1>4. n \in Nat
  <2>1. PICK g : g = [a \in arcs |-> a.to]
    OBVIOUS
  <2>2. DOMAIN g = arcs /\ T = {g[a] : a \in arcs}
    BY <1>1, <2>1
  <2>3. QED
    BY <1>3, <2>2, FiniteImage, FS_CardinalityType
<1>5. c \in Known(arcs, start) /\ start \in DOMAIN c /\ c[start] = 0
  BY StartIsFree
<1>6. ASSUME NEW a \in arcs, a.from \in DOMAIN c
      PROVE  a.to \in DOMAIN c /\ c[a.to] <= c[a.from] + a.cost
  <2>1. PICK d : d = after[n + 1]
    OBVIOUS
  <2>2. n + 1 \in Nat /\ d = Relax(arcs, c)
    BY <1>2, <1>3, <1>4, <2>1 DEF Rounds
  <2>3. a.to \in DOMAIN d /\ d[a.to] <= c[a.from] + a.cost
    BY <1>5, <1>6, <2>2, RelaxedCosts
  <2>4. PICK m \in Nat : FirstFinal(after, a.to, m)
    BY <1>2, <2>1, <2>2, <2>3, EachIsFinal
  <2>5. m <= n
    BY <1>1, <1>2, <1>3, <2>4, FinalInTime
  <2>6. Final(after, a.to, n)
    BY <1>2, <1>4, <2>4, <2>5, FinalStays DEF FirstFinal
  <2>7. a.to \in DOMAIN c /\ c[a.to] <= d[a.to]
    BY <1>2, <1>3, <2>1, <2>2, <2>3, <2>6 DEF Final
  <2>8. d \in Known(arcs, start)
    BY <1>5, <2>2, RelaxingHelps
  <2>9. c[a.to] \in Nat /\ d[a.to] \in Nat /\ c[a.from] \in Nat /\ a.cost \in Nat
    BY <1>5, <1>6, <2>3, <2>7, <2>8, KnownIsNatural DEF Priceable
  <2>10. QED
    BY <2>3, <2>7, <2>9
<1>7. Unimprovable(c, arcs, start)
  BY <1>5, <1>6, KnownIsNatural DEF Unimprovable
<1>8. ASSUME NEW e, Unimprovable(e, arcs, start) PROVE NoDearer(e, c)
  BY <1>2, <1>3, <1>4, <1>8, UnimprovableIsBelow
<1>9. QED
  BY <1>7, <1>8

-----------------------------------------------------------------------------
(* What a metre of a road costs.                                           *)
Rate(way, mode) == IF mode = "distance" THEN 1 ELSE TimeUnits \div RoadSpeed(way)

(* Division that leaves nothing over.                                      *)
LEMMA WholeQuotient ==
  ASSUME NEW t \in Nat, NEW s \in Nat \ {0}, t % s = 0, NEW d \in Nat
  PROVE  t \div s \in Nat /\ (d * t) \div s = d * (t \div s)
<1>1. PICK q \in Nat : q = t \div s /\ t = s * q
  OBVIOUS
<1>2. PICK n \in Nat : n = d * q
  OBVIOUS
<1>3. d * t = n * s
  BY <1>1, <1>2
<1>4. (n * s) \div s = n
  OBVIOUS
<1>5. QED
  BY <1>1, <1>2, <1>3, <1>4

LEMMA RoadSpeedIsPositive ==
  ASSUME NEW x, IsExtract(x), NEW way \in WaysImport(x)
  PROVE  RoadSpeed(way) \in Nat \ {0}
<1>1. way.highway \in DOMAIN TagIdByHighway
  BY DEF WaysImport, Routable
<1>2. TagIdByHighway[way.highway] \in 101..114
  BY <1>1 DEF TagIdByHighway
<1>3. \A t \in 101..114 : DefaultSpeed[t] \in Nat \ {0}
  BY DEF DefaultSpeed
<1>4. ParseMaxspeed(way.maxspeed) = Null \/ ParseMaxspeed(way.maxspeed) \in Nat \ {0}
  <2>1. PICK m : m = way.maxspeed
    OBVIOUS
  <2>2. m \in {<<>>} \union (Int \X BOOLEAN)
    BY <2>1 DEF WaysImport, IsExtract
  <2>3. CASE m = <<>>
    BY <2>1, <2>3 DEF ParseMaxspeed
  <2>4. CASE m # <<>> /\ m[1] <= 0
    BY <2>1, <2>4 DEF ParseMaxspeed
  <2>5. CASE m # <<>> /\ ~(m[1] <= 0)
    <3>1. PICK n \in Nat \ {0} : n = m[1]
      BY <2>2, <2>5
    <3>2. (n * 1609344 + 500000) \div 1000000 \in Nat \ {0}
      OBVIOUS
    <3>3. QED
      BY <2>1, <2>5, <3>1, <3>2 DEF ParseMaxspeed
  <2>6. QED
    BY <2>3, <2>4, <2>5
<1>5. QED
  BY <1>2, <1>3, <1>4 DEF RoadSpeed

LEMMA EdgeSpeedIsRoadSpeed ==
  ASSUME NEW x, IsExtract(x), NEW way \in WaysImport(x), NEW from, NEW to
  PROVE  Speed(EdgeOf(x, way, from, to)) = RoadSpeed(way)
<1>1. PICK s \in Nat \ {0} : s = RoadSpeed(way)
  BY RoadSpeedIsPositive
<1>2. PICK edge : edge = EdgeOf(x, way, from, to)
  OBVIOUS
<1>3. /\ edge.tag_id = TagIdByHighway[way.highway]
      /\ edge.maxspeed = ParseMaxspeed(way.maxspeed)
  BY <1>2 DEF EdgeOf
<1>4. s = IF edge.maxspeed \in {Null, 0} THEN DefaultSpeed[edge.tag_id] ELSE edge.maxspeed
  BY <1>1, <1>3 DEF RoadSpeed
<1>5. Max({1, s}) = s
  BY DEF Max
<1>6. QED
  BY <1>1, <1>2, <1>4, <1>5 DEF Speed

LEMMA RateIsExact ==
  ASSUME NEW x \in Extracts, NEW way \in WaysImport(x), NEW mode, NEW d \in Nat
  PROVE  /\ Rate(way, mode) \in Nat
         /\ mode # "distance" => (d * TimeUnits) \div RoadSpeed(way) = d * Rate(way, mode)
         /\ mode = "distance" => d = d * Rate(way, mode)
<1>1. IsExtract(x)
  BY ExtractsAssumption
<1>2. PICK s \in Nat \ {0} : s = RoadSpeed(way)
  BY <1>1, RoadSpeedIsPositive
<1>3. TimeUnits \in Nat /\ TimeUnits % s = 0
  BY <1>2, TimeUnitsAssumption, TimeUnitsAreFine
<1>4. CASE mode = "distance"
  BY <1>4 DEF Rate
<1>5. CASE mode # "distance"
  <2>1. Rate(way, mode) = TimeUnits \div s
    BY <1>2, <1>5 DEF Rate
  <2>2. PICK t \in Nat : t = TimeUnits /\ t % s = 0
    BY <1>3
  <2>3. t \div s \in Nat /\ (d * t) \div s = d * (t \div s)
    BY <2>2, WholeQuotient
  <2>4. QED
    BY <1>2, <1>5, <2>1, <2>2, <2>3
<1>6. QED
  BY <1>4, <1>5

-----------------------------------------------------------------------------
(* Milestones along the ways: what it costs to get to each node of a way   *)
(* from its first one.                                                     *)
MarksOf(m, way, mode) ==
  \E W : /\ Measures(W, Line(extract, way.nodes))
         /\ \A k \in 1..Len(way.nodes) : W[k] \in Nat
         /\ m = [k \in 1..Len(way.nodes) |-> W[k] * Rate(way, mode)]

Marks(M, mode) == \A way \in WaysImport(extract) : MarksOf(M[way], way, mode)

Gap(M, way, i, j) == Absolute(M[way][i] - M[way][j])

(* From position i of a way a vehicle may get to position j.               *)
Open(way, i, j) ==
  /\ i <= j \/ OnewayDirection(way) # 1
  /\ j <= i \/ OnewayDirection(way) # -1

LEMMA NodesInPlace ==
  ASSUME IsExtract(extract), WellFormed, NEW way \in WaysImport(extract),
         NEW line, line = Line(extract, way.nodes)
  PROVE  /\ Len(way.nodes) \in Nat /\ Len(way.nodes) >= 2 /\ Len(line) = Len(way.nodes)
         /\ DOMAIN way.nodes = 1..Len(way.nodes)
         /\ line \in Seq(Point)
         /\ \A k \in 1..Len(way.nodes) : /\ extract.pos[way.nodes[k]] = line[k]
                                         /\ line[k] \in Point
<1>1. way.nodes \in Seq(ToSet(way.nodes)) /\ Len(line) >= 2
  BY DEF WaysImport, IsExtract
<1>2. Len(way.nodes) \in Nat /\ DOMAIN way.nodes = 1..Len(way.nodes)
  BY <1>1, LenProperties
<1>3. Len(line) = Len(way.nodes)
  BY DEF WellFormed, Aligned
<1>4. line \in Seq(Point)
  BY <1>2, LineIsOfPoints
<1>5. Placed(extract, way.nodes, line, Len(way.nodes))
  BY <1>2, <1>3, LineKept
<1>6. \A k \in 1..Len(line) : line[k] \in Point
  BY <1>4, ElementOfSeq
<1>7. QED
  BY <1>1, <1>2, <1>3, <1>4, <1>5, <1>6 DEF Placed

LEMMA MarksExist ==
  ASSUME extract \in Extracts, WellFormed, NEW mode
  PROVE  \E M : Marks(M, mode)
<1>1. IsExtract(extract)
  BY ExtractsAssumption
<1>2. ASSUME NEW way \in WaysImport(extract) PROVE \E m : MarksOf(m, way, mode)
  <2>1. PICK line : line = Line(extract, way.nodes)
    OBVIOUS
  <2>2. line \in Seq(Point) /\ Len(line) = Len(way.nodes) /\ Len(line) \in Nat \ {0}
    BY <1>1, <2>1, NodesInPlace
  <2>3. PICK W : Measures(W, line) /\ \A k \in 1..Len(line) : W[k] \in Nat
    BY <2>2, MeasuresExist
  <2>4. PICK m : m = [k \in 1..Len(way.nodes) |-> W[k] * Rate(way, mode)]
    OBVIOUS
  <2>5. QED
    BY <2>1, <2>2, <2>3, <2>4 DEF MarksOf
<1>3. PICK M : M = [way \in WaysImport(extract) |-> CHOOSE m : MarksOf(m, way, mode)]
  OBVIOUS
<1>4. \A way \in WaysImport(extract) : MarksOf(M[way], way, mode)
  BY <1>2, <1>3
<1>5. QED
  BY <1>4 DEF Marks

(* A hop costs its metres at the way's rate.                               *)
LEMMA MarksStep ==
  ASSUME extract \in Extracts, WellFormed, NEW mode,
         NEW way \in WaysImport(extract), NEW m, MarksOf(m, way, mode)
  PROVE  /\ m \in [1..Len(way.nodes) -> Nat]
         /\ \A k \in 1..(Len(way.nodes) - 1) :
              LET d == Distance(extract.pos[way.nodes[k]], extract.pos[way.nodes[k + 1]])
              IN  d \in Nat /\ m[k + 1] = m[k] + d * Rate(way, mode)
<1>1. PICK line : line = Line(extract, way.nodes)
  OBVIOUS
<1>2. PICK n \in Nat : n = Len(way.nodes)
  BY <1>1, ExtractsAssumption, NodesInPlace
<1>3. /\ line \in Seq(Point) /\ Len(line) = n
      /\ \A k \in 1..n : extract.pos[way.nodes[k]] = line[k] /\ line[k] \in Point
  BY <1>1, <1>2, ExtractsAssumption, NodesInPlace
<1>4. PICK W : /\ Measures(W, line) /\ \A k \in 1..n : W[k] \in Nat
               /\ m = [k \in 1..n |-> W[k] * Rate(way, mode)]
  BY <1>1, <1>2 DEF MarksOf
<1>5. PICK r \in Nat : r = Rate(way, mode)
  <2>1. 0 \in Nat
    OBVIOUS
  <2>2. QED
    BY <2>1, RateIsExact
<1>6. m \in [1..n -> Nat]
  <2>1. \A k \in 1..n : W[k] * r \in Nat
    BY <1>4
  <2>2. QED
    BY <1>4, <1>5, <2>1
<1>7. ASSUME NEW k \in 1..(n - 1), NEW d,
             d = Distance(extract.pos[way.nodes[k]], extract.pos[way.nodes[k + 1]])
      PROVE  d \in Nat /\ m[k + 1] = m[k] + d * r
  <2>1. k \in 1..n /\ k + 1 \in 1..n
    BY <1>2
  <2>2. d \in Nat /\ d = Distance(line[k], line[k + 1])
    BY <1>3, <1>7, <2>1, DegreesAndMetres
  <2>3. PICK a, b : a = W[k] /\ b = W[k + 1]
    OBVIOUS
  <2>4. b = a + d /\ a \in Nat
    BY <1>3, <1>4, <2>1, <2>2, <2>3 DEF Measures
  <2>5. m[k] = a * r /\ m[k + 1] = b * r
    BY <1>4, <1>5, <2>1, <2>3
  <2>6. b * r = a * r + d * r
    BY <2>2, <2>4
  <2>7. QED
    BY <2>2, <2>5, <2>6
<1>8. QED
  BY <1>2, <1>5, <1>6, <1>7

(* The milestones grow along a way.                                        *)
LEMMA MarksGrow ==
  ASSUME extract \in Extracts, WellFormed, NEW mode, NEW M, Marks(M, mode),
         NEW way \in WaysImport(extract),
         NEW i \in 1..Len(way.nodes), NEW j \in 1..Len(way.nodes), i <= j
  PROVE  M[way][i] \in Nat /\ M[way][j] \in Nat /\ M[way][i] <= M[way][j]
<1>1. IsExtract(extract)
  BY ExtractsAssumption
<1>2. PICK m, nodes : m = M[way] /\ nodes = way.nodes
  OBVIOUS
<1>3. PICK n \in Nat : n = Len(nodes)
  BY <1>1, <1>2, NodesInPlace
<1>4. MarksOf(m, way, mode)
  BY <1>2 DEF Marks
<1>5. m \in [1..n -> Nat]
  BY <1>2, <1>3, <1>4, MarksStep
<1>6. ASSUME NEW k \in 1..(n - 1) PROVE m[k] <= m[k + 1]
  <2>1. k \in 1..n /\ k + 1 \in 1..n
    BY <1>3
  <2>2. PICK d : d = Distance(extract.pos[nodes[k]], extract.pos[nodes[k + 1]])
    OBVIOUS
  <2>3. d \in Nat /\ m[k + 1] = m[k] + d * Rate(way, mode)
    BY <1>2, <1>3, <1>4, <2>2, MarksStep
  <2>4. PICK r \in Nat : r = Rate(way, mode)
    BY <2>3, RateIsExact
  <2>5. d * r \in Nat /\ m[k] \in Nat /\ m[k + 1] \in Nat
    BY <1>5, <2>1, <2>3, <2>4
  <2>6. QED
    BY <2>3, <2>4, <2>5
<1> DEFINE S == {d \in Nat : i + d <= n => m[i] <= m[i + d]}
<1>7. 0 \in S
  <2>1. i + 0 = i /\ m[i] \in Nat
    BY <1>2, <1>3, <1>5
  <2>2. QED
    BY <2>1
<1>8. ASSUME NEW d \in Nat, d \in S PROVE d + 1 \in S
  <2>1. SUFFICES ASSUME i + (d + 1) <= n PROVE m[i] <= m[i + (d + 1)]
    OBVIOUS
  <2>2. PICK k \in Nat : k = i + d
    OBVIOUS
  <2>3. k \in 1..(n - 1) /\ k \in 1..n /\ k + 1 \in 1..n /\ k + 1 = i + (d + 1)
    BY <1>2, <1>3, <2>1, <2>2
  <2>4. m[i] <= m[k] /\ m[k] <= m[k + 1]
    BY <1>6, <1>8, <2>2, <2>3
  <2>5. m[i] \in Nat /\ m[k] \in Nat /\ m[k + 1] \in Nat
    BY <1>2, <1>3, <1>5, <2>3
  <2>6. QED
    BY <2>3, <2>4, <2>5
<1>9. j - i \in S
  <2>1. \A d \in Nat : d \in S
    <3> HIDE DEF S
    <3>1. QED
      BY <1>7, <1>8, SetInduction
  <2>2. j - i \in Nat
    OBVIOUS
  <2> HIDE DEF S
  <2>3. QED
    BY <2>1, <2>2
<1>10. m[i] <= m[j]
  <2>1. i + (j - i) = j /\ j <= n
    BY <1>2, <1>3
  <2>2. QED
    BY <1>9, <2>1
<1>11. QED
  BY <1>2, <1>3, <1>5, <1>10

(* Gaps add up, and none is wider than the sum of two.                     *)
LEMMA GapsAddUp ==
  ASSUME extract \in Extracts, WellFormed, NEW mode, NEW M, Marks(M, mode),
         NEW way \in WaysImport(extract),
         NEW i \in 1..Len(way.nodes), NEW j \in 1..Len(way.nodes), NEW k \in 1..Len(way.nodes)
  PROVE  /\ Gap(M, way, i, j) \in Nat /\ Gap(M, way, i, i) = 0
         /\ Gap(M, way, i, j) = Gap(M, way, j, i)
         /\ Gap(M, way, i, k) <= Gap(M, way, i, j) + Gap(M, way, j, k)
         /\ (i <= j /\ j <= k) \/ (k <= j /\ j <= i) =>
              Gap(M, way, i, k) = Gap(M, way, i, j) + Gap(M, way, j, k)
<1>1. PICK a, b, c : a = M[way][i] /\ b = M[way][j] /\ c = M[way][k]
  OBVIOUS
<1>2. PICK n : n = Len(way.nodes)
  OBVIOUS
<1>3. n \in Nat
  BY <1>2, ExtractsAssumption, NodesInPlace
<1>4. a \in Nat /\ b \in Nat /\ c \in Nat
  BY <1>1, <1>2, <1>3, MarksGrow
<1>5. /\ i <= j => a <= b
      /\ j <= k => b <= c
      /\ k <= j => c <= b
      /\ j <= i => b <= a
  BY <1>1, MarksGrow
<1>6. /\ Gap(M, way, i, j) = Absolute(a - b) /\ Gap(M, way, j, i) = Absolute(b - a)
      /\ Gap(M, way, i, k) = Absolute(a - c) /\ Gap(M, way, j, k) = Absolute(b - c)
      /\ Gap(M, way, i, i) = Absolute(a - a)
  BY <1>1 DEF Gap
<1>7. /\ Absolute(a - b) \in Nat /\ Absolute(a - a) = 0 /\ Absolute(a - b) = Absolute(b - a)
      /\ Absolute(a - c) <= Absolute(a - b) + Absolute(b - c)
      /\ (a <= b /\ b <= c) \/ (c <= b /\ b <= a) =>
           Absolute(a - c) = Absolute(a - b) + Absolute(b - c)
  BY <1>4 DEF Absolute
<1>8. QED
  BY <1>5, <1>6, <1>7

(* The arc from position i of a way to position j: of the roads, and of    *)
(* the edges.                                                              *)
RoadArc(M, way, i, j) ==
  [from |-> way.nodes[i], to |-> way.nodes[j], cost |-> Gap(M, way, i, j)]

IsHop(M, way, a, i, j) ==
  (j = i + 1 \/ i = j + 1) /\ Open(way, i, j) /\ a = RoadArc(M, way, i, j)

LEMMA RoadArcsAre ==
  ASSUME extract \in Extracts, WellFormed, NEW mode, NEW M, Marks(M, mode), NEW a
  PROVE  a \in RoadArcs(mode) <=>
           \E way \in WaysImport(extract) : \E i, j \in 1..Len(way.nodes) : IsHop(M, way, a, i, j)
<1> DEFINE Metres(n, i) == Distance(extract.pos[n[i]], extract.pos[n[i + 1]])
           Cost(way, i) == IF mode = "distance" THEN Metres(way.nodes, i)
                           ELSE (Metres(way.nodes, i) * TimeUnits) \div RoadSpeed(way)
           Of(way) ==
             {[from |-> way.nodes[i], to |-> way.nodes[i + 1], cost |-> Cost(way, i)] :
                i \in {j \in 1..(Len(way.nodes) - 1) : OnewayDirection(way) # -1}}
             \union
             {[from |-> way.nodes[i + 1], to |-> way.nodes[i], cost |-> Cost(way, i)] :
                i \in {j \in 1..(Len(way.nodes) - 1) : OnewayDirection(way) # 1}}
<1>1. RoadArcs(mode) = UNION {Of(way) : way \in WaysImport(extract)}
  BY DEF RoadArcs
<1>2. ASSUME NEW way \in WaysImport(extract)
      PROVE  a \in Of(way) <=> \E i, j \in 1..Len(way.nodes) : IsHop(M, way, a, i, j)
  <2>1. PICK n \in Nat : n = Len(way.nodes)
    BY ExtractsAssumption, NodesInPlace
  <2>2. MarksOf(M[way], way, mode)
    BY DEF Marks
  <2>3. ASSUME NEW i \in 1..(n - 1)
        PROVE  Cost(way, i) = Gap(M, way, i, i + 1) /\ Cost(way, i) = Gap(M, way, i + 1, i)
    <3>1. PICK d : d = Metres(way.nodes, i)
      OBVIOUS
    <3>2. d \in Nat /\ M[way][i + 1] = M[way][i] + d * Rate(way, mode)
      BY <2>1, <2>2, <3>1, MarksStep
    <3>3. Cost(way, i) = d * Rate(way, mode) /\ d * Rate(way, mode) \in Nat
      <4>1. CASE mode = "distance"
        BY <3>1, <3>2, <4>1, RateIsExact
      <4>2. CASE mode # "distance"
        <5>1. Rate(way, mode) \in Nat /\ Cost(way, i) = d * Rate(way, mode)
          BY <3>1, <3>2, <4>2, RateIsExact
        <5>2. QED
          BY <3>2, <5>1
      <4>3. QED
        BY <4>1, <4>2
    <3> HIDE DEF Cost
    <3>4. i \in 1..n /\ i + 1 \in 1..n
      BY <2>1
    <3>5. M[way] \in [1..n -> Nat]
      BY <2>1, <2>2, MarksStep
    <3>6. M[way][i] \in Nat /\ M[way][i + 1] \in Nat
      BY <3>4, <3>5
    <3>7. PICK c \in Nat : c = Cost(way, i) /\ M[way][i + 1] = M[way][i] + c
      BY <3>2, <3>3
    <3>8. QED
      BY <3>6, <3>7 DEF Gap, Absolute
  <2> HIDE DEF Cost
  <2>4. ASSUME a \in Of(way)
        PROVE  \E i, j \in 1..Len(way.nodes) : IsHop(M, way, a, i, j)
    <3>1. CASE \E i \in 1..(n - 1) :
                 /\ OnewayDirection(way) # -1
                 /\ a = [from |-> way.nodes[i], to |-> way.nodes[i + 1], cost |-> Cost(way, i)]
      <4>1. PICK i \in 1..(n - 1) :
                 /\ OnewayDirection(way) # -1
                 /\ a = [from |-> way.nodes[i], to |-> way.nodes[i + 1], cost |-> Cost(way, i)]
        BY <3>1
      <4>2. i \in 1..n /\ i + 1 \in 1..n /\ i <= i + 1 /\ ~(i + 1 <= i)
        BY <2>1
      <4>3. Open(way, i, i + 1)
        BY <4>1, <4>2 DEF Open
      <4>4. IsHop(M, way, a, i, i + 1)
        BY <2>3, <4>1, <4>3 DEF IsHop, RoadArc
      <4>5. QED
        BY <2>1, <4>2, <4>4
    <3>2. CASE \E i \in 1..(n - 1) :
                 /\ OnewayDirection(way) # 1
                 /\ a = [from |-> way.nodes[i + 1], to |-> way.nodes[i], cost |-> Cost(way, i)]
      <4>1. PICK i \in 1..(n - 1) :
                 /\ OnewayDirection(way) # 1
                 /\ a = [from |-> way.nodes[i + 1], to |-> way.nodes[i], cost |-> Cost(way, i)]
        BY <3>2
      <4>2. i \in 1..n /\ i + 1 \in 1..n /\ i <= i + 1 /\ ~(i + 1 <= i)
        BY <2>1
      <4>3. Open(way, i + 1, i)
        BY <4>1, <4>2 DEF Open
      <4>4. IsHop(M, way, a, i + 1, i)
        BY <2>3, <4>1, <4>3 DEF IsHop, RoadArc
      <4>5. QED
        BY <2>1, <4>2, <4>4
    <3>3. QED
      BY <2>1, <2>4, <3>1, <3>2
  <2>5. ASSUME NEW i \in 1..Len(way.nodes), NEW j \in 1..Len(way.nodes), IsHop(M, way, a, i, j)
        PROVE  a \in Of(way)
    <3>1. CASE j = i + 1
      <4>1. i \in 1..(n - 1) /\ ~(j <= i)
        BY <2>1, <3>1
      <4>2. OnewayDirection(way) # -1
        BY <2>5, <4>1 DEF IsHop, Open
      <4>3. a = [from |-> way.nodes[i], to |-> way.nodes[i + 1], cost |-> Cost(way, i)]
        BY <2>3, <2>5, <3>1, <4>1 DEF IsHop, RoadArc
      <4>4. QED
        BY <2>1, <4>1, <4>2, <4>3
    <3>2. CASE i = j + 1
      <4>1. j \in 1..(n - 1) /\ ~(i <= j)
        BY <2>1, <3>2
      <4>2. OnewayDirection(way) # 1
        BY <2>5, <4>1 DEF IsHop, Open
      <4>3. a = [from |-> way.nodes[j + 1], to |-> way.nodes[j], cost |-> Cost(way, j)]
        BY <2>3, <2>5, <3>2, <4>1 DEF IsHop, RoadArc
      <4>4. QED
        BY <2>1, <4>1, <4>2, <4>3
    <3>3. QED
      BY <2>5, <3>1, <3>2 DEF IsHop
  <2>6. QED
    BY <2>4, <2>5
<1> HIDE DEF Of
<1>3. QED
  BY <1>1, <1>2

-----------------------------------------------------------------------------
(* The edges of a well-formed extract.                                     *)
IsSpan(way, i, j) == <<i, j>> \in Spans(extract, way) \/ <<j, i>> \in Spans(extract, way)

(* a is an arc for the piece of the way from position i to position j.     *)
IsPiece(M, way, a, i, j) ==
  /\ IsSpan(way, i, j) /\ Open(way, i, j)
  /\ a.from = extract.pos[way.nodes[i]] /\ a.to = extract.pos[way.nodes[j]]
  /\ a.cost = Gap(M, way, i, j)

LEMMA DirectionIsKnown ==
  ASSUME NEW way
  PROVE  OnewayDirection(way) \in {-1, 0, 1}
  BY DEF OnewayDirection

(* What the loader stores for a piece of a way.                            *)
LEMMA EdgeOfPiece ==
  ASSUME extract \in Extracts, WellFormed, NEW mode, NEW M, Marks(M, mode),
         NEW way \in WaysImport(extract), NEW span \in Spans(extract, way),
         NEW i, NEW j, i = span[1], j = span[2],
         NEW w, w = Priced(EdgeOf(extract, way, i, j))
  PROVE  /\ i \in 1..Len(way.nodes) /\ j \in 1..Len(way.nodes) /\ i <= j /\ i # j
         /\ w.oneway = Absolute(OnewayDirection(way))
         /\ w.source = extract.pos[way.nodes[IF OnewayDirection(way) = -1 THEN j ELSE i]]
         /\ w.target = extract.pos[way.nodes[IF OnewayDirection(way) = -1 THEN i ELSE j]]
         /\ (IF mode = "distance" THEN w.cost_distance ELSE w.cost_time) = Gap(M, way, i, j)
<1>1. IsExtract(extract)
  BY ExtractsAssumption
<1>2. PICK line : line = Line(extract, way.nodes)
  OBVIOUS
<1>3. PICK n \in Nat : n = Len(way.nodes)
  BY <1>1, <1>2, NodesInPlace
<1>4. /\ line \in Seq(Point) /\ Len(line) = n /\ n >= 2
      /\ \A k \in 1..n : extract.pos[way.nodes[k]] = line[k] /\ line[k] \in Point
  BY <1>1, <1>2, <1>3, NodesInPlace
<1>5. i \in 1..n /\ j \in 1..n /\ i < j
  <2>1. i \in 1..n /\ j \in 1..n
    BY <1>1, <1>2, <1>4, SpansAreOnTheLine
  <2>2. i < j
    BY DEF Spans, WellFormed
  <2>3. QED
    BY <2>1, <2>2
<1>6. PICK W : /\ Measures(W, line) /\ \A k \in 1..n : W[k] \in Nat
               /\ M[way] = [k \in 1..n |-> W[k] * Rate(way, mode)]
  BY <1>2, <1>3 DEF Marks, MarksOf
<1>7. PICK piece : piece = SubSeq(line, i, j)
  OBVIOUS
<1>8. PICK geom : geom = IF OnewayDirection(way) = -1 THEN Reverse(piece) ELSE piece
  OBVIOUS
<1>9. /\ Length(geom) = W[j] - W[i]
      /\ geom[1] = line[IF OnewayDirection(way) = -1 THEN j ELSE i]
      /\ geom[Len(geom)] = line[IF OnewayDirection(way) = -1 THEN i ELSE j]
  <2>1. Len(line) \in Nat \ {0} /\ i <= j /\ i \in 1..Len(line) /\ j \in 1..Len(line)
    BY <1>4, <1>5
  <2>2. MeasuredPiece(line, W, i, j)
    BY <1>4, <1>6, <2>1, PieceLength
  <2>3. QED
    BY <1>7, <1>8, <2>2 DEF MeasuredPiece
<1>10. PICK edge : edge = EdgeOf(extract, way, i, j)
  OBVIOUS
<1>11. edge = [gid |-> <<way.id, i, j>>, tag_id |-> TagIdByHighway[way.highway],
               maxspeed |-> ParseMaxspeed(way.maxspeed),
               oneway |-> Absolute(OnewayDirection(way)), geom |-> geom,
               source |-> geom[1], target |-> geom[Len(geom)],
               cost_distance |-> Null, cost_time |-> Null]
  BY <1>2, <1>7, <1>8, <1>10 DEF EdgeOf
<1>12. w = [edge EXCEPT !.cost_distance = Length(geom),
                        !.cost_time     = (Length(geom) * TimeUnits) \div RoadSpeed(way)]
  <2>1. Speed(edge) = RoadSpeed(way)
    BY <1>1, <1>10, EdgeSpeedIsRoadSpeed
  <2>2. edge.geom = geom
    BY <1>11
  <2>3. QED
    BY <1>10, <2>1, <2>2 DEF Priced
<1>13. /\ w.oneway = Absolute(OnewayDirection(way))
       /\ w.source = geom[1] /\ w.target = geom[Len(geom)]
       /\ w.cost_distance = Length(geom)
       /\ w.cost_time = (Length(geom) * TimeUnits) \div RoadSpeed(way)
  BY <1>11, <1>12
<1>14. PICK d : d = Length(geom)
  OBVIOUS
<1>15. PICK a, b \in Nat : a = W[i] /\ b = W[j]
  BY <1>5, <1>6
<1>16. PICK r : r = Rate(way, mode)
  OBVIOUS
<1>17. M[way][i] = a * r /\ M[way][j] = b * r
  BY <1>5, <1>6, <1>15, <1>16
<1>18. d \in Nat
  <2>1. /\ edge.geom = geom /\ edge.geom \in Seq(Point) /\ Len(edge.geom) \in Nat \ {0}
    <3>1. edge = EdgeOf(extract, way, span[1], span[2])
      BY <1>10
    <3>2. QED
      BY <1>1, <1>11, <3>1, EdgeGeometry
  <2>2. QED
    BY <1>14, <2>1, LengthIsNatural
<1>19. r \in Nat /\ (IF mode = "distance" THEN w.cost_distance ELSE w.cost_time) = d * r
  BY <1>13, <1>14, <1>16, <1>18, RateIsExact
<1>20. d * r = Gap(M, way, i, j)
  <2>1. b = a + d
    BY <1>9, <1>14, <1>15, <1>18
  <2>2. b * r = a * r + d * r /\ a * r \in Nat /\ d * r \in Nat
    BY <1>18, <1>19, <2>1
  <2>3. QED
    BY <1>17, <2>2 DEF Gap, Absolute
<1>21. QED
  BY <1>3, <1>4, <1>5, <1>9, <1>13, <1>19, <1>20

(* The spans of a way join its neighbouring splits.                        *)
LEMMA SpansAre ==
  ASSUME IsExtract(extract), WellFormed, NEW way \in WaysImport(extract), NEW i, NEW j
  PROVE  <<i, j>> \in Spans(extract, way) <=>
           /\ i \in Splits(extract, way) /\ j \in Splits(extract, way) /\ i < j
           /\ \A s \in Splits(extract, way) : ~(i < s /\ s < j)
<1>1. PICK S : S = Splits(extract, way)
  OBVIOUS
<1>2. Spans(extract, way) = {span \in S \X S : /\ span[1] < span[2]
                                               /\ \A s \in S : ~(span[1] < s /\ s < span[2])}
  BY <1>1 DEF Spans, WellFormed
<1>3. QED
  BY <1>1, <1>2

LEMMA SplitsArePositions ==
  ASSUME IsExtract(extract), WellFormed, NEW way \in WaysImport(extract)
  PROVE  Splits(extract, way) \subseteq 1..Len(way.nodes)
<1>1. PICK n \in Nat : n = Len(way.nodes) /\ n >= 2 /\ DOMAIN way.nodes = 1..n
  BY NodesInPlace
<1>2. QED
  BY <1>1 DEF Splits

(* Every arc of the edges is an arc for a piece of a way, and every piece  *)
(* that may be driven has its arc.                                         *)
LEMMA ArcsArePieces ==
  ASSUME extract \in Extracts, WellFormed, NEW mode, NEW M, Marks(M, mode),
         NEW a \in Arcs(Edges(extract), mode, TRUE)
  PROVE  \E way \in WaysImport(extract) : \E i, j \in 1..Len(way.nodes) : IsPiece(M, way, a, i, j)
<1>0. PICK w \in Edges(extract) :
        LET c == IF mode = "distance" THEN w.cost_distance ELSE w.cost_time
        IN  \/ a = [from |-> w.source, to |-> w.target, way |-> w, cost |-> c]
            \/ w.oneway # 1 /\ a = [from |-> w.target, to |-> w.source, way |-> w, cost |-> c]
  BY DEF Arcs
<1>1. PICK c : /\ c = IF mode = "distance" THEN w.cost_distance ELSE w.cost_time
               /\ \/ a = [from |-> w.source, to |-> w.target, way |-> w, cost |-> c]
                  \/ w.oneway # 1 /\ a = [from |-> w.target, to |-> w.source, way |-> w, cost |-> c]
  BY <1>0
<1>2. PICK way \in WaysImport(extract) :
        \E span \in Spans(extract, way) : w = Priced(EdgeOf(extract, way, span[1], span[2]))
  BY DEF Edges, NodedWays
<1>3. PICK span \in Spans(extract, way) : w = Priced(EdgeOf(extract, way, span[1], span[2]))
  BY <1>2
<1>4. PICK i, j : i = span[1] /\ j = span[2]
  OBVIOUS
<1>5. PICK dir : dir = OnewayDirection(way)
  OBVIOUS
<1>6. /\ i \in 1..Len(way.nodes) /\ j \in 1..Len(way.nodes) /\ i <= j /\ i # j
      /\ w.oneway = Absolute(dir)
      /\ w.source = extract.pos[way.nodes[IF dir = -1 THEN j ELSE i]]
      /\ w.target = extract.pos[way.nodes[IF dir = -1 THEN i ELSE j]]
      /\ c = Gap(M, way, i, j)
  BY <1>1, <1>3, <1>4, <1>5, EdgeOfPiece
<1>7. dir \in {-1, 0, 1}
  BY <1>5, DirectionIsKnown
<1>8. IsSpan(way, i, j) /\ IsSpan(way, j, i)
  <2>1. <<i, j>> \in Spans(extract, way)
    <3>1. span = <<i, j>>
      <4>1. \E I : span \in I \X I
        BY DEF Spans, WellFormed
      <4>2. QED
        BY <1>4, <4>1
    <3>2. QED
      BY <3>1
  <2>2. QED
    BY <2>1 DEF IsSpan
<1>9. c = Gap(M, way, j, i)
  BY <1>6, GapsAddUp
<1>10. ~(j <= i)
  <2>1. Len(way.nodes) \in Nat
    BY ExtractsAssumption, NodesInPlace
  <2>2. QED
    BY <1>6, <2>1
<1>11. CASE dir = -1
  <2>1. w.oneway = 1
    <3>1. \A n \in Int : n < 0 => Absolute(n) = 0 - n
      BY DEF Absolute
    <3>2. dir \in Int /\ dir < 0 /\ 0 - dir = 1
      BY <1>11
    <3>3. QED
      BY <1>6, <3>1, <3>2
  <2>2. /\ a.from = extract.pos[way.nodes[j]] /\ a.to = extract.pos[way.nodes[i]] /\ a.cost = c
    BY <1>1, <1>6, <1>11, <2>1
  <2>3. Open(way, j, i)
    BY <1>5, <1>6, <1>11 DEF Open
  <2>4. IsPiece(M, way, a, j, i)
    BY <1>8, <1>9, <2>2, <2>3 DEF IsPiece
  <2>5. QED
    BY <1>6, <2>4
<1>12. CASE /\ dir # -1 /\ a.from = w.source /\ a.to = w.target /\ a.cost = c
  <2>1. Open(way, i, j)
    BY <1>5, <1>6, <1>12 DEF Open
  <2>2. IsPiece(M, way, a, i, j)
    BY <1>6, <1>8, <1>12, <2>1 DEF IsPiece
  <2>3. QED
    BY <1>6, <2>2
<1>13. CASE /\ dir # -1 /\ w.oneway # 1 /\ a.from = w.target /\ a.to = w.source /\ a.cost = c
  <2>1. dir = 0
    BY <1>6, <1>7, <1>13 DEF Absolute
  <2>2. Open(way, j, i)
    BY <1>5, <2>1 DEF Open
  <2>3. IsPiece(M, way, a, j, i)
    BY <1>6, <1>8, <1>9, <1>13, <2>2 DEF IsPiece
  <2>4. QED
    BY <1>6, <2>3
<1>14. QED
  BY <1>1, <1>11, <1>12, <1>13

LEMMA PiecesHaveArcs ==
  ASSUME extract \in Extracts, WellFormed, NEW mode, NEW M, Marks(M, mode),
         NEW way \in WaysImport(extract),
         NEW i \in 1..Len(way.nodes), NEW j \in 1..Len(way.nodes),
         IsSpan(way, i, j), Open(way, i, j)
  PROVE  \E a \in Arcs(Edges(extract), mode, TRUE) : IsPiece(M, way, a, i, j)
<1>1. PICK dir : dir = OnewayDirection(way)
  OBVIOUS
<1>2. dir \in {-1, 0, 1}
  BY <1>1, DirectionIsKnown
<1>3. Gap(M, way, i, j) = Gap(M, way, j, i)
  BY GapsAddUp
<1>4. Len(way.nodes) \in Nat
  BY ExtractsAssumption, NodesInPlace
<1> DEFINE Forward(w, c)  == [from |-> w.source, to |-> w.target, way |-> w, cost |-> c]
           Backward(w, c) == [from |-> w.target, to |-> w.source, way |-> w, cost |-> c]
<1>5. ASSUME NEW span \in Spans(extract, way)
      PROVE  \E w \in Edges(extract) : w = Priced(EdgeOf(extract, way, span[1], span[2]))
  BY DEF Edges, NodedWays
<1>6. CASE <<i, j>> \in Spans(extract, way)
  <2>1. PICK w \in Edges(extract) : w = Priced(EdgeOf(extract, way, i, j))
    BY <1>5, <1>6
  <2>2. PICK span \in Spans(extract, way) : i = span[1] /\ j = span[2]
    BY <1>6
  <2>3. PICK c : c = IF mode = "distance" THEN w.cost_distance ELSE w.cost_time
    OBVIOUS
  <2>4. /\ i <= j /\ i # j
        /\ w.source = extract.pos[way.nodes[IF dir = -1 THEN j ELSE i]]
        /\ w.target = extract.pos[way.nodes[IF dir = -1 THEN i ELSE j]]
        /\ c = Gap(M, way, i, j)
    BY <1>1, <2>1, <2>2, <2>3, EdgeOfPiece
  <2>5. dir # -1
    BY <1>1, <1>4, <2>4 DEF Open
  <2>6. PICK a : a = Forward(w, c)
    OBVIOUS
  <2>7. a.from = w.source /\ a.to = w.target /\ a.cost = c
    BY <2>6
  <2>8. a \in Arcs(Edges(extract), mode, TRUE)
    BY <2>3, <2>6 DEF Arcs
  <2>9. IsPiece(M, way, a, i, j)
    BY <2>4, <2>5, <2>7 DEF IsPiece
  <2>10. QED
    BY <2>8, <2>9
<1>7. CASE <<j, i>> \in Spans(extract, way)
  <2>1. PICK w \in Edges(extract) : w = Priced(EdgeOf(extract, way, j, i))
    BY <1>5, <1>7
  <2>2. PICK span \in Spans(extract, way) : j = span[1] /\ i = span[2]
    BY <1>7
  <2>3. PICK c : c = IF mode = "distance" THEN w.cost_distance ELSE w.cost_time
    OBVIOUS
  <2>4. /\ j <= i /\ i # j /\ w.oneway = Absolute(dir)
        /\ w.source = extract.pos[way.nodes[IF dir = -1 THEN i ELSE j]]
        /\ w.target = extract.pos[way.nodes[IF dir = -1 THEN j ELSE i]]
        /\ c = Gap(M, way, j, i)
    BY <1>1, <2>1, <2>2, <2>3, EdgeOfPiece
  <2>5. dir # 1
    BY <1>1, <1>4, <2>4 DEF Open
  <2>6. CASE dir = -1
    <3>1. PICK a : a = Forward(w, c)
      OBVIOUS
    <3>2. a.from = w.source /\ a.to = w.target /\ a.cost = c
      BY <3>1
    <3>3. a \in Arcs(Edges(extract), mode, TRUE)
      BY <2>3, <3>1 DEF Arcs
    <3>4. IsPiece(M, way, a, i, j)
      BY <1>3, <2>4, <2>6, <3>2 DEF IsPiece
    <3>5. QED
      BY <3>3, <3>4
  <2>7. CASE dir = 0
    <3>1. PICK a : a = Backward(w, c)
      OBVIOUS
    <3>2. a.from = w.target /\ a.to = w.source /\ a.cost = c
      BY <3>1
    <3>3. w.oneway # 1
      BY <2>4, <2>7 DEF Absolute
    <3>4. a \in Arcs(Edges(extract), mode, TRUE)
      BY <2>3, <3>1, <3>3 DEF Arcs
    <3>5. IsPiece(M, way, a, i, j)
      BY <1>3, <2>4, <2>7, <3>2 DEF IsPiece
    <3>6. QED
      BY <3>4, <3>5
  <2>8. QED
    BY <1>2, <2>5, <2>6, <2>7
<1>8. QED
  BY <1>6, <1>7 DEF IsSpan

-----------------------------------------------------------------------------
(* A node that is no junction has one slot.                                *)
LEMMA OneSlot ==
  ASSUME IsExtract(extract), WellFormed,
         NEW way \in WaysImport(extract), NEW i \in 1..Len(way.nodes),
         NEW other \in WaysImport(extract), NEW j \in 1..Len(other.nodes),
         way.nodes[i] = other.nodes[j], i \notin Splits(extract, way)
  PROVE  way = other /\ i = j
<1>1. PICK n : n = way.nodes[i]
  OBVIOUS
<1>2. PICK W : W = WaysImport(extract)
  OBVIOUS
<1>3. \A w \in W : Len(w.nodes) \in Nat /\ DOMAIN w.nodes = 1..Len(w.nodes)
  BY <1>2, NodesInPlace
<1> DEFINE Of(w) == {<<w.id, k>> : k \in {h \in DOMAIN w.nodes : w.nodes[h] = n}}
           Slots == UNION {Of(w) : w \in W}
<1>4. IsFiniteSet(Slots)
  <2>1. IsFiniteSet(W)
    <3>1. W \subseteq extract.ways
      BY <1>2 DEF WaysImport
    <3>2. QED
      BY <3>1, FS_Subset DEF IsExtract
  <2>2. ASSUME NEW w \in W PROVE IsFiniteSet(Of(w))
    <3>1. PICK K : K = {h \in DOMAIN w.nodes : w.nodes[h] = n}
      OBVIOUS
    <3>2. PICK m \in Nat : m = Len(w.nodes)
      BY <1>3
    <3>3. IsFiniteSet(1..m) /\ K \subseteq 1..m
      <4>1. IsFiniteSet(1..m)
        BY FS_Interval
      <4>2. QED
        BY <1>3, <3>1, <3>2, <4>1
    <3>4. IsFiniteSet(K)
      BY <3>3, FS_Subset
    <3>5. PICK g : g = [k \in K |-> <<w.id, k>>]
      OBVIOUS
    <3>6. DOMAIN g = K /\ Of(w) = {g[k] : k \in K}
      BY <3>1, <3>5
    <3> HIDE DEF Of
    <3>7. QED
      BY <3>4, <3>6, FiniteImage
  <2> HIDE DEF Of
  <2>3. PICK g : g = [w \in W |-> Of(w)]
    OBVIOUS
  <2>4. PICK T : T = {Of(w) : w \in W}
    OBVIOUS
  <2>5. DOMAIN g = W /\ T = {g[w] : w \in W}
    BY <2>3, <2>4
  <2>6. IsFiniteSet(T)
    BY <2>1, <2>5, FiniteImage
  <2>7. \A e \in T : IsFiniteSet(e)
    BY <2>2, <2>4
  <2>8. QED
    BY <2>4, <2>6, <2>7, FS_UNION
<1>5. n \notin Junctions(extract)
  BY <1>1, <1>2, <1>3 DEF Splits
<1>6. n \in UNION {ToSet(w.nodes) : w \in W}
  <2>1. n \in ToSet(way.nodes)
    BY <1>1, <1>2, <1>3 DEF ToSet
  <2>2. QED
    BY <1>2, <2>1
<1>7. ~(Cardinality(Slots) >= 2)
  BY <1>2, <1>5, <1>6 DEF Junctions
<1>8. PICK s, t : s = <<way.id, i>> /\ t = <<other.id, j>>
  OBVIOUS
<1>9. s \in Slots /\ t \in Slots
  <2>1. s \in Of(way)
    BY <1>1, <1>2, <1>3, <1>8
  <2>2. t \in Of(other)
    BY <1>1, <1>2, <1>3, <1>8
  <2>3. QED
    BY <1>2, <2>1, <2>2
<1> HIDE DEF Slots
<1>10. s = t
  <2>1. SUFFICES ASSUME s # t PROVE FALSE
    OBVIOUS
  <2>2. PICK P : P = {s, t}
    OBVIOUS
  <2>3. IsFiniteSet(P) /\ Cardinality(P) = 2
    <3>1. IsFiniteSet({s}) /\ Cardinality({s}) = 1
      BY FS_Singleton
    <3>2. P = {s} \union {t} /\ t \notin {s}
      BY <2>1, <2>2
    <3>3. PICK Q : Q = {s}
      OBVIOUS
    <3>4. IsFiniteSet(Q \union {t}) /\ Cardinality(Q \union {t}) = Cardinality(Q) + 1
      BY <3>1, <3>2, <3>3, FS_AddElement
    <3>5. P = Q \union {t} /\ Cardinality(Q) = 1
      BY <3>1, <3>2, <3>3
    <3>6. 1 + 1 = 2
      OBVIOUS
    <3>7. QED
      BY <3>4, <3>5, <3>6
  <2>4. P \subseteq Slots
    BY <1>9, <2>2
  <2>5. Cardinality(P) <= Cardinality(Slots) /\ Cardinality(Slots) \in Nat
    BY <1>4, <2>4, FS_Subset, FS_CardinalityType
  <2>6. QED
    BY <1>7, <2>3, <2>5
<1>11. way.id = other.id /\ i = j
  BY <1>8, <1>10
<1>12. way \in extract.ways /\ other \in extract.ways
  BY DEF WaysImport
<1>13. QED
  BY <1>11, <1>12 DEF IsExtract

(* A split node splits every way it is on, wherever it is on it.           *)
LEMMA SplitAtEverySlot ==
  ASSUME IsExtract(extract), WellFormed,
         NEW way \in WaysImport(extract), NEW i \in 1..Len(way.nodes)
  PROVE  way.nodes[i] \in SplitNodes <=> i \in Splits(extract, way)
<1>1. ASSUME way.nodes[i] \in SplitNodes PROVE i \in Splits(extract, way)
  <2>1. PICK other \in WaysImport(extract) :
          \E j \in Splits(extract, other) : way.nodes[i] = other.nodes[j]
    BY <1>1 DEF SplitNodes
  <2>2. PICK j \in Splits(extract, other) : way.nodes[i] = other.nodes[j]
    BY <2>1
  <2>3. j \in 1..Len(other.nodes)
    BY SplitsArePositions
  <2>4. QED
    BY <2>2, <2>3, OneSlot
<1>2. ASSUME i \in Splits(extract, way) PROVE way.nodes[i] \in SplitNodes
  BY <1>2 DEF SplitNodes
<1>3. QED
  BY <1>1, <1>2

(* The roads are finitely many, and none has a negative cost.              *)
LEMMA RoadArcsArePriced ==
  ASSUME extract \in Extracts, WellFormed, NEW mode
  PROVE  IsFiniteSet(RoadArcs(mode)) /\ Priceable(RoadArcs(mode))
<1>1. IsExtract(extract)
  BY ExtractsAssumption
<1>2. PICK M : Marks(M, mode)
  BY MarksExist
<1>3. PICK W : W = WaysImport(extract)
  OBVIOUS
<1> DEFINE Of(way) == {RoadArc(M, way, p[1], p[2]) :
                          p \in (1..Len(way.nodes)) \X (1..Len(way.nodes))}
<1>4. IsFiniteSet(W)
  <2>1. W \subseteq extract.ways
    BY <1>3 DEF WaysImport
  <2>2. QED
    BY <1>1, <2>1, FS_Subset DEF IsExtract
<1>5. ASSUME NEW way \in W PROVE IsFiniteSet(Of(way))
  <2>1. PICK m \in Nat : m = Len(way.nodes)
    BY <1>1, <1>3, NodesInPlace
  <2>2. PICK K : K = (1..m) \X (1..m)
    OBVIOUS
  <2>3. IsFiniteSet(K)
    <3>1. IsFiniteSet(1..m)
      BY FS_Interval
    <3>2. QED
      BY <2>2, <3>1, FS_Product
  <2>4. PICK g : g = [p \in K |-> RoadArc(M, way, p[1], p[2])]
    OBVIOUS
  <2>5. DOMAIN g = K /\ Of(way) = {g[p] : p \in K}
    BY <2>1, <2>2, <2>4
  <2> HIDE DEF Of
  <2>6. QED
    BY <2>3, <2>5, FiniteImage
<1>6. ASSUME NEW a \in RoadArcs(mode) PROVE \E way \in W : a \in Of(way)
  <2>1. PICK way \in W : \E i, j \in 1..Len(way.nodes) : IsHop(M, way, a, i, j)
    BY <1>2, <1>3, RoadArcsAre
  <2>2. PICK i \in 1..Len(way.nodes), j \in 1..Len(way.nodes) : IsHop(M, way, a, i, j)
    BY <2>1
  <2>3. a = RoadArc(M, way, i, j)
    BY <2>2 DEF IsHop
  <2>4. PICK p : p = <<i, j>>
    OBVIOUS
  <2>5. p \in (1..Len(way.nodes)) \X (1..Len(way.nodes)) /\ p[1] = i /\ p[2] = j
    BY <2>2, <2>4
  <2>6. a \in Of(way)
    BY <2>3, <2>5
  <2>7. QED
    BY <2>6
<1> HIDE DEF Of
<1>7. IsFiniteSet(UNION {Of(way) : way \in W})
  <2>1. PICK g : g = [way \in W |-> Of(way)]
    OBVIOUS
  <2>2. PICK T : T = {Of(way) : way \in W}
    OBVIOUS
  <2>3. DOMAIN g = W /\ T = {g[way] : way \in W}
    BY <2>1, <2>2
  <2>4. IsFiniteSet(T)
    BY <1>4, <2>3, FiniteImage
  <2>5. \A e \in T : IsFiniteSet(e)
    BY <1>5, <2>2
  <2>6. QED
    BY <2>2, <2>4, <2>5, FS_UNION
<1>8. IsFiniteSet(RoadArcs(mode))
  <2>1. RoadArcs(mode) \subseteq UNION {Of(way) : way \in W}
    BY <1>6
  <2>2. QED
    BY <1>7, <2>1, FS_Subset
<1>9. ASSUME NEW a \in RoadArcs(mode) PROVE a.cost \in Nat
  <2>1. PICK way \in W : \E i, j \in 1..Len(way.nodes) : IsHop(M, way, a, i, j)
    BY <1>2, <1>3, RoadArcsAre
  <2>2. PICK i \in 1..Len(way.nodes), j \in 1..Len(way.nodes) : IsHop(M, way, a, i, j)
    BY <2>1
  <2>3. a.cost = Gap(M, way, i, j)
    BY <2>2 DEF IsHop, RoadArc
  <2>4. QED
    BY <1>2, <1>3, <2>2, <2>3, GapsAddUp
<1>10. QED
  BY <1>8, <1>9 DEF Priceable

(* Along a way no node costs more than the one it is reached from and the  *)
(* gap between them.                                                       *)
LEMMA HopBound ==
  ASSUME extract \in Extracts, WellFormed, NEW mode, NEW M, Marks(M, mode),
         NEW e, NEW start, Unimprovable(e, RoadArcs(mode), start),
         NEW way \in WaysImport(extract),
         NEW i \in 1..Len(way.nodes), NEW j \in 1..Len(way.nodes),
         j = i + 1 \/ i = j + 1, Open(way, i, j), way.nodes[i] \in DOMAIN e
  PROVE  /\ way.nodes[j] \in DOMAIN e
         /\ e[way.nodes[j]] <= e[way.nodes[i]] + Gap(M, way, i, j)
<1>1. PICK a : a = RoadArc(M, way, i, j)
  OBVIOUS
<1>2. IsHop(M, way, a, i, j)
  BY <1>1 DEF IsHop
<1>3. a \in RoadArcs(mode)
  BY <1>2, RoadArcsAre
<1>4. a.from = way.nodes[i] /\ a.to = way.nodes[j] /\ a.cost = Gap(M, way, i, j)
  BY <1>1 DEF RoadArc
<1>5. QED
  BY <1>3, <1>4 DEF Unimprovable

LEMMA AlongTheWay ==
  ASSUME extract \in Extracts, WellFormed, NEW mode, NEW M, Marks(M, mode),
         NEW e, NEW start, Unimprovable(e, RoadArcs(mode), start),
         NEW way \in WaysImport(extract),
         NEW i \in 1..Len(way.nodes), NEW j \in 1..Len(way.nodes),
         Open(way, i, j), way.nodes[i] \in DOMAIN e
  PROVE  /\ way.nodes[j] \in DOMAIN e
         /\ e[way.nodes[j]] <= e[way.nodes[i]] + Gap(M, way, i, j)
<1>1. PICK n \in Nat : n = Len(way.nodes)
  BY ExtractsAssumption, NodesInPlace
<1> DEFINE Reached(k) == /\ way.nodes[k] \in DOMAIN e
                         /\ e[way.nodes[k]] <= e[way.nodes[i]] + Gap(M, way, i, k)
           S == {d \in Nat : \A k \in 1..n :
                               (k = i + d \/ i = k + d) /\ Open(way, i, k) => Reached(k)}
<1>2. 0 \in S
  <2>1. SUFFICES ASSUME NEW k \in 1..n, k = i + 0 \/ i = k + 0 PROVE Reached(k)
    OBVIOUS
  <2>2. k = i
    BY <1>1, <2>1
  <2>3. Gap(M, way, i, i) = 0
    BY GapsAddUp
  <2>4. e[way.nodes[i]] \in Nat
    BY DEF Unimprovable
  <2>5. QED
    BY <2>2, <2>3, <2>4
<1>3. ASSUME NEW d \in Nat, d \in S PROVE d + 1 \in S
  <2>1. SUFFICES ASSUME NEW k \in 1..n, k = i + (d + 1) \/ i = k + (d + 1), Open(way, i, k)
                 PROVE  Reached(k)
    OBVIOUS
  <2>2. PICK h \in 1..n : /\ k = h + 1 \/ h = k + 1
                          /\ h = i + d \/ i = h + d
                          /\ (i <= h /\ h <= k) \/ (k <= h /\ h <= i)
    <3>1. CASE k = i + (d + 1)
      <4>1. k - 1 \in 1..n
        BY <1>1, <3>1
      <4>2. k = (k - 1) + 1 /\ k - 1 = i + d /\ i <= k - 1 /\ k - 1 <= k
        BY <1>1, <3>1
      <4>3. QED
        BY <4>1, <4>2
    <3>2. CASE i = k + (d + 1)
      <4>1. k + 1 \in 1..n
        BY <1>1, <3>2
      <4>2. i = (k + 1) + d /\ k <= k + 1 /\ k + 1 <= i
        BY <1>1, <3>2
      <4>3. QED
        BY <4>1, <4>2
    <3>3. QED
      BY <2>1, <3>1, <3>2
  <2>3. Open(way, i, h) /\ Open(way, h, k)
    BY <1>1, <2>1, <2>2 DEF Open
  <2>4. Reached(h)
    BY <1>3, <2>2, <2>3
  <2>5. way.nodes[k] \in DOMAIN e /\ e[way.nodes[k]] <= e[way.nodes[h]] + Gap(M, way, h, k)
    BY <1>1, <2>2, <2>3, <2>4, HopBound
  <2>6. /\ Gap(M, way, i, k) = Gap(M, way, i, h) + Gap(M, way, h, k)
        /\ Gap(M, way, i, h) \in Nat /\ Gap(M, way, h, k) \in Nat
    BY <1>1, <2>2, GapsAddUp
  <2>7. e[way.nodes[i]] \in Nat /\ e[way.nodes[h]] \in Nat /\ e[way.nodes[k]] \in Nat
    BY <2>4, <2>5 DEF Unimprovable
  <2>8. PICK p, q, r, x, y \in Nat :
          /\ p = e[way.nodes[i]] /\ q = e[way.nodes[h]] /\ r = e[way.nodes[k]]
          /\ x = Gap(M, way, i, h) /\ y = Gap(M, way, h, k)
    BY <2>6, <2>7
  <2>9. q <= p + x /\ r <= q + y
    BY <2>4, <2>5, <2>8
  <2>10. r <= p + (x + y)
    BY <2>9
  <2>11. e[way.nodes[k]] <= e[way.nodes[i]] + Gap(M, way, i, k)
    BY <2>6, <2>8, <2>10
  <2>12. QED
    BY <2>5, <2>11
<1>4. \A d \in Nat : d \in S
  <2> HIDE DEF S
  <2>1. QED
    BY <1>2, <1>3, SetInduction
<1>5. PICK d \in Nat : j = i + d \/ i = j + d
  <2>1. CASE i <= j
    <3>1. j - i \in Nat /\ j = i + (j - i)
      BY <1>1, <2>1
    <3>2. QED
      BY <3>1
  <2>2. CASE j <= i
    <3>1. i - j \in Nat /\ i = j + (i - j)
      BY <1>1, <2>2
    <3>2. QED
      BY <3>1
  <2>3. QED
    BY <1>1, <2>1, <2>2
<1>6. Reached(j)
  BY <1>1, <1>4, <1>5
<1>7. QED
  BY <1>6

-----------------------------------------------------------------------------
(* The roads are no dearer than the edges.                                 *)
LEMMA NodeAtItsPlace ==
  ASSUME WellFormed, NEW n \in SplitNodes
  PROVE  NodeAt(extract.pos[n]) = n
<1>1. PICK v : v = extract.pos[n]
  OBVIOUS
<1>2. \E k \in SplitNodes : extract.pos[k] = v
  BY <1>1
<1>3. NodeAt(v) \in SplitNodes /\ extract.pos[NodeAt(v)] = v
  BY <1>2 DEF NodeAt
<1>4. QED
  BY <1>1, <1>3 DEF WellFormed

LEMMA EdgesArePricedToo ==
  ASSUME extract \in Extracts, NEW mode
  PROVE  /\ IsFiniteSet(Arcs(Edges(extract), mode, TRUE))
         /\ Priceable(Arcs(Edges(extract), mode, TRUE))
<1>1. IsExtract(extract)
  BY ExtractsAssumption
<1>2. PICK g : g = [w \in NodedWays(extract) |-> Priced(w)]
  OBVIOUS
<1>3. PICK E : E = Edges(extract)
  OBVIOUS
<1>4. DOMAIN g = NodedWays(extract) /\ E = {g[w] : w \in NodedWays(extract)}
  BY <1>2, <1>3 DEF Edges
<1>5. IsFiniteSet(E)
  BY <1>1, <1>4, NetworkFinite, FiniteImage
<1>6. \A w \in E : IsEdge(w)
  BY <1>1, <1>3, EdgesArePriced DEF Edges
<1>7. QED
  BY <1>3, <1>5, <1>6, ArcsOfEdges

LEMMA RoadsNoDearer ==
  ASSUME extract \in Extracts, WellFormed, NEW mode, NEW m \in SplitNodes,
         NEW road, road = Costs(RoadArcs(mode), m),
         NEW edge, edge = Costs(Arcs(Edges(extract), mode, TRUE), extract.pos[m]),
         NEW n \in SplitNodes, extract.pos[n] \in DOMAIN edge
  PROVE  n \in DOMAIN road /\ road[n] <= edge[extract.pos[n]]
<1>1. PICK M : Marks(M, mode)
  BY MarksExist
<1>2. PICK pos : pos = extract.pos
  OBVIOUS
<1>3. Unimprovable(road, RoadArcs(mode), m)
  BY RoadArcsArePriced, CostsAreCheapest
<1>4. PICK arcs : arcs = Arcs(Edges(extract), mode, TRUE)
  OBVIOUS
<1>5. PICK e : e = [v \in {pos[k] : k \in SplitNodes \intersect DOMAIN road} |-> road[NodeAt(v)]]
  OBVIOUS
<1>6. \A v : v \in DOMAIN e <=> \E k \in SplitNodes \intersect DOMAIN road : v = pos[k]
  BY <1>5
<1>7. \A k \in SplitNodes \intersect DOMAIN road : pos[k] \in DOMAIN e /\ e[pos[k]] = road[k]
  BY <1>2, <1>5, <1>6, NodeAtItsPlace
<1>8. ASSUME NEW k \in SplitNodes, pos[k] \in DOMAIN e PROVE k \in DOMAIN road
  BY <1>2, <1>6, <1>8 DEF WellFormed
<1>9. Unimprovable(e, arcs, pos[m])
  <2>1. pos[m] \in DOMAIN e /\ e[pos[m]] = 0
    BY <1>3, <1>7 DEF Unimprovable
  <2>2. \A v \in DOMAIN e : e[v] \in Nat
    BY <1>3, <1>6, <1>7 DEF Unimprovable
  <2>3. ASSUME NEW a \in arcs, a.from \in DOMAIN e
        PROVE  a.to \in DOMAIN e /\ e[a.to] <= e[a.from] + a.cost
    <3>1. PICK way \in WaysImport(extract) :
            \E i, j \in 1..Len(way.nodes) : IsPiece(M, way, a, i, j)
      BY <1>1, <1>4, ArcsArePieces
    <3>2. PICK i \in 1..Len(way.nodes), j \in 1..Len(way.nodes) : IsPiece(M, way, a, i, j)
      BY <3>1
    <3>3. PICK u, v : u = way.nodes[i] /\ v = way.nodes[j]
      OBVIOUS
    <3>4. /\ IsSpan(way, i, j) /\ Open(way, i, j)
          /\ a.from = pos[u] /\ a.to = pos[v] /\ a.cost = Gap(M, way, i, j)
      BY <1>2, <3>2, <3>3 DEF IsPiece
    <3>5. u \in SplitNodes /\ v \in SplitNodes
      <4>1. i \in Splits(extract, way) /\ j \in Splits(extract, way)
        BY <3>4, ExtractsAssumption, SpansAre DEF IsSpan
      <4>2. QED
        BY <3>3, <4>1 DEF SplitNodes
    <3>6. u \in DOMAIN road
      BY <1>8, <2>3, <3>4, <3>5
    <3>7. v \in DOMAIN road /\ road[v] <= road[u] + Gap(M, way, i, j)
      BY <1>1, <1>3, <3>2, <3>3, <3>4, <3>6, AlongTheWay
    <3>8. QED
      BY <1>7, <3>4, <3>5, <3>6, <3>7
  <2>4. QED
    BY <2>1, <2>2, <2>3 DEF Unimprovable
<1>10. NoDearer(e, edge)
  BY <1>2, <1>4, <1>9, EdgesArePricedToo, CostsAreCheapest
<1>11. pos[n] \in DOMAIN e /\ e[pos[n]] <= edge[pos[n]]
  BY <1>2, <1>10 DEF NoDearer
<1>12. QED
  BY <1>2, <1>7, <1>8, <1>11

-----------------------------------------------------------------------------
(* What a node costs by the edges: by an edge to a split node of one of    *)
(* its ways, and along that way with no other split node between.          *)
Joined(way, i, j) ==
  \A s \in Splits(extract, way) : ~(i < s /\ s < j) /\ ~(j < s /\ s < i)

IsOffer(M, cost, u, c, way, s, k) ==
  /\ way.nodes[k] = u /\ Joined(way, s, k) /\ Open(way, s, k)
  /\ extract.pos[way.nodes[s]] \in DOMAIN cost
  /\ c = cost[extract.pos[way.nodes[s]]] + Gap(M, way, s, k)

Offered(M, cost, u, c) ==
  \E way \in WaysImport(extract) : \E s \in Splits(extract, way), k \in 1..Len(way.nodes) :
    IsOffer(M, cost, u, c, way, s, k)

(* A split node is offered at its own cost.                                *)
LEMMA OwnOffer ==
  ASSUME extract \in Extracts, WellFormed, NEW mode, NEW M, Marks(M, mode),
         NEW cost, NEW start, Unimprovable(cost, Arcs(Edges(extract), mode, TRUE), start),
         NEW way \in WaysImport(extract), NEW s \in Splits(extract, way),
         extract.pos[way.nodes[s]] \in DOMAIN cost
  PROVE  Offered(M, cost, way.nodes[s], cost[extract.pos[way.nodes[s]]])
<1>1. s \in 1..Len(way.nodes) /\ Splits(extract, way) \subseteq 1..Len(way.nodes)
  BY ExtractsAssumption, SplitsArePositions
<1>2. Len(way.nodes) \in Nat
  BY ExtractsAssumption, NodesInPlace
<1>3. Joined(way, s, s) /\ Open(way, s, s)
  BY <1>1, <1>2 DEF Joined, Open
<1>4. Gap(M, way, s, s) = 0 /\ cost[extract.pos[way.nodes[s]]] \in Nat
  BY <1>1, GapsAddUp DEF Unimprovable
<1>5. IsOffer(M, cost, way.nodes[s], cost[extract.pos[way.nodes[s]]], way, s, s)
  BY <1>3, <1>4 DEF IsOffer
<1>6. QED
  BY <1>1, <1>5 DEF Offered

LEMMA OffersAreNatural ==
  ASSUME extract \in Extracts, WellFormed, NEW mode, NEW M, Marks(M, mode),
         NEW cost, NEW start, Unimprovable(cost, Arcs(Edges(extract), mode, TRUE), start),
         NEW u, NEW c, Offered(M, cost, u, c)
  PROVE  c \in Nat
<1>1. PICK way \in WaysImport(extract) :
        \E s \in Splits(extract, way), k \in 1..Len(way.nodes) : IsOffer(M, cost, u, c, way, s, k)
  BY DEF Offered
<1>2. PICK s \in Splits(extract, way), k \in 1..Len(way.nodes) : IsOffer(M, cost, u, c, way, s, k)
  BY <1>1
<1>3. s \in 1..Len(way.nodes)
  BY ExtractsAssumption, SplitsArePositions
<1>4. Gap(M, way, s, k) \in Nat
  BY <1>3, GapsAddUp
<1>5. cost[extract.pos[way.nodes[s]]] \in Nat
  BY <1>2 DEF IsOffer, Unimprovable
<1>6. QED
  BY <1>2, <1>4, <1>5 DEF IsOffer

(* No offer for a split node is below what the edges make it cost.         *)
LEMMA SplitCostsNoMore ==
  ASSUME extract \in Extracts, WellFormed, NEW mode, NEW M, Marks(M, mode),
         NEW cost, NEW start, Unimprovable(cost, Arcs(Edges(extract), mode, TRUE), start),
         NEW u \in SplitNodes, NEW c, Offered(M, cost, u, c)
  PROVE  extract.pos[u] \in DOMAIN cost /\ cost[extract.pos[u]] <= c
<1>1. PICK way \in WaysImport(extract) :
        \E s \in Splits(extract, way), k \in 1..Len(way.nodes) : IsOffer(M, cost, u, c, way, s, k)
  BY DEF Offered
<1>2. PICK s \in Splits(extract, way), k \in 1..Len(way.nodes) : IsOffer(M, cost, u, c, way, s, k)
  BY <1>1
<1>3. PICK p : p = extract.pos[way.nodes[s]]
  OBVIOUS
<1>4. /\ way.nodes[k] = u /\ Joined(way, s, k) /\ Open(way, s, k)
      /\ p \in DOMAIN cost /\ c = cost[p] + Gap(M, way, s, k)
  BY <1>2, <1>3 DEF IsOffer
<1>5. PICK n \in Nat : n = Len(way.nodes)
  BY ExtractsAssumption, NodesInPlace
<1>6. s \in 1..n /\ k \in 1..n
  BY <1>5, ExtractsAssumption, SplitsArePositions
<1>7. k \in Splits(extract, way)
  BY <1>4, <1>5, <1>6, ExtractsAssumption, SplitAtEverySlot
<1>8. CASE s = k
  <2>1. Gap(M, way, s, k) = 0 /\ cost[p] \in Nat
    BY <1>4, <1>5, <1>6, <1>8, GapsAddUp DEF Unimprovable
  <2>2. QED
    BY <1>3, <1>4, <1>8, <2>1
<1>9. CASE s # k
  <2>1. IsSpan(way, s, k)
    <3>1. s < k \/ k < s
      BY <1>6, <1>9
    <3>2. QED
      BY <1>4, <1>7, <3>1, ExtractsAssumption, SpansAre DEF IsSpan, Joined
  <2>2. PICK a \in Arcs(Edges(extract), mode, TRUE) : IsPiece(M, way, a, s, k)
    BY <1>4, <1>5, <1>6, <2>1, PiecesHaveArcs
  <2>3. a.from = p /\ a.to = extract.pos[u] /\ a.cost = Gap(M, way, s, k)
    BY <1>3, <1>4, <2>2 DEF IsPiece
  <2>4. QED
    BY <1>4, <2>2, <2>3 DEF Unimprovable
<1>10. QED
  BY <1>8, <1>9

(* An offer for a node makes one for the next node of the road.            *)
LEMMA OfferMovesOn ==
  ASSUME extract \in Extracts, WellFormed, NEW mode, NEW M, Marks(M, mode),
         NEW cost, NEW start, Unimprovable(cost, Arcs(Edges(extract), mode, TRUE), start),
         NEW way \in WaysImport(extract),
         NEW i \in 1..Len(way.nodes), NEW j \in 1..Len(way.nodes),
         j = i + 1 \/ i = j + 1, Open(way, i, j),
         NEW c, Offered(M, cost, way.nodes[i], c)
  PROVE  \E d : Offered(M, cost, way.nodes[j], d) /\ d <= c + Gap(M, way, i, j)
<1>1. PICK n \in Nat : n = Len(way.nodes)
  BY ExtractsAssumption, NodesInPlace
<1>2. Splits(extract, way) \subseteq 1..n
  BY <1>1, ExtractsAssumption, SplitsArePositions
<1>3. c \in Nat /\ Gap(M, way, i, j) \in Nat
  BY OffersAreNatural, GapsAddUp
<1>4. CASE i \in Splits(extract, way)
  <2>1. PICK p : p = extract.pos[way.nodes[i]]
    OBVIOUS
  <2>2. way.nodes[i] \in SplitNodes
    BY <1>4 DEF SplitNodes
  <2>3. p \in DOMAIN cost /\ cost[p] <= c
    BY <2>1, <2>2, SplitCostsNoMore
  <2>4. Joined(way, i, j)
    BY <1>1, <1>2 DEF Joined
  <2>5. PICK d : d = cost[p] + Gap(M, way, i, j)
    OBVIOUS
  <2>6. IsOffer(M, cost, way.nodes[j], d, way, i, j)
    BY <2>1, <2>3, <2>4, <2>5 DEF IsOffer
  <2>7. Offered(M, cost, way.nodes[j], d)
    BY <1>4, <2>6 DEF Offered
  <2>8. cost[p] \in Nat
    BY <2>3 DEF Unimprovable
  <2>9. QED
    BY <1>3, <2>3, <2>5, <2>7, <2>8
<1>5. CASE i \notin Splits(extract, way)
  <2>1. PICK other \in WaysImport(extract) :
          \E s \in Splits(extract, other), k \in 1..Len(other.nodes) :
            IsOffer(M, cost, way.nodes[i], c, other, s, k)
    BY DEF Offered
  <2>2. PICK s \in Splits(extract, other), k \in 1..Len(other.nodes) :
          IsOffer(M, cost, way.nodes[i], c, other, s, k)
    BY <2>1
  <2>3. way.nodes[i] = other.nodes[k]
    BY <2>2 DEF IsOffer
  <2>4. way = other /\ i = k
    BY <1>5, <2>3, ExtractsAssumption, OneSlot
  <2>5. PICK p : p = extract.pos[way.nodes[s]]
    OBVIOUS
  <2>6. /\ s \in Splits(extract, way) /\ s \in 1..n /\ s # i
        /\ Joined(way, s, i) /\ Open(way, s, i)
        /\ p \in DOMAIN cost /\ c = cost[p] + Gap(M, way, s, i)
    BY <1>2, <1>5, <2>2, <2>4, <2>5 DEF IsOffer
  <2>7. Joined(way, s, j)
    <3>1. \A t \in Splits(extract, way) : t \in 1..n /\ t # i
      BY <1>2, <1>5
    <3>2. QED
      BY <1>1, <2>6, <3>1 DEF Joined
  <2>8. Open(way, s, j)
    BY <1>1, <2>6 DEF Open
  <2>9. PICK d : d = cost[p] + Gap(M, way, s, j)
    OBVIOUS
  <2>10. IsOffer(M, cost, way.nodes[j], d, way, s, j)
    BY <2>5, <2>6, <2>7, <2>8, <2>9 DEF IsOffer
  <2>11. Offered(M, cost, way.nodes[j], d)
    BY <2>6, <2>10 DEF Offered
  <2>12. /\ Gap(M, way, s, j) <= Gap(M, way, s, i) + Gap(M, way, i, j)
         /\ Gap(M, way, s, j) \in Nat /\ Gap(M, way, s, i) \in Nat
    BY <1>1, <2>6, GapsAddUp
  <2>13. cost[p] \in Nat
    BY <2>6 DEF Unimprovable
  <2>14. d <= c + Gap(M, way, i, j)
    BY <1>3, <2>6, <2>9, <2>12, <2>13
  <2>15. QED
    BY <2>11, <2>14
<1>6. QED
  BY <1>4, <1>5

(* The edges are no dearer than the roads: the cheapest offers are costs   *)
(* that no road improves.                                                  *)
LEMMA EdgesNoDearer ==
  ASSUME extract \in Extracts, WellFormed, NEW mode, NEW m \in SplitNodes,
         NEW road, road = Costs(RoadArcs(mode), m),
         NEW edge, edge = Costs(Arcs(Edges(extract), mode, TRUE), extract.pos[m]),
         NEW n \in SplitNodes, n \in DOMAIN road
  PROVE  extract.pos[n] \in DOMAIN edge /\ edge[extract.pos[n]] <= road[n]
<1>1. PICK M : Marks(M, mode)
  BY MarksExist
<1>2. PICK start : start = extract.pos[m]
  OBVIOUS
<1>3. Unimprovable(edge, Arcs(Edges(extract), mode, TRUE), start)
  BY <1>2, EdgesArePricedToo, CostsAreCheapest
<1>4. \A u, c : Offered(M, edge, u, c) => c \in Nat
  BY <1>1, <1>3, OffersAreNatural
<1>5. PICK arcs : arcs = RoadArcs(mode)
  OBVIOUS
<1>6. PICK U : U = {u \in {m} \union {a.to : a \in arcs} : \E c : Offered(M, edge, u, c)}
  OBVIOUS
<1>7. PICK e : e = [u \in U |-> Min({c \in Nat : Offered(M, edge, u, c)})]
  OBVIOUS
<1>8. ASSUME NEW u \in U
      PROVE  e[u] \in Nat /\ Offered(M, edge, u, e[u])
  <2>1. PICK C : C = {c \in Nat : Offered(M, edge, u, c)}
    OBVIOUS
  <2>2. C \in SUBSET Nat /\ C # {}
    BY <1>4, <1>6, <2>1
  <2>3. Min(C) \in C
    BY <2>2, LeastOfNaturals
  <2>4. e[u] = Min(C)
    BY <1>7, <2>1
  <2>5. QED
    BY <2>1, <2>3, <2>4
<1>9. ASSUME NEW u \in U, NEW c, Offered(M, edge, u, c)
      PROVE  e[u] <= c
  <2>1. PICK C : C = {d \in Nat : Offered(M, edge, u, d)}
    OBVIOUS
  <2>2. C \in SUBSET Nat /\ C # {} /\ c \in C
    BY <1>4, <1>9, <2>1
  <2>3. Min(C) <= c
    BY <2>2, LeastOfNaturals
  <2>4. e[u] = Min(C)
    BY <1>7, <2>1
  <2>5. QED
    BY <2>3, <2>4
<1>10. Unimprovable(e, arcs, m)
  <2>1. m \in DOMAIN e /\ e[m] = 0
    <3>1. PICK way \in WaysImport(extract) : \E s \in Splits(extract, way) : m = way.nodes[s]
      BY DEF SplitNodes
    <3>2. PICK s \in Splits(extract, way) : m = way.nodes[s]
      BY <3>1
    <3>3. start \in DOMAIN edge /\ edge[start] = 0
      BY <1>3 DEF Unimprovable
    <3>4. Offered(M, edge, m, 0)
      BY <1>1, <1>2, <1>3, <3>2, <3>3, OwnOffer
    <3>5. m \in U
      BY <1>6, <3>4
    <3>6. e[m] <= 0 /\ e[m] \in Nat
      BY <1>8, <1>9, <3>4, <3>5
    <3>7. QED
      BY <1>7, <3>5, <3>6
  <2>2. \A u \in DOMAIN e : e[u] \in Nat
    BY <1>7, <1>8
  <2>3. ASSUME NEW a \in arcs, a.from \in DOMAIN e
        PROVE  a.to \in DOMAIN e /\ e[a.to] <= e[a.from] + a.cost
    <3>1. PICK way \in WaysImport(extract) :
            \E i, j \in 1..Len(way.nodes) : IsHop(M, way, a, i, j)
      BY <1>1, <1>5, RoadArcsAre
    <3>2. PICK i \in 1..Len(way.nodes), j \in 1..Len(way.nodes) : IsHop(M, way, a, i, j)
      BY <3>1
    <3>3. PICK u, v : u = way.nodes[i] /\ v = way.nodes[j]
      OBVIOUS
    <3>4. /\ j = i + 1 \/ i = j + 1
          /\ Open(way, i, j)
          /\ a.from = u /\ a.to = v /\ a.cost = Gap(M, way, i, j)
      BY <3>2, <3>3 DEF IsHop, RoadArc
    <3>5. u \in U
      BY <1>7, <2>3, <3>4
    <3>6. PICK c : c = e[u]
      OBVIOUS
    <3>7. c \in Nat /\ Offered(M, edge, u, c)
      BY <1>8, <3>5, <3>6
    <3>8. PICK d : Offered(M, edge, v, d) /\ d <= c + Gap(M, way, i, j)
      BY <1>1, <1>3, <3>2, <3>3, <3>4, <3>7, OfferMovesOn
    <3>9. v \in U
      BY <1>6, <3>4, <3>8
    <3>10. e[v] <= d /\ e[v] \in Nat /\ d \in Nat
      BY <1>4, <1>8, <1>9, <3>8, <3>9
    <3>11. Gap(M, way, i, j) \in Nat
      BY <1>1, <3>2, GapsAddUp
    <3>12. QED
      BY <1>7, <3>4, <3>6, <3>7, <3>8, <3>9, <3>10, <3>11
  <2>4. QED
    BY <2>1, <2>2, <2>3 DEF Unimprovable
<1>11. NoDearer(e, road)
  BY <1>5, <1>10, RoadArcsArePriced, CostsAreCheapest
<1>12. n \in U /\ e[n] <= road[n]
  BY <1>7, <1>11 DEF NoDearer
<1>13. extract.pos[n] \in DOMAIN edge /\ edge[extract.pos[n]] <= e[n]
  BY <1>1, <1>3, <1>8, <1>12, SplitCostsNoMore
<1>14. edge[extract.pos[n]] \in Nat /\ e[n] \in Nat /\ road[n] \in Nat
  <2>1. Unimprovable(road, RoadArcs(mode), m)
    BY RoadArcsArePriced, CostsAreCheapest
  <2>2. QED
    BY <1>3, <1>8, <1>12, <1>13, <2>1 DEF Unimprovable
<1>15. PICK p, q, r \in Nat : p = edge[extract.pos[n]] /\ q = e[n] /\ r = road[n]
  BY <1>14
<1>16. p <= q /\ q <= r
  BY <1>12, <1>13, <1>15
<1>17. p <= r
  BY <1>16
<1>18. QED
  BY <1>13, <1>15, <1>17

-----------------------------------------------------------------------------
(* Journeys by road and by edge cost the same.                             *)
SameCost(road, edge, n, v) ==
  /\ n \in DOMAIN road <=> v \in DOMAIN edge
  /\ n \in DOMAIN road => road[n] = edge[v]

LEMMA JourneysAgree ==
  ASSUME extract \in Extracts, WellFormed, NEW mode,
         NEW m \in SplitNodes, NEW n \in SplitNodes,
         NEW road, road = Costs(RoadArcs(mode), m),
         NEW edge, edge = Costs(Arcs(Edges(extract), mode, TRUE), extract.pos[m])
  PROVE  SameCost(road, edge, n, extract.pos[n])
<1>1. PICK v : v = extract.pos[n]
  OBVIOUS
<1>2. v \in DOMAIN edge => n \in DOMAIN road /\ road[n] <= edge[v]
  BY <1>1, RoadsNoDearer
<1>3. n \in DOMAIN road => v \in DOMAIN edge /\ edge[v] <= road[n]
  BY <1>1, EdgesNoDearer
<1>4. Unimprovable(road, RoadArcs(mode), m)
  BY RoadArcsArePriced, CostsAreCheapest
<1>5. Unimprovable(edge, Arcs(Edges(extract), mode, TRUE), extract.pos[m])
  BY EdgesArePricedToo, CostsAreCheapest
<1>6. n \in DOMAIN road => road[n] \in Nat
  BY <1>4 DEF Unimprovable
<1>7. v \in DOMAIN edge => edge[v] \in Nat
  BY <1>5 DEF Unimprovable
<1>8. n \in DOMAIN road <=> v \in DOMAIN edge
  BY <1>2, <1>3
<1>9. ASSUME n \in DOMAIN road PROVE road[n] = edge[v]
  <2>1. PICK p, q \in Nat : p = road[n] /\ q = edge[v]
    BY <1>6, <1>7, <1>8, <1>9
  <2>2. p <= q /\ q <= p
    BY <1>2, <1>3, <1>8, <1>9, <2>1
  <2>3. p = q
    BY <2>2
  <2>4. QED
    BY <2>1, <2>3
<1>10. QED
  BY <1>1, <1>8, <1>9 DEF SameCost

LEMMA RoadsKept == Staged => NodingKeepsTheRoads
<1> SUFFICES ASSUME Staged, stage = "cost", WellFormed,
                    NEW m \in SplitNodes, NEW mode \in {"distance", "time"},
                    NEW n \in SplitNodes
             PROVE  SameCost(Costs(RoadArcs(mode), m),
                             Costs(Arcs(ways, mode, TRUE), extract.pos[m]), n, extract.pos[n])
  BY DEF NodingKeepsTheRoads, SameCost
<1>1. extract \in Extracts /\ ways = Edges(extract)
  BY DEF Staged
<1>2. PICK road : road = Costs(RoadArcs(mode), m)
  OBVIOUS
<1>3. PICK edge : edge = Costs(Arcs(Edges(extract), mode, TRUE), extract.pos[m])
  OBVIOUS
<1>4. SameCost(road, edge, n, extract.pos[n])
  BY <1>1, <1>2, <1>3, JourneysAgree
<1>5. QED
  BY <1>1, <1>2, <1>3, <1>4

\* From each split node the edges that 01_node_network.sql cuts and
\* 02_cost_columns.sql prices reach exactly the nodes the roads of the extract
\* reach, at the same length and in the same time.
THEOREM NodingKeepsRoads == Spec => []NodingKeepsTheRoads
<1>1. Staged => NodingKeepsTheRoads
  BY RoadsKept
<1>2. QED
  BY <1>1, StagesInOrder, PTL

-----------------------------------------------------------------------------
(* Every vertex is a split node's place, and every facility on a vertex.   *)
LEMMA VerticesAreSplitNodes ==
  ASSUME extract \in Extracts, WellFormed, NEW v \in ExtractVertices(NodedWays(extract))
  PROVE  NodeAt(v) \in SplitNodes /\ extract.pos[NodeAt(v)] = v
<1>1. PICK e \in NodedWays(extract) : v = e.source \/ v = e.target
  BY DEF ExtractVertices
<1>2. PICK way \in WaysImport(extract) :
        \E span \in Spans(extract, way) : e = EdgeOf(extract, way, span[1], span[2])
  BY DEF NodedWays
<1>3. PICK span \in Spans(extract, way) : e = EdgeOf(extract, way, span[1], span[2])
  BY <1>2
<1>4. PICK i, j : i = span[1] /\ j = span[2]
  OBVIOUS
<1>5. i \in Splits(extract, way) /\ j \in Splits(extract, way)
  BY <1>4 DEF Spans, WellFormed
<1>6. PICK M : Marks(M, "distance")
  BY MarksExist
<1>7. PICK w : w = Priced(e)
  OBVIOUS
<1>8. /\ w.source \in {extract.pos[way.nodes[i]], extract.pos[way.nodes[j]]}
      /\ w.target \in {extract.pos[way.nodes[i]], extract.pos[way.nodes[j]]}
  BY <1>3, <1>4, <1>6, <1>7, EdgeOfPiece
<1>9. w.source = e.source /\ w.target = e.target
  <2>1. PICK line : line = IF OnewayDirection(way) = -1
                           THEN Reverse(SubSeq(Line(extract, way.nodes), i, j))
                           ELSE SubSeq(Line(extract, way.nodes), i, j)
    OBVIOUS
  <2>2. e = [gid |-> <<way.id, i, j>>, tag_id |-> TagIdByHighway[way.highway],
             maxspeed |-> ParseMaxspeed(way.maxspeed),
             oneway |-> Absolute(OnewayDirection(way)), geom |-> line,
             source |-> line[1], target |-> line[Len(line)],
             cost_distance |-> Null, cost_time |-> Null]
    BY <1>3, <1>4, <2>1 DEF EdgeOf
  <2>3. PICK a, b, c, d, g, s, t :
          e = [gid |-> a, tag_id |-> b, maxspeed |-> c, oneway |-> d, geom |-> g,
               source |-> s, target |-> t, cost_distance |-> Null, cost_time |-> Null]
    BY <2>2
  <2>4. PICK h, k : w = [e EXCEPT !.cost_distance = h, !.cost_time = k]
    BY <1>7 DEF Priced
  <2>5. QED
    BY <2>3, <2>4
<1>10. PICK n \in SplitNodes : extract.pos[n] = v
  BY <1>1, <1>5, <1>8, <1>9 DEF SplitNodes
<1>11. QED
  BY <1>10, NodeAtItsPlace

LEMMA FacilitiesOnVertices ==
  ASSUME Staged, stage = "facilities", NEW f \in facilities
  PROVE  f.vertex \in vertices
<1>1. IsExtract(extract) /\ vertices = ExtractVertices(NodedWays(extract))
  BY ExtractsAssumption DEF Staged
<1>2. PICK F : F = Facilities(extract)
  OBVIOUS
<1>3. PICK nearest \in NearestVertices(F, vertices) :
        facilities = Categorised(Snapped(F, nearest))
  BY <1>1, <1>2 DEF Staged, SnappedFrom
<1>4. facilities = {AttachedRow(g, nearest) : g \in {h \in F : WithinReach(h, nearest)}}
  BY <1>2, <1>3, FacilitiesUnsnapped, SnappedRows
<1>5. PICK g \in F : f = AttachedRow(g, nearest) /\ WithinReach(g, nearest)
  BY <1>4
<1>6. f.vertex = nearest[g.id] /\ nearest[g.id] # Null
  BY <1>5 DEF AttachedRow, Row, WithinReach
<1>7. nearest[g.id] \in vertices \union {Null}
  BY <1>3, <1>5 DEF NearestVertices, Nearest
<1>8. QED
  BY <1>6, <1>7

-----------------------------------------------------------------------------
(* The rows for the facilities at the ends of the paths, and the ones that *)
(* are left over by LIMIT.                                                 *)
CostOf(paths, f) == Total(PathCosts(paths[f.vertex]))

RowsFor(routes, paths) ==
  /\ \A r \in routes : \E f \in facilities :
       f.vertex \in DOMAIN paths /\ r.facility = f.id /\ r.total_cost = CostOf(paths, f)
  /\ \A f \in facilities : f.vertex \in DOMAIN paths =>
       \E r \in routes : r.facility = f.id /\ r.total_cost = CostOf(paths, f)
  /\ \A r, s \in routes : s.facility = r.facility => s = r

LEMMA PlainRowsFor ==
  ASSUME Attached, NEW paths
  PROVE  RowsFor(RoutesByVertex(paths), paths)
<1>1. \A s : s \in RoutesByVertex(paths) <=>
        \E f \in facilities : f.vertex \in DOMAIN paths /\ s = Route(f, paths[f.vertex])
  BY DEF RoutesByVertex, OnVertex
<1>2. \A f : /\ Route(f, paths[f.vertex]).facility = f.id
             /\ Route(f, paths[f.vertex]).total_cost = CostOf(paths, f)
  BY DEF Route, SumOver, PathCosts, CostOf
<1>3. \A f, g \in facilities : f.id = g.id => f = g
  BY DEF Attached
<1>4. QED
  BY <1>1, <1>2, <1>3 DEF RowsFor

LEMMA WideRowsFor ==
  ASSUME Attached, NEW paths
  PROVE  RowsFor(WithAttributes(RoutesByVertex(paths)), paths)
<1>1. \A r : r \in WithAttributes(RoutesByVertex(paths)) <=>
        \E f \in facilities : f.vertex \in DOMAIN paths /\ r = RowOf(f, paths)
  BY RowsOfFacilities
<1>2. \A f : /\ RowOf(f, paths).facility = f.id
             /\ RowOf(f, paths).total_cost = CostOf(paths, f)
  BY RowCosts DEF CostOf
<1>3. \A f, g \in facilities : f.id = g.id => f = g
  BY DEF Attached
<1>4. QED
  BY <1>1, <1>2, <1>3 DEF RowsFor

(* What LIMIT leaves over is no cheaper than any row.                      *)
LEMMA LeftOver ==
  ASSUME NEW routes, IsFiniteSet(routes), NEW k \in Nat, NEW n, n = Min({k, Cardinality(routes)}),
         NEW t, Ordered(t, routes, n), NEW r \in routes, \A i \in 1..n : t[i] # r
  PROVE  n = k /\ \A i \in 1..n : t[i].total_cost <= r.total_cost
<1>1. PICK C \in Nat : C = Cardinality(routes)
  BY FS_CardinalityType
<1>2. n \in Nat /\ (n = k \/ n = C)
  BY <1>1 DEF Min
<1>3. /\ t \in [1..n -> routes]
      /\ \A i \in 1..n : \A j \in 1..(i - 1) : t[j] # t[i]
      /\ \A i \in 1..n : \A s \in routes \ {t[j] : j \in 1..i} : t[i].total_cost <= s.total_cost
  BY DEF Ordered
<1>4. n # C
  <2>1. PICK R : R = routes \ {r}
    OBVIOUS
  <2>2. IsFiniteSet(R) /\ Cardinality(R) = C - 1
    BY <1>1, <2>1, FS_RemoveElement
  <2>3. t \in Injection(1..n, R)
    <3>1. t \in [1..n -> R]
      BY <1>3, <2>1
    <3>2. ASSUME NEW i \in 1..n, NEW j \in 1..n, t[i] = t[j] PROVE i = j
      <4>1. i < j => i \in 1..(j - 1)
        BY <1>2
      <4>2. j < i => j \in 1..(i - 1)
        BY <1>2
      <4>3. ~(i < j) /\ ~(j < i)
        BY <1>3, <3>2, <4>1, <4>2
      <4>4. QED
        BY <1>2, <4>3
    <3>3. QED
      BY <3>1, <3>2 DEF Injection, IsInjective
  <2>4. Cardinality(1..n) <= Cardinality(R)
    BY <2>2, <2>3, FS_Injection
  <2>5. Cardinality(1..n) = n
    <3>1. n \in Int /\ 1 \in Int /\ (1 > n => n = 0) /\ n - 1 + 1 = n
      BY <1>2
    <3>2. QED
      BY <3>1, FS_Interval
  <2>6. QED
    BY <1>1, <1>2, <2>2, <2>4, <2>5
<1>5. ASSUME NEW i \in 1..n PROVE t[i].total_cost <= r.total_cost
  <2>1. \A j \in 1..i : j \in 1..n
    BY <1>2
  <2>2. r \notin {t[j] : j \in 1..i}
    BY <2>1
  <2>3. QED
    BY <1>3, <2>2
<1>6. QED
  BY <1>2, <1>4, <1>5

(* An answer by the costs from the incident's vertex: rows at their costs, *)
(* and every facility reached is served or behind k rows.                  *)
ServedByCost(a, k, reached, c) ==
  /\ \A i \in DOMAIN a.rows : \E f \in facilities :
       f.vertex \in reached /\ a.rows[i].facility = f.id /\ a.rows[i].total_cost = c[f.vertex]
  /\ \A f \in facilities : f.vertex \in reached =>
       \/ \E i \in DOMAIN a.rows : a.rows[i].facility = f.id
       \/ Len(a.rows) = k /\ \A i \in DOMAIN a.rows : a.rows[i].total_cost <= c[f.vertex]

LEMMA RankedByCost ==
  ASSUME Attached, NEW paths, NEW c, PricedFor(paths, c), NEW routes, RowsFor(routes, paths),
         NEW k \in Nat, NEW a \in Ranked(routes, k)
  PROVE  ServedByCost(a, k, DOMAIN paths, c)
<1>1. IsFiniteSet(routes)
  <2>1. /\ \A r \in routes : \E f \in facilities : f.id = r.facility
        /\ \A r, s \in routes : s.facility = r.facility => s = r
    BY DEF RowsFor
  <2>2. QED
    BY <2>1, OneRowEach
<1>2. PICK n : n = Min({k, Cardinality(routes)})
  OBVIOUS
<1>3. n \in Nat
  <2>1. Cardinality(routes) \in Nat
    BY <1>1, FS_CardinalityType
  <2>2. QED
    BY <1>2, <2>1 DEF Min
<1>4. PICK t : a = Rows(t) /\ Ordered(t, routes, n)
  BY <1>2, RankedIsOrdered
<1>5. a.rows = t /\ DOMAIN t = 1..n /\ Len(t) = n /\ \A i \in 1..n : t[i] \in routes
  BY <1>3, <1>4 DEF Rows, Ordered
<1>6. \A f : f.vertex \in DOMAIN paths => CostOf(paths, f) = c[f.vertex]
  BY DEF CostOf, PricedFor
<1>7. ASSUME NEW i \in DOMAIN a.rows
      PROVE  \E f \in facilities : /\ f.vertex \in DOMAIN paths
                                   /\ a.rows[i].facility = f.id
                                   /\ a.rows[i].total_cost = c[f.vertex]
  BY <1>5, <1>6 DEF RowsFor
<1>8. ASSUME NEW f \in facilities, f.vertex \in DOMAIN paths,
             ~ \E i \in DOMAIN a.rows : a.rows[i].facility = f.id
      PROVE  Len(a.rows) = k /\ \A i \in DOMAIN a.rows : a.rows[i].total_cost <= c[f.vertex]
  <2>1. PICK r \in routes : r.facility = f.id /\ r.total_cost = CostOf(paths, f)
    BY <1>8 DEF RowsFor
  <2>2. \A i \in 1..n : t[i] # r
    BY <1>5, <1>8, <2>1
  <2>3. n = k /\ \A i \in 1..n : t[i].total_cost <= r.total_cost
    BY <1>1, <1>2, <1>4, <2>2, LeftOver
  <2>4. QED
    BY <1>5, <1>6, <1>8, <2>1, <2>3
<1>9. QED
  BY <1>7, <1>8 DEF ServedByCost

-----------------------------------------------------------------------------
(* What the property says of an answer that was searched from v.           *)
NoneCloserFrom(q, a, v) ==
  LET road  == Costs(RoadArcs(q.cost_mode), NodeAt(v))
      At(f) == NodeAt(f.vertex)
  IN  /\ \A i \in DOMAIN a.rows :
           a.rows[i].total_cost = road[At(Facility(a.rows[i].facility))]
      /\ \A f \in MustServe(q) :
           \/ \E i \in DOMAIN a.rows : a.rows[i].facility = f.id
           \/ f.vertex = v \/ At(f) \notin DOMAIN road
           \/ /\ Len(a.rows) = q.k
              /\ \A i \in DOMAIN a.rows : a.rows[i].total_cost <= road[At(f)]

LEMMA FacilityOfRow ==
  ASSUME Attached, NEW f \in facilities
  PROVE  Facility(f.id) = f
  BY DEF Attached, Facility

(* Costs by the edges are costs by road.                                   *)
LEMMA ServedByRoad ==
  ASSUME Staged, stage = "facilities", WellFormed, NEW q \in Questions, EdgesInBox(q) = ways,
         NEW v \in vertices, NEW c, c = Costs(Arcs(EdgesInBox(q), q.cost_mode, TRUE), v),
         NEW a, ServedByCost(a, q.k, (Vertices(WantedInBox(q)) \intersect DOMAIN c) \ {v}, c)
  PROVE  NoneCloserFrom(q, a, v)
<1>1. /\ extract \in Extracts /\ ways = Edges(extract)
      /\ vertices = ExtractVertices(NodedWays(extract))
  BY DEF Staged
<1>2. PICK m : m = NodeAt(v)
  OBVIOUS
<1>3. m \in SplitNodes /\ extract.pos[m] = v
  BY <1>1, <1>2, VerticesAreSplitNodes
<1>4. PICK road : road = Costs(RoadArcs(q.cost_mode), m)
  OBVIOUS
<1>5. c = Costs(Arcs(Edges(extract), q.cost_mode, TRUE), extract.pos[m])
  BY <1>1, <1>3
<1>6. ASSUME NEW f \in facilities
      PROVE  SameCost(road, c, NodeAt(f.vertex), f.vertex)
  <2>1. f.vertex \in ExtractVertices(NodedWays(extract))
    BY <1>1, FacilitiesOnVertices
  <2>2. PICK n : n = NodeAt(f.vertex)
    OBVIOUS
  <2>3. n \in SplitNodes /\ extract.pos[n] = f.vertex
    BY <1>1, <2>1, <2>2, VerticesAreSplitNodes
  <2>4. SameCost(road, c, n, extract.pos[n])
    BY <1>1, <1>3, <1>4, <1>5, <2>3, JourneysAgree
  <2>5. QED
    BY <2>2, <2>3, <2>4
<1>7. PICK reached : reached = (Vertices(WantedInBox(q)) \intersect DOMAIN c) \ {v}
  OBVIOUS
<1>8. ServedByCost(a, q.k, reached, c)
  BY <1>7
<1>9. ASSUME NEW i \in DOMAIN a.rows
      PROVE  a.rows[i].total_cost = road[NodeAt(Facility(a.rows[i].facility).vertex)]
  <2>1. PICK f \in facilities : /\ f.vertex \in reached /\ a.rows[i].facility = f.id
                                /\ a.rows[i].total_cost = c[f.vertex]
    BY <1>8 DEF ServedByCost
  <2>2. Facility(f.id) = f
    BY FacilitiesAttached, FacilityOfRow
  <2>3. road[NodeAt(f.vertex)] = c[f.vertex]
    BY <1>6, <1>7, <2>1 DEF SameCost
  <2>4. QED
    BY <2>1, <2>2, <2>3
<1>10. ASSUME NEW f \in MustServe(q), f.vertex # v, NodeAt(f.vertex) \in DOMAIN road
       PROVE  \/ \E i \in DOMAIN a.rows : a.rows[i].facility = f.id
              \/ /\ Len(a.rows) = q.k
                 /\ \A i \in DOMAIN a.rows : a.rows[i].total_cost <= road[NodeAt(f.vertex)]
  <2>1. f \in facilities /\ f \in WantedInBox(q)
    BY FacilitiesAttached, PrefilterDropsNothing DEF MustServe, Wanted, Attached
  <2>2. f.vertex \in DOMAIN c /\ road[NodeAt(f.vertex)] = c[f.vertex]
    BY <1>6, <1>10, <2>1 DEF SameCost
  <2>3. f.vertex \in reached
    BY <1>7, <1>10, <2>1, <2>2 DEF Vertices
  <2>4. \/ \E i \in DOMAIN a.rows : a.rows[i].facility = f.id
        \/ Len(a.rows) = q.k /\ \A i \in DOMAIN a.rows : a.rows[i].total_cost <= c[f.vertex]
    BY <1>8, <2>1, <2>3 DEF ServedByCost
  <2>5. QED
    BY <2>2, <2>4
<1>11. QED
  BY <1>2, <1>4, <1>9, <1>10 DEF NoneCloserFrom

(* The search that v6 to v8 make from one vertex.                          *)
LEMMA NothingWanted ==
  ASSUME Staged, stage = "facilities", NEW q \in Questions, WantedInBox(q) = {}, NEW v
  PROVE  NoneCloserFrom(q, Rows(<<>>), v)
<1>1. MustServe(q) = {}
  BY FacilitiesAttached, PrefilterDropsNothing DEF MustServe, Wanted, Attached
<1>2. Rows(<<>>).rows = <<>> /\ DOMAIN Rows(<<>>).rows = {}
  BY DEF Rows
<1>3. QED
  BY <1>1, <1>2 DEF NoneCloserFrom

LEMMA SearchServes ==
  ASSUME Staged, stage = "facilities", NEW q \in Questions, NEW v,
         NEW c, c = Costs(Arcs(EdgesInBox(q), q.cost_mode, TRUE), v),
         NEW paths \in WideSearchOf(q, v), NEW routes, RowsFor(routes, paths),
         NEW a \in Ranked(routes, q.k)
  PROVE  ServedByCost(a, q.k, (Vertices(WantedInBox(q)) \intersect DOMAIN c) \ {v}, c)
<1>1. /\ DOMAIN paths = (Vertices(WantedInBox(q)) \intersect DOMAIN c) \ {v}
      /\ PricedFor(paths, c)
  <2>1. PICK d : d = c /\ d = Costs(Arcs(EdgesInBox(q), q.cost_mode, TRUE), v)
    OBVIOUS
  <2>2. /\ DOMAIN paths = (Vertices(WantedInBox(q)) \intersect DOMAIN d) \ {v}
        /\ PricedFor(paths, d)
    BY <2>1, SearchIsPriced
  <2>3. QED
    BY <2>1, <2>2
<1>2. q.k \in Nat
  BY QuestionsAssumption
<1>3. ServedByCost(a, q.k, DOMAIN paths, c)
  BY <1>1, <1>2, FacilitiesAttached, RankedByCost
<1>4. QED
  BY <1>1, <1>3

LEMMA SearchLeavesNoneCloser ==
  ASSUME Staged, stage = "facilities", WellFormed, NEW q \in Questions, EdgesInBox(q) = ways,
         NEW v \in vertices, NEW paths \in WideSearchOf(q, v), NEW routes, RowsFor(routes, paths),
         NEW a \in Ranked(routes, q.k)
  PROVE  NoneCloserFrom(q, a, v)
<1>1. PICK c : c = Costs(Arcs(EdgesInBox(q), q.cost_mode, TRUE), v)
  OBVIOUS
<1>2. ServedByCost(a, q.k, (Vertices(WantedInBox(q)) \intersect DOMAIN c) \ {v}, c)
  BY <1>1, SearchServes
<1>3. QED
  BY <1>1, <1>2, ServedByRoad

LEMMA PlainLeavesNoneCloser ==
  ASSUME Staged, stage = "facilities", WellFormed, NEW q \in Questions, EdgesInBox(q) = ways,
         NEW v \in vertices,
         NEW a \in Search(q, v, WantedInBox(q), EdgesInBox(q), TRUE, RoutesByVertex)
  PROVE  NoneCloserFrom(q, a, v)
<1>1. CASE WantedInBox(q) = {}
  <2>1. a = Rows(<<>>)
    BY <1>1 DEF Search
  <2>2. QED
    BY <1>1, <2>1, NothingWanted
<1>2. CASE WantedInBox(q) # {}
  <2>1. PICK paths \in WideSearchOf(q, v) : a \in Ranked(RoutesByVertex(paths), q.k)
    BY <1>2 DEF Search, WideSearchOf
  <2>2. PICK routes : routes = RoutesByVertex(paths)
    OBVIOUS
  <2>3. RowsFor(routes, paths)
    BY <2>2, FacilitiesAttached, PlainRowsFor
  <2>4. QED
    BY <2>1, <2>2, <2>3, SearchLeavesNoneCloser
<1>3. QED
  BY <1>1, <1>2

LEMMA WideLeavesNoneCloser ==
  ASSUME Staged, stage = "facilities", WellFormed, NEW q \in Questions, EdgesInBox(q) = ways,
         NEW v \in vertices, NEW a \in WideRows(q, v)
  PROVE  NoneCloserFrom(q, a, v)
<1>1. CASE WantedInBox(q) = {}
  <2>1. a = Rows(<<>>)
    BY <1>1, WideRowsAre
  <2>2. QED
    BY <1>1, <2>1, NothingWanted
<1>2. CASE WantedInBox(q) # {}
  <2>1. PICK paths \in WideSearchOf(q, v) :
          a \in Ranked(WithAttributes(RoutesByVertex(paths)), q.k)
    BY <1>2, WideRowsAre
  <2>2. PICK routes : routes = WithAttributes(RoutesByVertex(paths))
    OBVIOUS
  <2>3. RowsFor(routes, paths)
    BY <2>2, FacilitiesAttached, WideRowsFor
  <2>4. QED
    BY <2>1, <2>2, <2>3, SearchLeavesNoneCloser
<1>3. QED
  BY <1>1, <1>2

NoneCloser(q, a) == \E v \in Nearest(vertices, q.incident) : NoneCloserFrom(q, a, v)

LEMMA AnswersLeaveNoneCloser ==
  ASSUME Staged, stage = "facilities", WellFormed, NEW q \in Questions, EdgesInBox(q) = ways,
         NEW body \in 6..8, NEW a \in Answers(body, q), a.error = "none"
  PROVE  NoneCloser(q, a)
<1>1. \A code : Error(code).error = code
  BY DEF Error
<1>2. \A v \in Nearest(vertices, q.incident) : v \in vertices
  BY DEF Nearest
<1>3. WantedInBox(q) = Wanted(q)
  BY PrefilterDropsNothing
<1>4. CASE body = 6
  <2>1. a \in ClosestFacilityV6(q)
    BY <1>4 DEF Answers
  <2>2. PICK v \in Nearest(vertices, q.incident) :
          a \in Search(q, v, Wanted(q), EdgesInBox(q), TRUE, RoutesByVertex)
    BY <1>1, <2>1 DEF ClosestFacilityV6, Guarded
  <2>3. a \in Search(q, v, WantedInBox(q), EdgesInBox(q), TRUE, RoutesByVertex)
    BY <1>3, <2>2
  <2>4. NoneCloserFrom(q, a, v)
    BY <1>2, <2>3, PlainLeavesNoneCloser
  <2>5. QED
    BY <2>4 DEF NoneCloser
<1>5. CASE body = 7
  <2>1. a \in ClosestFacilityV7(q)
    BY <1>5 DEF Answers
  <2>2. PICK v \in Nearest(vertices, q.incident) :
          a \in Search(q, v, WantedInBox(q), EdgesInBox(q), TRUE, RoutesByVertex)
    BY <1>1, <2>1 DEF ClosestFacilityV7, Guarded
  <2>3. NoneCloserFrom(q, a, v)
    BY <1>2, <2>2, PlainLeavesNoneCloser
  <2>4. QED
    BY <2>3 DEF NoneCloser
<1>6. CASE body = 8
  <2>1. a \in ClosestFacilityV8(q)
    BY <1>6 DEF Answers
  <2>2. PICK v \in Nearest(vertices, q.incident) : a \in WideRows(q, v)
    BY <1>1, <2>1, AnswersOfV8
  <2>3. NoneCloserFrom(q, a, v)
    BY <1>2, <2>2, WideLeavesNoneCloser
  <2>4. QED
    BY <2>3 DEF NoneCloser
<1>7. QED
  BY <1>4, <1>5, <1>6

-----------------------------------------------------------------------------
(* Of whatever was asked last.                                             *)
AskedNoneCloser ==
  Answered /\ asked.body >= 6 /\ WellFormed /\ EdgesInBox(asked.q) = ways =>
    NoneCloser(asked.q, answer)

LEMMA NoneCloserIsIt == AskedNoneCloser <=> NothingCloserLeftOut
  BY DEF AskedNoneCloser, NothingCloserLeftOut, NoneCloser, NoneCloserFrom, Served

LEMMA AskLeavesNoneCloser ==
  ASSUME Staged, NEW body \in Bodies, NEW q \in Questions, Ask(body, q)
  PROVE  AskedNoneCloser'
<1>1. /\ stage = "facilities" /\ asked' = [body |-> body, q |-> q]
      /\ answer' \in Answers(body, q)
      /\ UNCHANGED <<extract, stage, ways, vertices, facilities, categories>>
  BY DEF Ask, network
<1>2. asked'.body = body /\ asked'.q = q /\ body \in 2..8
  BY <1>1, BodiesAssumption
<1>3. WellFormed' => WellFormed
  BY <1>1 DEF WellFormed, SplitNodes
<1>4. EdgesInBox(q)' = EdgesInBox(q)
  BY <1>1 DEF EdgesInBox
<1>5. /\ \A mode : RoadArcs(mode)' = RoadArcs(mode)
      /\ \A v : NodeAt(v)' = NodeAt(v)
      /\ \A id : Facility(id)' = Facility(id)
      /\ MustServe(q)' = MustServe(q)
  BY <1>1 DEF RoadArcs, NodeAt, SplitNodes, Facility, MustServe
<1>6. SUFFICES ASSUME answer'.error = "none", body >= 6, WellFormed', EdgesInBox(q)' = ways'
               PROVE  NoneCloser(asked.q, answer)'
  BY <1>2 DEF AskedNoneCloser, Answered, EdgesInBox
<1>7. NoneCloser(q, answer')
  <2>1. WellFormed /\ EdgesInBox(q) = ways /\ body \in 6..8
    BY <1>1, <1>2, <1>3, <1>4, <1>6
  <2>2. QED
    BY <1>1, <1>6, <2>1, AnswersLeaveNoneCloser
<1>8. PICK v \in Nearest(vertices, q.incident) : NoneCloserFrom(q, answer', v)
  BY <1>7 DEF NoneCloser
<1>9. NoneCloserFrom(asked.q, answer, v)'
  BY <1>2, <1>5, <1>8 DEF NoneCloserFrom, MustServe
<1>10. QED
  BY <1>1, <1>2, <1>8, <1>9 DEF NoneCloser

LEMMA NoneCloserStep ==
  ASSUME Staged, AskedNoneCloser, [Next]_vars
  PROVE  AskedNoneCloser'
<1>1. CASE \E body \in Bodies, q \in Questions : Ask(body, q)
  BY <1>1, AskLeavesNoneCloser
<1>2. CASE Import \/ NodeNetwork \/ CostColumns \/ SnapFacilities
  <2>1. asked' = Null
    BY <1>2 DEF Import, NodeNetwork, CostColumns, SnapFacilities, Staged
  <2>2. QED
    BY <2>1 DEF AskedNoneCloser, Answered
<1>3. CASE UNCHANGED vars
  <2>1. UNCHANGED <<extract, ways, vertices, facilities, asked, answer>>
    BY <1>3 DEF vars, network
  <2>2. WellFormed' => WellFormed
    BY <2>1 DEF WellFormed, SplitNodes
  <2>3. EdgesInBox(asked.q)' = EdgesInBox(asked.q)
    BY <2>1 DEF EdgesInBox
  <2>4. /\ \A mode : RoadArcs(mode)' = RoadArcs(mode)
        /\ \A v : NodeAt(v)' = NodeAt(v)
        /\ \A id : Facility(id)' = Facility(id)
        /\ MustServe(asked.q)' = MustServe(asked.q)
    BY <2>1 DEF RoadArcs, NodeAt, SplitNodes, Facility, MustServe
  <2>5. \A v : NoneCloserFrom(asked.q, answer, v) => NoneCloserFrom(asked.q, answer, v)'
    BY <2>1, <2>4 DEF NoneCloserFrom
  <2>6. QED
    BY <2>1, <2>2, <2>3, <2>5 DEF AskedNoneCloser, Answered, NoneCloser
<1>4. QED
  BY <1>1, <1>2, <1>3 DEF Next

\* closest_facility() from v6 on, where the box holds all edges: every row costs
\* what the cheapest way along the roads of the extract costs, and a facility
\* the call asks for is left out only behind k rows that are not dearer.
THEOREM NoneCloserIsLeftOut == Spec => []NothingCloserLeftOut
<1>1. Init => AskedNoneCloser
  BY DEF Init, AskedNoneCloser, Answered
<1>2. AskedNoneCloser => NothingCloserLeftOut
  BY NoneCloserIsIt
<1>3. QED
  BY <1>1, <1>2, StagesInOrder, NoneCloserStep, PTL DEF Spec
=============================================================================
