------------------------- MODULE RoadNetworkProofs -------------------------
(***************************************************************************)
(* Theorems about RoadNetwork, and the induction on numbers they need.     *)
(*                                                                         *)
(* The library's induction theorems speak of an operator, which a proof    *)
(* here cannot supply; that every set of numbers has a least element       *)
(* (WFMin) speaks of a set, and from it come induction for sets and the    *)
(* existence of functions defined by recursion.                            *)
(***************************************************************************)
EXTENDS RoadNetwork, WellFoundedInduction, FiniteSetTheorems, SequenceTheorems, TLAPS

-----------------------------------------------------------------------------
(* Induction and recursion.                                                *)
LEMMA LeastNumber ==
  ASSUME NEW S \in SUBSET Nat, S # {}
  PROVE  \E m \in S : \A n \in S : m <= n
<1> DEFINE R == OpToRel(<, Nat)
<1>1. PICK m \in S : \A n \in S : ~(<<n, m>> \in R)
  <2>1. IsWellFoundedOn(R, Nat)
    BY NatLessThanWellFounded
  <2> HIDE DEF R
  <2>2. QED
    BY <2>1, WFMin
<1>2. \A n \in S : ~(n < m)
  BY <1>1 DEF OpToRel
<1>3. QED
  BY <1>2

LEMMA SetInduction ==
  ASSUME NEW S, 0 \in S, \A n \in Nat : n \in S => n + 1 \in S
  PROVE  \A n \in Nat : n \in S
<1> DEFINE T == {n \in Nat : n \notin S}
<1>1. SUFFICES ASSUME T # {} PROVE FALSE
  OBVIOUS
<1>2. T \in SUBSET Nat
  OBVIOUS
<1>3. PICK m \in T : \A n \in T : m <= n
  <2> HIDE DEF T
  <2> QED
    BY <1>1, <1>2, LeastNumber
<1>4. m \in Nat /\ m # 0 /\ m \notin S
  OBVIOUS
<1>5. m - 1 \in Nat /\ m - 1 \in S /\ (m - 1) + 1 = m
  BY <1>3, <1>4
<1>6. QED
  BY <1>4, <1>5

(* The first values, then one for all.                                     *)
Begins(g, c, step, n) ==
  g[0] = c /\ \A i \in 0..(n - 1) : g[i + 1] = step[i][g[i]]

LEMMA FirstValues ==
  ASSUME NEW V, NEW c \in V, NEW step \in [Nat -> [V -> V]]
  PROVE  \A n \in Nat : \E g \in [0..n -> V] : Begins(g, c, step, n)
<1> DEFINE S == {n \in Nat : \E g \in [0..n -> V] : Begins(g, c, step, n)}
<1>1. 0 \in S
  <2>1. [i \in 0..0 |-> c] \in [0..0 -> V] /\ Begins([i \in 0..0 |-> c], c, step, 0)
    BY DEF Begins
  <2>2. QED
    BY <2>1
<1>2. ASSUME NEW n \in Nat, n \in S PROVE n + 1 \in S
  <2>1. PICK g \in [0..n -> V] : Begins(g, c, step, n)
    BY <1>2
  <2>2. PICK h : h = [i \in 0..(n + 1) |-> IF i = n + 1 THEN step[n][g[n]] ELSE g[i]]
    OBVIOUS
  <2>3. step[n][g[n]] \in V
    OBVIOUS
  <2>4. h \in [0..(n + 1) -> V]
    BY <2>2, <2>3
  <2>5. h[0] = c
    BY <2>1, <2>2 DEF Begins
  <2>6. ASSUME NEW i \in 0..n PROVE h[i + 1] = step[i][h[i]]
    <3>1. h[i] = g[i] /\ i + 1 \in 0..(n + 1)
      BY <2>2
    <3>2. CASE i = n
      BY <2>2, <3>1, <3>2
    <3>3. CASE i # n
      <4>1. i \in 0..(n - 1) /\ i + 1 # n + 1
        BY <3>3
      <4>2. QED
        BY <2>1, <2>2, <3>1, <4>1 DEF Begins
    <3>4. QED
      BY <3>2, <3>3
  <2>7. Begins(h, c, step, n + 1)
    <3>1. \A i \in 0..(n + 1 - 1) : i \in 0..n
      OBVIOUS
    <3>2. QED
      BY <2>5, <2>6, <3>1 DEF Begins
  <2>8. QED
    BY <2>4, <2>7
<1>3. QED
  <2>1. \A n \in Nat : n \in S
    <3> HIDE DEF S
    <3>1. QED
      BY <1>1, <1>2, SetInduction
  <2>2. QED
    BY <2>1

LEMMA FirstValuesAgree ==
  ASSUME NEW V, NEW c \in V, NEW step \in [Nat -> [V -> V]],
         NEW n \in Nat, NEW m \in Nat, n <= m, NEW g, NEW h,
         Begins(g, c, step, n), Begins(h, c, step, m)
  PROVE  \A i \in 0..n : g[i] = h[i]
<1> DEFINE S == {i \in Nat : i <= n => g[i] = h[i]}
<1>1. 0 \in S
  BY DEF Begins
<1>2. ASSUME NEW i \in Nat, i \in S PROVE i + 1 \in S
  <2>1. SUFFICES ASSUME i + 1 <= n PROVE g[i + 1] = h[i + 1]
    OBVIOUS
  <2>2. i \in 0..(n - 1) /\ i \in 0..(m - 1) /\ g[i] = h[i]
    BY <1>2, <2>1
  <2>3. QED
    BY <2>2 DEF Begins
<1>3. QED
  <2>1. \A i \in Nat : i \in S
    <3> HIDE DEF S
    <3>1. QED
      BY <1>1, <1>2, SetInduction
  <2>2. QED
    BY <2>1

(* From c, step after step, through the values V.                          *)
Steps(step, c, V) == c \in V /\ step \in [Nat -> [V -> V]]

Follows(g, step, c, V) ==
  g \in [Nat -> V] /\ g[0] = c /\ \A n \in Nat : g[n + 1] = step[n][g[n]]

LEMMA NatRecursion ==
  ASSUME NEW V, NEW c, NEW step, Steps(step, c, V)
  PROVE  \E g : Follows(g, step, c, V)
<1> DEFINE First(n) == CHOOSE g \in [0..n -> V] : Begins(g, c, step, n)
<1>1. ASSUME NEW n \in Nat
      PROVE  First(n) \in [0..n -> V] /\ Begins(First(n), c, step, n)
  BY FirstValues DEF Steps
<1> HIDE DEF First
<1>2. PICK g : g = [n \in Nat |-> First(n)[n]]
  OBVIOUS
<1>3. g \in [Nat -> V]
  BY <1>1, <1>2
<1>4. g[0] = c
  BY <1>1, <1>2 DEF Begins
<1>5. ASSUME NEW n \in Nat PROVE g[n + 1] = step[n][g[n]]
  <2>1. n + 1 \in Nat /\ n <= n + 1 /\ n \in 0..n /\ n \in 0..(n + 1 - 1)
    OBVIOUS
  <2>2. PICK a, b : a = First(n) /\ b = First(n + 1)
    OBVIOUS
  <2>3. Begins(a, c, step, n) /\ Begins(b, c, step, n + 1)
    BY <1>1, <2>1, <2>2
  <2>4. a[n] = b[n]
    BY <2>1, <2>3, FirstValuesAgree DEF Steps
  <2>5. b[n + 1] = step[n][b[n]]
    BY <2>1, <2>3 DEF Begins
  <2>6. QED
    BY <1>2, <2>1, <2>2, <2>4, <2>5
<1>6. QED
  BY <1>3, <1>4, <1>5 DEF Follows

-----------------------------------------------------------------------------
(* The facilities of an extract, and what is left of them at the vertices. *)
Row(id, tags, geom, vertex, category) ==
  [id |-> id, tags |-> tags, geom |-> geom, vertex |-> vertex, category |-> category]

Unsnapped(f) == f = Row(f.id, f.tags, f.geom, Null, Null)

LEMMA FacilitiesUnsnapped ==
  ASSUME NEW x, NEW f \in Facilities(x)
  PROVE  Unsnapped(f)
  BY DEF Facilities, Unsnapped, Row

(* A facility id is a key of the facilities table.                         *)
LEMMA FacilityIdIsKey ==
  ASSUME NEW x, IsExtract(x), NEW f \in Facilities(x), NEW g \in Facilities(x), f.id = g.id
  PROVE  f = g
<1> DEFINE OfPoi(p) == Row(p.id, p.tags, p.geom, Null, Null)
           OfWay(w) == Row(w.id, w.tags, Centroid(Line(x, w.nodes)), Null, Null)
<1>1. ASSUME NEW h \in Facilities(x)
      PROVE  (\E p \in x.pois : h = OfPoi(p)) \/ (\E w \in x.ways : h = OfWay(w))
  BY <1>1 DEF Facilities, AreaFacilities, Row
<1>2. /\ \A p : OfPoi(p).id = p.id
      /\ \A w : OfWay(w).id = w.id
  BY DEF Row
<1> HIDE DEF OfPoi, OfWay
<1>3. CASE \E p \in x.pois : f = OfPoi(p)
  <2>1. PICK p \in x.pois : f = OfPoi(p)
    BY <1>3
  <2>2. CASE \E q \in x.pois : g = OfPoi(q)
    BY <1>2, <2>1, <2>2 DEF IsExtract
  <2>3. ~\E w \in x.ways : g = OfWay(w)
    BY <1>2, <2>1 DEF IsExtract
  <2>4. QED
    BY <1>1, <2>2, <2>3
<1>4. CASE \E w \in x.ways : f = OfWay(w)
  <2>1. PICK w \in x.ways : f = OfWay(w)
    BY <1>4
  <2>2. CASE \E v \in x.ways : g = OfWay(v)
    BY <1>2, <2>1, <2>2 DEF IsExtract
  <2>3. ~\E p \in x.pois : g = OfPoi(p)
    BY <1>2, <2>1 DEF IsExtract
  <2>4. QED
    BY <1>1, <2>2, <2>3
<1>5. QED
  BY <1>1, <1>3, <1>4

(* Images of finite sets are finite, and so are the facilities.            *)
LEMMA FiniteImage ==
  ASSUME NEW S, IsFiniteSet(S), NEW g, DOMAIN g = S, NEW T, T = {g[x] : x \in S}
  PROVE  IsFiniteSet(T)
<1> DEFINE h == [x \in S |-> g[x]]
<1>1. h \in Surjection(S, T)
  BY DEF Surjection
<1>2. QED
  BY <1>1, FS_Surjection

LEMMA FacilitiesFinite ==
  ASSUME NEW x, IsExtract(x)
  PROVE  IsFiniteSet(Facilities(x))
<1> DEFINE P == {n \in x.pois : IsFacility(n.tags)}
           A == AreaFacilities(x)
           OfPoi(p) == [id |-> p.id, tags |-> p.tags, geom |-> p.geom, vertex |-> Null,
                        category |-> Null]
           OfWay(w) == [id |-> w.id, tags |-> w.tags, vertex |-> Null, category |-> Null,
                        geom |-> Centroid(Line(x, w.nodes))]
<1>1. Facilities(x) = {OfPoi(p) : p \in P} \union {OfWay(w) : w \in A}
  BY DEF Facilities
<1>2. A \subseteq x.ways /\ P \subseteq x.pois
  BY DEF AreaFacilities
<1>3. IsFiniteSet(P) /\ IsFiniteSet(A)
  <2> HIDE DEF P, A
  <2>1. QED
    BY <1>2, FS_Subset DEF IsExtract
<1> HIDE DEF P, A, OfPoi, OfWay
<1>4. IsFiniteSet({OfPoi(p) : p \in P})
  <2>1. PICK g : g = [p \in P |-> OfPoi(p)]
    OBVIOUS
  <2>2. DOMAIN g = P /\ {OfPoi(p) : p \in P} = {g[p] : p \in P}
    BY <2>1
  <2>3. QED
    BY <1>3, <2>2, FiniteImage
<1>5. IsFiniteSet({OfWay(w) : w \in A})
  <2>1. PICK g : g = [w \in A |-> OfWay(w)]
    OBVIOUS
  <2>2. DOMAIN g = A /\ {OfWay(w) : w \in A} = {g[w] : w \in A}
    BY <2>1
  <2>3. QED
    BY <1>3, <2>2, FiniteImage
<1>6. QED
  BY <1>1, <1>4, <1>5, FS_Union

AttachedRow(f, nearest) ==
  Row(f.id, f.tags, f.geom, nearest[f.id], FacilityCategory(f.tags))

WithinReach(f, nearest) ==
  nearest[f.id] # Null /\ Distance(f.geom, nearest[f.id]) <= SnapLimit

(* 03_facilities.sql keeps exactly the facilities within reach, each with  *)
(* its vertex and its category.                                            *)
LEMMA SnappedRows ==
  ASSUME NEW F, \A f \in F : Unsnapped(f), NEW nearest
  PROVE  Categorised(Snapped(F, nearest)) =
           {AttachedRow(f, nearest) : f \in {g \in F : WithinReach(g, nearest)}}
<1> DEFINE G == {g \in F : WithinReach(g, nearest)}
           Halfway(f) == Row(f.id, f.tags, f.geom, nearest[f.id], Null)
<1>1. Snapped(F, nearest) = {[f EXCEPT !.vertex = nearest[f.id]] : f \in G}
  BY DEF Snapped, WithinReach
<1>2. ASSUME NEW f \in F PROVE [f EXCEPT !.vertex = nearest[f.id]] = Halfway(f)
  BY <1>2 DEF Unsnapped, Row
<1>3. ASSUME NEW f PROVE [Halfway(f) EXCEPT !.category = FacilityCategory(Halfway(f).tags)]
                          = AttachedRow(f, nearest)
  BY DEF Row, AttachedRow
<1>4. Snapped(F, nearest) = {Halfway(f) : f \in G}
  BY <1>1, <1>2
<1> HIDE DEF Halfway, G
<1>5. Categorised(Snapped(F, nearest)) = {AttachedRow(f, nearest) : f \in G}
  BY <1>3, <1>4 DEF Categorised
<1>6. QED
  BY <1>5 DEF G

-----------------------------------------------------------------------------
(* Lines, edges and vertices are made of points.                           *)
LongerLine(x, nodes, line, n) ==
  IF \/ nodes[n] \notin DOMAIN x.pos
     \/ line # <<>> /\ line[Len(line)] = x.pos[nodes[n]]
  THEN line ELSE Append(line, x.pos[nodes[n]])

(* A line is built point by point.                                         *)
LEMMA LineSteps ==
  ASSUME NEW x, IsExtract(x), NEW nodes, Len(nodes) \in Nat
  PROVE  \E line : /\ line \in [Nat -> Seq(Point)] /\ line[0] = <<>>
                   /\ \A n \in Nat : line[n + 1] = LongerLine(x, nodes, line[n], n + 1)
                   /\ Line(x, nodes) = line[Len(nodes)]
<1> DEFINE V == Seq(Point)
           Longer(line, n) == LongerLine(x, nodes, line, n)
           Def(g) == [n \in Nat |-> IF n = 0 THEN <<>> ELSE Longer(g[n - 1], n)]
           line == CHOOSE g : g = Def(g)
<1>1. Line(x, nodes) = line[Len(nodes)]
  BY DEF Line, LongerLine
<1>2. \A l \in V, n \in Nat : Longer(l, n) \in V
  BY DEF IsExtract, LongerLine
<1>3. <<>> \in V
  OBVIOUS
<1> HIDE DEF Longer, V
<1>4. PICK step : step = [n \in Nat |-> [l \in V |-> Longer(l, n + 1)]]
  OBVIOUS
<1>5. PICK g \in [Nat -> V] : g[0] = <<>> /\ \A n \in Nat : g[n + 1] = step[n][g[n]]
  <2>1. Steps(step, <<>>, V)
    BY <1>2, <1>3, <1>4 DEF Steps
  <2>2. \E g : Follows(g, step, <<>>, V)
    BY <2>1, NatRecursion
  <2>3. QED
    BY <2>2 DEF Follows
<1>6. g = Def(g)
  <2>1. ASSUME NEW n \in Nat, n # 0 PROVE g[n] = Longer(g[n - 1], n)
    <3>1. n - 1 \in Nat /\ (n - 1) + 1 = n
      BY <2>1
    <3>2. g[n] = step[n - 1][g[n - 1]]
      BY <1>5, <3>1
    <3>3. QED
      BY <1>4, <1>5, <3>1, <3>2
  <2>2. QED
    BY <1>5, <2>1
<1>7. line = Def(line)
  BY <1>6
<1> HIDE DEF line
<1>8. line[0] = <<>> /\ \A n \in Nat : line[n + 1] = Longer(line[n], n + 1)
  <2>1. line[0] = <<>>
    BY <1>7
  <2>2. ASSUME NEW n \in Nat PROVE line[n + 1] = Longer(line[n], n + 1)
    <3>1. n + 1 \in Nat /\ n + 1 # 0 /\ (n + 1) - 1 = n
      OBVIOUS
    <3>2. QED
      BY <1>7, <3>1
  <2>3. QED
    BY <2>1, <2>2
<1>9. \A n \in Nat : line[n] \in V
  <2> DEFINE S == {n \in Nat : line[n] \in V}
  <2>1. 0 \in S
    BY <1>3, <1>8
  <2>2. ASSUME NEW n \in Nat, n \in S PROVE n + 1 \in S
    <3>1. n + 1 \in Nat /\ line[n] \in V /\ line[n + 1] = Longer(line[n], n + 1)
      BY <1>8, <2>2
    <3>2. QED
      BY <1>2, <3>1
  <2>3. \A n \in Nat : n \in S
    <3> HIDE DEF S
    <3>1. QED
      BY <2>1, <2>2, SetInduction
  <2>4. QED
    BY <2>3
<1>10. line \in [Nat -> V]
  <2>1. line = [n \in Nat |-> line[n]]
    BY <1>7
  <2>2. QED
    BY <1>9, <2>1
<1>11. QED
  BY <1>1, <1>8, <1>10 DEF Longer, V

LEMMA LineIsOfPoints ==
  ASSUME NEW x, IsExtract(x), NEW nodes, Len(nodes) \in Nat
  PROVE  Line(x, nodes) \in Seq(Point)
<1>1. PICK line \in [Nat -> Seq(Point)] : Line(x, nodes) = line[Len(nodes)]
  BY LineSteps
<1>2. QED
  BY <1>1

(* An edge is cut from the line between two of its positions.              *)
LEMMA SpansAreOnTheLine ==
  ASSUME NEW x, IsExtract(x), NEW way \in WaysImport(x), NEW span \in Spans(x, way)
  PROVE  LET n == Len(Line(x, way.nodes))
         IN  span[1] \in 1..n /\ span[2] \in 1..n /\ span[1] <= span[2]
<1> DEFINE n == Len(Line(x, way.nodes))
<1>1. way.nodes \in Seq(ToSet(way.nodes)) /\ n >= 2
  BY DEF WaysImport, IsExtract
<1>2. Line(x, way.nodes) \in Seq(Point) /\ n \in Nat
  <2>1. Len(way.nodes) \in Nat
    BY <1>1, LenProperties
  <2>2. QED
    BY <2>1, LineIsOfPoints, LenProperties
<1>3. CASE Aligned(x, way)
  <2>1. n = Len(way.nodes) /\ DOMAIN way.nodes = 1..n
    BY <1>1, <1>3, LenProperties DEF Aligned
  <2>2. Splits(x, way) \subseteq 1..n
    BY <1>1, <1>2, <2>1 DEF Splits
  <2>3. span[1] \in Splits(x, way) /\ span[2] \in Splits(x, way) /\ span[1] < span[2]
    BY <1>3 DEF Spans
  <2>4. QED
    BY <1>2, <2>2, <2>3
<1>4. CASE ~Aligned(x, way)
  <2>1. span = <<1, n>>
    BY <1>4 DEF Spans
  <2>2. QED
    BY <1>1, <1>2, <2>1
<1>5. QED
  BY <1>3, <1>4

LEMMA EdgeGeometry ==
  ASSUME NEW x, IsExtract(x), NEW way \in WaysImport(x), NEW span \in Spans(x, way),
         NEW edge, edge = EdgeOf(x, way, span[1], span[2])
  PROVE  /\ edge.geom \in Seq(Point) /\ Len(edge.geom) \in Nat \ {0}
         /\ edge.source = edge.geom[1] /\ edge.target = edge.geom[Len(edge.geom)]
<1>1. PICK s : s = Line(x, way.nodes)
  OBVIOUS
<1>2. PICK a, b : a = span[1] /\ b = span[2]
  OBVIOUS
<1>3. /\ s \in Seq(Point) /\ Len(s) \in Nat
      /\ a \in 1..Len(s) /\ b \in 1..Len(s) /\ a <= b
  <2>1. Len(way.nodes) \in Nat
    BY LenProperties DEF WaysImport, IsExtract
  <2>2. QED
    BY <1>1, <1>2, <2>1, LineIsOfPoints, SpansAreOnTheLine, LenProperties
<1>4. PICK piece : piece = SubSeq(s, a, b)
  OBVIOUS
<1>5. piece \in Seq(Point) /\ Len(piece) = b - a + 1
  BY <1>3, <1>4, SubSeqProperties
<1>6. PICK line : line = IF OnewayDirection(way) = -1 THEN Reverse(piece) ELSE piece
  OBVIOUS
<1>7. line \in Seq(Point) /\ Len(line) = b - a + 1
  <2>1. PICK n : n = Len(piece)
    OBVIOUS
  <2>2. n \in Nat /\ piece \in [1..n -> Point]
    BY <1>5, <2>1, LenProperties
  <2>3. Reverse(piece) = [i \in 1..n |-> piece[(n - i) + 1]]
    BY <2>1 DEF Reverse
  <2>4. \A i \in 1..n : (n - i) + 1 \in 1..n
    BY <2>2
  <2>5. Reverse(piece) \in [1..n -> Point]
    BY <2>2, <2>3, <2>4
  <2>6. Reverse(piece) \in Seq(Point) /\ Len(Reverse(piece)) = n
    BY <2>2, <2>5
  <2>7. QED
    BY <1>5, <1>6, <2>1, <2>6
<1>8. edge.geom = line /\ edge.source = line[1] /\ edge.target = line[Len(line)]
  BY <1>1, <1>2, <1>4, <1>6 DEF EdgeOf
<1>9. Len(line) \in Nat \ {0}
  BY <1>3, <1>7
<1>10. QED
  BY <1>7, <1>8, <1>9

LEMMA VerticesArePoints ==
  ASSUME NEW x, IsExtract(x)
  PROVE  ExtractVertices(NodedWays(x)) \subseteq Point
<1>1. ASSUME NEW w \in NodedWays(x)
      PROVE  w.source \in Point /\ w.target \in Point
  <2>1. PICK way \in WaysImport(x) :
          \E span \in Spans(x, way) : w = EdgeOf(x, way, span[1], span[2])
    BY DEF NodedWays
  <2>2. PICK span \in Spans(x, way) : w = EdgeOf(x, way, span[1], span[2])
    BY <2>1
  <2>3. PICK g : g = w.geom
    OBVIOUS
  <2>4. /\ g \in Seq(Point) /\ Len(g) \in Nat \ {0}
        /\ w.source = g[1] /\ w.target = g[Len(g)]
    BY <2>2, <2>3, EdgeGeometry
  <2>5. 1 \in 1..Len(g) /\ Len(g) \in 1..Len(g)
    BY <2>4
  <2>6. QED
    BY <2>4, <2>5, ElementOfSeq
<1>2. QED
  BY <1>1 DEF ExtractVertices

-----------------------------------------------------------------------------
(* The network is finite.                                                  *)
LEMMA NetworkFinite ==
  ASSUME NEW x, IsExtract(x)
  PROVE  IsFiniteSet(NodedWays(x)) /\ IsFiniteSet(ExtractVertices(NodedWays(x)))
<1>1. ASSUME NEW way \in WaysImport(x) PROVE IsFiniteSet(Spans(x, way))
  <2>1. way.nodes \in Seq(ToSet(way.nodes))
    BY DEF WaysImport, IsExtract
  <2>2. Len(way.nodes) \in Nat /\ DOMAIN way.nodes = 1..Len(way.nodes)
    BY <2>1, LenProperties
  <2>3. PICK n : n = Len(way.nodes)
    OBVIOUS
  <2>4. PICK I : I = 1..n
    OBVIOUS
  <2>5. IsFiniteSet(I) /\ IsFiniteSet({1, n})
    <3>1. IsFiniteSet({1}) /\ IsFiniteSet({n})
      BY FS_Singleton
    <3>2. IsFiniteSet({1} \union {n})
      BY <3>1, FS_Union
    <3>3. {1, n} = {1} \union {n}
      OBVIOUS
    <3>4. IsFiniteSet(I)
      BY <2>2, <2>3, <2>4, FS_Interval
    <3>5. QED
      BY <3>2, <3>3, <3>4
  <2>6. PICK S : S = Splits(x, way)
    OBVIOUS
  <2>7. IsFiniteSet(S)
    <3>1. PICK J : J = {i \in DOMAIN way.nodes : way.nodes[i] \in Junctions(x)}
      OBVIOUS
    <3>2. J \subseteq I
      BY <2>2, <2>3, <2>4, <3>1
    <3>3. IsFiniteSet(J)
      BY <2>5, <3>2, FS_Subset
    <3>4. S = {1, n} \union J
      BY <2>3, <2>6, <3>1 DEF Splits
    <3>5. QED
      BY <2>5, <3>3, <3>4, FS_Union
  <2>8. IsFiniteSet(S \X S)
    BY <2>7, FS_Product
  <2>9. CASE Aligned(x, way)
    <3>1. Spans(x, way) \subseteq S \X S
      BY <2>6, <2>9 DEF Spans
    <3>2. QED
      BY <2>8, <3>1, FS_Subset
  <2>10. CASE ~Aligned(x, way)
    <3>1. Spans(x, way) = {<<1, Len(Line(x, way.nodes))>>}
      BY <2>10 DEF Spans
    <3>2. QED
      BY <3>1, FS_Singleton
  <2>11. QED
    BY <2>9, <2>10
<1>2. IsFiniteSet(WaysImport(x))
  <2>1. WaysImport(x) \subseteq x.ways
    BY DEF WaysImport
  <2>2. QED
    BY <2>1, FS_Subset DEF IsExtract
<1> DEFINE E(way) == {EdgeOf(x, way, span[1], span[2]) : span \in Spans(x, way)}
<1>3. ASSUME NEW way \in WaysImport(x) PROVE IsFiniteSet(E(way))
  <2>1. PICK g : g = [span \in Spans(x, way) |-> EdgeOf(x, way, span[1], span[2])]
    OBVIOUS
  <2>2. DOMAIN g = Spans(x, way) /\ E(way) = {g[span] : span \in Spans(x, way)}
    BY <2>1
  <2> HIDE DEF E
  <2>3. QED
    BY <1>1, <2>2, FiniteImage
<1>4. NodedWays(x) = UNION {E(way) : way \in WaysImport(x)}
  BY DEF NodedWays
<1> HIDE DEF E
<1>5. IsFiniteSet(NodedWays(x))
  <2>1. PICK g : g = [way \in WaysImport(x) |-> E(way)]
    OBVIOUS
  <2>2. PICK T : T = {E(way) : way \in WaysImport(x)}
    OBVIOUS
  <2>3. DOMAIN g = WaysImport(x) /\ T = {g[way] : way \in WaysImport(x)}
    BY <2>1, <2>2
  <2>4. IsFiniteSet(T)
    BY <1>2, <2>3, FiniteImage
  <2>5. \A e \in T : IsFiniteSet(e)
    BY <1>3, <2>2
  <2>6. QED
    BY <1>4, <2>2, <2>4, <2>5, FS_UNION
<1>6. IsFiniteSet(ExtractVertices(NodedWays(x)))
  <2>1. PICK W : W = NodedWays(x)
    OBVIOUS
  <2>2. PICK g, h : g = [w \in W |-> w.source] /\ h = [w \in W |-> w.target]
    OBVIOUS
  <2>3. PICK A, B : A = {w.source : w \in W} /\ B = {w.target : w \in W}
    OBVIOUS
  <2>4. /\ DOMAIN g = W /\ A = {g[w] : w \in W}
        /\ DOMAIN h = W /\ B = {h[w] : w \in W}
    BY <2>2, <2>3
  <2>5. IsFiniteSet(A) /\ IsFiniteSet(B)
    BY <1>5, <2>1, <2>4, FiniteImage
  <2>6. QED
    BY <2>1, <2>3, <2>5, FS_Union DEF ExtractVertices
<1>7. QED
  BY <1>5, <1>6

-----------------------------------------------------------------------------
(* The facilities are where points are.                                    *)
LEMMA LowestValue ==
  ASSUME NEW n \in Nat \ {0}, NEW h \in [1..n -> Int]
  PROVE  \E m \in 1..n : \A i \in 1..n : h[m] <= h[i]
<1> DEFINE S == {k \in Nat : k + 1 <= n =>
                   \E m \in 1..(k + 1) : \A i \in 1..(k + 1) : h[m] <= h[i]}
<1>1. 0 \in S
  OBVIOUS
<1>2. ASSUME NEW k \in Nat, k \in S PROVE k + 1 \in S
  <2>1. SUFFICES ASSUME k + 2 <= n
                 PROVE  \E m \in 1..(k + 2) : \A i \in 1..(k + 2) : h[m] <= h[i]
    OBVIOUS
  <2>2. PICK m \in 1..(k + 1) : \A i \in 1..(k + 1) : h[m] <= h[i]
    BY <1>2, <2>1
  <2>3. m \in 1..(k + 2) /\ k + 2 \in 1..(k + 2) /\ h[m] \in Int /\ h[k + 2] \in Int
    BY <2>1
  <2>4. \A i \in 1..(k + 2) : i \in 1..(k + 1) \/ i = k + 2
    OBVIOUS
  <2>5. \A i \in 1..(k + 1) : h[i] \in Int
    BY <2>1
  <2>6. CASE h[m] <= h[k + 2]
    BY <2>2, <2>3, <2>4, <2>6
  <2>7. CASE h[k + 2] < h[m]
    <3>1. ASSUME NEW i \in 1..(k + 2) PROVE h[k + 2] <= h[i]
      <4>1. CASE i = k + 2
        BY <2>3, <4>1
      <4>2. CASE i \in 1..(k + 1)
        <5>1. h[m] <= h[i] /\ h[i] \in Int
          BY <2>2, <2>5, <4>2
        <5>2. QED
          BY <2>3, <2>7, <5>1
      <4>3. QED
        BY <2>4, <4>1, <4>2
    <3>2. QED
      BY <2>3, <3>1
  <2>8. QED
    BY <2>3, <2>6, <2>7
<1>3. \A k \in Nat : k \in S
  <2> HIDE DEF S
  <2>1. QED
    BY <1>1, <1>2, SetInduction
<1>4. n - 1 \in Nat /\ (n - 1) + 1 = n
  OBVIOUS
<1>5. n - 1 \in S
  <2> HIDE DEF S
  <2>1. QED
    BY <1>3, <1>4
<1>6. QED
  BY <1>4, <1>5

LEMMA HighestValue ==
  ASSUME NEW n \in Nat \ {0}, NEW h \in [1..n -> Int]
  PROVE  \E m \in 1..n : \A i \in 1..n : h[m] >= h[i]
<1>1. PICK g : g = [i \in 1..n |-> -h[i]]
  OBVIOUS
<1>2. g \in [1..n -> Int]
  BY <1>1
<1>3. PICK m \in 1..n : \A i \in 1..n : g[m] <= g[i]
  BY <1>2, LowestValue
<1>4. ASSUME NEW i \in 1..n PROVE h[m] >= h[i]
  <2>1. g[m] = -h[m] /\ g[i] = -h[i] /\ h[m] \in Int /\ h[i] \in Int
    BY <1>1
  <2>2. g[m] <= g[i]
    BY <1>3
  <2>3. QED
    BY <2>1, <2>2
<1>5. QED
  BY <1>4

LEMMA CentroidIsAPoint ==
  ASSUME NEW line \in Seq(Point), Len(line) # 0
  PROVE  Centroid(line) \in Point
<1>1. PICK n : n = Len(line)
  OBVIOUS
<1>2. n \in Nat \ {0} /\ DOMAIN line = 1..n /\ line \in [1..n -> Point]
  BY <1>1, LenProperties
<1>3. ASSUME NEW h \in [1..n -> Int], NEW T, T = {h[i] : i \in 1..n}
      PROVE  (Min(T) + Max(T)) \div 2 \in Int
  <2>1. Min(T) \in T
    <3>1. PICK m \in 1..n : \A i \in 1..n : h[m] <= h[i]
      BY <1>2, LowestValue
    <3>2. h[m] \in T /\ \A t \in T : h[m] <= t
      BY <1>3, <3>1
    <3>3. QED
      BY <3>2 DEF Min
  <2>2. Max(T) \in T
    <3>1. PICK m \in 1..n : \A i \in 1..n : h[m] >= h[i]
      BY <1>2, HighestValue
    <3>2. h[m] \in T /\ \A t \in T : h[m] >= t
      BY <1>3, <3>1
    <3>3. QED
      BY <3>2 DEF Max
  <2>3. T \subseteq Int
    BY <1>3
  <2>4. PICK a, b \in Int : a = Min(T) /\ b = Max(T)
    BY <2>1, <2>2, <2>3
  <2>5. (a + b) \div 2 \in Int
    OBVIOUS
  <2>6. QED
    BY <2>4, <2>5
<1>4. PICK g, h : g = [i \in 1..n |-> line[i][1]] /\ h = [i \in 1..n |-> line[i][2]]
  OBVIOUS
<1>5. g \in [1..n -> Int] /\ h \in [1..n -> Int]
  BY <1>2, <1>4 DEF Point
<1>6. PICK A, B : A = {line[i][1] : i \in DOMAIN line} /\ B = {line[i][2] : i \in DOMAIN line}
  OBVIOUS
<1>7. A = {g[i] : i \in 1..n} /\ B = {h[i] : i \in 1..n}
  BY <1>2, <1>4, <1>6
<1>8. (Min(A) + Max(A)) \div 2 \in Int /\ (Min(B) + Max(B)) \div 2 \in Int
  BY <1>3, <1>5, <1>7
<1>9. QED
  BY <1>6, <1>8 DEF Centroid, Point

LEMMA FacilitiesAtPoints ==
  ASSUME NEW x, IsExtract(x), NEW f \in Facilities(x)
  PROVE  f.geom \in Point
<1>1. CASE \E p \in x.pois : f = Row(p.id, p.tags, p.geom, Null, Null)
  BY <1>1 DEF Row, IsExtract
<1>2. CASE \E w \in AreaFacilities(x) :
             f = Row(w.id, w.tags, Centroid(Line(x, w.nodes)), Null, Null)
  <2>1. PICK w \in AreaFacilities(x) : f.geom = Centroid(Line(x, w.nodes))
    BY <1>2 DEF Row
  <2>2. w \in x.ways /\ Len(Line(x, w.nodes)) > 3
    BY DEF AreaFacilities
  <2>3. Len(w.nodes) \in Nat
    BY <2>2, LenProperties DEF IsExtract
  <2>4. Line(x, w.nodes) \in Seq(Point)
    BY <2>3, LineIsOfPoints
  <2>5. Len(Line(x, w.nodes)) # 0
    BY <2>2
  <2>6. QED
    BY <2>1, <2>4, <2>5, CentroidIsAPoint
<1>3. QED
  BY <1>1, <1>2 DEF Facilities, Row

-----------------------------------------------------------------------------
(* The two metrics: degrees never fall short of metres, nor exceed them    *)
(* more than Stretch times.                                                *)
LEMMA DegreesAndMetres ==
  ASSUME NEW p \in Point, NEW q \in Point
  PROVE  /\ Distance(p, q) \in Nat /\ Degrees(p, q) \in Nat
         /\ Distance(p, q) <= Degrees(p, q)
         /\ Degrees(p, q) <= Distance(p, q) * Stretch
         /\ Distance(p, q) = Distance(q, p) /\ Degrees(p, q) = Degrees(q, p)
<1>1. PICK e, n \in Nat : /\ e = East(p, q) /\ n = North(p, q)
                         /\ e = East(q, p) /\ n = North(q, p)
  BY DEF East, North, Absolute, Point
<1>2. PICK s \in Nat : s = Stretch /\ s >= 1
  BY StretchAssumption
<1>3. e <= s * e /\ n <= s * n /\ s * e \in Nat /\ s * n \in Nat
  BY <1>2
<1>4. (e + n) * s = s * e + s * n
  OBVIOUS
<1>5. /\ Distance(p, q) = e + n /\ Distance(q, p) = e + n
      /\ Degrees(p, q) = s * e + n /\ Degrees(q, p) = s * e + n
  BY <1>1, <1>2 DEF Distance, Degrees
<1>6. QED
  BY <1>2, <1>3, <1>4, <1>5

(* The nearest vertex is within a limit if any vertex is well within it.   *)
LEMMA NearestIsNear ==
  ASSUME NEW V \in SUBSET Point, NEW p \in Point, NEW v \in Nearest(V, p), NEW u \in V,
         NEW limit \in Nat, Distance(p, u) * Stretch <= limit
  PROVE  Distance(v, p) <= limit /\ Distance(p, v) <= limit
<1>1. v \in Point /\ u \in Point /\ Degrees(v, p) <= Degrees(u, p)
  BY DEF Nearest
<1>2. PICK d : d = Distance(p, u) * Stretch
  OBVIOUS
<1>3. d \in Int
  BY <1>1, <1>2, DegreesAndMetres, StretchAssumption
<1>4. /\ Distance(v, p) <= Degrees(v, p) /\ Degrees(u, p) <= d
      /\ Distance(v, p) = Distance(p, v)
      /\ Distance(v, p) \in Nat /\ Degrees(v, p) \in Nat /\ Degrees(u, p) \in Nat
  <2>1. Degrees(p, u) <= d /\ Degrees(p, u) = Degrees(u, p)
    BY <1>1, <1>2, DegreesAndMetres
  <2>2. QED
    BY <1>1, <2>1, DegreesAndMetres
<1>5. QED
  BY <1>1, <1>2, <1>3, <1>4

-----------------------------------------------------------------------------
(* Sums, and what the edges cost.                                          *)
Sums(sum, numbers) ==
  /\ sum \in [0..Len(numbers) -> Nat] /\ sum[0] = 0
  /\ \A n \in 0..(Len(numbers) - 1) : sum[n + 1] = sum[n] + numbers[n + 1]

LEMMA TotalIsOfSums ==
  ASSUME NEW numbers \in Seq(Nat)
  PROVE  \E sum : Sums(sum, numbers) /\ Total(numbers) = sum[Len(numbers)]
<1> DEFINE Def(g) == [n \in 0..Len(numbers) |->
                        IF n = 0 THEN 0 ELSE g[n - 1] + numbers[n]]
           sum == CHOOSE g : g = Def(g)
<1>1. Total(numbers) = sum[Len(numbers)]
  BY DEF Total
<1>2. Len(numbers) \in Nat /\ \A i \in 1..Len(numbers) : numbers[i] \in Nat
  BY ElementOfSeq, LenProperties
<1>3. PICK step : step = [n \in Nat |-> [s \in Nat |->
                            IF n + 1 <= Len(numbers) THEN s + numbers[n + 1] ELSE s]]
  OBVIOUS
<1>4. PICK h : Follows(h, step, 0, Nat)
  <2>1. ASSUME NEW n \in Nat, NEW s \in Nat
        PROVE  (IF n + 1 <= Len(numbers) THEN s + numbers[n + 1] ELSE s) \in Nat
    <3>1. CASE n + 1 <= Len(numbers)
      <4>1. numbers[n + 1] \in Nat
        BY <1>2, <3>1
      <4>2. QED
        BY <3>1, <4>1
    <3>2. CASE ~(n + 1 <= Len(numbers))
      BY <3>2
    <3>3. QED
      BY <3>1, <3>2
  <2>2. step \in [Nat -> [Nat -> Nat]]
    BY <1>3, <2>1
  <2>3. Steps(step, 0, Nat)
    BY <2>2 DEF Steps
  <2>4. QED
    BY <2>3, NatRecursion
<1>5. /\ h \in [Nat -> Nat] /\ h[0] = 0
      /\ \A n \in Nat : n + 1 <= Len(numbers) => h[n + 1] = h[n] + numbers[n + 1]
  BY <1>3, <1>4 DEF Follows
<1>6. PICK g : g = [n \in 0..Len(numbers) |-> h[n]]
  OBVIOUS
<1>7. g = Def(g)
  <2>1. ASSUME NEW n \in 0..Len(numbers), n # 0 PROVE g[n] = g[n - 1] + numbers[n]
    <3>1. n - 1 \in Nat /\ n - 1 \in 0..Len(numbers) /\ (n - 1) + 1 = n /\ n <= Len(numbers)
      BY <1>2, <2>1
    <3>2. h[n] = h[n - 1] + numbers[n]
      BY <1>5, <3>1
    <3>3. QED
      BY <1>6, <3>1, <3>2
  <2>2. g[0] = 0
    BY <1>2, <1>5, <1>6
  <2>3. QED
    BY <1>6, <2>1, <2>2
<1>8. sum = Def(sum)
  BY <1>7
<1> HIDE DEF sum
<1>9. /\ DOMAIN sum = 0..Len(numbers) /\ sum[0] = 0
      /\ \A n \in 0..(Len(numbers) - 1) : sum[n + 1] = sum[n] + numbers[n + 1]
  <2>1. ASSUME NEW n \in 0..(Len(numbers) - 1) PROVE sum[n + 1] = sum[n] + numbers[n + 1]
    <3>1. n + 1 \in 0..Len(numbers) /\ n + 1 # 0 /\ (n + 1) - 1 = n
      BY <1>2
    <3>2. QED
      BY <1>8, <3>1
  <2>2. DOMAIN sum = 0..Len(numbers) /\ sum[0] = 0
    BY <1>2, <1>8
  <2>3. QED
    BY <2>1, <2>2
<1>10. \A n \in 0..Len(numbers) : sum[n] \in Nat
  <2> DEFINE S == {n \in Nat : n <= Len(numbers) => sum[n] \in Nat}
  <2>1. 0 \in S
    BY <1>9
  <2>2. ASSUME NEW n \in Nat, n \in S PROVE n + 1 \in S
    <3>1. SUFFICES ASSUME n + 1 <= Len(numbers) PROVE sum[n + 1] \in Nat
      OBVIOUS
    <3>2. n \in 0..(Len(numbers) - 1) /\ n + 1 \in 1..Len(numbers) /\ sum[n] \in Nat
      BY <1>2, <2>2, <3>1
    <3>3. sum[n + 1] = sum[n] + numbers[n + 1] /\ numbers[n + 1] \in Nat
      BY <1>2, <1>9, <3>2
    <3>4. QED
      BY <3>2, <3>3
  <2>3. \A n \in Nat : n \in S
    <3> HIDE DEF S
    <3>1. QED
      BY <2>1, <2>2, SetInduction
  <2>4. QED
    BY <2>3
<1>11. sum \in [0..Len(numbers) -> Nat]
  <2>1. sum = [n \in 0..Len(numbers) |-> sum[n]]
    BY <1>8
  <2>2. QED
    BY <1>10, <2>1
<1>12. QED
  BY <1>1, <1>9, <1>11 DEF Sums

LEMMA TotalOfNaturals ==
  ASSUME NEW numbers \in Seq(Nat)
  PROVE  Total(numbers) \in Nat
<1>1. Len(numbers) \in Nat /\ Len(numbers) \in 0..Len(numbers)
  BY LenProperties
<1>2. QED
  BY <1>1, TotalIsOfSums DEF Sums

LEMMA TotalOfNothing == Total(<<>>) = 0
<1>1. PICK s \in Seq(Nat) : s = <<>>
  BY EmptySeq
<1>2. Len(s) = 0
  BY <1>1
<1>3. QED
  BY <1>1, <1>2, TotalIsOfSums DEF Sums

LEMMA TotalOfLonger ==
  ASSUME NEW s \in Seq(Nat), NEW x \in Nat
  PROVE  Total(Append(s, x)) = Total(s) + x
<1>1. PICK t : t = Append(s, x)
  OBVIOUS
<1>2. /\ t \in Seq(Nat) /\ Len(s) \in Nat /\ Len(t) = Len(s) + 1
      /\ \A i \in 1..Len(s) : t[i] = s[i]
      /\ t[Len(s) + 1] = x
  BY <1>1, AppendProperties, LenProperties
<1>3. PICK a : Sums(a, s) /\ Total(s) = a[Len(s)]
  BY TotalIsOfSums
<1>4. PICK b : Sums(b, t) /\ Total(t) = b[Len(t)]
  BY <1>2, TotalIsOfSums
<1> DEFINE S == {n \in Nat : n <= Len(s) => a[n] = b[n]}
<1>5. 0 \in S
  BY <1>3, <1>4 DEF Sums
<1>6. ASSUME NEW n \in Nat, n \in S PROVE n + 1 \in S
  <2>1. SUFFICES ASSUME n + 1 <= Len(s) PROVE a[n + 1] = b[n + 1]
    OBVIOUS
  <2>2. /\ n \in 0..(Len(s) - 1) /\ n \in 0..(Len(t) - 1)
        /\ n + 1 \in 1..Len(s) /\ a[n] = b[n]
    BY <1>2, <1>6, <2>1
  <2>3. a[n + 1] = a[n] + s[n + 1] /\ b[n + 1] = b[n] + t[n + 1] /\ t[n + 1] = s[n + 1]
    BY <1>2, <1>3, <1>4, <2>2 DEF Sums
  <2>4. QED
    BY <2>2, <2>3
<1>7. Len(s) \in S
  <2>1. \A n \in Nat : n \in S
    <3> HIDE DEF S
    <3>1. QED
      BY <1>5, <1>6, SetInduction
  <2> HIDE DEF S
  <2>2. QED
    BY <1>2, <2>1
<1>8. a[Len(s)] = b[Len(s)]
  BY <1>2, <1>7
<1>9. b[Len(s) + 1] = b[Len(s)] + t[Len(s) + 1]
  <2>1. Len(s) \in 0..(Len(t) - 1)
    BY <1>2
  <2>2. QED
    BY <1>4, <2>1 DEF Sums
<1>10. QED
  BY <1>1, <1>2, <1>3, <1>4, <1>8, <1>9

LEMMA LengthIsNatural ==
  ASSUME NEW line \in Seq(Point), Len(line) \in Nat \ {0}
  PROVE  Length(line) \in Nat
<1>1. PICK n : n = Len(line) - 1
  OBVIOUS
<1>2. n \in Nat
  BY <1>1
<1>3. \A i \in 1..n : line[i] \in Point /\ line[i + 1] \in Point
  <2>1. \A i \in 1..n : i \in 1..Len(line) /\ i + 1 \in 1..Len(line)
    BY <1>1, <1>2
  <2>2. QED
    BY <2>1, ElementOfSeq
<1>4. PICK hops : hops = Hops(line)
  OBVIOUS
<1>5. hops = [i \in 1..n |-> <<line[i], line[i + 1]>>]
  BY <1>1, <1>4 DEF Hops
<1>6. PICK metres : metres = [i \in DOMAIN hops |-> Distance(hops[i][1], hops[i][2])]
  OBVIOUS
<1>7. metres = [i \in 1..n |-> Distance(line[i], line[i + 1])]
  BY <1>5, <1>6
<1>8. \A i \in 1..n : Distance(line[i], line[i + 1]) \in Nat
  BY <1>3, DegreesAndMetres
<1>9. metres \in [1..n -> Nat]
  BY <1>7, <1>8
<1>10. metres \in Seq(Nat)
  BY <1>2, <1>9
<1>11. Length(line) = Total(metres)
  BY <1>4, <1>6 DEF Length, SumOver
<1>12. QED
  BY <1>10, <1>11, TotalOfNaturals

IsEdge(w) ==
  /\ w.cost_distance \in Nat /\ w.cost_time \in Nat
  /\ w.geom \in Seq(Point) /\ Len(w.geom) \in Nat \ {0}

LEMMA SpeedIsPositive ==
  ASSUME NEW x, IsExtract(x), NEW way \in WaysImport(x), NEW span,
         NEW edge, edge = EdgeOf(x, way, span[1], span[2])
  PROVE  Speed(edge) \in Nat \ {0}
<1>1. way.highway \in DOMAIN TagIdByHighway
  BY DEF WaysImport, Routable
<1>2. TagIdByHighway[way.highway] \in 101..114
  BY <1>1 DEF TagIdByHighway
<1>3. \A t \in 101..114 : DefaultSpeed[t] \in Int
  BY DEF DefaultSpeed
<1>4. ParseMaxspeed(way.maxspeed) \in Int \union {Null}
  <2>1. PICK m : m = way.maxspeed
    OBVIOUS
  <2>2. m \in {<<>>} \union (Int \X BOOLEAN)
    BY <2>1 DEF WaysImport, IsExtract
  <2>3. CASE m = <<>>
    BY <2>1, <2>3 DEF ParseMaxspeed
  <2>4. CASE m # <<>>
    <3>1. m[1] \in Int
      BY <2>2, <2>4
    <3>2. PICK n \in Int : n = m[1]
      BY <3>1
    <3>3. (n * 1609344 + 500000) \div 1000000 \in Int
      OBVIOUS
    <3>4. QED
      BY <2>1, <3>2, <3>3 DEF ParseMaxspeed
  <2>5. QED
    BY <2>3, <2>4
<1>5. /\ edge.tag_id = TagIdByHighway[way.highway]
      /\ edge.maxspeed = ParseMaxspeed(way.maxspeed)
  BY DEF EdgeOf
<1>6. PICK n : n = IF edge.maxspeed \in {Null, 0} THEN DefaultSpeed[edge.tag_id]
                                                 ELSE edge.maxspeed
  OBVIOUS
<1>7. n \in Int
  BY <1>2, <1>3, <1>4, <1>5, <1>6
<1>8. Max({1, n}) \in Nat \ {0}
  BY <1>7 DEF Max
<1>9. QED
  BY <1>6, <1>8 DEF Speed

LEMMA EdgesArePriced ==
  ASSUME NEW x, IsExtract(x), NEW e \in NodedWays(x)
  PROVE  IsEdge(Priced(e))
<1>1. PICK way \in WaysImport(x) :
        \E span \in Spans(x, way) : e = EdgeOf(x, way, span[1], span[2])
  BY DEF NodedWays
<1>2. PICK span \in Spans(x, way) : e = EdgeOf(x, way, span[1], span[2])
  BY <1>1
<1>3. e.geom \in Seq(Point) /\ Len(e.geom) \in Nat \ {0}
  BY <1>2, EdgeGeometry
<1>4. PICK l, s \in Nat : l = Length(e.geom) /\ s = Speed(e) /\ s # 0
  BY <1>2, <1>3, LengthIsNatural, SpeedIsPositive
<1>5. PICK t : t = (l * TimeUnits) \div s
  OBVIOUS
<1>6. t \in Nat
  <2>1. l * TimeUnits \in Nat
    BY TimeUnitsAssumption
  <2>2. QED
    BY <1>4, <1>5, <2>1
<1>7. PICK gid, tag, speed, oneway, geom, source, target :
        e = [gid |-> gid, tag_id |-> tag, maxspeed |-> speed, oneway |-> oneway,
             geom |-> geom, source |-> source, target |-> target,
             cost_distance |-> Null, cost_time |-> Null]
  <2>1. PICK line : line = IF OnewayDirection(way) = -1
                           THEN Reverse(SubSeq(Line(x, way.nodes), span[1], span[2]))
                           ELSE SubSeq(Line(x, way.nodes), span[1], span[2])
    OBVIOUS
  <2>2. e = [gid |-> <<way.id, span[1], span[2]>>, tag_id |-> TagIdByHighway[way.highway],
             maxspeed |-> ParseMaxspeed(way.maxspeed),
             oneway |-> Absolute(OnewayDirection(way)), geom |-> line,
             source |-> line[1], target |-> line[Len(line)],
             cost_distance |-> Null, cost_time |-> Null]
    BY <1>2, <2>1 DEF EdgeOf
  <2>3. QED
    BY <2>2
<1>8. Priced(e) = [e EXCEPT !.cost_distance = l, !.cost_time = t]
  BY <1>4, <1>5 DEF Priced
<1>9. Priced(e).cost_distance = l /\ Priced(e).cost_time = t /\ Priced(e).geom = e.geom
  BY <1>7, <1>8
<1>10. QED
  BY <1>3, <1>4, <1>6, <1>9 DEF IsEdge

-----------------------------------------------------------------------------
(* The line that was made of the first n nodes of a way, if none is left   *)
(* out, is where they are.                                                 *)
Placed(x, nodes, line, n) ==
  \A k \in 1..n : nodes[k] \in DOMAIN x.pos /\ line[k] = x.pos[nodes[k]]

ShortOrPlaced(x, nodes, line, n) ==
  Len(line) \in Nat /\ Len(line) <= n /\ (Len(line) = n => Placed(x, nodes, line, n))

LEMMA OneNodeMore ==
  ASSUME NEW x, IsExtract(x), NEW nodes, NEW n \in Nat, NEW l \in Seq(Point),
         ShortOrPlaced(x, nodes, l, n), NEW m, m = LongerLine(x, nodes, l, n + 1)
  PROVE  ShortOrPlaced(x, nodes, m, n + 1)
<1>1. Len(l) \in Nat /\ Len(l) <= n /\ (Len(l) = n => Placed(x, nodes, l, n))
  BY DEF ShortOrPlaced
<1>2. CASE m = l
  <2>1. Len(m) \in Nat /\ Len(m) <= n + 1 /\ Len(m) # n + 1
    BY <1>1, <1>2
  <2>2. QED
    BY <2>1 DEF ShortOrPlaced
<1>3. CASE m # l
  <2>1. m = Append(l, x.pos[nodes[n + 1]]) /\ nodes[n + 1] \in DOMAIN x.pos
    BY <1>3 DEF LongerLine
  <2>2. PICK p \in Point : p = x.pos[nodes[n + 1]]
    BY <2>1 DEF IsExtract
  <2>3. /\ Len(m) = Len(l) + 1 /\ m[Len(l) + 1] = p
        /\ \A k \in 1..Len(l) : m[k] = l[k]
    BY <2>1, <2>2, AppendProperties
  <2>4. ASSUME Len(m) = n + 1, NEW k \in 1..(n + 1)
        PROVE  nodes[k] \in DOMAIN x.pos /\ m[k] = x.pos[nodes[k]]
    <3>1. Len(l) = n
      BY <1>1, <2>3, <2>4
    <3>2. CASE k = n + 1
      BY <2>1, <2>2, <2>3, <3>1, <3>2
    <3>3. CASE k \in 1..n
      BY <1>1, <2>3, <3>1, <3>3 DEF Placed
    <3>4. QED
      BY <3>2, <3>3
  <2>5. Len(m) \in Nat /\ Len(m) <= n + 1
    BY <1>1, <2>3
  <2>6. Len(m) = n + 1 => Placed(x, nodes, m, n + 1)
    BY <2>4 DEF Placed
  <2>7. QED
    BY <2>5, <2>6 DEF ShortOrPlaced
<1>4. QED
  BY <1>2, <1>3

LEMMA LineKept ==
  ASSUME NEW x, IsExtract(x), NEW nodes, Len(nodes) \in Nat,
         Len(Line(x, nodes)) = Len(nodes)
  PROVE  Placed(x, nodes, Line(x, nodes), Len(nodes))
<1>1. PICK line : /\ line \in [Nat -> Seq(Point)] /\ line[0] = <<>>
                  /\ \A n \in Nat : line[n + 1] = LongerLine(x, nodes, line[n], n + 1)
                  /\ Line(x, nodes) = line[Len(nodes)]
  BY LineSteps
<1> DEFINE S == {n \in Nat : ShortOrPlaced(x, nodes, line[n], n)}
<1>2. 0 \in S
  <2>1. Len(line[0]) = 0
    BY <1>1
  <2>2. QED
    BY <2>1 DEF ShortOrPlaced, Placed
<1>3. ASSUME NEW n \in Nat, n \in S PROVE n + 1 \in S
  <2>1. PICK l, m : l = line[n] /\ m = line[n + 1]
    OBVIOUS
  <2>2. l \in Seq(Point) /\ m = LongerLine(x, nodes, l, n + 1) /\ ShortOrPlaced(x, nodes, l, n)
    BY <1>1, <1>3, <2>1
  <2>3. ShortOrPlaced(x, nodes, m, n + 1)
    BY <2>2, OneNodeMore
  <2>4. QED
    BY <2>1, <2>3
<1>4. Len(nodes) \in S
  <2>1. \A n \in Nat : n \in S
    <3> HIDE DEF S
    <3>1. QED
      BY <1>2, <1>3, SetInduction
  <2>2. QED
    BY <2>1
<1>5. QED
  BY <1>1, <1>4 DEF ShortOrPlaced

(* How far along a line its points are.                                    *)
Measures(W, line) ==
  /\ W \in [1..Len(line) -> Int]
  /\ \A k \in 1..(Len(line) - 1) : W[k + 1] = W[k] + Distance(line[k], line[k + 1])

LEMMA LengthAlong ==
  ASSUME NEW line \in Seq(Point), Len(line) \in Nat \ {0}, NEW W, Measures(W, line)
  PROVE  Length(line) = W[Len(line)] - W[1]
<1>1. PICK n : n = Len(line) - 1
  OBVIOUS
<1>2. n \in Nat /\ Len(line) = n + 1
  BY <1>1
<1>3. \A i \in 1..n : line[i] \in Point /\ line[i + 1] \in Point
  <2>1. \A i \in 1..n : i \in 1..Len(line) /\ i + 1 \in 1..Len(line)
    BY <1>1, <1>2
  <2>2. QED
    BY <2>1, ElementOfSeq
<1>4. PICK hops : hops = Hops(line)
  OBVIOUS
<1>5. hops = [i \in 1..n |-> <<line[i], line[i + 1]>>]
  BY <1>1, <1>4 DEF Hops
<1>6. PICK metres : metres = [i \in DOMAIN hops |-> Distance(hops[i][1], hops[i][2])]
  OBVIOUS
<1>7. metres = [i \in 1..n |-> Distance(line[i], line[i + 1])]
  BY <1>5, <1>6
<1>8. \A i \in 1..n : Distance(line[i], line[i + 1]) \in Nat
  BY <1>3, DegreesAndMetres
<1>9. metres \in [1..n -> Nat]
  BY <1>7, <1>8
<1>10. metres \in Seq(Nat) /\ Len(metres) = n
  BY <1>2, <1>9
<1>11. Length(line) = Total(metres)
  BY <1>4, <1>6 DEF Length, SumOver
<1>12. PICK sum : Sums(sum, metres) /\ Total(metres) = sum[n]
  BY <1>10, TotalIsOfSums
<1>13. /\ sum \in [0..n -> Nat] /\ sum[0] = 0
       /\ \A i \in 0..(n - 1) : sum[i + 1] = sum[i] + metres[i + 1]
  BY <1>10, <1>12 DEF Sums
<1>14. /\ W \in [1..(n + 1) -> Int]
       /\ \A k \in 1..n : W[k + 1] = W[k] + Distance(line[k], line[k + 1])
  BY <1>1, <1>2 DEF Measures
<1> DEFINE S == {i \in Nat : i <= n => sum[i] = W[i + 1] - W[1]}
<1>15. 0 \in S
  <2>1. W[1] \in Int /\ 0 + 1 = 1
    BY <1>2, <1>14
  <2>2. QED
    BY <1>13, <2>1
<1>16. ASSUME NEW i \in Nat, i \in S PROVE i + 1 \in S
  <2>1. SUFFICES ASSUME i + 1 <= n PROVE sum[i + 1] = W[(i + 1) + 1] - W[1]
    OBVIOUS
  <2>2. i \in 0..(n - 1) /\ i + 1 \in 1..n /\ 1 \in 1..(n + 1) /\ sum[i] = W[i + 1] - W[1]
    BY <1>2, <1>16, <2>1
  <2>3. /\ sum[i + 1] = sum[i] + metres[i + 1]
        /\ metres[i + 1] = Distance(line[i + 1], line[(i + 1) + 1])
        /\ W[(i + 1) + 1] = W[i + 1] + Distance(line[i + 1], line[(i + 1) + 1])
    BY <1>7, <1>13, <1>14, <2>2
  <2>4. Distance(line[i + 1], line[(i + 1) + 1]) \in Nat
    BY <1>8, <2>2
  <2>5. W[1] \in Int /\ W[i + 1] \in Int
    <3>1. i + 1 \in 1..(n + 1)
      BY <1>2, <2>1
    <3>2. QED
      BY <1>14, <2>2, <3>1
  <2>6. QED
    BY <2>2, <2>3, <2>4, <2>5
<1>17. n \in S
  <2>1. \A i \in Nat : i \in S
    <3> HIDE DEF S
    <3>1. QED
      BY <1>15, <1>16, SetInduction
  <2> HIDE DEF S
  <2>2. QED
    BY <1>2, <2>1
<1>18. sum[n] = W[n + 1] - W[1]
  BY <1>2, <1>17
<1>19. QED
  BY <1>2, <1>11, <1>12, <1>18

LEMMA MeasuresExist ==
  ASSUME NEW line \in Seq(Point), Len(line) \in Nat \ {0}
  PROVE  \E W : Measures(W, line) /\ \A k \in 1..Len(line) : W[k] \in Nat
<1>1. PICK n \in Nat : Len(line) = n + 1
  <2>1. Len(line) - 1 \in Nat /\ Len(line) = (Len(line) - 1) + 1
    OBVIOUS
  <2>2. QED
    BY <2>1
<1>2. PICK metres : metres = [i \in 1..n |-> Distance(line[i], line[i + 1])]
  OBVIOUS
<1>3. \A i \in 1..n : Distance(line[i], line[i + 1]) \in Nat
  <2>1. \A i \in 1..n : i \in 1..Len(line) /\ i + 1 \in 1..Len(line)
    BY <1>1
  <2>2. \A i \in 1..n : line[i] \in Point /\ line[i + 1] \in Point
    BY <2>1, ElementOfSeq
  <2>3. QED
    BY <2>2, DegreesAndMetres
<1>4. metres \in [1..n -> Nat]
  BY <1>2, <1>3
<1>5. metres \in Seq(Nat) /\ Len(metres) = n
  BY <1>4
<1>6. PICK sum : Sums(sum, metres)
  BY <1>5, TotalIsOfSums
<1>7. /\ sum \in [0..n -> Nat]
      /\ \A i \in 0..(n - 1) : sum[i + 1] = sum[i] + metres[i + 1]
  BY <1>5, <1>6 DEF Sums
<1>8. PICK W : W = [k \in 1..(n + 1) |-> sum[k - 1]]
  OBVIOUS
<1>9. \A k \in 1..(n + 1) : k - 1 \in 0..n
  OBVIOUS
<1>10. W \in [1..(n + 1) -> Nat]
  BY <1>7, <1>8, <1>9
<1>11. ASSUME NEW k \in 1..n PROVE W[k + 1] = W[k] + Distance(line[k], line[k + 1])
  <2>1. k - 1 \in 0..(n - 1) /\ (k - 1) + 1 = k /\ (k + 1) - 1 = k /\ k \in 1..(n + 1) /\ k + 1 \in 1..(n + 1)
    OBVIOUS
  <2>2. sum[k] = sum[k - 1] + metres[k]
    BY <1>7, <2>1
  <2>3. W[k + 1] = sum[k] /\ W[k] = sum[k - 1]
    BY <1>8, <2>1
  <2>4. QED
    BY <1>2, <2>2, <2>3
<1>12. (n + 1) - 1 = n
  OBVIOUS
<1>13. Measures(W, line)
  BY <1>1, <1>10, <1>11, <1>12 DEF Measures
<1>14. QED
  BY <1>1, <1>10, <1>13

(* A piece of a line, either way round.                                    *)
MeasuredPiece(line, W, i, j) ==
  LET piece == SubSeq(line, i, j)
      back  == Reverse(piece)
  IN  /\ Length(piece) = W[j] - W[i] /\ Length(back) = W[j] - W[i]
      /\ back[1] = line[j] /\ back[Len(back)] = line[i]
      /\ piece[1] = line[i] /\ piece[Len(piece)] = line[j]

LEMMA PieceLength ==
  ASSUME NEW line \in Seq(Point), Len(line) \in Nat \ {0}, NEW W, Measures(W, line),
         NEW i \in 1..Len(line), NEW j \in 1..Len(line), i <= j
  PROVE  MeasuredPiece(line, W, i, j)
<1>1. PICK s : s = SubSeq(line, i, j)
  OBVIOUS
<1>2. PICK n \in Nat \ {0} : n = j - i + 1
  <2>1. j - i + 1 \in Nat \ {0}
    OBVIOUS
  <2>2. QED
    BY <2>1
<1>3. /\ s \in Seq(Point) /\ Len(s) = n
      /\ \A h \in 1..n : s[h] = line[i + h - 1]
  BY <1>1, <1>2, SubSeqProperties
<1>4. PICK r : r = Reverse(s)
  OBVIOUS
<1>5. r = [h \in 1..n |-> s[(n - h) + 1]]
  BY <1>3, <1>4 DEF Reverse
<1>6. \A h \in 1..n : /\ (n - h) + 1 \in 1..n /\ s[h] \in Point
                      /\ i + h - 1 \in 1..Len(line) /\ j - h + 1 \in 1..Len(line)
                      /\ i + ((n - h) + 1) - 1 = j - h + 1
  <2>1. \A h \in 1..n : s[h] \in Point
    BY <1>3, ElementOfSeq
  <2>2. QED
    BY <1>2, <2>1
<1>7. \A h \in 1..n : r[h] = line[j - h + 1] /\ r[h] \in Point
  BY <1>3, <1>5, <1>6
<1>8. r \in [1..n -> Point]
  BY <1>5, <1>6
<1>9. r \in Seq(Point) /\ Len(r) = n
  BY <1>8
<1>10. /\ \A k \in 1..Len(line) : W[k] \in Int
       /\ \A k \in 1..(Len(line) - 1) : W[k + 1] = W[k] + Distance(line[k], line[k + 1])
  BY DEF Measures
<1>11. PICK U : U = [h \in 1..n |-> W[i + h - 1]]
  OBVIOUS
<1>12. Measures(U, s)
  <2>1. U \in [1..n -> Int]
    BY <1>6, <1>10, <1>11
  <2>2. ASSUME NEW h \in 1..(n - 1) PROVE U[h + 1] = U[h] + Distance(s[h], s[h + 1])
    <3>1. PICK k \in Nat : k = i + h - 1
      OBVIOUS
    <3>2. h \in 1..n /\ h + 1 \in 1..n /\ i + (h + 1) - 1 = k + 1 /\ k \in 1..(Len(line) - 1)
      BY <1>2, <3>1
    <3>3. U[h] = W[k] /\ U[h + 1] = W[k + 1]
      BY <1>11, <3>1, <3>2
    <3>4. s[h] = line[k] /\ s[h + 1] = line[k + 1]
      BY <1>3, <3>1, <3>2
    <3>5. QED
      BY <1>10, <3>2, <3>3, <3>4
  <2>3. QED
    BY <1>3, <2>1, <2>2 DEF Measures
<1>13. PICK V : V = [h \in 1..n |-> -W[j - h + 1]]
  OBVIOUS
<1>14. Measures(V, r)
  <2>1. V \in [1..n -> Int]
    <3>1. \A h \in 1..n : W[j - h + 1] \in Int
      BY <1>6, <1>10
    <3>2. \A h \in 1..n : -W[j - h + 1] \in Int
      BY <3>1
    <3>3. QED
      BY <1>13, <3>2
  <2>2. ASSUME NEW h \in 1..(n - 1) PROVE V[h + 1] = V[h] + Distance(r[h], r[h + 1])
    <3>1. PICK k \in Nat : k = j - h
      BY <1>2
    <3>2. /\ h \in 1..n /\ h + 1 \in 1..n /\ j - (h + 1) + 1 = k /\ j - h + 1 = k + 1
          /\ k \in 1..(Len(line) - 1) /\ k \in 1..Len(line) /\ k + 1 \in 1..Len(line)
      BY <1>2, <3>1
    <3>3. V[h] = -W[k + 1] /\ V[h + 1] = -W[k]
      BY <1>13, <3>2
    <3>4. r[h] = line[k + 1] /\ r[h + 1] = line[k]
      BY <1>7, <3>2
    <3>5. W[k] \in Int /\ W[k + 1] = W[k] + Distance(line[k], line[k + 1])
      BY <1>10, <3>2
    <3>6. /\ Distance(line[k], line[k + 1]) \in Nat
          /\ Distance(line[k], line[k + 1]) = Distance(line[k + 1], line[k])
      <4>1. line[k] \in Point /\ line[k + 1] \in Point
        BY <3>2, ElementOfSeq
      <4>2. QED
        BY <4>1, DegreesAndMetres
    <3>7. QED
      BY <3>3, <3>4, <3>5, <3>6
  <2>3. QED
    BY <1>9, <2>1, <2>2 DEF Measures
<1>15. Length(s) = U[n] - U[1] /\ Length(r) = V[n] - V[1]
  BY <1>3, <1>9, <1>12, <1>14, LengthAlong
<1>16. /\ 1 \in 1..n /\ n \in 1..n /\ i + n - 1 = j /\ i + 1 - 1 = i
       /\ j - n + 1 = i /\ j - 1 + 1 = j
  BY <1>2
<1>17. U[n] = W[j] /\ U[1] = W[i] /\ V[n] = -W[i] /\ V[1] = -W[j]
  BY <1>11, <1>13, <1>16
<1>18. W[i] \in Int /\ W[j] \in Int
  BY <1>10
<1>19. Length(s) = W[j] - W[i] /\ Length(r) = W[j] - W[i]
  BY <1>15, <1>17, <1>18
<1>20. r[1] = line[j] /\ r[n] = line[i] /\ s[1] = line[i] /\ s[n] = line[j]
  BY <1>3, <1>7, <1>16
<1>21. QED
  BY <1>1, <1>3, <1>4, <1>9, <1>19, <1>20 DEF MeasuredPiece
=============================================================================
