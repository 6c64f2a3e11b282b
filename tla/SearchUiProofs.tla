--------------------------- MODULE SearchUiProofs ---------------------------
(***************************************************************************)
(* Theorems about SearchUi, for any number of places, searches and ranks.  *)
(***************************************************************************)
EXTENDS SearchUi, FiniteSetTheorems, TLAPS

(* The part of the state that the request and the result list depend on.   *)
StoreType ==
  /\ incident \in Places \union {Nowhere}
  /\ results \in Results
  /\ selected \in 0..MaxRank
  /\ isLoading \in BOOLEAN
  /\ submitted \in 0..MaxSearches
  /\ inFlight \subseteq Search

(* The request in flight, if any, is the last one submitted, and has not   *)
(* been answered.                                                          *)
RequestIsLast ==
  /\ isLoading => \E s \in Search : inFlight = {s}
  /\ ~isLoading => inFlight = {}
  /\ \A s \in inFlight : s.of = submitted /\ results.of < s.of
  /\ results.of <= submitted

StoreSafe ==
  StoreType /\ RequestIsLast /\ SelectionIsOfResults /\ OnlyTheLastComesBack

-----------------------------------------------------------------------------
LEMMA StoreInit == Init => StoreSafe
<1> SUFFICES ASSUME Init PROVE StoreSafe
  OBVIOUS
<1>0. /\ incident = Nowhere /\ results = Nothing /\ selected = 0
      /\ isLoading = FALSE /\ submitted = 0 /\ inFlight = {}
  BY DEF Init
<1>1. results \in Results /\ results.of = 0 /\ results.count = 0
  BY <1>0, SearchesAssumption DEF Results, Nothing
<1>2. StoreType
  <2>1. selected \in 0..MaxRank /\ submitted \in 0..MaxSearches
    BY <1>0, SearchesAssumption
  <2>2. isLoading \in BOOLEAN
    BY <1>0
  <2>3. QED
    BY <1>0, <1>1, <2>1, <2>2 DEF StoreType
<1>3. RequestIsLast
  BY <1>0, <1>1 DEF RequestIsLast
<1>4. QED
  BY <1>0, <1>1, <1>2, <1>3 DEF StoreSafe, SelectionIsOfResults, OnlyTheLastComesBack

(* What Show leaves in the store is what it was told.                      *)
LEMMA ShowSets ==
  ASSUME NEW STATE inc, NEW STATE res, NEW STATE sel, NEW STATE ran,
         Show(inc, res, sel, ran)
  PROVE  incident' = inc /\ results' = res /\ selected' = sel
  BY DEF Show

LEMMA StoreStep == StoreSafe /\ [Next]_vars => StoreSafe'
<1> SUFFICES ASSUME StoreSafe, [Next]_vars
             PROVE  StoreSafe'
  OBVIOUS
<1> USE SearchesAssumption, NowhereAssumption
    DEF StoreSafe, StoreType, RequestIsLast, SelectionIsOfResults,
        OnlyTheLastComesBack
<1>1. CASE Mount
  BY <1>1 DEF Mount, requestVars, pictureVars
<1>2. CASE Load
  BY <1>2 DEF Load, requestVars
<1>3. ASSUME NEW p \in Places, SetIncident(p)
      PROVE  StoreSafe'
  <2>1. incident' = p /\ results' = results /\ selected' = 0
    BY <1>3, ShowSets DEF SetIncident
  <2>2. QED
    BY <1>3, <2>1 DEF SetIncident, requestVars, Results
<1>4. ASSUME NEW rank \in Rank, Select(rank)
      PROVE  StoreSafe'
  <2>1. /\ incident' = incident /\ results' = results
        /\ selected' = IF selected = rank THEN 0 ELSE rank
    BY <1>4, ShowSets DEF Select
  <2>2. QED
    BY <1>4, <2>1 DEF Select, requestVars, Results, Rank
<1>5. CASE Submit
  <2>1. [of |-> submitted + 1, at |-> incident] \in Search
    BY <1>5 DEF Submit, Search
  <2>2. inFlight' = {[of |-> submitted + 1, at |-> incident]}
    BY <1>5 DEF Submit
  <2>3. UNCHANGED <<incident, results, selected>>
    BY <1>5 DEF Submit, pictureVars
  <2>4. submitted' = submitted + 1 /\ submitted < MaxSearches /\ isLoading' = TRUE
    BY <1>5 DEF Submit
  <2>5. StoreType'
    BY <2>1, <2>2, <2>3, <2>4
  <2>6. results.of \in 0..MaxSearches
    BY DEF Results
  <2>7. RequestIsLast'
    BY <2>1, <2>2, <2>3, <2>4, <2>6
  <2>8. incident' # Nowhere
    BY <1>5, <2>3 DEF Submit
  <2>9. QED
    BY <2>3, <2>5, <2>7, <2>8
<1>6. CASE Clear
  <2>1. incident' = Nowhere /\ results' = Nothing /\ selected' = 0
    BY <1>6, ShowSets DEF Clear
  <2>2. \A s \in inFlight : s.of > 0
    BY DEF Search
  <2>3. QED
    BY <1>6, <2>1, <2>2 DEF Clear, Nothing, Results
<1>7. CASE DismissError
  BY <1>7 DEF DismissError, pictureVars
<1>8. ASSUME NEW s \in inFlight, Refuse(s)
      PROVE  StoreSafe'
  <2>1. inFlight = {s}
    BY <1>8
  <2>2. inFlight' = {}
    BY <1>8, <2>1 DEF Refuse
  <2>3. QED
    BY <1>8, <2>2 DEF Refuse, pictureVars
<1>9. ASSUME NEW s \in inFlight, NEW n \in 0..MaxRank, Answer(s, n)
      PROVE  StoreSafe'
  <2>1. /\ incident' = incident
        /\ results' = [of |-> s.of, at |-> s.at, count |-> n]
        /\ selected' = IF n > 0 THEN 1 ELSE 0
    BY <1>9, ShowSets DEF Answer
  <2>2. inFlight = {s}
    BY <1>9
  <2>3. inFlight' = {}
    BY <1>9, <2>2 DEF Answer
  <2>4. s.of \in 1..MaxSearches /\ s.at \in Places /\ s.of = submitted
    BY DEF Search
  <2>5. results' \in Results
    BY <2>1, <2>4 DEF Results
  <2>6. results'.of = submitted /\ results'.count = n
    BY <2>1, <2>4
  <2>7. submitted' = submitted /\ isLoading' = FALSE
    BY <1>9 DEF Answer
  <2>8. selected' \in 0..MaxRank /\ selected' <= n
    BY <2>1
  <2>9. StoreType'
    <3>1. isLoading' \in BOOLEAN
      BY <2>7
    <3>2. QED
      BY <2>1, <2>3, <2>5, <2>7, <2>8, <3>1
  <2>10. QED
    BY <2>3, <2>6, <2>7, <2>8, <2>9 DEF StoreSafe
<1>10. CASE UNCHANGED vars
  BY <1>10 DEF vars, requestVars, pictureVars
<1>11. QED
  BY <1>1, <1>2, <1>3, <1>4, <1>5, <1>6, <1>7, <1>8, <1>9, <1>10 DEF Next

(* The inductive invariant of the store: one request, the last submitted,  *)
(* newer than the results shown.                                           *)
THEOREM StoreIsSafe == Spec => []StoreSafe
  BY StoreInit, StoreStep, PTL DEF Spec

(* Loading means exactly one request in flight, however searches, clears   *)
(* and errors interleave.                                                  *)
THEOREM NeverTwoSearches == Spec => []OneSearchAtATime
<1>1. StoreSafe => OneSearchAtATime
  <2> SUFFICES ASSUME StoreSafe PROVE OneSearchAtATime
    OBVIOUS
  <2>1. CASE isLoading
    <3>1. PICK s \in Search : inFlight = {s}
      BY <2>1 DEF StoreSafe, RequestIsLast
    <3>2. Cardinality(inFlight) = 1
      BY <3>1, FS_Singleton
    <3>3. isLoading = TRUE /\ inFlight # {}
      BY <2>1, <3>1 DEF StoreSafe, StoreType
    <3>4. QED
      BY <3>2, <3>3 DEF OneSearchAtATime
  <2>2. CASE ~isLoading
    BY <2>2, FS_EmptySet DEF StoreSafe, RequestIsLast, OneSearchAtATime
  <2>3. QED
    BY <2>1, <2>2
<1>2. QED
  BY <1>1, StoreIsSafe, PTL

(* Whatever was submitted, cleared and answered before: a list shown       *)
(* without an incident answers the last search, and nothing else is on its *)
(* way.                                                                    *)
THEOREM OnlyTheLastAnswers == Spec => []OnlyTheLastComesBack
<1>1. StoreSafe => OnlyTheLastComesBack
  BY DEF StoreSafe
<1>2. QED
  BY <1>1, StoreIsSafe, PTL

(* The highlighted rank always is one of the results shown.                *)
THEOREM SelectionInList == Spec => []SelectionIsOfResults
<1>1. StoreSafe => SelectionIsOfResults
  BY DEF StoreSafe
<1>2. QED
  BY <1>1, StoreIsSafe, PTL

(* The result list never goes back to the answer of an earlier search.     *)
THEOREM ResultsMoveForward == Spec => ResultsNeverGoBack
<1>1. StoreSafe /\ [Next]_vars =>
        [results' = Nothing \/ results'.of >= results.of]_results
  <2> SUFFICES ASSUME StoreSafe, [Next]_vars, results' # results
               PROVE  results' = Nothing \/ results'.of >= results.of
    OBVIOUS
  <2>1. ASSUME NEW p \in Places, SetIncident(p) PROVE FALSE
    BY <2>1, ShowSets DEF SetIncident
  <2>2. ASSUME NEW rank \in Rank, Select(rank) PROVE FALSE
    BY <2>2, ShowSets DEF Select
  <2>3. CASE Clear
    BY <2>3, ShowSets DEF Clear
  <2>4. ASSUME NEW s \in inFlight, NEW n \in 0..MaxRank, Answer(s, n)
        PROVE  results'.of >= results.of
    <3>1. results' = [of |-> s.of, at |-> s.at, count |-> n]
      BY <2>4, ShowSets DEF Answer
    <3>2. results.of < s.of /\ s.of \in 1..MaxSearches /\ results.of \in 0..MaxSearches
      BY DEF StoreSafe, StoreType, RequestIsLast, Search, Results
    <3>3. QED
      BY <3>1, <3>2, SearchesAssumption
  <2>5. ASSUME NEW s \in inFlight, Refuse(s) PROVE FALSE
    BY <2>5 DEF Refuse, pictureVars
  <2>6. QED
    BY <2>1, <2>2, <2>3, <2>4, <2>5
    DEF Next, Mount, Load, Submit, DismissError, vars, pictureVars
<1>2. QED
  BY <1>1, StoreIsSafe, PTL DEF Spec, ResultsNeverGoBack

-----------------------------------------------------------------------------
(* The map.  An effect that does not run would draw what it drew last: the *)
(* data of a layer outside `ran` is what it was.                           *)
LEMMA EffectsRun ==
  /\ \A p \in Places, l \in Layer \ OnIncident(0) :
       Picture(p, results, 0)[l] = Picture(incident, results, selected)[l]
  /\ \A sel : \A l \in Layer \ {"routes"} :
       Picture(incident, results, sel)[l] = Picture(incident, results, selected)[l]
  /\ \A res, sel : \A l \in Layer \ OnResults :
       Picture(incident, res, sel)[l] = Picture(incident, results, selected)[l]
  /\ \A l \in Layer \ OnClear :
       Picture(Nowhere, Nothing, 0)[l] = Picture(incident, results, selected)[l]
BY DEF Picture, Layer, OnIncident, OnResults, OnClear

Current == Picture(incident, results, selected)

(* A layer either shows the store or has a listener that will.             *)
MapSafe ==
  /\ loadFired \in BOOLEAN
  /\ NothingLostBeforeLoad

LEMMA ShowDraws ==
  ASSUME MapSafe, loadFired' = loadFired,
         NEW STATE inc, NEW STATE res, NEW STATE sel, NEW STATE ran,
         Show(inc, res, sel, ran),
         \A l \in Layer \ ran : Picture(inc, res, sel)[l] = Current[l]
  PROVE  MapSafe'
<1> DEFINE new == Picture(inc, res, sel)
<1>1. Current' = new
  BY ShowSets DEF Current
<1>2. PICK ready \in StyleLoadedFor(ran) :
        /\ drawn' = [l \in Layer |-> IF l \in ready THEN new[l] ELSE drawn[l]]
        /\ waiting' = [l \in Layer |->
             IF l \in ran \ ready /\ ~loadFired THEN {new[l]} ELSE waiting[l]]
  BY DEF Show
<1>3. ASSUME ~loadFired, NEW l \in Layer
      PROVE  drawn'[l] = new[l] \/ waiting'[l] = {new[l]}
  <2>1. CASE l \in ready
    BY <1>2, <2>1
  <2>2. CASE l \in ran \ ready
    BY <1>2, <1>3, <2>2
  <2>3. CASE l \notin ran /\ l \notin ready
    <3>1. new[l] = Current[l]
      BY <2>3
    <3>2. drawn[l] = Current[l] \/ waiting[l] = {Current[l]}
      BY <1>3 DEF MapSafe, NothingLostBeforeLoad, Current
    <3>3. QED
      BY <1>2, <2>3, <3>1, <3>2
  <2>4. QED
    BY <2>1, <2>2, <2>3
<1>4. NothingLostBeforeLoad'
  BY <1>1, <1>3 DEF NothingLostBeforeLoad, Current
<1>5. QED
  BY <1>4 DEF MapSafe

LEMMA MapInit == Init => MapSafe
<1> SUFFICES ASSUME Init PROVE MapSafe
  OBVIOUS
<1>1. drawn = Picture(incident, results, selected) /\ loadFired = FALSE
  BY DEF Init
<1>2. QED
  BY <1>1 DEF MapSafe, NothingLostBeforeLoad

LEMMA MapStep == MapSafe /\ [Next]_vars => MapSafe'
<1> SUFFICES ASSUME MapSafe, [Next]_vars
             PROVE  MapSafe'
  OBVIOUS
<1>1. CASE Load
  BY <1>1 DEF Load, MapSafe, NothingLostBeforeLoad
<1>2. ASSUME NEW p \in Places, SetIncident(p) PROVE MapSafe'
  BY <1>2, ShowDraws, EffectsRun DEF SetIncident, mapVars, Current
<1>3. ASSUME NEW rank \in Rank, Select(rank) PROVE MapSafe'
  <2> DEFINE sel == IF selected = rank THEN 0 ELSE rank
  <2>1. Show(incident, results, sel, {"routes"}) /\ loadFired' = loadFired
    BY <1>3 DEF Select, mapVars
  <2>2. \A l \in Layer \ {"routes"} : Picture(incident, results, sel)[l] = Current[l]
    BY EffectsRun DEF Current
  <2> HIDE DEF sel
  <2>3. QED
    BY <2>1, <2>2, ShowDraws
<1>4. CASE Clear
  BY <1>4, ShowDraws, EffectsRun DEF Clear, mapVars, Current
<1>5. ASSUME NEW s \in inFlight, NEW n \in 0..MaxRank, Answer(s, n)
      PROVE  MapSafe'
  <2> DEFINE res == [of |-> s.of, at |-> s.at, count |-> n]
             sel == IF n > 0 THEN 1 ELSE 0
  <2>1. Show(incident, res, sel, OnResults) /\ loadFired' = loadFired
    BY <1>5 DEF Answer, mapVars
  <2>2. \A l \in Layer \ OnResults : Picture(incident, res, sel)[l] = Current[l]
    BY EffectsRun DEF Current
  <2> HIDE DEF res, sel
  <2>3. QED
    BY <2>1, <2>2, ShowDraws
<1>6. ASSUME UNCHANGED <<pictureVars, loadFired>> PROVE MapSafe'
  BY <1>6 DEF MapSafe, NothingLostBeforeLoad, pictureVars
<1>7. QED
  BY <1>1, <1>2, <1>3, <1>4, <1>5, <1>6
  DEF Next, Mount, Submit, Refuse, DismissError, vars, mapVars

(* Until the load event each layer shows what the store holds or has a     *)
(* listener that will draw it, whenever the style is loaded and whenever   *)
(* it is not (RouteLayer.tsx:77-78).                                       *)
THEOREM NoUpdateIsLost == Spec => []NothingLostBeforeLoad
<1>1. MapSafe => NothingLostBeforeLoad
  BY DEF MapSafe
<1>2. QED
  BY <1>1, MapInit, MapStep, PTL DEF Spec

-----------------------------------------------------------------------------
(* The types of what is drawn.                                             *)
Pictures == [routes   |-> Results \X (0..MaxRank),
             legs     |-> Results,
             markers  |-> Results,
             incident |-> Places \union {Nowhere}]

MapType ==
  /\ lastError \in BOOLEAN
  /\ mapRef \in BOOLEAN /\ wired \in BOOLEAN /\ loadFired \in BOOLEAN
  /\ \A l \in Layer :
       /\ drawn[l] \in Pictures[l]
       /\ waiting[l] = {} \/ \E d \in Pictures[l] : waiting[l] = {d}

LEMMA PicturesOf ==
  ASSUME NEW STATE inc, NEW STATE res, NEW STATE sel,
         inc \in Places \union {Nowhere}, res \in Results, sel \in 0..MaxRank
  PROVE  \A l \in Layer : Picture(inc, res, sel)[l] \in Pictures[l]
BY DEF Picture, Pictures, Layer

LEMMA ShowType ==
  ASSUME StoreType', MapType,
         NEW STATE inc, NEW STATE res, NEW STATE sel, NEW STATE ran,
         Show(inc, res, sel, ran)
  PROVE  \A l \in Layer :
           /\ drawn'[l] \in Pictures[l]
           /\ waiting'[l] = {} \/ \E d \in Pictures[l] : waiting'[l] = {d}
<1> DEFINE new == Picture(inc, res, sel)
<1>1. \A l \in Layer : new[l] \in Pictures[l]
  <2>1. inc \in Places \union {Nowhere} /\ res \in Results /\ sel \in 0..MaxRank
    BY ShowSets DEF StoreType
  <2>2. QED
    BY <2>1, PicturesOf
<1>2. PICK ready \in StyleLoadedFor(ran) :
        /\ drawn' = [l \in Layer |-> IF l \in ready THEN new[l] ELSE drawn[l]]
        /\ waiting' = [l \in Layer |->
             IF l \in ran \ ready /\ ~loadFired THEN {new[l]} ELSE waiting[l]]
  BY DEF Show
<1>3. QED
  BY <1>1, <1>2 DEF MapType

LEMMA InitMapType == Init => MapType
<1> SUFFICES ASSUME Init PROVE MapType
  OBVIOUS
<1>1. /\ drawn = Picture(Nowhere, Nothing, 0) /\ waiting = [l \in Layer |-> {}]
      /\ lastError = FALSE /\ mapRef = FALSE /\ wired = FALSE /\ loadFired = FALSE
  BY DEF Init
<1>2. Nothing \in Results /\ 0 \in 0..MaxRank
  BY SearchesAssumption DEF Results, Nothing
<1>3. \A l \in Layer : drawn[l] \in Pictures[l]
  BY <1>1, <1>2 DEF Picture, Pictures, Layer
<1>4. lastError \in BOOLEAN /\ mapRef \in BOOLEAN /\ wired \in BOOLEAN /\ loadFired \in BOOLEAN
  BY <1>1
<1>5. QED
  BY <1>1, <1>3, <1>4 DEF MapType

LEMMA StepMapType == StoreSafe /\ MapType /\ [Next]_vars => MapType'
<1> SUFFICES ASSUME StoreSafe, MapType, [Next]_vars PROVE MapType'
  OBVIOUS
<1>1. StoreType'
  BY StoreStep DEF StoreSafe
<1>2. /\ lastError' \in BOOLEAN
      /\ mapRef' \in BOOLEAN /\ wired' \in BOOLEAN /\ loadFired' \in BOOLEAN
  BY DEF MapType, Next, Mount, Load, SetIncident, Select, Submit, Clear, DismissError,
         Refuse, Answer, requestVars, mapVars, vars
<1> DEFINE Kept == \A l \in Layer :
                     /\ drawn'[l] \in Pictures[l]
                     /\ waiting'[l] = {} \/ \E d \in Pictures[l] : waiting'[l] = {d}
<1>3. CASE Load
  <2>1. /\ drawn' = [l \in Layer |-> IF waiting[l] = {} THEN drawn[l]
                                     ELSE CHOOSE d \in waiting[l] : TRUE]
        /\ waiting' = [l \in Layer |-> {}]
    BY <1>3 DEF Load
  <2>2. ASSUME NEW l \in Layer PROVE drawn'[l] \in Pictures[l]
    <3>1. waiting[l] # {} => (CHOOSE d \in waiting[l] : TRUE) \in Pictures[l]
      BY DEF MapType
    <3>2. QED
      BY <2>1, <3>1 DEF MapType
  <2>3. Kept
    BY <2>1, <2>2
  <2>4. QED
    BY <1>2, <2>3 DEF MapType
<1>4. ASSUME NEW p \in Places, SetIncident(p) PROVE Kept
  BY <1>1, <1>4, ShowType DEF SetIncident
<1>5. ASSUME NEW rank \in Rank, Select(rank) PROVE Kept
  BY <1>1, <1>5, ShowType DEF Select
<1>6. CASE Clear
  <2>1. Kept
    BY <1>1, <1>6, ShowType DEF Clear
  <2>2. QED
    BY <1>2, <2>1 DEF MapType
<1>7. ASSUME NEW s \in inFlight, NEW n \in 0..MaxRank, Answer(s, n) PROVE Kept
  BY <1>1, <1>7, ShowType DEF Answer
<1>8. ASSUME UNCHANGED pictureVars PROVE Kept
  BY <1>8 DEF MapType, pictureVars
<1>9. Kept => MapType'
  BY <1>2 DEF MapType
<1>10. QED
  BY <1>3, <1>4, <1>5, <1>6, <1>7, <1>8, <1>9
  DEF Next, Mount, Submit, Refuse, DismissError, vars

(* Every component of the client keeps its type, a request always carries  *)
(* an incident, and no layer has two listeners for the load event.         *)
THEOREM TypeCorrect == Spec => []TypeOK
<1>1. StoreSafe /\ MapType => TypeOK
  <2> SUFFICES ASSUME StoreSafe, MapType PROVE TypeOK
    OBVIOUS
  <2>1. ASSUME NEW l \in Layer PROVE Cardinality(waiting[l]) <= 1
    <3>1. CASE waiting[l] = {}
      BY <3>1, FS_EmptySet
    <3>2. ASSUME NEW d \in Pictures[l], waiting[l] = {d} PROVE Cardinality(waiting[l]) <= 1
      BY <3>2, FS_Singleton
    <3>3. QED
      BY <3>1, <3>2 DEF MapType
  <2>2. /\ drawn.incident \in Places \union {Nowhere}
        /\ drawn.legs \in Results /\ drawn.markers \in Results
        /\ drawn.routes \in Results \X (0..MaxRank)
    BY DEF MapType, Pictures, Layer
  <2>3. /\ incident \in Places \union {Nowhere} /\ results \in Results
        /\ selected \in 0..MaxRank /\ isLoading \in BOOLEAN
        /\ submitted \in 0..MaxSearches /\ inFlight \subseteq Search
    BY DEF StoreSafe, StoreType
  <2>4. /\ lastError \in BOOLEAN
        /\ mapRef \in BOOLEAN /\ wired \in BOOLEAN /\ loadFired \in BOOLEAN
    BY DEF MapType
  <2>5. QED
    BY <2>1, <2>2, <2>3, <2>4 DEF TypeOK
<1>2. QED
  BY <1>1, StoreInit, StoreStep, InitMapType, StepMapType, PTL DEF Spec
=============================================================================
