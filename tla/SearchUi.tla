------------------------------ MODULE SearchUi ------------------------------
(***************************************************************************)
(* The web client: the Zustand store of a search (store/searchStore.ts),   *)
(* the widgets that call it (SearchWidget, ResultsList, MapView) and the   *)
(* map layers that draw it (hooks/useMapLibre.ts, RouteLayer,              *)
(* FacilityLayer, AccessLegLayer, IncidentLayer).                          *)
(*                                                                         *)
(* A store update, the render it causes and that render's effects happen   *)
(* before the next browser event, so one action is one event with all of   *)
(* them.  The form's other fields (buffer, k, cost mode, facility type)    *)
(* only travel with the request and are left out; results are abstracted   *)
(* to the search they answer and how many there are.                       *)
(***************************************************************************)
EXTENDS Naturals, FiniteSets

CONSTANTS
  Places,       \* points that can be picked as the incident
  Nowhere,      \* no incident picked
  MaxSearches,  \* searches submitted (bounds the model)
  MaxRank       \* most results in an answer

ASSUME NowhereAssumption == Nowhere \notin Places
ASSUME SearchesAssumption == MaxSearches \in Nat /\ MaxRank \in Nat

Layer   == {"routes", "legs", "markers", "incident"}
Rank    == 1..MaxRank
Results == [of: 0..MaxSearches, at: Places \union {Nowhere}, count: 0..MaxRank]
Nothing == [of |-> 0, at |-> Nowhere, count |-> 0]
Search  == [of: 1..MaxSearches, at: Places]

VARIABLES
  incident,   \* the store
  results,
  selected,   \* selectedRank, 0 for null
  isLoading,
  lastError,  \* is an error shown?
  submitted,  \* searches submitted so far
  inFlight,   \* requests without a response
  mapRef,     \* has useMapLibre created the map?
  wired,      \* are FacilityLayer's click handlers on the map?
  loadFired,  \* has the map fired its load event?
  drawn,      \* layer -> the store values its source was last given
  waiting     \* layer -> what a listener for the load event will draw, if any

requestVars == <<isLoading, lastError, submitted, inFlight>>
pictureVars == <<incident, results, selected, drawn, waiting>>
mapVars     == <<mapRef, wired, loadFired>>
vars        == <<requestVars, pictureVars, mapVars>>

-----------------------------------------------------------------------------
(* What each layer's effect draws.                                         *)
Picture(inc, res, sel) ==
  [routes |-> <<res, sel>>, legs |-> res, markers |-> res, incident |-> inc]

Init ==
  /\ incident = Nowhere /\ results = Nothing /\ selected = 0
  /\ isLoading = FALSE /\ lastError = FALSE
  /\ submitted = 0 /\ inFlight = {}
  /\ mapRef = FALSE /\ wired = FALSE /\ loadFired = FALSE
  /\ drawn = Picture(Nowhere, Nothing, 0)
  /\ waiting = [l \in Layer |-> {}]

(* React runs the effects of the layers before that of MapView, which      *)
(* creates the map: FacilityLayer looks for it, does not find it, and the  *)
(* effect that adds its handlers does not run again.                       *)
Mount ==
  /\ ~mapRef
  /\ wired' = mapRef
  /\ mapRef' = TRUE
  /\ UNCHANGED <<loadFired, requestVars, pictureVars>>

(* map.isStyleLoaded(), asked by the effects that run, in the order of the *)
(* layers: it is false while a source or a tile is loading, before and     *)
(* after the load event, and a layer that draws may make it false for the  *)
(* next.  Nothing makes it true between two effects.                       *)
StyleLoadedFor(ran) ==
  {ran \intersect first : first \in {{}, {"routes"}, {"routes", "legs"},
                                    {"routes", "legs", "markers"}, Layer}}

(* Mutant: the layers return when the style is not loaded.                 *)
ShowNowOrNever(inc, res, sel, ran) ==
  LET new == Picture(inc, res, sel)
  IN  /\ incident' = inc /\ results' = res /\ selected' = sel
      /\ \E ready \in StyleLoadedFor(ran) :
           drawn' = [l \in Layer |-> IF l \in ready THEN new[l] ELSE drawn[l]]
      /\ UNCHANGED waiting

(* The store is set.  The effects whose dependencies changed have run: the *)
(* layer is drawn, or waits for the load event, which fires once.  A       *)
(* listener added before stays.                                            *)
Show(inc, res, sel, ran) ==
  LET new == Picture(inc, res, sel)
  IN  /\ incident' = inc /\ results' = res /\ selected' = sel
      /\ \E ready \in StyleLoadedFor(ran) :
           /\ drawn' = [l \in Layer |-> IF l \in ready THEN new[l] ELSE drawn[l]]
           /\ waiting' = [l \in Layer |->
                IF l \in ran \ ready /\ ~loadFired THEN {new[l]} ELSE waiting[l]]

(* The effects whose dependencies are other objects than before: a place   *)
(* and a list are new ones whenever they are set.                          *)
OnIncident(sel) == {"incident"} \union IF sel # selected THEN {"routes"} ELSE {}
OnResults       == {"routes", "legs", "markers"}
OnClear         == OnResults \union IF incident # Nowhere THEN {"incident"} ELSE {}

(* The load event: listeners run in the order they were added, so the last *)
(* one of a layer leaves its picture.                                      *)
Load ==
  /\ mapRef /\ ~loadFired
  /\ loadFired' = TRUE
  /\ drawn' = [l \in Layer |-> IF waiting[l] = {} THEN drawn[l]
                               ELSE CHOOSE d \in waiting[l] : TRUE]
  /\ waiting' = [l \in Layer |-> {}]
  /\ UNCHANGED <<mapRef, wired, requestVars, incident, results, selected>>

-----------------------------------------------------------------------------
(* A click on the map or a geocoder result: setIncident.                   *)
SetIncident(place) ==
  /\ mapRef
  /\ Show(place, results, 0, OnIncident(0))
  /\ UNCHANGED <<requestVars, mapVars>>

(* A click on a result card: setSelectedRank, null for the selected one.   *)
Select(rank) ==
  /\ rank \in 1..results.count
  /\ Show(incident, results, IF selected = rank THEN 0 ELSE rank, {"routes"})
  /\ UNCHANGED <<requestVars, mapVars>>

(* Mutant: Find stays enabled while a search is in flight.                 *)
SubmitWhileLoading ==
  /\ incident # Nowhere
  /\ submitted < MaxSearches
  /\ submitted' = submitted + 1
  /\ inFlight' = inFlight \union {[of |-> submitted + 1, at |-> incident]}
  /\ isLoading' = TRUE /\ lastError' = FALSE
  /\ UNCHANGED <<pictureVars, mapVars>>

(* submit(), called by Find, which is disabled while isLoading or without  *)
(* an incident.                                                            *)
Submit ==
  /\ ~isLoading /\ incident # Nowhere
  /\ submitted < MaxSearches
  /\ submitted' = submitted + 1
  /\ inFlight' = inFlight \union {[of |-> submitted + 1, at |-> incident]}
  /\ isLoading' = TRUE /\ lastError' = FALSE
  /\ UNCHANGED <<pictureVars, mapVars>>

(* 200: the rest of submit(), rank 1 selected if there is one.             *)
Answer(search, count) ==
  /\ search \in inFlight
  /\ inFlight' = inFlight \ {search}
  /\ isLoading' = FALSE
  /\ Show(incident, [of |-> search.of, at |-> search.at, count |-> count],
          IF count > 0 THEN 1 ELSE 0, OnResults)
  /\ UNCHANGED <<lastError, submitted, mapVars>>

(* An error response or none: the results stay.                            *)
Refuse(search) ==
  /\ search \in inFlight
  /\ inFlight' = inFlight \ {search}
  /\ isLoading' = FALSE /\ lastError' = TRUE
  /\ UNCHANGED <<submitted, pictureVars, mapVars>>

(* Mutant: clear() also resets isLoading.                                  *)
ClearStopsSpinner ==
  /\ mapRef
  /\ Show(Nowhere, Nothing, 0, OnClear)
  /\ isLoading' = FALSE /\ lastError' = FALSE
  /\ UNCHANGED <<submitted, inFlight, mapVars>>

(* Mutant: clear() leaves the result list.                                 *)
ClearKeepsResults ==
  /\ mapRef
  /\ Show(Nowhere, results, 0, OnClear)
  /\ lastError' = FALSE
  /\ UNCHANGED <<isLoading, submitted, inFlight, mapVars>>

(* clear(): the request in flight is not abandoned.                        *)
Clear ==
  /\ mapRef
  /\ Show(Nowhere, Nothing, 0, OnClear)
  /\ lastError' = FALSE
  /\ UNCHANGED <<isLoading, submitted, inFlight, mapVars>>

DismissError ==
  /\ lastError
  /\ lastError' = FALSE
  /\ UNCHANGED <<isLoading, submitted, inFlight, pictureVars, mapVars>>

-----------------------------------------------------------------------------
Next == \/ Mount \/ Load
        \/ \E p \in Places : SetIncident(p)
        \/ \E rank \in Rank : Select(rank)
        \/ Submit \/ Clear \/ DismissError
        \/ \E s \in inFlight : Refuse(s) \/ \E n \in 0..MaxRank : Answer(s, n)

Spec == Init /\ [][Next]_vars

-----------------------------------------------------------------------------
(* Properties.                                                             *)

(* Every component keeps its type; a request always carries an incident.   *)
TypeOK ==
  /\ incident \in Places \union {Nowhere}
  /\ results \in Results
  /\ selected \in 0..MaxRank
  /\ isLoading \in BOOLEAN /\ lastError \in BOOLEAN
  /\ submitted \in 0..MaxSearches
  /\ inFlight \subseteq Search
  /\ mapRef \in BOOLEAN /\ wired \in BOOLEAN /\ loadFired \in BOOLEAN
  /\ \A l \in Layer : Cardinality(waiting[l]) <= 1
  /\ drawn.incident \in Places \union {Nowhere}
  /\ drawn.legs \in Results /\ drawn.markers \in Results
  /\ drawn.routes \in Results \X (0..MaxRank)

(* The spinner and the disabled Find button stand for exactly one request, *)
(* through every clear, edit and error: that is all that keeps responses   *)
(* from overtaking each other, for the client numbers and aborts none.     *)
OneSearchAtATime ==
  /\ Cardinality(inFlight) <= 1
  /\ isLoading <=> inFlight # {}

(* The result list only moves forward: an answer never replaces that of a  *)
(* search submitted after its own.                                         *)
ResultsNeverGoBack ==
  [][results' = Nothing \/ results'.of >= results.of]_results

(* clear() does not abandon the request in flight (searchStore.ts:149), so *)
(* a cleared list can fill again.  It can with the answer of that one      *)
(* request only: what is shown without an incident answers the last search *)
(* submitted, and no other answer is on its way to replace it.             *)
OnlyTheLastComesBack ==
  incident = Nowhere /\ results.count > 0 =>
    results.of = submitted /\ ~isLoading

(* The highlighted rank is one of the list shown, although answers come    *)
(* and go between a card's rendering and the next click.                   *)
SelectionIsOfResults == selected <= results.count

(* Nothing that changes before the load event is lost: until it fires each *)
(* layer shows what the store holds or has a listener that will draw just  *)
(* that, whatever was searched, cleared and drawn meanwhile                *)
(* (RouteLayer.tsx:77-78 and its siblings).  What the event then leaves,   *)
(* and what happens after it, is another matter: RoutesShowTheResults.     *)
NothingLostBeforeLoad ==
  ~loadFired => \A l \in Layer :
    LET now == Picture(incident, results, selected)[l]
    IN  drawn[l] = now \/ waiting[l] = {now}

-----------------------------------------------------------------------------
(* What the repository says of the client and the code does not do.  The   *)
(* first has a run, the others are in no cfg: as an INVARIANT of ui_search *)
(* each is violated.                                                       *)

(* RouteLayer.tsx:14: the layer "renders one polyline per result rank".    *)
(* It does not when the style is loading after the load event, for that    *)
(* will not fire again, or when a listener added for older results draws   *)
(* over newer ones.                                                        *)
RoutesShowTheResults ==
  loadFired /\ results.count > 0 => drawn.routes = <<results, selected>>

(* searchStore.test.ts:137: clear() resets results and incident, and they  *)
(* stay so until a search has an incident again.                           *)
ClearedStaysEmpty == incident = Nowhere => results.count = 0

(* FacilityLayer.tsx:96: clicking a marker selects its rank and opens a    *)
(* popup, so its handlers are on the map once markers can be drawn.        *)
MarkersRespond == loadFired => wired
=============================================================================
