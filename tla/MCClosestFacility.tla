------------------------- MODULE MCClosestFacility -------------------------
(***************************************************************************)
(* Five small extracts and the questions asked about them.                 *)
(***************************************************************************)
EXTENDS ClosestFacility

Road(id, nodes, highway, oneway, maxspeed) ==
  [id |-> id, nodes |-> nodes, highway |-> highway, oneway |-> oneway,
   junction |-> "none", maxspeed |-> maxspeed, tags |-> {<<"highway", highway>>}]

Building(id, nodes, tags) ==
  [id |-> id, nodes |-> nodes, highway |-> "none", oneway |-> "none",
   junction |-> "none", maxspeed |-> <<>>, tags |-> tags]

Poi(id, x, y, key, value) == [id |-> id, geom |-> <<x, y>>, tags |-> {<<key, value>>}]

\* A two-way street a-b-c, a one-way street through b digitised against its
\* direction (travelled e, b, d), a slow way round and a footway.
Crossing ==
  [pos  |-> [a |-> <<0, 0>>, b |-> <<200, 0>>, c |-> <<400, 0>>,
             d |-> <<200, 200>>, e |-> <<200, -200>>],
   ways |-> {Road("w1", <<"a", "b", "c">>, "residential", "none", <<>>),
             Road("w2", <<"d", "b", "e">>, "primary", "-1", <<60, FALSE>>),
             Road("w3", <<"e", "c">>, "living_street", "no", <<>>),
             Road("w4", <<"a", "d">>, "footway", "none", <<>>)},
   pois |-> {Poi("hospital", 210, 190, "amenity", "hospital"),
             Poi("cafe", 390, 20, "amenity", "Cafe"),
             Poi("pub", 200, -170, "amenity", "pub"),
             Poi("farm", 0, 310, "shop", "farm"),
             Poi("tree", 10, 0, "natural", "tree")}]

\* A motorway over a street: they cross in one place but share no node there.
\* The way round by time is not the way round by distance.
Bridge ==
  [pos  |-> [a |-> <<0, 0>>, b |-> <<100, 0>>, c |-> <<200, 0>>,
             d |-> <<100, -100>>, x |-> <<100, 0>>, e |-> <<100, 100>>],
   ways |-> {Road("w1", <<"a", "b", "c">>, "service", "none", <<>>),
             Road("w2", <<"d", "x", "e">>, "motorway", "none", <<>>),
             Road("w3", <<"c", "e">>, "residential", "none", <<>>),
             Road("w4", <<"a", "d">>, "tertiary", "none", <<>>)},
   pois |-> {Poi("hospital", 100, 90, "amenity", "hospital"),
             Poi("station", 190, 0, "emergency", "ambulance_station"),
             Poi("museum", 110, -90, "tourism", "museum"),
             Poi("clinic", 90, 110, "amenity", "hospital")}]

\* A dead end with a facility across the river: the way round leaves the box of
\* a small buffer.  A facility with its nearest vertices east and north.
River ==
  [pos  |-> [a |-> <<0, 0>>, b |-> <<500, 0>>, c |-> <<500, 150>>, d |-> <<0, 150>>,
             e |-> <<-240, -80>>],
   ways |-> {Road("w1", <<"a", "b">>, "tertiary", "none", <<>>),
             Road("w2", <<"b", "c">>, "tertiary", "none", <<>>),
             Road("w3", <<"c", "d">>, "tertiary", "none", <<>>),
             Road("w4", <<"a", "e">>, "service", "no", <<30, TRUE>>)},
   pois |-> {Poi("hospital", 0, 140, "amenity", "hospital"),
             Poi("pub", 30, 65, "amenity", "pub"),
             Poi("cafe", 490, 10, "amenity", "cafe")}]

\* An extract cut at a border (node m is missing), a roundabout, and a hospital
\* drawn as a building.
Border ==
  [pos  |-> [a |-> <<0, 0>>, b |-> <<100, 0>>, c |-> <<200, 0>>, d |-> <<100, 100>>,
             p |-> <<80, 80>>, q |-> <<120, 80>>, r |-> <<120, 120>>, s |-> <<80, 120>>],
   ways |-> {Road("w1", <<"a", "m", "b", "c">>, "residential", "none", <<>>),
             Road("w2", <<"b", "d">>, "residential", "none", <<0, FALSE>>),
             [Road("w3", <<"d", "c", "b", "d">>, "secondary", "none", <<>>)
                EXCEPT !.junction = "roundabout"],
             Building("yard", <<"p", "q", "r", "s", "p">>, {<<"amenity", "hospital">>}),
             Building("fence", <<"p", "q", "r">>, {<<"amenity", "school">>})},
   pois |-> {Poi("cafe", 200, 10, "amenity", "cafe")}]

\* A hospital and a pub share the vertex at a corner.  A school 90 m east of it
\* has a vertex to the north that is nearer by degrees and farther by metres.
Corner ==
  [pos  |-> [a |-> <<0, 0>>, b |-> <<150, 0>>, c |-> <<240, 120>>],
   ways |-> {Road("w1", <<"a", "b">>, "residential", "none", <<>>),
             Road("w2", <<"b", "c">>, "tertiary", "yes", <<>>)},
   pois |-> {Poi("hospital", 150, -10, "amenity", "hospital"),
             Poi("pub", 150, 10, "amenity", "pub"),
             Poi("school", 240, 0, "amenity", "school")}]

AllExtracts == {Crossing, Bridge, River, Border, Corner}

Question(x, y, buffer, filter, k, mode) ==
  [incident |-> <<x, y>>, buffer |-> buffer, filter |-> filter, k |-> k, cost_mode |-> mode]

Hospitals == {<<"amenity", "hospital">>}

AllQuestions ==
  {Question(x, y, buffer, filter, k, mode) :
     x \in {0}, y \in {10}, buffer \in {200, 1000}, filter \in {{}, Hospitals},
     k \in {1, 3}, mode \in {"distance", "time"}}
  \union {Question(200, 20, 300, {}, 3, "distance"),
          Question(0, 260, 1000, {}, 1, "distance"),
          Question(-120, 120, 1000, {}, 1, "time"),
          Question(0, 0, 200, {}, 1, "speed"),
          Question(2000, 2000, 500, {}, 1, "time")}

Forms == [Cafe |-> "cafe"]
=============================================================================
