----------------------------- MODULE MCConflate -----------------------------
(***************************************************************************)
(* Small worlds for the conflation.  Those with a name are made for a      *)
(* case; the generated ones have one place and two features each, of all   *)
(* combinations of a few tags and positions.                               *)
(***************************************************************************)
EXTENDS Products

T(key, value) == <<key, <<value>> >>
Place(spider, tags, at, rank) ==
    [spider |-> spider, tags |-> tags, at |-> at, rank |-> rank, shape |-> 1]
Feature(id, tags, at) == [id |-> id, tags |-> tags, at |-> at, parts |-> {at}]

Sloid(number, track) == T("ref:sloid", <<"ch", "1", "sloid", number>> \o track)
MCPadded == ("3000" :> "03000") @@ ("4000" :> "04000") @@ ("5000" :> "05000")
Uic(number) == T("uic_ref", <<"85", MCPadded[number]>>)
Abroad == "1100020"     \* the number of a stop that has no UIC code
Stop(kind) == T("public_transport", kind)
Name == T("name", << <<"Bern">>, <<"Hirschengraben">> >>)
ShortName == T("name", << <<"Hirschengraben">> >>)
Phone(n) == T("phone", <<"CH", n>>)
Site(domain) == T("website", <<domain, "">>)
Shop == T("shop", "bakery")
Bench == T("amenity", "bench")

-----------------------------------------------------------------------------
\* The id of the place is on a stop area at the far end of the radius, and
\* the code of its stop on a station right here.
FarId ==
    [batches |-> << <<Place("sbb", <<Stop("station"), Sloid("3000", <<>>)>>, 1000, 1)>> >>,
     osm |-> <<Feature(11, <<Stop("station"), Uic("3000")>>, 1000),
               Feature(22, <<Stop("stop_area"), Sloid("3000", <<>>)>>, 1390)>>]

\* Two places share a feature by its id, a third has only its name.
Shared ==
    LET byId == <<Stop("platform"), Sloid("3000", <<"1">>)>> IN
    [batches |-> << <<Place("sbb", byId, 1000, 1),
                      Place("sbb", <<Stop("platform"), Name>>, 1010, 2)>>,
                    <<Place("sbb", byId, 1030, 1)>> >>,
     osm |-> <<Feature(11, <<Stop("platform"), Name, Sloid("3000", <<"1">>)>>, 1000)>>]

\* The best pair is not that of the first place.
Rivals ==
    [batches |-> << <<Place("city", <<Bench>>, 1006, 1), Place("city", <<Bench>>, 1001, 1)>>,
                    <<Place("town", <<Bench>>, 1000, 1)>> >>,
     osm |-> <<Feature(11, <<Bench>>, 1000), Feature(21, <<Bench>>, 1012)>>]

\* The feature with the reference is at the far end of the radius; another
\* one is right here, and has the same backrest and the street.
FarRef ==
    [batches |-> << <<Place("seattle_parks_and_recreation_benches_us",
                            <<Bench, T("ref", "S1"), T("backrest", "yes"),
                              T("addr:street", "Main")>>, 1000, 1)>> >>,
     osm |-> <<Feature(11, <<Bench, T("backrest", "yes"), T("ref", "Main")>>, 1000),
               Feature(21, <<Bench, T("ref:US-WA:DPR:AMWO_ID", "S1")>>, 1014)>>]

\* More candidates, equally good, than are kept; one is in three cells.
Crowd ==
    [batches |-> << <<Place("city", <<Bench>>, 1003, 1), Place("city", <<Bench>>, 995, 1)>> >>,
     osm |-> [i \in 1 .. 6 |->
                [Feature(10 * i + 1, <<Bench>>, IF i = 2 THEN 1000 ELSE 997 + (i % 2) * 6)
                 EXCEPT !.parts = IF i = 2 THEN {980, 1000, 1110} ELSE @]]]

Racks ==
    LET Rack(n) == <<T("amenity", "bicycle_parking"), T("capacity", n)>> IN
    [batches |-> << <<Place("cambridge", Rack(2), 1000, 1), Place("cambridge", Rack(2), 1001, 1)>>,
                    <<Place("cambridge", Rack(6), 1002, 2)>> >>,
     osm |-> <<Feature(11, Rack(6), 1001)>>]

\* A feature of another brand has the phone number of the place.
OtherBrand ==
    [batches |-> << <<Place("bakers", <<Shop, T("brand:wikidata", "Q1"), Phone("1")>>, 1000, 1)>> >>,
     osm |-> <<Feature(11, <<Shop, T("brand:wikidata", "Q2"), Phone("1")>>, 1000),
               Feature(21, <<Shop, T("brand:wikidata", "Q1")>>, 1100),
               Feature(32, <<Shop, T("brand:wikidata", "Q1")>>, 4000),
               Feature(41, <<Shop, T("brand:wikidata", "Q1")>>, 7000)>>]

\* Two branches have the number of their headquarters, far apart, and each
\* has an address of its own.
Headquarters ==
    LET Branch == <<Shop, Phone("9"), T("email", <<"a", "b.ch">>)>> IN
    [batches |-> << <<Place("hq", Branch, 1000, 1), Place("hq", Branch, 1300, 1)>>,
                    <<Place("hq", <<Shop, Phone("9")>>, 2500, 2)>> >>,
     osm |-> <<Feature(11, <<Shop, T("phone", <<"", "9">>)>>, 1010),
               Feature(21, <<Shop, T("email", <<"a", "b.ch">>)>>, 1100),
               Feature(31, <<Shop, Phone("9")>>, 2500)>>]

\* Places of one brand on its domain, and on one of another brand, too.
Domains ==
    [batches |-> << <<Place("a", <<Shop, T("brand:wikidata", "Q1"), Site("one.ch")>>, 1000, 1),
                      Place("a", <<Shop, T("brand:wikidata", "Q1"), Site("one.ch")>>, 3000, 1)>>,
                    <<Place("b", <<Shop, T("brand:wikidata", "Q1"), Site("two.ch")>>, 1000, 2),
                      Place("b", <<Shop, T("brand:wikidata", "Q2"), Site("two.ch")>>, 3000, 3)>> >>,
     osm |-> <<Feature(11, <<Shop, Site("one.ch")>>, 1000),
               Feature(21, <<Shop, Site("two.ch")>>, 3010)>>]

\* The same place twice, but for its shape.
Twice ==
    LET place == Place("dup", <<Shop, Phone("5")>>, 1000, 1) IN
    [batches |-> << <<place, [place EXCEPT !.shape = 2]>> >>,
     osm |-> <<Feature(11, <<Shop, Phone("5")>>, 1005), Feature(21, <<Shop>>, 1005)>>]

\* Farther than 150 meters, the address has to agree.
Address ==
    LET number == <<"addr:housenumber", << <<"7">> >> >>
        full == <<"addr:full", << <<"Bahnhof">>, <<"Strasse">>, <<"7">> >> >>
        street == <<"addr:street", << <<"Bahnhof", "Strasse">> >> >>
    IN  [batches |-> << <<Place("a", <<Shop, Phone("5"), full>>, 1000, 1)>> >>,
         osm |-> <<Feature(11, <<Shop, Phone("5"), number>>, 1151),
                   Feature(21, <<Shop, Phone("5"), number, street>>, 1300)>>]

\* A brand without an item, in two countries.
Names ==
    LET Kiosk == <<Shop, T("brand", "Kiosk")>> IN
    [batches |-> << <<Place("k", Kiosk, 1000, 1), Place("k", Kiosk, 2000, 1),
                      Place("k", Kiosk, 6000, 1)>> >>,
     osm |-> <<Feature(11, Kiosk, 1005), Feature(21, Kiosk, 3500), Feature(31, Kiosk, 7500),
               Feature(41, <<Shop, T("brand", "Kiosk"), T("brand:wikidata", "Q9")>>, 3600)>>]

\* The register of Swiss stops, one of which is abroad.
Register ==
    LET Operator == T("operator:wikidata", "Q7") IN
    [batches |-> << <<Place("didok", <<Stop("station"), Sloid("3000", <<>>), Operator>>, 1000, 1),
                      Place("didok", <<Stop("station"), Sloid(Abroad, <<>>), Operator>>, 6600, 2)>> >>,
     osm |-> <<Feature(11, <<Stop("platform"), Sloid("3000", <<"9">>)>>, 3000),
               Feature(21, <<Stop("platform"), Uic("5000")>>, 3000),
               Feature(31, <<Stop("platform")>>, 3000),
               Feature(41, <<Stop("platform"), T("aerialway", "station")>>, 3000),
               Feature(51, <<Stop("platform")>>, 6100),
               Feature(61, <<Stop("platform"), Operator>>, 8000)>>]

\* Of a stop abroad, the register knows the id that it lists, and not those of
\* its parts.
PartOfAbroad ==
    [batches |-> << <<Place("didok", <<Stop("station"), Sloid("3000", <<>>)>>, 1000, 1),
                      Place("didok", <<Stop("station"), Sloid(Abroad, <<>>)>>, 6600, 2)>> >>,
     osm |-> <<Feature(11, <<Stop("platform"), Sloid(Abroad, <<"2">>)>>, 6100),
               Feature(21, <<Stop("platform"), Sloid(Abroad, <<>>)>>, 6100)>>]

\* Nothing is known of the id of a stop abroad where a feature has but a UIC
\* code: the two are matched by their names.
Border ==
    [batches |-> << <<Place("didok", <<Stop("station"), Sloid(Abroad, <<>>), Name>>, 6600, 1)>>,
                    <<Place("sbb", <<Stop("station"), Sloid("3000", <<>>), Name>>, 6600, 2)>> >>,
     osm |-> <<Feature(11, <<Stop("station"), Uic("4000"), Name>>, 6600),
               Feature(21, <<Stop("station"), Sloid("3000", <<"1">>), Uic("3000")>>, 6700)>>]

\* The platforms of one stop, and boxes of one postal service.
Platforms ==
    [batches |-> << <<Place("sbb", <<Stop("platform"), Sloid("3000", <<"1">>)>>, 1000, 1)>> >>,
     osm |-> <<Feature(11, <<Stop("platform"), Sloid("3000", <<"2">>)>>, 1000),
               Feature(21, <<Stop("platform"), Sloid("3000", <<>>)>>, 1050)>>]

PostBoxes ==
    LET Box == <<T("amenity", "post_box"), T("operator:wikidata", "Q1")>> IN
    [batches |-> << <<Place("post", Box, 1000, 1)>> >>,
     osm |-> <<Feature(11, Box, 1010), Feature(21, Box, 1020),
               Feature(31, <<Box[1], T("operator:wikidata", "Q2")>>, 1000)>>]

\* A node and a way of one number, the node with two matches that differ.
SameNumber ==
    LET Branch(n) == <<Shop, T("brand:wikidata", "Q1"), Phone(n)>> IN
    [batches |-> << <<Place("a", Branch("1"), 1000, 1), Place("b", Branch("2"), 1010, 2)>>,
                    <<Place("b", Branch("3"), 3000, 3)>> >>,
     osm |-> <<Feature(51, <<Shop, T("brand:wikidata", "Q1"), Phone("7")>>, 1005),
               Feature(52, <<Shop, T("brand:wikidata", "Q1")>>, 3000)>>]

Named == <<FarId, Shared, Rivals, FarRef, Crowd, Racks, OtherBrand, Headquarters, Domains,
           Twice, Address, Names, Register, PartOfAbroad, Border, Platforms,
           PostBoxes, SameNumber>>

-----------------------------------------------------------------------------
StopPlaces ==
    << <<Stop("station"), Sloid("3000", <<>>), Name>>,
       <<Stop("platform"), Sloid("3000", <<"1">>), T("local_ref", "2")>>,
       <<Stop("stop_position"), Uic("3000"), Name, T("train", "yes")>> >>
StopFeatures ==
    << <<Stop("stop_area"), Sloid("3000", <<>>)>>,
       <<Stop("station"), Uic("3000"), ShortName>>,
       <<Stop("platform"), Sloid("3000", <<"1">>), Uic("4000")>>,
       <<T("railway", "stop"), Name, Uic("3000"), T("local_ref", "2")>>,
       <<T("highway", "bus_stop"), Sloid("4000", <<>>), Name>> >>

ShopPlaces ==
    << <<Shop, T("brand:wikidata", "Q1"), T("brand", "B")>>,
       <<Shop, T("brand", "B"), Phone("1")>>,
       <<T("amenity", "cafe"), Phone("1"), T("brand:wikidata", "Q2")>> >>
ShopFeatures ==
    << <<Shop, T("brand:wikidata", "Q2"), Phone("1"), T("brand", "B")>>,
       <<Shop, T("operator", "B")>>,
       <<T("amenity", "cafe"), T("phone", <<"", "1">>)>>,
       <<Shop, T("brand:wikidata", "Q1")>> >>

\* The n-th of all combinations, counted from 0, of a place and two features,
\* the first of which is here or far away, the second one in between.
Generated(places, features, n) ==
    LET F == Len(features) IN
    [batches |-> << <<Place("gen", places[n \div (F * F * 2) + 1], 1000, 1)>> >>,
     osm |-> <<Feature(11, features[((n \div (F * 2)) % F) + 1], 1000 + 390 * (n % 2)),
               Feature(21, features[((n \div 2) % F) + 1], 1060)>>]

\* The batches, one after the other, make up the file.
File(small) ==
    [places |-> FlattenSeq(small.batches),
     ends |-> [b \in DOMAIN small.batches |-> Len(FlattenSeq(SubSeq(small.batches, 1, b)))],
     osm |-> small.osm]

MCWorlds ==
    {File(small) : small \in
        ToSet(Named)
        \cup {Generated(StopPlaces, StopFeatures, n) : n \in 0 .. 3 * 5 * 5 * 2 - 1}
        \cup {Generated(ShopPlaces, ShopFeatures, n) : n \in 0 .. 3 * 4 * 4 * 2 - 1}}
MCSpiderOrder == <<"a", "b", "bakers", "cambridge", "city", "didok", "dup", "gen", "hq", "k", "post",
                   "sbb", "seattle_parks_and_recreation_benches_us", "town">>
MCEnclaves == {[country |-> "DE", from |-> 6000, to |-> 6300]}
MCCategoryPairs ==
    {<< <<"shop", "bakery">>, <<"amenity", "cafe">> >>, << <<"amenity", "cafe">>, <<"shop", "bakery">> >>}
MCNumbers == {<<"7">>}
MCViews(at) == (at \div 500) % 3
MCQRank == [Q1 |-> 10, Q2 |-> 20]
=============================================================================
