----------------------------- MODULE MatchMasks -----------------------------
(***************************************************************************)
(* The tags of AllThePlaces places and OpenStreetMap features, and the     *)
(* mask of categories by which candidates for a match are preselected.     *)
(*                                                                         *)
(* Tags are a sequence of pairs <<key, value>>; a value is the sequence of *)
(* its parts (they are separated by semicolons), so that "car;car_repair"  *)
(* is <<"car", "car_repair">>.  A mask is a set of bits.                   *)
(***************************************************************************)
EXTENDS Integers, Sequences, FiniteSets, FiniteSetsExt, SequencesExt

HasKey(tags, key) == \E i \in DOMAIN tags : tags[i][1] = key

\* The value of the first tag with that key; of none, no parts.
Value(tags, key) ==
    IF HasKey(tags, key)
    THEN tags[Min({i \in DOMAIN tags : tags[i][1] = key})][2]
    ELSE <<>>

\* All parts of the values of these keys.
Parts(tags, keys) == UNION {ToSet(tags[i][2]) : i \in {j \in DOMAIN tags : tags[j][1] \in keys}}

\* Whether the tag is key=value, with a value of a single part.
Is(tag, key, values) == tag[1] = key /\ Len(tag[2]) = 1 /\ tag[2][1] \in values

WIKIDATA_KEYS == {"brand:wikidata", "network:wikidata", "operator:wikidata"}

-----------------------------------------------------------------------------
BITS == <<"SHOP", "RESTAURANT", "LODGING", "SCHOOL", "TRANSIT", "PARKING", "FUEL",
          "SHRUBBERY", "STREET_FURNITURE", "LARGE", "IMPORTANT">>
CATEGORY_BITS == ToSet(SubSeq(BITS, 1, 9))

\* As numbers, of which the first bit is the lowest.
MaskBefore(a, b) ==
    \E k \in DOMAIN BITS :
        /\ BITS[k] \in b \ a
        /\ \A j \in DOMAIN BITS : j > k => (BITS[j] \in a <=> BITS[j] \in b)

\* Keys of which every value, with these exceptions, has the bit.
AnyValue ==
    [SHOP |-> {<<"shop", "no">>, <<"healthcare", "no">>},
     SCHOOL |-> {<<"school", "no">>},
     TRANSIT |-> {<<"public_transport", "no">>},
     STREET_FURNITURE |-> {<<"man_made", "cutline">>, <<"power", "line">>, <<"power", "no">>}]

\* The others, as far as features with them occur in the instances.
Listed ==
    [SHOP |-> {<<"amenity", v>> : v \in {"bank", "cinema", "pharmacy", "post_office",
                                         "veterinary"}},
     RESTAURANT |-> {<<"amenity", v>> : v \in {"bar", "cafe", "restaurant"}},
     LODGING |-> {<<"tourism", v>> : v \in {"camp_site", "hotel"}},
     SCHOOL |-> {<<"amenity", v>> : v \in {"kindergarten", "school"}},
     TRANSIT |-> {<<"highway", "bus_stop">>, <<"railway", "platform">>,
                  <<"amenity", "ferry_terminal">>},
     PARKING |-> {<<"amenity", "parking">>},
     FUEL |-> {<<"amenity", v>> : v \in {"charging_station", "fuel"}},
     SHRUBBERY |-> {<<"natural", "tree">>, <<"barrier", "hedge">>},
     STREET_FURNITURE |->
        {<<"amenity", v>> : v \in {"bench", "bicycle_parking", "drinking_water", "fountain",
                                   "post_box", "public_bookcase", "toilets", "waste_basket"}}
        \cup {<<"emergency", v>> : v \in {"defibrillator", "fire_hydrant"}},
     LARGE |-> {<<"public_transport", "platform">>, <<"railway", "platform">>,
                <<"tourism", "camp_site">>},
     IMPORTANT |-> {<<"amenity", "pharmacy">>, <<"emergency", "defibrillator">>}]

add_tag(tag) ==
    {bit \in DOMAIN Listed : \E p \in Listed[bit] : Is(tag, p[1], {p[2]})}
    \cup {bit \in DOMAIN AnyValue :
            /\ \E p \in AnyValue[bit] : tag[1] = p[1]
            /\ \A p \in AnyValue[bit] : ~Is(tag, p[1], {p[2]})}

Mask(tags) == UNION {add_tag(tags[i]) : i \in DOMAIN tags}

has_only(mask, category) == mask \cap CATEGORY_BITS = {category}
intersects(mask, other) == mask \cap other \cap CATEGORY_BITS # {}

\* Tenths.
CATEGORY_IMPORTANCE ==
    [SCHOOL |-> 8, TRANSIT |-> 8, SHOP |-> 7, RESTAURANT |-> 7, LODGING |-> 7,
     FUEL |-> 6, PARKING |-> 4, STREET_FURNITURE |-> 2, SHRUBBERY |-> 1]

importance(mask) ==
    IF "IMPORTANT" \in mask THEN 10
    ELSE IF mask \cap CATEGORY_BITS = {} THEN 3
    ELSE Max({CATEGORY_IMPORTANCE[bit] : bit \in mask \cap CATEGORY_BITS})

\* In meters.
match_distance(mask) ==
    LET categories == mask \cap CATEGORY_BITS IN
    CASE categories # {} /\ categories \subseteq {"SHRUBBERY", "STREET_FURNITURE"} -> 10
      [] "LARGE" \in mask -> 1000
      [] OTHER -> 400

-----------------------------------------------------------------------------
(***************************************************************************)
(* Scores.  Features are on a line, one meter per unit.  A factor is in    *)
(* units of 1/10000, a score in units of 1/60000000: 6000 is a multiple of *)
(* every search radius.                                                    *)
(***************************************************************************)
Distance(a, b) == IF a.at < b.at THEN b.at - a.at ELSE a.at - b.at

geo_point_distance_score(d, max) == IF d <= max THEN (max - d) * (6000 \div max) ELSE 0

\* The score at distance d, of evidence for which it is "best" at distance
\* 0, and "worst" at distance max.
ScoreAt(best, worst, max, d) ==
    IF best = 0 \/ d > max THEN 0
    ELSE worst * 6000 + (best - worst) * geo_point_distance_score(d, max)
=============================================================================
