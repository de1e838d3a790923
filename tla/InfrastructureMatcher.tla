------------------------ MODULE InfrastructureMatcher ------------------------
(***************************************************************************)
(* Matching of street infrastructure, such as post boxes and benches: by   *)
(* kind, distance, and references where those of the spider are known to   *)
(* be those of OpenStreetMap.                                              *)
(***************************************************************************)
EXTENDS MatchMasks

\* Units of 1/10000.
SAME_REF_MIN_SCORE == 9000
KIND_FACTOR == 8000
CONFIRM_BONUS == 400

KindOf(tag) ==
    CASE Is(tag, "amenity", {"post_box", "bench", "public_bookcase", "bicycle_parking",
                             "waste_basket", "toilets"}) -> tag[2][1]
      [] Is(tag, "emergency", {"defibrillator", "fire_hydrant"}) -> tag[2][1]
      [] Is(tag, "amenity", {"fountain", "drinking_water"})
         \/ Is(tag, "man_made", {"drinking_fountain"}) -> "fountain"
      [] OTHER -> "none"

infrastructure_kind(tags) ==
    LET K == {i \in DOMAIN tags : KindOf(tags[i]) # "none"}
    IN  IF K = {} THEN "none" ELSE KindOf(tags[Min(K)])

confirming_keys(kind) ==
    CASE kind = "post_box" -> {"collection_times"}
      [] kind = "bench" -> {"backrest"}
      [] kind = "fire_hydrant" -> {"fire_hydrant:type"}
      [] kind = "bicycle_parking" -> {"capacity"}
      [] OTHER -> {}

-----------------------------------------------------------------------------
(***************************************************************************)
(* How far away a match may be, and how references compare.  A reference   *)
(* is a sequence of words, the first one of which may be a prefix of its   *)
(* spider.                                                                 *)
(***************************************************************************)
Setting(max, refs, key) == [max |-> max, refs |-> refs, key |-> key]

for_spider(kind, spider) ==
    CASE kind = "post_box" /\ spider \in {"swiss_post_ch", "deutsche_post_de"} ->
           Setting(100, "ignore", "ref")
      [] kind = "post_box" /\ spider = "japan_post_jp" -> Setting(20, "equal", "ref")
      [] kind = "defibrillator" /\ spider = "steiger_stiftung_aed" ->
           Setting(50, "last_word", "ref")
      [] kind = "fire_hydrant" /\ spider = "epcor_fire_hydrants_ca" ->
           Setting(10, "equal", "ref")
      [] kind = "public_bookcase" /\ spider = "little_free_library" ->
           Setting(50, "equal", "ref")
      [] kind = "fountain" /\ spider = "stadt_zuerich_ch" ->
           Setting(10, "strip_prefix", "ref")
      [] kind = "bench" /\ spider = "seattle_parks_and_recreation_benches_us" ->
           Setting(15, "equal", "ref:US-WA:DPR:AMWO_ID")
      [] OTHER ->
           Setting(CASE kind = "post_box" -> 50
                     [] kind \in {"defibrillator", "public_bookcase", "toilets"} -> 30
                     [] kind = "fire_hydrant" -> 10
                     [] OTHER -> 15, "ignore", "ref")

settings(place) == for_spider(infrastructure_kind(place.tags), place.spider)

\* The reference of the place, in the form that OpenStreetMap has it.
Reference(place) ==
    LET ref == Value(place.tags, "ref") IN
    CASE settings(place).refs = "equal" -> ref
      [] settings(place).refs = "last_word" /\ ref # <<>> -> <<Last(ref)>>
      [] settings(place).refs = "strip_prefix" /\ Len(ref) > 1 /\ ref[1] = "wvz" -> Tail(ref)
      [] OTHER -> <<>>

-----------------------------------------------------------------------------
for_infrastructure_place(place) == infrastructure_kind(place.tags) # "none"

\* A post box of another operator.
OperatorDiffers(place, osm) ==
    LET ours == Parts(place.tags, {"operator:wikidata"})
        theirs == Parts(osm.tags, {"operator:wikidata"})
    IN  /\ infrastructure_kind(place.tags) = "post_box"
        /\ ours # {} /\ theirs # {} /\ ours \cap theirs = {}

SameReference(place, osm) ==
    /\ Reference(place) # <<>>
    /\ Reference(place) = Value(osm.tags, settings(place).key)

Confirmed(place, osm) ==
    {key \in confirming_keys(infrastructure_kind(place.tags)) :
        HasKey(place.tags, key) /\ Value(place.tags, key) = Value(osm.tags, key)}

\* Some post boxes have the street in their reference.
StreetInRef(place, osm) ==
    LET street == Value(place.tags, "addr:street") IN
    street # <<>> /\ \E i \in 1 .. Len(Value(osm.tags, "ref")) :
                        IsPrefix(street, SubSeq(Value(osm.tags, "ref"), i,
                                                Len(Value(osm.tags, "ref"))))

infrastructure_factor(place, osm) ==
    IF \/ infrastructure_kind(osm.tags) # infrastructure_kind(place.tags)
       \/ OperatorDiffers(place, osm)
    THEN [best |-> 0, worst |-> 0]
    ELSE IF SameReference(place, osm)
    THEN [best |-> 10000, worst |-> SAME_REF_MIN_SCORE]
    ELSE [best |-> KIND_FACTOR
                   + CONFIRM_BONUS * (Cardinality(Confirmed(place, osm))
                                      + (IF StreetInRef(place, osm) THEN 1 ELSE 0)),
          worst |-> 0]

\* Stands of a larger bicycle parking may be listed one by one.
infrastructure_may_share(place, osm) ==
    /\ infrastructure_kind(place.tags) = "bicycle_parking"
    /\ HasKey(place.tags, "capacity") /\ HasKey(osm.tags, "capacity")
    /\ Value(osm.tags, "capacity")[1] > Value(place.tags, "capacity")[1]

infrastructure_score(place, osm) ==
    LET f == infrastructure_factor(place, osm)
    IN  ScoreAt(f.best, f.worst, settings(place).max, Distance(place, osm))
=============================================================================
