----------------------------- MODULE Importance -----------------------------
(***************************************************************************)
(* How important a row is: from the page views of the map at its place,    *)
(* those of its brand's article, and its category.  All three are          *)
(* quantiles, in tenths; what is published is the quantile of the row      *)
(* among all rows of the file.                                             *)
(***************************************************************************)
EXTENDS MatchMasks, Sorting

CONSTANTS
    Views(_),     \* osmviews: the rank of the map at a position
    QRank         \* the page views of items, for those that have any

ASSUME QRankAssumption == IsFiniteSet(DOMAIN QRank)

\* Quantiles.  Ties share the middle of their ranks; those of an empty
\* distribution are in the middle.  In units of 1/(2 * size).
CountWhere(sorted, Test(_)) == Cardinality({i \in DOMAIN sorted : Test(sorted[i])})
MidRank_below(sorted, v) == 2 * CountWhere(sorted, LAMBDA x : x < v)     \* a mutant

MidRank(sorted, v) ==
    CountWhere(sorted, LAMBDA x : x < v) + CountWhere(sorted, LAMBDA x : x <= v)
Tenths(sorted, v) == IF sorted = <<>> THEN 5 ELSE (10 * MidRank(sorted, v)) \div (2 * Len(sorted))

-----------------------------------------------------------------------------
compute_osmviews_ranks(places) == SortBy([i \in DOMAIN places |-> Views(places[i].at)], <)

WikidataIds(tags) == Parts(tags, WIKIDATA_KEYS)
collect_from_atp(places) == UNION {WikidataIds(places[i].tags) : i \in DOMAIN places}
collect_from_osm(features) == UNION {WikidataIds(features[i].tags) : i \in DOMAIN features}
collect_wikidata_ids(places, features) ==
    collect_from_atp(places) \cup collect_from_osm(features)

\* The page views of the ids that have any, and their quantiles.
read_pageviews(ids) == [id \in ids \cap DOMAIN QRank |-> QRank[id]]
compute_qrank_quantiles(ids) ==
    LET pageviews == read_pageviews(ids)
        sorted == SortBy(SetToSeq({<<pageviews[id], id>> : id \in DOMAIN pageviews}),
                         LAMBDA a, b : a[1] < b[1])
        views == [i \in DOMAIN sorted |-> sorted[i][1]]
    IN  [id \in DOMAIN pageviews |-> Tenths(views, pageviews[id])]

-----------------------------------------------------------------------------
open_signals(places, features) ==
    [locations |-> compute_osmviews_ranks(places),
     brands |-> compute_qrank_quantiles(collect_wikidata_ids(places, features))]

\* The best of the brands that have a quantile; the empty set without one.
brand_quantile(signals, tags) ==
    LET ids == WikidataIds(tags) \cap DOMAIN signals.brands
    IN  IF ids = {} THEN {} ELSE {Max({signals.brands[id] : id \in ids})}

\* Weights of 4, 3 and 3; those that are there make up the whole.
LOCATION_WEIGHT == 4
BRAND_WEIGHT == 3
CATEGORY_WEIGHT == 3
Weighted(location, brand, category) ==
    LET known == LOCATION_WEIGHT * location + CATEGORY_WEIGHT * category
    IN  IF brand = {}
        THEN (LOCATION_WEIGHT + BRAND_WEIGHT + CATEGORY_WEIGHT) * known
        ELSE (LOCATION_WEIGHT + CATEGORY_WEIGHT)
             * (known + BRAND_WEIGHT * (CHOOSE b \in brand : TRUE))

\* The brand of the place goes before that of its match.
score(signals, atp, osm_tags) ==
    LET own == brand_quantile(signals, atp.tags)
    IN  Weighted(Tenths(signals.locations, Views(atp.at)),
                 IF own # {} THEN own ELSE brand_quantile(signals, osm_tags),
                 importance(Mask(atp.tags)))

score_osm(signals, osm) ==
    Weighted(Tenths(signals.locations, Views(osm.at)), brand_quantile(signals, osm.tags),
             importance(Mask(osm.tags)))
=============================================================================
