------------------------------ MODULE Matchers ------------------------------
(***************************************************************************)
(* The matcher of a place: which kind it is, and what it says of a         *)
(* candidate.                                                              *)
(***************************************************************************)
EXTENDS PoiMatcher, TransitMatcher, InfrastructureMatcher

create_matcher(place, know) ==
    CASE for_poi_place(place, know) -> "poi"
      [] ~for_poi_place(place, know) /\ for_transit_place(place) -> "transit"
      [] OTHER -> IF for_infrastructure_place(place) THEN "infrastructure" ELSE "none"

score_osm_candidate(place, know, osm) ==
    CASE create_matcher(place, know) = "poi" -> poi_score(place, know, osm)
      [] create_matcher(place, know) = "transit" -> transit_score(place, osm)
      [] create_matcher(place, know) = "infrastructure" -> infrastructure_score(place, osm)

is_exclusive(matcher) == matcher \in {"transit", "infrastructure"}

may_share(place, know, osm) ==
    CASE create_matcher(place, know) = "transit" -> transit_may_share(place, osm)
      [] create_matcher(place, know) = "infrastructure" -> infrastructure_may_share(place, osm)

counts_for_coverage(place, know) ==
    create_matcher(place, know) = "poi" => poi_counts_for_coverage(place, know)

\* How far from the place candidates are looked for, in meters.
search_radius(place, know) ==
    IF create_matcher(place, know) = "infrastructure" THEN settings(place).max
    ELSE match_distance(Mask(place.tags))
=============================================================================
