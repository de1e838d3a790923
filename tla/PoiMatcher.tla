----------------------------- MODULE PoiMatcher -----------------------------
(***************************************************************************)
(* Matching of shops, restaurants, hotels, schools and the like: by brand, *)
(* by a contact, or by a website on the domain of a brand.                 *)
(*                                                                         *)
(* An address is a sequence of tokens; a token is a sequence of syllables, *)
(* so that "Bahnhof Strasse" and "Bahnhofstrasse" are the same when joined.*)
(* Tokens that are not numbers have at least five letters.                 *)
(***************************************************************************)
EXTENDS Contacts

CONSTANT Numbers      \* the tokens of addresses that are numbers

BRAND_DOMAIN_FACTOR == 96
BRAND_NAME_FACTOR == 96
POI_MASK == {"SHOP", "RESTAURANT", "LODGING", "SCHOOL", "FUEL"}
CONTACT_ADDRESS_CHECK_BEYOND_METERS == 150
POI_MAX_METERS == 400

FirstOf(tags, key) == ToSet(Value(tags, key))
brand_wikidata(tags) == FirstOf(tags, "brand:wikidata")
brand_names(tags) == FirstOf(tags, "brand")
osm_brand_names(tags) ==
    IF HasKey(tags, "brand") THEN FirstOf(tags, "brand") ELSE FirstOf(tags, "operator")
find_domain_brand_ids(tags) == ToSet(FirstWikidata(tags))

-----------------------------------------------------------------------------
Contiguous(part, whole) ==
    \E i \in 0 .. Len(whole) - Len(part) : SubSeq(whole, i + 1, i + Len(part)) = part

osm_address_in_atp_text(atp, osm) ==
    LET text == Value(atp, "addr:street_address") \o Value(atp, "addr:street")
                \o Value(atp, "addr:housenumber") \o Value(atp, "addr:full")
        number == Value(osm, "addr:housenumber")
        street == FlattenSeq(Value(osm, "addr:street"))
    IN  /\ text # <<>> /\ number # <<>> /\ street # <<>>
        /\ Contiguous(number, text)
        /\ \/ Contiguous(street, FlattenSeq(text))
           \/ \E i \in DOMAIN text : text[i] \notin Numbers /\ IsPrefix(text[i], street)

-----------------------------------------------------------------------------
(***************************************************************************)
(* What is known of all of AllThePlaces: know.nondescript are the contacts *)
(* that are worth nothing, know.domains the domains of brands.             *)
(***************************************************************************)
Evidence(place, know) ==
    [wikidata |-> brand_wikidata(place.tags),
     names    |-> brand_names(place.tags),
     contacts |-> AtpContacts(place, know.nondescript),
     domains  |-> {id \in find_domain_brand_ids(place.tags) :
                     \E d \in DOMAIN know.domains : know.domains[d] = id}]

for_poi_place(place, know) ==
    LET e == Evidence(place, know) IN
    /\ intersects(Mask(place.tags), POI_MASK)
    /\ \/ e.wikidata # {} \/ e.names # {} \/ e.domains # {}
       \/ ~no_contacts(e.contacts)

brand_domain_agrees(e, know, osm) ==
    \/ e.domains \cap find_domain_brand_ids(osm.tags) # {}
    \/ brand_wikidata(osm.tags) = {} /\ e.domains \cap brands(know.domains, osm.tags) # {}

\* Units of 1/100.
poi_evidence(place, know, osm) ==
    LET e == Evidence(place, know) IN
    CASE contacts_agree(place, e.contacts, osm) -> CONTACT_FACTOR
      [] ~contacts_agree(place, e.contacts, osm) ->
           IF e.names \cap osm_brand_names(osm.tags) # {} THEN BRAND_NAME_FACTOR
           ELSE IF brand_domain_agrees(e, know, osm) THEN BRAND_DOMAIN_FACTOR
           ELSE 0

\* A mutant: a contact counts for more than a brand.
poi_factor_contact(place, know, osm) ==
    IF poi_evidence(place, know, osm) # 0
    THEN poi_evidence(place, know, osm)
         * category_factor(main_category(place.tags), main_category(osm.tags))
    ELSE IF brand_wikidata(place.tags) \cap brand_wikidata(osm.tags) # {} THEN 10000 ELSE 0

\* Units of 1/10000.
poi_factor(place, know, osm) ==
    LET ours == brand_wikidata(place.tags)
        theirs == brand_wikidata(osm.tags)
    IN  IF ours # {} /\ theirs # {}
        THEN IF ours \cap theirs # {} THEN 10000 ELSE 0
        ELSE poi_evidence(place, know, osm)
             * category_factor(main_category(place.tags), main_category(osm.tags))

poi_counts_for_coverage(place, know) ==
    LET e == Evidence(place, know)
    IN  e.wikidata # {} \/ e.names # {} \/ has_phone_or_email(e.contacts)

poi_score(place, know, osm) ==
    LET factor == poi_factor(place, know, osm)
        d == Distance(place, osm)
    IN  IF /\ factor < 10000
           /\ d > CONTACT_ADDRESS_CHECK_BEYOND_METERS
           /\ ~osm_address_in_atp_text(place.tags, osm.tags)
        THEN 0
        ELSE factor * geo_point_distance_score(d, POI_MAX_METERS)
=============================================================================
