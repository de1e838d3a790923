------------------------------ MODULE Deletion ------------------------------
(***************************************************************************)
(* OpenStreetMap features that are probably gone: AllThePlaces knows their *)
(* brand or name in their country, or has the register of all Swiss stops, *)
(* and does not list them.                                                 *)
(***************************************************************************)
EXTENDS Matchers

CONSTANTS
    MIN_NAME_FEATURES,              \* 3 in the code
    MAX_NAME_VALUES,                \* 3
    MIN_SWISS_TRANSIT_FEATURES,     \* 10,000
    Enclaves                        \* of the Swiss register: [country, from, to]

ASSUME DeletionAssumption ==
    {MIN_NAME_FEATURES, MAX_NAME_VALUES, MIN_SWISS_TRANSIT_FEATURES} \subseteq Nat

NAME_KEYS == {"brand", "network", "operator"}
SwissCountries == {"CH", "LI"}
SWISS_CELL == 300      \* meters; cells of level 15 are 280 m wide
swiss_cell(at) == at \div SWISS_CELL

in_swiss_home(at) ==
    \/ country(at) \in SwissCountries
    \/ \E e \in Enclaves : e.country = country(at) /\ e.from < at /\ at < e.to

swiss_ifopts(parts) == {id \in parts : id[1] = "ch"}
swiss_uics(parts) == {code \in parts : code[1] = "85"}

\* The kinds of street infrastructure are told apart, all else by mask.
infrastructure_of(tags) ==
    IF has_only(Mask(tags), "STREET_FURNITURE") THEN infrastructure_kind(tags) ELSE "none"

place_country(place) ==
    IF \E i \in DOMAIN place.tags : place.tags[i][1] \in WIKIDATA_KEYS \cup NAME_KEYS
    THEN country(place.at) ELSE "none"

-----------------------------------------------------------------------------
(***************************************************************************)
(* What AllThePlaces covers.  wikidata and names have, for each id or name *)
(* and country, the bits and the kinds of infrastructure; mentions is how  *)
(* often a name occurs, for those that do.                                 *)
(***************************************************************************)
EmptyCoverage ==
    [wikidata |-> {}, names |-> {}, mentions |-> << >>,
     ifopt |-> {}, uic |-> {}, cells |-> {}, swiss |-> 0]

Categories(tags) ==
    IF infrastructure_of(tags) # "none" THEN {infrastructure_of(tags)}
    ELSE Mask(tags) \cap CATEGORY_BITS

\* Names count by kind for infrastructure, else for all categories together.
MentionKind(tags) == infrastructure_of(tags)

NameTags(tags) == {i \in DOMAIN tags : tags[i][1] \in NAME_KEYS}
times(mentions, name) == IF name \in DOMAIN mentions THEN mentions[name] ELSE 0
Mention(mentions, name) ==
    [m \in DOMAIN mentions \cup {name} |-> times(mentions, m) + (IF m = name THEN 1 ELSE 0)]
AddMentions(mentions, place, land) ==
    FoldSet(LAMBDA i, m :
              FoldLeft(LAMBDA c, name : Mention(c, <<name, land, MentionKind(place.tags)>>),
                       m, place.tags[i][2]),
            mentions, NameTags(place.tags))

SwissIds(place) == swiss_ifopts(Parts(place.tags, IFOPT_KEYS))

\* Brands and operators of the register say nothing about other countries.
abroad(place, land) == SwissIds(place) # {} /\ land \notin SwissCountries
AddPlace(coverage, place, land) ==
    LET brand == ~abroad(place, land) IN
    [wikidata |-> coverage.wikidata \cup
        (IF brand THEN Parts(place.tags, WIKIDATA_KEYS) \X {land} \X Categories(place.tags) ELSE {}),
     names |-> coverage.names \cup
        (IF brand THEN Parts(place.tags, NAME_KEYS) \X {land} \X Categories(place.tags) ELSE {}),
     mentions |-> IF brand THEN AddMentions(coverage.mentions, place, land) ELSE coverage.mentions,
     ifopt |-> coverage.ifopt \cup SwissIds(place),
     uic |-> coverage.uic \cup swiss_uics(Parts(place.tags, {"uic_ref"}))
             \cup UNION {swiss_uic(id) : id \in SwissIds(place)},
     cells |-> coverage.cells
               \cup (IF SwissIds(place) # {} THEN {swiss_cell(place.at)} ELSE {}),
     swiss |-> coverage.swiss + (IF SwissIds(place) # {} THEN 1 ELSE 0)]

has_swiss_transit(coverage) == coverage.swiss >= MIN_SWISS_TRANSIT_FEATURES
has_swiss_stop_near(coverage, at) ==
    \E d \in {-1, 0, 1} : swiss_cell(at) + d \in coverage.cells

covers_wikidata(coverage, id, at, osm) ==
    \E c \in Categories(osm.tags) : <<id, at, c>> \in coverage.wikidata

covers_name(coverage, name, at, osm) ==
    /\ \E c \in Categories(osm.tags) : <<name, at, c>> \in coverage.names
    /\ times(coverage.mentions, <<name, at, MentionKind(osm.tags)>>) >= MIN_NAME_FEATURES

-----------------------------------------------------------------------------
(***************************************************************************)
(* The reason why a feature that nothing matched is probably gone.         *)
(***************************************************************************)
AnyId(osm) == \E i \in DOMAIN osm.tags : osm.tags[i][1] \in IFOPT_KEYS \cup {"uic_ref"}
OsmIfopt(osm) == swiss_ifopts(Parts(osm.tags, IFOPT_KEYS))
OsmUic(osm) == swiss_uics(Parts(osm.tags, {"uic_ref"}))
HasSwissId(osm) == OsmIfopt(osm) \cup OsmUic(osm) # {}

\* A mutant: the UIC code in an IFOPT id is not looked up.
KnownId_exact(osm, coverage) ==
    OsmIfopt(osm) \cap coverage.ifopt # {} \/ OsmUic(osm) \cap coverage.uic # {}

KnownId(osm, coverage) ==
    \/ OsmIfopt(osm) \cap coverage.ifopt # {}
    \/ (OsmUic(osm) \cup UNION {swiss_uic(id) : id \in OsmIfopt(osm)}) \cap coverage.uic # {}

BrandReason(osm, coverage) ==
    LET ids == Parts(osm.tags, WIKIDATA_KEYS)
        names == IF ids # {} THEN {}
                 ELSE UNION {ToSet(osm.tags[i][2]) :
                               i \in {j \in NameTags(osm.tags) :
                                        Len(osm.tags[j][2]) <= MAX_NAME_VALUES}}
        silent == /\ has_only(Mask(osm.tags), "STREET_FURNITURE")
                  /\ infrastructure_of(osm.tags) \in {"none", "public_bookcase"}
        at == country(osm.at)
    IN  CASE silent -> "none"
          [] ~silent /\ (\E id \in ids : covers_wikidata(coverage, id, at, osm)) -> "Wikidata"
          [] ~silent /\ (\E name \in names : covers_name(coverage, name, at, osm)) -> "Name"
          [] OTHER -> "none"

deletion_reason(osm, coverage) ==
    LET stop == is_stop(osm.tags) /\ has_swiss_transit(coverage)
        home == in_swiss_home(osm.at) /\ (HasSwissId(osm) \/ ~AnyId(osm))
    IN  CASE stop /\ KnownId(osm, coverage) -> "none"
          [] stop /\ ~KnownId(osm, coverage) /\ home ->
               IF HasSwissId(osm) THEN "SwissTransitId"
               ELSE IF HasKey(osm.tags, "aerialway") \/ has_swiss_stop_near(coverage, osm.at)
               THEN "none" ELSE "SwissTransitStop"
          [] OTHER -> BrandReason(osm, coverage)
=============================================================================
