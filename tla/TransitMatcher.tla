--------------------------- MODULE TransitMatcher ---------------------------
(***************************************************************************)
(* Matching of public transport features: how well an OpenStreetMap        *)
(* feature fits a place of AllThePlaces, from its kind, means of           *)
(* transport, identifiers, local references and names.                     *)
(*                                                                         *)
(* An IFOPT id is the sequence of its fields, such as                      *)
(* <<"ch", "1", "sloid", "3000", "3", "4">>; a UIC code is a country       *)
(* prefix and a number of five digits, <<"85", "03000">>; a name is a      *)
(* sequence of the parts that commas separate, each a sequence of words.   *)
(***************************************************************************)
EXTENDS MatchMasks

CONSTANTS
    TrackNumbers,   \* the local references that look like the number of a track
    Padded          \* of what has one to five digits, the five with zeros in front

IFOPT_KEYS == {"ref:IFOPT", "ref:sloid", "railway:ref:sloid"}

\* Units of 1/100.
SAME_ID_MIN_SCORE_low == 85     \* a mutant of SAME_ID_MIN_SCORE
SAME_ID_MIN_SCORE == 90
SAME_STOP_FACTOR == 80
NAME_FACTOR == 40
SHORT_NAME_FACTOR == 35
NAME_MAX_METERS == 100

-----------------------------------------------------------------------------
(***************************************************************************)
(* Kinds and means of transport.                                           *)
(***************************************************************************)
FallbackKind(tag) ==
    CASE Is(tag, "railway", {"station", "halt"}) -> "station"
      [] Is(tag, "railway", {"platform"}) \/ Is(tag, "highway", {"bus_stop"}) -> "platform"
      [] Is(tag, "railway", {"stop", "tram_stop"}) -> "stop_position"
      [] OTHER -> "none"

\* public_transport decides, wherever it is; else the first tag that tells.
Kind(tags) ==
    LET PT == {i \in DOMAIN tags :
                 Is(tags[i], "public_transport",
                    {"station", "stop_area", "platform", "stop_position"})}
        FB == {i \in DOMAIN tags : FallbackKind(tags[i]) # "none"}
    IN  CASE PT # {} -> tags[Min(PT)][2][1]
          [] PT = {} /\ FB # {} -> FallbackKind(tags[Min(FB)])
          [] OTHER -> "none"

is_stop(tags) == Kind(tags) # "none"

\* Tenths.
Fit(kind, osm) ==
    CASE kind = osm -> 10
      [] {kind, osm} = {"station", "stop_area"} -> 9
      [] OTHER -> 0

RailModes == {"train", "tram", "subway", "light_rail", "monorail", "funicular"}

ModeKeys == RailModes \cup {"bus", "trolleybus", "ferry", "aerialway"}

ExplicitModes(tag) ==
    IF tag[1] \notin ModeKeys \/ tag[2] = <<"no">> THEN {}
    ELSE CASE tag[1] = "light_rail" -> {"light_rail", "train", "tram"}
           [] tag[1] = "trolleybus" -> {"trolleybus", "bus"}
           [] OTHER -> {tag[1]}

ImpliedModes(tag) ==
    CASE Is(tag, "highway", {"bus_stop"}) -> {"bus"}
      [] Is(tag, "railway", {"tram_stop"}) -> {"tram"}
      [] Is(tag, "railway", {"station", "halt", "platform", "stop"}) -> RailModes
      [] OTHER -> {}

Modes(tags) ==
    LET explicit == UNION {ExplicitModes(tags[i]) : i \in DOMAIN tags}
    IN  IF explicit # {} THEN explicit
        ELSE UNION {ImpliedModes(tags[i]) : i \in DOMAIN tags}

compatible(a, b) == a = {} \/ b = {} \/ a \cap b # {}

-----------------------------------------------------------------------------
(***************************************************************************)
(* Identifiers.                                                            *)
(***************************************************************************)
IsSloid(id) == IsPrefix(<<"ch", "1", "sloid">>, id)

\* The UIC code that an IFOPT id contains, of a stop in Switzerland: stops
\* abroad have longer numbers, which are not UIC codes.
swiss_uic(id) ==
    IF IsSloid(id) /\ Len(id) > 3 /\ id[4] \in DOMAIN Padded
    THEN {<<"85", Padded[id[4]]>>} ELSE {}

Ids(tags) ==
    LET ifopt == Parts(tags, IFOPT_KEYS) IN
    [ifopt |-> ifopt, uic |-> Parts(tags, {"uic_ref"}) \cup UNION {swiss_uic(id) : id \in ifopt}]

NoIds(ids) == ids.ifopt = {} /\ ids.uic = {}

\* The stop that an id names, and how many fields it has below that.
StopFields(id) == Min({IF IsSloid(id) THEN 4 ELSE 3, Len(id)})
ifopt_stop(id) == SubSeq(id, 1, StopFields(id))
ifopt_depth(id) == Len(id) - StopFields(id)

is_within(part, whole) == IsStrictPrefix(whole, part)

Comparable(a, o) == a[1] = o[1]     \* the field of the country
OneWithinOther(a, o) ==
    /\ ifopt_stop(a) = ifopt_stop(o)
    /\ ifopt_depth(a) # ifopt_depth(o)
    /\ is_within(a, o) \/ is_within(o, a)

IdsDiffer(atp, osm) ==
    \/ \E a \in atp.ifopt, o \in osm.ifopt : Comparable(a, o) /\ ~OneWithinOther(a, o)
    \/ atp.uic # {} /\ osm.uic # {} /\ atp.uic \cap osm.uic = {}

compare_ids(atp, osm) ==
    CASE atp.ifopt \cap osm.ifopt # {} -> "same"
      [] atp.ifopt \cap osm.ifopt = {} /\ IdsDiffer(atp, osm) -> "different"
      [] OTHER ->
           IF \/ \E a \in atp.ifopt, o \in osm.ifopt : Comparable(a, o) /\ OneWithinOther(a, o)
              \/ atp.uic \cap osm.uic # {}
           THEN "same_stop" ELSE "unknown"

-----------------------------------------------------------------------------
(***************************************************************************)
(* Local references and names.                                             *)
(***************************************************************************)
local_refs(tags) ==
    LET local == Parts(tags, {"local_ref"})
        refs == Parts(tags, {"ref"})
    IN  CASE local # {} -> local
          [] local = {} /\ refs \subseteq TrackNumbers -> refs
          [] OTHER -> {}

\* Tenths.
local_ref_factor(atp, osm) ==
    CASE atp = {} \/ osm = {} -> 8
      [] atp # {} /\ atp = osm -> 10
      [] atp # osm /\ atp \cap osm # {} -> 6
      [] OTHER -> 0

name_words(name) == FlattenSeq(name)
IsShortFor(short, long) ==
    Len(short) = 1 /\ Len(long) > 1 /\ name_words(Tail(long)) = name_words(short)

name_factor(a, b) ==
    CASE name_words(a) = name_words(b) -> NAME_FACTOR
      [] IsShortFor(a, b) \/ IsShortFor(b, a) -> SHORT_NAME_FACTOR
      [] OTHER -> 0

-----------------------------------------------------------------------------
(***************************************************************************)
(* The matcher of a place.                                                 *)
(***************************************************************************)
for_transit_place(place) ==
    /\ intersects(Mask(place.tags), {"TRANSIT"})
    /\ Kind(place.tags) # "none"
    /\ ~NoIds(Ids(place.tags)) \/ HasKey(place.tags, "name")

max_meters(place) == IF Kind(place.tags) = "platform" THEN 1000 ELSE 400

NoFactor == [best |-> 0, worst |-> 0, max |-> 400]

TransitFit(place, osm) ==
    LET kind == Kind(place.tags) IN
    IF kind = "platform" /\ Kind(osm.tags) = "stop_position"
         /\ \E i \in DOMAIN osm.tags : Is(osm.tags[i], "highway", {"bus_stop"})
    THEN 9 ELSE Fit(kind, Kind(osm.tags))

transit_factor(place, osm) ==
    LET fit == TransitFit(place, osm)
        refs == IF Kind(place.tags) \in {"platform", "stop_position"}
                THEN local_ref_factor(local_refs(place.tags), local_refs(osm.tags))
                ELSE 10
        evidence == compare_ids(Ids(place.tags), Ids(osm.tags))
        names == IF HasKey(place.tags, "name") /\ HasKey(osm.tags, "name")
                 THEN name_factor(Value(place.tags, "name"), Value(osm.tags, "name"))
                 ELSE 0
    IN  CASE \/ Kind(osm.tags) = "none" \/ fit = 0
             \/ ~compatible(Modes(place.tags), Modes(osm.tags))
             \/ evidence = "different" -> NoFactor
          [] OTHER ->
             CASE evidence = "same" ->
                    [best |-> fit * 1000, worst |-> fit * 10 * SAME_ID_MIN_SCORE,
                     max |-> max_meters(place)]
               [] evidence = "same_stop" ->
                    [best |-> fit * refs * SAME_STOP_FACTOR, worst |-> 0,
                     max |-> max_meters(place)]
               [] OTHER ->
                    [best |-> fit * refs * names, worst |-> 0, max |-> NAME_MAX_METERS]

transit_may_share(place, osm) == compare_ids(Ids(place.tags), Ids(osm.tags)) = "same"

transit_score(place, osm) ==
    LET f == transit_factor(place, osm)
    IN  ScoreAt(f.best, f.worst, f.max, Distance(place, osm))
=============================================================================
