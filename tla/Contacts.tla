------------------------------ MODULE Contacts ------------------------------
(***************************************************************************)
(* Phone numbers, email addresses and websites of places and features, the *)
(* values of them that say nothing because places far apart share them,    *)
(* and the domains that belong to one brand.                               *)
(*                                                                         *)
(* Values are in normal form.  A phone number is <<country, number>>, where*)
(* the country is "" in national format; a website is <<domain, path>>.    *)
(***************************************************************************)
EXTENDS MatchMasks

CONSTANT CategoryPairs    \* the pairs of category_pairs.tsv, in both orders

ASSUME CategoryPairsAssumption == \A p \in CategoryPairs : <<p[2], p[1]>> \in CategoryPairs

PHONE_KEYS == {"phone", "fax", "mobile", "contact:phone", "contact:fax", "contact:mobile"}
EMAIL_KEYS == {"email", "contact:email", "contact:pec"}
WEBSITE_KEYS == {"website", "contact:website", "url"}

SIGNALS == [Phone |-> PHONE_KEYS, Email |-> EMAIL_KEYS, Website |-> WEBSITE_KEYS]

\* parse_phone_number knows only numbers in international format.
ParseValues(signal, parts) ==
    IF signal = "Phone" THEN {n \in parts : n[1] # ""} ELSE parts
ContactValues(tags, signal) == ParseValues(signal, Parts(tags, SIGNALS[signal]))

\* The country at a position, in which the line changes from one to the
\* next.
Borders == <<[country |-> "CH", to |-> 5000], [country |-> "DE", to |-> 9000],
             [country |-> "none", to |-> 20000]>>
country(at) == Borders[Min({i \in DOMAIN Borders : at < Borders[i].to})].country

-----------------------------------------------------------------------------
(***************************************************************************)
(* Values that places far apart share.                                     *)
(***************************************************************************)
min_spread == [Phone |-> 1000, Email |-> 1000, Website |-> 100]

sightings(place) ==
    UNION {{[signal |-> s, value |-> v, at |-> place.at] : v \in ContactValues(place.tags, s)} :
              s \in DOMAIN SIGNALS}

\* The sightings of one value, which come one after the other in the sorted
\* stream: their bounding rectangle once there are two positions.
NewGroup(s) == [signal |-> s.signal, value |-> s.value,
                lo |-> s.at, hi |-> s.at]
AddToGroup(g, s) == [g EXCEPT !.lo = Min({@, s.at}), !.hi = Max({@, s.at})]
is_nondescript_here(g) == g.hi = g.lo     \* a mutant

is_nondescript(g) == g.hi # g.lo /\ g.hi - g.lo >= min_spread[g.signal]
GroupOf(found, s) == {g \in found : g.signal = s.signal /\ g.value = s.value}
AddSighting(found, s) ==
    LET G == GroupOf(found, s)
    IN  IF G = {} THEN found \cup {NewGroup(s)}
        ELSE (found \ G) \cup {AddToGroup(g, s) : g \in G}

find_nondescript(sorted) ==
    LET found == {g \in FoldLeft(AddSighting, {}, sorted) : is_nondescript(g)}
    IN  [s \in DOMAIN SIGNALS |-> {g.value : g \in {h \in found : h.signal = s}}]

-----------------------------------------------------------------------------
(***************************************************************************)
(* Domains of brands.                                                      *)
(***************************************************************************)
MIN_FEATURES == 2
MIN_SHARE == 10             \* one tenth

\* On some hosts, the owner of a page is in its path; others tell nothing.
OWNER_IN_PATH == {"facebook.com", "instagram.com", "x.com"}
registrable_domain(w) ==
    CASE w[1] \in OWNER_IN_PATH /\ w[2] # "" -> {w}
      [] w[1] \in OWNER_IN_PATH /\ w[2] = "" -> {}
      [] w[1] \in {"google.com", "goo.gl"} -> {}
      [] OTHER -> {<<w[1], "">>}

website_domains(tags) == UNION {registrable_domain(w) : w \in Parts(tags, WEBSITE_KEYS)}

FirstWikidata(tags) ==
    LET keys == SelectSeq(<<"brand:wikidata", "operator:wikidata", "network:wikidata">>,
                          LAMBDA k : HasKey(tags, k))
    IN  IF keys = <<>> THEN <<>> ELSE Value(tags, keys[1])

NoBrand == "no brand"
brand_id(tags) == IF Len(FirstWikidata(tags)) = 1 THEN FirstWikidata(tags)[1] ELSE NoBrand
has_several_ids(tags) == Len(FirstWikidata(tags)) > 1

\* stats: one record for each domain; of: a bag of brands.
EmptyBuilder == [stats |-> <<>>, of |-> <<>>]

CountOf(bag, b) == IF b \in DOMAIN bag THEN bag[b] ELSE 0
AddOne(bag, b) == [x \in DOMAIN bag \cup {b} |-> IF x = b THEN CountOf(bag, b) + 1 ELSE bag[x]]

AddStats(s, brand) ==
    IF brand # NoBrand /\ s.brand \in {NoBrand, brand}
    THEN [s EXCEPT !.features = @ + 1, !.brand = brand]
    ELSE [s EXCEPT !.features = @ + 1, !.mixed = TRUE]

AddFeature(builder, place) ==
    LET domains == website_domains(place.tags)
        brand == brand_id(place.tags)
        Stats(d) == IF d \in DOMAIN builder.stats THEN builder.stats[d]
                    ELSE [brand |-> NoBrand, features |-> 0, mixed |-> FALSE]
    IN  IF domains = {} \/ has_several_ids(place.tags) THEN builder
        ELSE [stats |-> [d \in DOMAIN builder.stats \cup domains |->
                            IF d \in domains THEN AddStats(Stats(d), brand)
                            ELSE builder.stats[d]],
              of |-> IF brand = NoBrand THEN builder.of ELSE AddOne(builder.of, brand)]

BelongsToBrand(s, builder) ==
    /\ ~s.mixed
    /\ s.brand # NoBrand
    /\ s.features >= MIN_FEATURES
    /\ s.features * MIN_SHARE >= CountOf(builder.of, s.brand)

\* The brand of each domain that has one, from the places in their order.
build_brand_domains(places) ==
    LET builder == FoldLeft(AddFeature, EmptyBuilder, places)
        D == {d \in DOMAIN builder.stats : BelongsToBrand(builder.stats[d], builder)}
    IN  [d \in D |-> builder.stats[d].brand]

brands(brandDomains, tags) ==
    {brandDomains[d] : d \in website_domains(tags) \cap DOMAIN brandDomains}

-----------------------------------------------------------------------------
(***************************************************************************)
(* Whether a feature has a contact of a place.                             *)
(***************************************************************************)
AtpContacts(place, nondescript) ==
    [s \in DOMAIN SIGNALS |-> ContactValues(place.tags, s) \ nondescript[s]]

no_contacts(c) == \A s \in DOMAIN SIGNALS : c[s] = {}
has_phone_or_email(c) == c.Phone # {} \/ c.Email # {}

\* A national number, in the country of the address or where the place is.
has_osm_phone(place, phones, n) ==
    \/ n[1] # "" /\ n \in phones
    \/ n[1] = "" /\ \E c \in ToSet(Value(place.tags, "addr:country")) \cup {country(place.at)} :
                      <<c, n[2]>> \in phones

contacts_agree(place, c, osm) ==
    \/ \E n \in Parts(osm.tags, PHONE_KEYS) : has_osm_phone(place, c.Phone, n)
    \/ Parts(osm.tags, EMAIL_KEYS) \cap c.Email # {}
    \/ Parts(osm.tags, WEBSITE_KEYS) \cap c.Website # {}

CATEGORY_KEYS == <<"shop", "amenity", "tourism", "leisure", "healthcare", "craft", "office">>

\* The main category, split into one for each of its values.
main_category(tags) ==
    LET keys == SelectSeq(CATEGORY_KEYS,
                          LAMBDA k : \E i \in DOMAIN tags : tags[i][1] = k /\ tags[i][2] # <<"no">>)
        value == tags[Min({i \in DOMAIN tags : tags[i][1] = keys[1] /\ tags[i][2] # <<"no">>})][2]
    IN  IF keys = <<>> THEN {} ELSE {<<keys[1], v>> : v \in ToSet(value)}

CONTACT_FACTOR == 98
CATEGORY_PAIR_FACTOR == 95

category_factor(atp, osm) ==
    CASE atp \cap osm # {} -> 100
      [] atp \cap osm = {} /\ (atp \X osm) \cap CategoryPairs # {} -> CATEGORY_PAIR_FACTOR
      [] OTHER -> 0
=============================================================================
