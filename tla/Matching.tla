------------------------------ MODULE Matching ------------------------------
(***************************************************************************)
(* What the matchers find for the places of AllThePlaces: which of them    *)
(* has which matcher, the features that the index returns around it, and   *)
(* what each of these is worth.  All of this is a function of the inputs;  *)
(* Conflate says what the threads do with it.                              *)
(***************************************************************************)
EXTENDS Deletion, Importance

\* An input is a file of places, the ends of the batches in which it is read,
\* and the features of the index.  A place has a spider, tags, a position, the
\* rank of its tags in the order of tags, and a shape; a feature an id, tags, a
\* position, which is that of its centroid, and the positions of its parts.  An
\* ordinal is the position of a place in the file, or of a feature in the index.
\* Equal ranks are those of equal tags, and "OSM IDs are unique"; none is 0.  A
\* tag is a key and the parts of its value, the keys of a place, which are those
\* of a JSON object, differ; a UIC code is the digits of its country and the rest
\* of it.
IsInput(input) ==
    /\ input.places \in Seq(ToSet(input.places))
    /\ input.osm \in Seq(ToSet(input.osm))
    /\ \A place \in ToSet(input.places) : {place.at, place.rank, place.shape} \subseteq Nat
    /\ \A place \in ToSet(input.places) : \A j, k \in DOMAIN place.tags :
          place.tags[j][1] = place.tags[k][1] => j = k
    /\ \A p, q \in ToSet(input.places) : p.rank = q.rank => p.tags = q.tags
    /\ \A j, k \in DOMAIN input.osm : input.osm[j].id = input.osm[k].id => j = k
    /\ \A feature \in ToSet(input.osm) :
          /\ {feature.at, feature.id} \cup feature.parts \subseteq Nat
          /\ feature.id # 0
          /\ IsFiniteSet(feature.parts)
    /\ \A item \in ToSet(input.places) \cup ToSet(input.osm) :
          /\ item.tags \in Seq(ToSet(item.tags))
          /\ \A tag \in ToSet(item.tags) : tag[2] \in Seq(ToSet(tag[2]))
          /\ \A code \in Parts(item.tags, {"uic_ref"}) : code = <<code[1], code[2]>>

\* What import_atp has found out about contacts and brands.
Know(places) ==
    [nondescript |-> find_nondescript(
         FlattenSeq([i \in DOMAIN places |-> SetToSeq(sightings(places[i]))])),
     domains |-> build_brand_domains(places)]

-----------------------------------------------------------------------------
(***************************************************************************)
(* Candidates.  Cells are 100 meters wide; the leaf cell of a position has *)
(* an odd id, so that ranges of neighboring cells do not touch.            *)
(***************************************************************************)
CELL == 100
leaf(at) == 2 * at + 1

\* The cells that a circle touches, as ranges of ids.
covering(at, radius) ==
    LET first == Max({0, at - radius}) \div CELL
    IN  [i \in 1 .. (at + radius) \div CELL - first + 1 |->
            <<leaf((first + i - 1) * CELL), leaf((first + i) * CELL - 1)>>]

\* A range begins before the previous one has ended, or just after.
MergeRange(ranges, range) ==
    IF ranges # <<>> /\ range[1] <= Last(ranges)[2] + 1
    THEN Front(ranges) \o << <<Last(ranges)[1], Max({Last(ranges)[2], range[2]})>> >>
    ELSE Append(ranges, range)
MergedCellRanges(cells) == FoldLeft(MergeRange, <<>>, cells)

\* The features are stored by the leaf cells of their centroids; at one
\* place, in the order of their bytes, for which the ids stand.
Stored(features) ==
    SortBy(features, LAMBDA a, b : a.at < b.at \/ (a.at = b.at /\ a.id < b.id))

\* The inverted index: a feature is under the cell of each of its parts; in
\* one cell, the features are in the order of their masks.
Inverted(osm) ==
    UNION {{<<leaf(at), Mask(osm[r].tags), r>> : at \in osm[r].parts} : r \in DOMAIN osm}

EntryBefore(a, b) ==
    \/ a[1] < b[1]
    \/ (a[1] = b[1] /\ MaskBefore(a[2], b[2]))
    \/ (a[1] = b[1] /\ a[2] = b[2] /\ a[3] < b[3])

query(osm, inverted, range, mask) ==
    LET Hit(e) == /\ e[1] \in range[1] .. range[2]
                  /\ intersects(Mask(osm[e[3]].tags), mask)
        found == Ordered({e \in inverted : Hit(e)}, EntryBefore)
    IN  [i \in DOMAIN found |-> found[i][3]]

\* The refs that the index returns around a place, range by range.
RefsAround(place, osm, inverted, radius) ==
    LET ranges == MergedCellRanges(covering(place.at, radius))
    IN  FlattenSeq([k \in DOMAIN ranges |-> query(osm, inverted, ranges[k], Mask(place.tags))])

\* A mutant: what comes later goes ahead of what is as good.
keep_best_late(best, keep, points, r) ==
    LET ahead == Cardinality({i \in DOMAIN best : best[i][1] > points})
    IN  IF points <= 0 \/ \E i \in DOMAIN best : best[i][2] = r THEN best
        ELSE SubSeq(InsertAt(best, ahead + 1, <<points, r>>), 1, Min({keep, Len(best) + 1}))

keep_best(best, keep, points, r) ==
    LET ahead == Cardinality({i \in DOMAIN best : best[i][1] >= points})
    IN  IF points <= 0 \/ \E i \in DOMAIN best : best[i][2] = r THEN best
        ELSE SubSeq(InsertAt(best, ahead + 1, <<points, r>>), 1, Min({keep, Len(best) + 1}))

EXCLUSIVE_CANDIDATES == 4
best_candidates(kept, found, points) ==
    FoldLeft(LAMBDA best, r : keep_best(best, kept, points[r], r), <<>>, found)

-----------------------------------------------------------------------------
(***************************************************************************)
(* An instance, with all that the matchers and the signals of importance   *)
(* have to say about it.                                                   *)
(***************************************************************************)
WorldOf(input) ==
    LET osm == Stored(input.osm)
        places == input.places
        know == Know(places)
        signals == open_signals(places, osm)
        inverted == Inverted(osm)
        matcher == [i \in DOMAIN places |-> create_matcher(places[i], know)]
        all == {i \in DOMAIN places : matcher[i] # "none"}
        found == [i \in all |-> RefsAround(places[i], osm, inverted, search_radius(places[i], know))]
        points == [i \in all |-> [r \in ToSet(found[i]) |->
                                     score_osm_candidate(places[i], know, osm[r])]]
        KeptOf(i) == IF is_exclusive(matcher[i]) THEN EXCLUSIVE_CANDIDATES ELSE 1
    IN  [places |-> places,
         osm |-> osm,
         ends |-> input.ends,
         know |-> know,
         matcher |-> matcher,
         found |-> found,
         points |-> points,
         candidates |-> [i \in DOMAIN places |->
             IF i \in all THEN best_candidates(KeptOf(i), found[i], points[i]) ELSE <<>>],
         share |-> [i \in {j \in all : is_exclusive(matcher[j])} |->
                      {r \in ToSet(found[i]) : may_share(places[i], know, osm[r])}],
         counts |-> {i \in all : counts_for_coverage(places[i], know)},
         scores |-> [i \in all |-> [r \in 0 .. Len(osm) |->
                       score(signals, places[i], IF r = 0 THEN <<>> ELSE osm[r].tags)]],
         osm_scores |-> [r \in DOMAIN osm |-> score_osm(signals, osm[r])]]
=============================================================================
