------------------------------ MODULE Products ------------------------------
(***************************************************************************)
(* What the pipeline makes of conflated.parquet: the layers of the map     *)
(* that shows every place, and the edits that it suggests to mappers.      *)
(***************************************************************************)
EXTENDS Conflate

CONSTANT BatchRows    \* how many rows the reader of the file returns at once

ASSUME ProductsAssumption == BatchRows \in Nat \ {0}

\* Each is the empty set until it is there.
VARIABLES
    layers,    \* the layers of conflated.pmtiles
    edits      \* the edits in shops.jsonl

productVars == <<layers, edits>>
allVars == <<vars, productVars>>

\* conflated.parquet has neither the place nor the feature, but what they are.
HasAtp(row) == row.spider # ""
HasOsm(row) == row.osm # 0
AtpTags(row) ==
    Places[CHOOSE i \in DOMAIN Places :
              Places[i].spider = row.spider /\ Places[i].rank = row.tags].tags
FeatureOf(row) == Osm[CHOOSE r \in DOMAIN Osm : Osm[r].id = row.osm]

\* Those of a sequence that pass a test, in their order.
Passing(seq, Test(_)) ==
    FoldLeft(LAMBDA kept, x : IF Test(x) THEN Append(kept, x) ELSE kept, <<>>, seq)

\* In hundredths, halves rounded up.
round_importance(rank) ==
    (100 * rank + Len(file.rows)) \div (2 * Len(file.rows))

-----------------------------------------------------------------------------
(***************************************************************************)
(* The layers of the map.                                                  *)
(***************************************************************************)
DETAIL_MIN_ZOOM == 13
DETAIL_MAX_ZOOM == 16
MIN_CONNECTOR_LENGTH_METERS == 5

to_overview(row, rank) ==
    [spider |-> row.spider, osm |-> row.osm, importance |-> round_importance(rank)]

\* The place and its feature, with a line between them unless it is short.
to_detail(row, fid) ==
    LET part(p) == [fid |-> fid, spider |-> row.spider, osm |-> row.osm, part |-> p]
        distance == IF HasOsm(row)
                    THEN Max({row.cell - FeatureOf(row).at, FeatureOf(row).at - row.cell}) ELSE 0
    IN  <<part("atp")>>
        \o (IF HasOsm(row) THEN <<part("osm")>> ELSE <<>>)
        \o (IF distance >= MIN_CONNECTOR_LENGTH_METERS THEN <<part("link")>> ELSE <<>>)

NoLayers == [overview |-> [matched |-> <<>>, unmatched |-> <<>>],
             detail |-> [matched |-> <<>>, unmatched |-> <<>>], offset |-> 0]

LayerOf(row) == IF HasOsm(row) THEN "matched" ELSE "unmatched"

AddRow(out, row, rank, fid) ==
    IF ~HasAtp(row) THEN out
    ELSE LET layer == LayerOf(row)
         IN  [out EXCEPT !.overview[layer] = Append(@, to_overview(row, rank)),
                         !.detail[layer] = @ \o to_detail(row, fid)]

\* A mutant: the ordinal of a row in its batch.
extract_batch_local(out, batch_rows) ==
    FoldLeft(LAMBDA acc, k :
                AddRow(acc, batch_rows[k].row, batch_rows[k].importance, k - 1),
             out, [k \in DOMAIN batch_rows |-> k])

\* The rows of a batch have the ordinals from the offset on.
extract_batch(out, batch_rows) ==
    [FoldLeft(LAMBDA acc, k :
                 AddRow(acc, batch_rows[k].row, batch_rows[k].importance, out.offset + k - 1),
              out, [k \in DOMAIN batch_rows |-> k])
     EXCEPT !.offset = out.offset + Len(batch_rows)]

BatchesOf(rows) ==
    [b \in 1 .. (Len(rows) + BatchRows - 1) \div BatchRows |->
        SubSeq(rows, (b - 1) * BatchRows + 1, Min({b * BatchRows, Len(rows)}))]

extract_conflated_layers ==
    /\ writer = "published"
    /\ result # "running"
    /\ layers = {}
    /\ layers' = {FoldLeft(extract_batch, NoLayers, BatchesOf(file.rows))}
    /\ UNCHANGED <<vars, edits>>

\* What tippecanoe is told to show, and tile-join to put together: coarse
\* zooms show the most important features of the overview.
ALL_FEATURES_ZOOM == 4
min_importance_at_zoom(zoom) == 100 - 4 ^ zoom
importance_filter(zoom, rounded) ==
    \/ zoom >= ALL_FEATURES_ZOOM
    \/ \E z \in 0 .. ALL_FEATURES_ZOOM - 1 :
         zoom >= z /\ rounded >= min_importance_at_zoom(z)

OverviewZooms == 0 .. DETAIL_MIN_ZOOM - 1
DetailZooms == DETAIL_MIN_ZOOM .. DETAIL_MAX_ZOOM
Tiles(map, zoom, layer) ==
    (IF zoom \in OverviewZooms
     THEN Passing(map.overview[layer], LAMBDA f : importance_filter(zoom, f.importance))
     ELSE <<>>)
    \o (IF zoom \in DetailZooms THEN map.detail[layer] ELSE <<>>)

-----------------------------------------------------------------------------
(***************************************************************************)
(* The edits: what a shop of AllThePlaces knows better than its match.     *)
(***************************************************************************)
TRUSTWORTHY == {"email", "end_date", "fax", "opening_hours", "phone", "start_date", "website"}
is_atp_tag_trustworthy(key) == key \in TRUSTWORTHY

\* A mutant: only what the feature does not have.
suggest_edit_missing(ours, theirs) ==
    Passing(ours, LAMBDA tag :
        is_atp_tag_trustworthy(tag[1]) /\ ~HasKey(theirs, tag[1]))

suggest_edit(ours, theirs) ==
    Passing(ours, LAMBDA tag :
        is_atp_tag_trustworthy(tag[1]) /\ Value(theirs, tag[1]) # tag[2])

create_edit_suggester(tags) == "SHOP" \in Mask(tags)

SuggestedEdit(row) ==
    [osm_id |-> row.osm \div 10, osm |-> row.osm,
     tags |-> suggest_edit(AtpTags(row), FeatureOf(row).tags)]

produce_edits ==
    LET rows == {file.rows[i].row : i \in DOMAIN file.rows}
        suggested == {SuggestedEdit(row) : row \in {r \in rows :
                         HasAtp(r) /\ HasOsm(r) /\ create_edit_suggester(AtpTags(r))}}
    IN  {edit \in suggested : edit.tags # <<>>}

\* The edits are sorted by the id of the feature, which nodes, ways and
\* relations each count for themselves, and the first one is written of those
\* that have the same; which one comes first is not determined.
write_edits(suggested) ==
    {kept \in SUBSET suggested :
        \A edit \in suggested : Cardinality({k \in kept : k.osm_id = edit.osm_id}) = 1}

suggest_edits ==
    /\ writer = "published"
    /\ result # "running"
    /\ edits = {}
    /\ \E kept \in write_edits(produce_edits) : edits' = {kept}
    /\ UNCHANGED <<vars, layers>>

-----------------------------------------------------------------------------
ProductsInit == Init /\ layers = {} /\ edits = {}

Products == extract_conflated_layers \/ suggest_edits
ProductsNext == (Next /\ UNCHANGED productVars) \/ Products

\* Whoever runs the pipeline again after an error gets the products, too.
ProductsSpec ==
    ProductsInit /\ [][ProductsNext]_allVars
    /\ WF_allVars(Step /\ UNCHANGED productVars) /\ WF_allVars(Products)
-----------------------------------------------------------------------------
(***************************************************************************)
(* Properties.                                                             *)
(***************************************************************************)
Rows(Test(_)) == {i \in DOMAIN file.rows : HasAtp(file.rows[i].row) /\ Test(file.rows[i].row)}

\* The two passes show every place in the same layer, as often as the file has
\* it, with no zoom left out between them and none in both; from zoom 4 on no
\* place is missing.  And whatever has been clicked on leads to its row in the
\* file: a detail tells its ordinal, across the batches in which the file is
\* read (tiles.rs, join_tiles; conflated_tiles.rs, DETAIL_MIN_ZOOM and
\* extract_rows).
MAP_ZOOMS == ALL_FEATURES_ZOOM .. DETAIL_MAX_ZOOM
NoneMissing(shown, layer) ==
    LET Marks(f) == "part" \notin DOMAIN f \/ f.part = "atp"
        Marking(row) == {k \in DOMAIN shown : Marks(shown[k]) /\ shown[k].spider = row.spider
                                                             /\ shown[k].osm = row.osm}
        Like(row) == Rows(LAMBDA other : other.spider = row.spider /\ other.osm = row.osm)
    IN  \A i \in Rows(LAMBDA row : LayerOf(row) = layer) :
            Cardinality(Marking(file.rows[i].row)) = Cardinality(Like(file.rows[i].row))

FidsLeadToRows(detail) ==
    \A k \in DOMAIN detail :
        /\ detail[k].fid + 1 \in DOMAIN file.rows
        /\ LET row == file.rows[detail[k].fid + 1].row IN
           /\ detail[k].spider = row.spider
           /\ detail[k].osm = row.osm

MapOfTheFile ==
    \A map \in layers : \A layer \in {"matched", "unmatched"} :
        /\ \A zoom \in MAP_ZOOMS : NoneMissing(Tiles(map, zoom, layer), layer)
        /\ FidsLeadToRows(map.detail[layer])

\* The edits do what they are for.  Each is for a feature with a shop as its
\* match, changes it in what AllThePlaces is trusted with, and in nothing
\* else, and leaves it in agreement with one of its matches.  And a feature
\* that disagrees with a match of it gets one edit, however many matches it
\* has; unless a feature of another type goes by the same number ("Only emit
\* one single edit per OSM ID", edits.rs, write_edits).
After(tags, edit, key) == IF HasKey(edit, key) THEN Value(edit, key) ELSE Value(tags, key)

Agrees(row, edit) ==
    \A k \in DOMAIN AtpTags(row) :
        LET key == AtpTags(row)[k][1]
        IN  key \in TRUSTWORTHY
            => After(FeatureOf(row).tags, edit, key) = Value(AtpTags(row), key)

MatchedShops ==
    Rows(LAMBDA row : HasOsm(row) /\ "SHOP" \in Mask(AtpTags(row)))

EditsAgree ==
    \A kept \in edits :
        /\ \A edit \in kept :
             /\ \E i \in MatchedShops : file.rows[i].row.osm = edit.osm
                                        /\ Agrees(file.rows[i].row, edit.tags)
                                        /\ ~Agrees(file.rows[i].row, <<>>)
             /\ \A k \in DOMAIN edit.tags : edit.tags[k][1] \in TRUSTWORTHY
        /\ \A i \in {j \in MatchedShops : ~Agrees(file.rows[j].row, <<>>)} :
             LET osm == file.rows[i].row.osm
                 one == {edit \in kept : edit.osm = osm}
             IN  \/ Cardinality(one) = 1
                 \/ one = {} /\ \E edit \in kept : edit.osm \div 10 = osm \div 10
=============================================================================
