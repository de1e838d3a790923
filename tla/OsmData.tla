------------------------------ MODULE OsmData ------------------------------
(***************************************************************************)
(* What the passes of prune and assemble compute from the planet.          *)
(***************************************************************************)
EXTENDS RelationGraph, Areas, Tables

Interesting(primitive) == Mask(primitive.tags) # {}

\* Strings are values here, a key that of one part.
Text(key) == <<key>>
TagTexts(primitive) ==
    UNION {{Text(primitive.tags[i][1]), primitive.tags[i][2]} : i \in DOMAIN primitive.tags}
RoleTexts(relation) == {relation.members[i].role : i \in DOMAIN relation.members}

MemberIds(relation) ==
    {encode_feature_id(relation.members[i].type, relation.members[i].id) :
        i \in DOMAIN relation.members}
Fid(primitive) == encode_feature_id(primitive.type, primitive.id)

-----------------------------------------------------------------------------
(***************************************************************************)
(* Prune: what of the planet is needed.                                    *)
(***************************************************************************)
EdgesOf(relation) ==
    LET up == SelectSeq(relation.members, LAMBDA m : m.type = RELATION)
    IN  [i \in DOMAIN up |-> [child |-> up[i].id, parent |-> relation.id]]

prune_relations_pass_1(relations) ==
    [keep_relations |-> {r.id : r \in {s \in relations : Interesting(s)}},
     relation_graph |-> create(FoldSet(LAMBDA r, edges : EdgesOf(r) \o edges, <<>>, relations))]

\* A relation is needed if it, or one that it is in, is interesting.
prune_relations_pass_2(relations, keep_relations, graph) ==
    LET needed == {r \in relations : ancestors(graph, r.id) \cap keep_relations # {}}
    IN  [relation_members |-> UNION {{Fid(r)} \cup MemberIds(r) : r \in needed},
         strings |-> UNION {RoleTexts(r) \cup TagTexts(r) : r \in needed}]

\* A mutant: the tags of a way that is kept as a member are not collected.
prune_ways_own(ways, relation_members, strings) ==
    LET needed == {w \in ways : Interesting(w) \/ Fid(w) \in relation_members}
        nodes_of == {decode_feature_id(fid).id :
                        fid \in {f \in relation_members : decode_feature_id(f).type = NODE}}
    IN  [keep_ways |-> {w.id : w \in needed},
         keep_coords |-> UNION {{n \in ToSet(w.refs) : n > 0} : w \in needed} \cup nodes_of,
         strings |-> strings \cup UNION {TagTexts(w) : w \in {v \in needed : Interesting(v)}}]

\* Members of relations are needed, too, with all of their nodes.
prune_ways(ways, relation_members, strings) ==
    LET needed == {w \in ways : Interesting(w) \/ Fid(w) \in relation_members}
        nodes_of == {decode_feature_id(fid).id :
                        fid \in {f \in relation_members : decode_feature_id(f).type = NODE}}
    IN  [keep_ways |-> {w.id : w \in needed},
         keep_coords |-> UNION {{n \in ToSet(w.refs) : n > 0} : w \in needed} \cup nodes_of,
         strings |-> strings \cup UNION {TagTexts(w) : w \in needed}]

prune_nodes(nds, keep_coords, strings) ==
    LET needed == {n \in nds : Interesting(n)}
        located == {n \in nds : n.id \in keep_coords}
    IN  [keep_nodes |-> {n.id : n \in needed},
         coords |-> Table({<<n.id, n.at>> : n \in located}),
         strings |-> strings \cup UNION {TagTexts(n) : n \in needed}]

-----------------------------------------------------------------------------
(***************************************************************************)
(* Assemble: the features, with their geometry.                            *)
(***************************************************************************)
AREA_KEYS == {"amenity", "building", "leisure", "natural", "tourism"}
NOT_AREAS == {<<"amenity", "bench">>, <<"amenity", "bicycle_parking">>,
              <<"natural", "tree_row">>, <<"tourism", "artwork">>}

\* The first tag that says so wins over all the others.
is_area(closed, tags) ==
    LET says == {i \in DOMAIN tags : Is(tags[i], "area", {"yes", "no"})}
        suggests == {i \in DOMAIN tags :
                        /\ tags[i][1] \in AREA_KEYS
                        /\ \A p \in NOT_AREAS : ~Is(tags[i], p[1], {p[2]})}
    IN  /\ closed
        /\ IF says # {} THEN Is(tags[Min(says)], "area", {"yes"}) ELSE suggests # {}

ring_is_geometrically_possible(way_members_count) == way_members_count >= 4

\* Nodes that are not in the planet are left out of the geometry, not of
\* the members by which a way is closed.
way_geometry(way, coords) ==
    LET members == SelectSeq(way.refs, LAMBDA n : n > 0)
        found == SelectSeq(members, LAMBDA n : n \in DOMAIN coords)
        line == [i \in DOMAIN found |-> coords[found[i]]]
        closed == Len(members) >= 2 /\ members[1] = Last(members)
    IN  IF is_area(closed, way.tags) /\ ring_is_geometrically_possible(Len(members))
        THEN build_ring(line) ELSE build_line(line)

is_super_relation(relation) ==
    \E i \in DOMAIN relation.members : relation.members[i].type = RELATION

\* Strings that are not in the pool are a panic.
Found(texts, pool) == \A text \in texts : lookup(pool, text) # NONE

\* Tags, once their strings have been looked up.
TagIds(primitive, pool) ==
    [i \in DOMAIN primitive.tags |->
        <<lookup(pool, Text(primitive.tags[i][1])), lookup(pool, primitive.tags[i][2])>>]

relation_type_tag(relation) == Value(relation.tags, "type")

relation_type_from_feature_tags(tags, pool) ==
    LET types == {i \in DOMAIN tags : get(pool, tags[i][1]) = Text("type")}
    IN  IF types = {} THEN <<>> ELSE get(pool, tags[Min(types)][2])

Located(coords, id) == IF id \in DOMAIN coords THEN {coords[id]} ELSE {}

\* Leaf relations are looked up first, then super relations.
lookup_relation_member_geometry(member, coords, ways, leaves, supers) ==
    CASE member.type = NODE -> [NOTHING EXCEPT !.points = Located(coords, member.id)]
      [] member.type = WAY -> lookup_or(ways, member.id, NOTHING)
      [] member.type = RELATION ->
            lookup_or(leaves, member.id, lookup_or(supers, member.id, NOTHING))

\* A multipolygon or boundary has an area where its rings say so; anything
\* else is all of its members.
assemble_relation_geometry(relation_type, members, coords, ways, leaves, supers) ==
    LET geometries == [i \in DOMAIN members |->
            lookup_relation_member_geometry(members[i], coords, ways, leaves, supers)]
    IN  IF relation_type \in {<<"multipolygon">>, <<"boundary">>}
        THEN Containment(geometries) ELSE Union(geometries)
=============================================================================
