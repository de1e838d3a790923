------------------------------ MODULE OsmBuild ------------------------------
(***************************************************************************)
(* How the features of OpenStreetMap are built from a planet: four passes  *)
(* over it that find out what is needed (prune), then the features, nodes  *)
(* first, then ways, relations of these, and relations of relations        *)
(* (assemble).  OsmStages has the same stages with their files;            *)
(* StageThreads has the threads of one.                                    *)
(***************************************************************************)
EXTENDS OsmData

\* A planet is a sequence of blobs, and the number of meridians by which it
\* is turned: by 0, nothing on it crosses the antimeridian.
CONSTANT Planets

VARIABLES
    planet,
    step,       \* what is next: the pass, "done", or "panicked"
    prunings,   \* what prune has found out
    pool,       \* the strings, once they are in a pool
    ways,       \* the geometry of the ways that are members of relations
    leaves,     \* that of the relations, without relations in them, that are
    supers,     \* the relations of relations, by id
    iter,       \* of the nodes of the relation graph
    yielded,    \* those that it has had
    store,      \* the geometry of relations of relations
    features    \* the geometry of the features, by feature id

vars == <<planet, step, prunings, pool, ways, leaves, supers, iter, yielded, store, features>>

NoTable == Table({})

Init ==
    /\ planet \in Planets
    /\ step = "prune relations"
    /\ prunings = [strings |-> {}]
    /\ pool = create_pool({})
    /\ ways = NoTable
    /\ leaves = NoTable
    /\ supers = NoTable
    /\ iter = nodes(<<>>)
    /\ yielded = <<>>
    /\ store = NoTable
    /\ features = NoTable

-----------------------------------------------------------------------------
Pass(this, next) ==
    /\ step = this
    /\ step' = next
    /\ UNCHANGED <<planet, pool, ways, leaves, supers, iter, yielded, store, features>>

PruneRelations ==
    /\ Pass("prune relations", "prune members")
    /\ prunings' = prunings @@ prune_relations_pass_1(Sent(planet.blobs, RELATION))

PruneMembers ==
    /\ Pass("prune members", "prune ways")
    /\ prunings' = prune_relations_pass_2(Sent(planet.blobs, RELATION),
                                          prunings.keep_relations, prunings.relation_graph)
                   @@ prunings

PruneWays ==
    /\ Pass("prune ways", "prune nodes")
    /\ prunings' = prune_ways(Sent(planet.blobs, WAY),
                              prunings.relation_members, prunings.strings) @@ prunings

PruneNodes ==
    /\ Pass("prune nodes", "assemble strings")
    /\ prunings' = prune_nodes(Sent(planet.blobs, NODE),
                               prunings.keep_coords, prunings.strings) @@ prunings

AssembleStrings ==
    /\ step = "assemble strings"
    /\ step' = "assemble nodes"
    /\ pool' = create_pool(prunings.strings)
    /\ UNCHANGED <<planet, prunings, ways, leaves, supers, iter, yielded, store, features>>

Assembled(this, next, texts) ==
    /\ step = this
    /\ step' = IF Found(texts, pool) THEN next ELSE "panicked"
    /\ UNCHANGED <<planet, prunings, pool, yielded, store>>

AssembleNodes ==
    LET kept == {n \in Sent(planet.blobs, NODE) : n.id \in prunings.keep_nodes}
    IN  /\ Assembled("assemble nodes", "assemble ways", UNION {TagTexts(n) : n \in kept})
        /\ features' = Table({<<Fid(n), [NOTHING EXCEPT !.points = {n.at}]>> : n \in kept})
        /\ UNCHANGED <<ways, leaves, supers, iter>>

\* A way without a geometry is skipped before its tags are looked up.
AssembleWays ==
    LET Kept(w) == w.id \in prunings.keep_ways
        Member(w) == Fid(w) \in prunings.relation_members
        sent == {w \in Sent(planet.blobs, WAY) : Kept(w) \/ Member(w)}
        geometry == [w \in sent |-> way_geometry(w, prunings.coords)]
        built == {w \in sent : geometry[w] # NOTHING}
        kept == {w \in built : Kept(w)}
    IN  /\ Assembled("assemble ways", "assemble leaf relations", UNION {TagTexts(w) : w \in kept})
        /\ ways' = Table({<<w.id, geometry[w]>> : w \in {v \in built : Member(v)}})
        /\ features' = Table({<<Fid(w), geometry[w]>> : w \in {v \in kept : Interesting(v)}})
                       @@ features
        /\ UNCHANGED <<leaves, supers, iter>>

\* Relations of relations are put aside, with the indexes of their strings.
AssembleLeafRelations ==
    LET Kept(r) == r.id \in prunings.keep_relations
        Member(r) == Fid(r) \in prunings.relation_members
        sent == {r \in Sent(planet.blobs, RELATION) : Kept(r) \/ Member(r)}
        super == {r \in sent : is_super_relation(r)}
        Put(geometry) ==
            LET built == {r \in sent \ super : geometry[r] # NOTHING}
                kept == {r \in built : Kept(r) /\ Interesting(r)}
            IN  /\ leaves' = Table({<<r.id, geometry[r]>> : r \in {s \in built : Member(s)}})
                /\ features' = Table({<<Fid(r), geometry[r]>> : r \in kept}) @@ features
    IN  /\ Assembled("assemble leaf relations", "assemble super relations",
                     UNION {TagTexts(r) \cup RoleTexts(r) : r \in sent})
        /\ Put([r \in sent \ super |->
                    assemble_relation_geometry(relation_type_tag(r), r.members,
                                               prunings.coords, ways, NoTable, NoTable)])
        /\ supers' = Table({<<r.id, [tags |-> TagIds(r, pool), members |-> r.members]>> :
                               r \in super})
        /\ iter' = nodes(prunings.relation_graph)
        /\ UNCHANGED ways

\* The next node of the graph: a relation of relations gets its geometry
\* from those of its members that have one by now.
AssembleSuperRelation ==
    LET id == NextNode(iter)
        Put(geometry) ==
            IF geometry = NOTHING THEN UNCHANGED <<store, features>>
            ELSE /\ store' = insert(store, id, geometry)
                 /\ features' = insert(features, encode_feature_id(RELATION, id), geometry)
    IN  /\ step = "assemble super relations"
        /\ ~Exhausted(iter)
        /\ iter' = AfterNext(prunings.relation_graph, iter)
        /\ yielded' = Append(yielded, id)
        /\ IF id \in DOMAIN supers
           THEN Put(assemble_relation_geometry(
                       relation_type_from_feature_tags(supers[id].tags, pool),
                       supers[id].members, prunings.coords, ways, leaves, store))
           ELSE UNCHANGED <<store, features>>
        /\ UNCHANGED <<planet, step, prunings, pool, ways, leaves, supers>>

Finish ==
    /\ step = "assemble super relations"
    /\ Exhausted(iter)
    /\ step' = "done"
    /\ UNCHANGED <<planet, prunings, pool, ways, leaves, supers, iter, yielded, store, features>>

Next ==
    \/ PruneRelations \/ PruneMembers \/ PruneWays \/ PruneNodes
    \/ AssembleStrings \/ AssembleNodes \/ AssembleWays \/ AssembleLeafRelations
    \/ AssembleSuperRelation \/ Finish

Spec == Init /\ [][Next]_vars

-----------------------------------------------------------------------------
(***************************************************************************)
(* What the planet says, without the passes.                               *)
(***************************************************************************)
All == UNION {ToSet(planet.blobs[i]) : i \in DOMAIN planet.blobs}
Of(type) == {p \in All : p.type = type}
MembersOf(id, type) ==
    UNION {{r.members[i].id : i \in {j \in DOMAIN r.members : r.members[j].type = type}} :
              r \in {s \in Of(RELATION) : s.id = id}}

\* The ids in and below a set of relations.
Below(ids) ==
    FoldSet(LAMBDA r, found : found \cup UNION {MembersOf(id, RELATION) : id \in found},
            ids, Of(RELATION))
InCycle(id) == id \in Below(MembersOf(id, RELATION))
AboveCycle(id) == \E n \in Below({id}) : InCycle(n)

\* Places of nodes, as on the planet that is not turned.
Turned(c) ==
    LET half == MERIDIANS \div 2
    IN  <<((c[1] - planet.turn + half) % MERIDIANS) - half, c[2]>>
PlaceOf(n) == {Turned(m.at) : m \in {k \in Of(NODE) : k.id = n}}
WayPlaces(w) == UNION {PlaceOf(w.refs[i]) : i \in DOMAIN w.refs}
WaysOf(ids) == {w \in Of(WAY) : \E id \in ids : w.id \in MembersOf(id, WAY)}
RelationPlaces(id) ==
    LET below == Below({id})
    IN  UNION {WayPlaces(w) : w \in WaysOf(below)}
        \cup UNION {PlaceOf(n) : n \in UNION {MembersOf(r, NODE) : r \in below}}
Places(p) ==
    CASE p.type = NODE -> {Turned(p.at)}
      [] p.type = WAY -> WayPlaces(p)
      [] p.type = RELATION -> RelationPlaces(p.id)

\* Relations of relations are features, too, when they are in an
\* interesting one.
Wanted(p) ==
    \/ Interesting(p)
    \/ /\ p.type = RELATION
       /\ is_super_relation(p)
       /\ \E r \in Of(RELATION) : Interesting(r) /\ p.id \in Below({r.id})

\* The segments of ways, without those that lead nowhere.
Segments(ws) ==
    UNION {{{w.refs[i], w.refs[i + 1]} : i \in 1 .. Len(w.refs) - 1} : w \in ws}
Core(segments) ==
    LET Touching(all, n) == {s \in all : n \in s}
        Without(all, k) == {s \in all : \A n \in s : Cardinality(Touching(all, n)) > 1}
    IN  FoldLeft(Without, segments, [k \in 1 .. Cardinality(segments) |-> k])
Rings(segments) ==
    /\ segments # {}
    /\ \A n \in UNION segments : Cardinality({s \in segments : n \in s}) = 2

\* The squares with an odd number of these segments on the right.
Inside(segments) ==
    LET at == [n \in UNION segments |-> CHOOSE c \in PlaceOf(n) : TRUE]
        places == {{at[n] : n \in s} : s \in segments}
        OnRight(cell) ==
            {s \in places : s \cap {<<x, cell[2]>> : x \in cell[1] + 1 .. MERIDIANS} # {} /\
                            s \cap {<<x, cell[2] + 1>> : x \in cell[1] + 1 .. MERIDIANS} # {}}
    IN  {cell \in Box(UNION places) : Cardinality(OnRight(cell)) % 2 = 1}

Covered(geometry) ==
    {Turned(c) : c \in geometry.points
        \cup UNION {ToSet(geometry.lines[i]) : i \in DOMAIN geometry.lines}
        \cup UNION {{<<cell[1] + i, cell[2] + j>> : i, j \in {0, 1}} : cell \in geometry.cells}}

-----------------------------------------------------------------------------
\* The strings that assemble looks up were all collected by prune, although
\* each decides for itself, and by other sets, what it looks at, and are
\* found in the pool, whatever their hashes are: no panic.
Collected == step # "panicked"

\* The relation graph is walked as assemble_super_relations needs it: every
\* node once, and a relation after all relations in it, unless it is on or
\* above a cycle.
BottomUp ==
    /\ \A i, j \in DOMAIN yielded : i < j => yielded[i] # yielded[j]
    /\ \A i \in DOMAIN yielded :
          \/ AboveCycle(yielded[i])
          \/ MembersOf(yielded[i], RELATION) \subseteq {yielded[j] : j \in 1 .. i - 1}
    /\ step = "done" =>
          ToSet(yielded) = UNION {MembersOf(r.id, RELATION) \cup
                                  (IF is_super_relation(r) THEN {r.id} ELSE {}) : r \in Of(RELATION)}

MultipolygonsOnly(id) ==
    \A r \in {s \in Of(RELATION) : s.id \in Below({id})} : relation_type_tag(r) = Text("multipolygon")

\* Whatever is interesting and somewhere on the planet becomes a feature,
\* with all of its places, and of relations those of the members of their
\* members; nothing else does, and no geometry has lines or points from
\* elsewhere.  Excepted are relations on or above a cycle, and segments of
\* multipolygons that lead nowhere.
NothingLost ==
    step = "done" =>
        LET expected == {p \in All : Wanted(p) /\ Places(p) # {}}
            Firm(p) == p.type = RELATION => ~AboveCycle(p.id)
            Loose(p) == /\ p.type = RELATION
                        /\ LET all == Segments(WaysOf(Below({p.id}))) IN all # Core(all)
        IN  /\ DOMAIN features \subseteq {Fid(p) : p \in expected}
            /\ \A p \in expected :
                  Firm(p) => /\ Fid(p) \in DOMAIN features
                             /\ Loose(p) \/ Places(p) \subseteq Covered(features[Fid(p)])
            /\ \A p \in expected :
                  Fid(p) \in DOMAIN features =>
                      Covered([features[Fid(p)] EXCEPT !.cells = {}]) \subseteq Places(p)

\* The area of a multipolygon is what its rings enclose, by the even-odd
\* rule, however these are cut into ways, whatever the direction and order
\* of the ways, when some are there twice or lead nowhere, when they are in
\* relations within it, and wherever the antimeridian is.
AreaOfRings ==
    step = "done" =>
        \A r \in Of(RELATION) :
            LET rings == Core(Segments(WaysOf(Below({r.id}))))
            IN  (/\ Fid(r) \in DOMAIN features
                 /\ ~AboveCycle(r.id)
                 /\ MultipolygonsOnly(r.id)
                 /\ Rings(rings))
                => {Turned(cell) : cell \in features[Fid(r)].cells} = Inside(rings)
=============================================================================
