----------------------------- MODULE OsmStages ------------------------------
(***************************************************************************)
(* The stages of import_osm: which files each of them reads and which it   *)
(* publishes.  Every stage but the last compares the modification times of *)
(* its outputs with those of all its inputs.  The stages run in the order  *)
(* of the sequence OsmPipeline.                                            *)
(***************************************************************************)
EXTENDS Naturals, Sequences, FiniteSets

Pbf == "planet-latest.osm.pbf"
Index == "osm-features.index"
Inverted == "osm-features.index.inverted"
Strings == "osm-assemble.strings"

prune_relations_pass_1 ==
    [in  |-> {Pbf},
     out |-> {"keep-relations", "relation-graph"}]

prune_relations_pass_2 ==
    [in  |-> {Pbf, "keep-relations", "relation-graph"},
     out |-> {"relation-members", "rels.strings"}]

prune_ways ==
    [in  |-> {Pbf, "relation-members", "rels.strings"},
     out |-> {"keep-ways", "keep-coords", "ways.strings"}]

prune_nodes ==
    [in  |-> {Pbf, "keep-coords", "ways.strings"},
     out |-> {"keep-nodes", "coords", "prune.strings"}]

assemble_strings ==
    [in  |-> {"prune.strings"},
     out |-> {Strings}]

assemble_nodes ==
    [in  |-> {Pbf, "keep-nodes", Strings},
     out |-> {"nodes"}]

assemble_ways ==
    [in  |-> {Pbf, "keep-ways", "relation-members", "coords", Strings},
     out |-> {"ways", "ways.geometry"}]

assemble_leaf_relations ==
    [in  |-> {Pbf, "keep-relations", "relation-members", "coords", Strings,
              "ways.geometry"},
     out |-> {"leaf-relations", "leaf-relations.geometry",
              "leaf-relations.super-relations"}]

assemble_super_relations ==
    [in  |-> {"relation-graph", "coords", Strings, "ways.geometry",
              "leaf-relations.geometry", "leaf-relations.super-relations"},
     out |-> {"super-relations"}]

build_index ==
    [in  |-> {"nodes", "ways", "leaf-relations", "super-relations"},
     out |-> {Index, Inverted}]

\* The order in which Prunings::create and assemble call the stages.
Prunings == <<prune_relations_pass_1, prune_relations_pass_2,
              prune_ways, prune_nodes>>
Assembly == <<assemble_strings, assemble_nodes, assemble_ways,
              assemble_leaf_relations, assemble_super_relations>>
OsmPipeline == Prunings \o Assembly \o <<build_index>>

OsmNumStages == Len(OsmPipeline)
OsmIn == [s \in 1 .. OsmNumStages |-> OsmPipeline[s].in]
OsmOut == [s \in 1 .. OsmNumStages |-> OsmPipeline[s].out]
OsmFile == {Pbf} \cup UNION {OsmOut[s] : s \in 1 .. OsmNumStages}

\* build_index only asks whether its outputs exist.
OsmTimed == [OsmIn EXCEPT ![OsmNumStages] = {}]
=============================================================================
