--------------------------- MODULE MCStageThreads ---------------------------
(* The threads of prune_ways, with few records.                            *)
EXTENDS StageThreads_proofs, TLC

\* prune_ways: three writers, of which two are also fed from the tables of
\* the relations.
prune_ways_Writer == {"keep-ways", "keep-coords", "ways.strings"}
prune_ways_Blobs == <<<<"keep-ways", "keep-coords">>, <<"keep-ways", "ways.strings">>>>
CONSTANTS rel_member_collector, rel_strings_reader
prune_ways_FeedsTo == rel_member_collector :> "keep-coords"
                          @@ rel_strings_reader :> "ways.strings"
=============================================================================
