---------------------------- MODULE MCImportOsm -----------------------------
(* import_osm with the real stages of OsmStages, and with the inductive    *)
(* invariant of the proofs about the stages.                               *)
EXTENDS ImportOsm_proofs
=============================================================================
