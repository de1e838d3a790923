----------------------------- MODULE MCPipeline -----------------------------
(* conflated.parquet and the tiles are uploaded in parts, the BOM and the  *)
(* manifest in one request.                                                *)
EXTENDS Pipeline

Parts == [f \in {Conflated, ConflatedTiles, EditsTiles, Bom, Manifest} |->
            CASE f = Conflated -> 2 [] f \in {Bom, Manifest} -> 0 [] OTHER -> 1]
=============================================================================
