--------------------------- MODULE MCPlanetFetch ----------------------------
(* Releases of a few chunks.                                               *)
EXTENDS PlanetFetch

Growing == <<2, 3, 4>>
Varying == <<3, 2, 4>>
=============================================================================
