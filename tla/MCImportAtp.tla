----------------------------- MODULE MCImportAtp -----------------------------
EXTENDS ImportAtp

\* People delete the zip to save space, the parquet file or the list of brand
\* domains to build it again,
\* and the sidecars of either kind.
HandFiles == {Zip, Parquet, BrandDomains, Sidecar("atp")}
Releases == [d \in Download |-> IF d = "atp" THEN 3 ELSE 2]
=============================================================================
