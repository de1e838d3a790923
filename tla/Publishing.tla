----------------------------- MODULE Publishing -----------------------------
(***************************************************************************)
(* The public bucket, and what a run does to publish its files there: the  *)
(* uploads, in one request or in parts, the names of the objects, the      *)
(* provenance BOM next to conflated.parquet, and the manifest, through     *)
(* which clients find the files of the current release.                    *)
(***************************************************************************)
EXTENDS Naturals, Sequences, FiniteSets, FiniteSetsExt, SequencesExt

CONSTANTS
    NoId,       \* the identity of a run that was given none
    NumParts    \* NumParts[f]: in how many parts file f is uploaded; 0: in one PUT

Conflated == "conflated.parquet"
ConflatedTiles == "conflated.pmtiles"
EditsTiles == "diffed-places.pmtiles"
Bom == "conflated.cdx.json"
Manifest == "datapackage.json"

VARIABLES
    runId,      \* the identity of the run, slugged
    published,  \* the entries that it has collected for the manifest
    transfer,   \* how many parts of the current upload are sent; or NoTransfer
    bucket,     \* the objects in the bucket, by key
    dangling,   \* uploads that were neither completed nor aborted
    replaced    \* history: some run found a conflated.parquet of another run

publishVars == <<runId, published, transfer, bucket, dangling, replaced>>

NoTransfer == [parts |-> 0, open |-> FALSE]

PublishInit ==
    /\ published = <<>>
    /\ transfer = NoTransfer
    /\ bucket = << >>
    /\ dangling = 0
    /\ replaced = FALSE

BeginPublishing(id) ==
    /\ runId' = id
    /\ published' = <<>>
    /\ UNCHANGED <<transfer, bucket, dangling>>

-----------------------------------------------------------------------------
\* build_bom_for_conflated_parquet, with the hash of the finished file.
BomOf(entry, sources) == [parquet |-> entry.object, run |-> runId, sources |-> sources]

\* build_datapackage over what was published in this run.
ManifestOf(sources, anchor) ==
    [sources |-> sources, version |-> anchor, resources |-> published]

\* A mutant of Key: the names carry the date but no hash.
Key_dated(file, anchor, object) ==
    IF file = Manifest THEN <<Manifest>> ELSE <<file, anchor>>

\* The key of an object: the date, and the hash of the content; the BOM
\* goes by the hash of conflated.parquet; the manifest has a fixed key.
Key(file, anchor, object) ==
    CASE file = Manifest -> <<Manifest>>
      [] file = Bom -> <<Bom, anchor, published[1].object>>
      [] OTHER -> <<file, anchor, object>>

\* The manifest itself is not among the entries of the manifest.
Entry(file, key, object) ==
    IF file = Manifest THEN published
    ELSE Append(published, [key |-> key, object |-> object])

\* upload_file without credentials: the entry is collected all the same.
Skip(file, key, object) ==
    /\ published' = Entry(file, key, object)
    /\ UNCHANGED <<runId, transfer, bucket, dangling, replaced>>

Store(key, object) == bucket' = [k \in DOMAIN bucket \cup {key} |->
                                    IF k = key THEN object ELSE bucket[k]]

\* upload_file_with_config, below the threshold.
Put(file, key, object) ==
    /\ NumParts[file] = 0
    /\ Store(key, object)
    /\ published' = Entry(file, key, object)
    /\ UNCHANGED <<runId, transfer, dangling, replaced>>

\* Upload::create, upload_part and finish.
Create(file) ==
    /\ NumParts[file] > 0
    /\ ~transfer.open
    /\ transfer' = [parts |-> 0, open |-> TRUE]
    /\ dangling' = dangling + 1
    /\ UNCHANGED <<runId, published, bucket, replaced>>

MoreParts(file) == transfer.parts < NumParts[file]

UploadPart(file) ==
    /\ transfer.open
    /\ MoreParts(file)
    /\ transfer' = [transfer EXCEPT !.parts = @ + 1]
    /\ UNCHANGED <<runId, published, bucket, dangling, replaced>>

Finish(file, key, object) ==
    /\ transfer.open
    /\ ~MoreParts(file)
    /\ transfer' = NoTransfer
    /\ dangling' = dangling - 1
    /\ Store(key, object)
    /\ published' = Entry(file, key, object)
    /\ UNCHANGED <<runId, replaced>>

\* A request of the upload fails.  Dropping the Upload aborts it, but only
\* once a part of it was accepted.
DropUpload ==
    /\ transfer' = NoTransfer
    /\ dangling' = IF transfer.parts > 0 THEN dangling - 1 ELSE dangling
    /\ UNCHANGED <<runId, published, bucket, replaced>>
=============================================================================
