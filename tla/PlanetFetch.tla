---------------------------- MODULE PlanetFetch -----------------------------
(***************************************************************************)
(* fetch_planet: how the planet file gets into the work directory, with    *)
(* its metadata in a sidecar file.  A file already there is reused; so is  *)
(* the index built from it after the file was deleted to free its space.   *)
(* Otherwise it is downloaded into a .part file, which the next attempt    *)
(* resumes with a Range request if this one is interrupted.  In the        *)
(* meantime the server may publish a new release under the same name.      *)
(*                                                                         *)
(* A file is a sequence of chunks.  A chunk is named by the release it     *)
(* belongs to (its place in the file says which chunk of the release it    *)
(* is), and the first chunk has the header block.                          *)
(***************************************************************************)
EXTENDS Naturals, Sequences

CONSTANTS
    Size,            \* Size[r]: the number of chunks of release r
    MayIgnoreRange,  \* whether the server may answer a Range request in full
    Faults,          \* a subset of {"cut", "crash"}
    MaxFaults,       \* bound: how often something goes wrong
    ByHand,          \* a subset of {"free", "remove", "drop"}
    MaxByHand        \* bound: how often somebody meddles with the planet file

Release == DOMAIN Size

ASSUME PlanetFetchAssumption ==
    /\ Size \in Seq(Nat \ {0})
    /\ Len(Size) > 0
    /\ MayIgnoreRange \in BOOLEAN
    /\ Faults \subseteq {"cut", "crash"}
    /\ ByHand \subseteq {"free", "remove", "drop"}

VARIABLES
    release,   \* the release the server has now
    part,      \* planet-latest.osm.pbf.part, <<>> if there is none
    pbf,       \* planet-latest.osm.pbf, <<>> if there is none
    sidecar,   \* planet-latest.osm.pbf.meta.json
    index,     \* what the features in the directory were built from
    pc,        \* where fetch_planet is; "idle" when no process runs
    body,      \* the chunks of the response that have not arrived yet
    buffer,    \* a chunk handed to the file, but not yet written to it
    hasher,    \* what has been hashed
    result,    \* the metadata that fetch_planet returned
    faults, meddled,
    orphan     \* history: the planet of the sidecar was deleted with its features

disk == <<part, pbf, sidecar, index>>
history == <<faults, meddled, orphan>>
vars == <<release, disk, pc, body, buffer, hasher, result, history>>

Absent == <<>>
NoMetadata == [header |-> 0, sha256 |-> <<>>]

Planet(r) == [k \in 1 .. Size[r] |-> r]
Extract == <<0>>   \* a regional extract, release 0

\* A hash is as good as what was hashed.
Metadata(hashed) == [header |-> Head(pbf), sha256 |-> hashed]

Fault(kind) == kind \in Faults /\ faults < MaxFaults /\ faults' = faults + 1
Meddle(act) == act \in ByHand /\ pc = "idle" /\ meddled < MaxByHand /\ meddled' = meddled + 1

-----------------------------------------------------------------------------
Init ==
    /\ release = 1
    /\ part = Absent /\ pbf = Absent /\ sidecar = NoMetadata /\ index = Absent
    /\ pc = "idle"
    /\ body = <<>> /\ buffer = <<>> /\ hasher = <<>> /\ result = NoMetadata
    /\ faults = 0 /\ meddled = 0 /\ orphan = FALSE

Publish ==
    /\ release + 1 \in Release
    /\ release' = release + 1
    /\ UNCHANGED <<disk, pc, body, buffer, hasher, result, history>>

-----------------------------------------------------------------------------
(***************************************************************************)
(* cached_planet.                                                          *)
(***************************************************************************)
Return(metadata) == result' = metadata /\ pc' = "fetched"

ReusePlanet ==
    /\ pc = "idle"
    /\ pbf # Absent
    /\ sidecar # NoMetadata
    /\ Return(sidecar)
    /\ UNCHANGED <<release, disk, body, buffer, hasher, history>>

\* A mutant of HashPlanet: a planet file without sidecar is an error.
HashPlanet_refuse ==
    /\ pc = "idle"
    /\ pbf # Absent
    /\ sidecar = NoMetadata
    /\ UNCHANGED vars

\* There is a planet file without sidecar: hash it.
HashPlanet ==
    /\ pc = "idle"
    /\ pbf # Absent
    /\ sidecar = NoMetadata
    /\ hasher' = pbf
    /\ pc' = "persist"
    /\ UNCHANGED <<release, disk, body, buffer, result, history>>

\* The planet file is gone, but the index that was built from it is there.
ReuseIndex ==
    /\ pc = "idle"
    /\ pbf = Absent
    /\ sidecar # NoMetadata
    /\ index # Absent
    /\ Return(sidecar)
    /\ UNCHANGED <<release, disk, body, buffer, hasher, history>>

-----------------------------------------------------------------------------
(***************************************************************************)
(* download_osm_planet.                                                    *)
(***************************************************************************)
ToDownload ==
    /\ pc = "idle"
    /\ pbf = Absent
    /\ sidecar = NoMetadata \/ index = Absent

\* A mutant of Resume: only what arrives now is hashed.
Resume_unhashed ==
    /\ ToDownload
    /\ part # Absent
    /\ Len(part) < Size[release]
    /\ body' = SubSeq(Planet(release), Len(part) + 1, Size[release])
    /\ hasher' = <<>>
    /\ pc' = "stream"
    /\ UNCHANGED <<release, disk, buffer, result, history>>

\* The server sends the chunks that follow those in the .part file, which
\* are hashed first.
Resume ==
    /\ ToDownload
    /\ part # Absent
    /\ Len(part) < Size[release]
    /\ body' = SubSeq(Planet(release), Len(part) + 1, Size[release])
    /\ hasher' = part
    /\ pc' = "stream"
    /\ UNCHANGED <<release, disk, buffer, result, history>>

\* The .part file is not shorter than the planet: the server refuses the
\* range, and its status is an error with which the attempt ends.
Refused ==
    /\ ToDownload
    /\ part # Absent
    /\ Len(part) >= Size[release]
    /\ pc' = "refused"
    /\ UNCHANGED <<release, disk, body, buffer, hasher, result, history>>

EndRefused ==
    /\ pc = "refused"
    /\ pc' = "idle"
    /\ UNCHANGED <<release, disk, body, buffer, hasher, result, history>>

\* A mutant of Restart: the status is not looked at, the chunks are appended.
Restart_append ==
    /\ ToDownload
    /\ part = Absent \/ MayIgnoreRange
    /\ body' = Planet(release)
    /\ hasher' = part
    /\ pc' = "stream"
    /\ UNCHANGED <<release, disk, buffer, result, history>>

\* There is nothing to resume, or the server sends everything again.
Restart ==
    /\ ToDownload
    /\ part = Absent \/ MayIgnoreRange
    /\ body' = Planet(release)
    /\ part' = <<>>
    /\ hasher' = <<>>
    /\ pc' = "stream"
    /\ UNCHANGED <<release, pbf, sidecar, index, buffer, result, history>>

\* A chunk arrives; the file takes it when it is done with the one before.
Chunk ==
    /\ pc = "stream"
    /\ body # <<>>
    /\ hasher' = Append(hasher, Head(body))
    /\ part' = part \o buffer
    /\ buffer' = <<Head(body)>>
    /\ body' = Tail(body)
    /\ UNCHANGED <<release, pbf, sidecar, index, pc, result, history>>

Flush ==
    /\ pc = "stream"
    /\ body = <<>>
    /\ part' = part \o buffer
    /\ buffer' = <<>>
    /\ pc' = "rename"
    /\ UNCHANGED <<release, pbf, sidecar, index, body, hasher, result, history>>

Rename ==
    /\ pc = "rename"
    /\ pbf' = part
    /\ part' = Absent
    /\ pc' = "persist"
    /\ UNCHANGED <<release, sidecar, index, body, buffer, hasher, result, history>>

\* persist_metadata, itself by temporary file and rename.
Persist ==
    /\ pc = "persist"
    /\ sidecar' = Metadata(hasher)
    /\ Return(Metadata(hasher))
    /\ orphan' = FALSE
    /\ UNCHANGED <<release, part, pbf, index, body, buffer, hasher, faults, meddled>>

\* The attempt ends without its result; the last chunk may be lost with it.
GiveUp ==
    /\ pc' = "idle"
    /\ part' \in {part, part \o buffer}
    /\ body' = <<>>
    /\ buffer' = <<>>
    /\ UNCHANGED <<release, pbf, sidecar, index, hasher, result, meddled,
                   orphan>>

\* The connection breaks, stalls for STALL_TIMEOUT, or a write fails.
Cut == pc = "stream" /\ body # <<>> /\ Fault("cut") /\ GiveUp

\* The process dies, or the future is dropped as another input failed; what a
\* thread of the runtime still does for it then, it does before that.
Crash == pc # "idle" /\ Fault("crash") /\ GiveUp

-----------------------------------------------------------------------------
\* import_osm (see ImportOsm), as far as the next attempt is concerned.
Import ==
    /\ pc = "fetched"
    /\ index' = IF pbf = Absent THEN index ELSE pbf
    /\ pc' = "idle"
    /\ UNCHANGED <<release, part, pbf, sidecar, body, buffer, hasher, result, history>>

\* The planet is deleted to free its space once the index was built.
Free ==
    /\ Meddle("free")
    /\ pbf # Absent
    /\ index = pbf
    /\ pbf' = Absent
    /\ UNCHANGED <<release, part, sidecar, index, pc, body, buffer, hasher, result, faults,
                   orphan>>

\* It is deleted with the features, to have them built from a new planet.
Remove ==
    /\ Meddle("remove")
    /\ pbf # Absent
    /\ pbf' = Absent
    /\ index' = Absent
    /\ orphan' = (sidecar # NoMetadata)
    /\ UNCHANGED <<release, part, sidecar, pc, body, buffer, hasher, result, faults>>

\* An extract is dropped into a directory that has no sidecar.
Drop ==
    /\ Meddle("drop")
    /\ sidecar = NoMetadata
    /\ pbf' = Extract
    /\ UNCHANGED <<release, part, sidecar, index, pc, body, buffer, hasher, result, faults,
                   orphan>>

-----------------------------------------------------------------------------
Work ==
    \/ ReusePlanet \/ HashPlanet \/ ReuseIndex
    \/ Resume \/ Refused \/ EndRefused \/ Restart \/ Chunk \/ Flush \/ Rename \/ Persist
    \/ Import

Next == Publish \/ Work \/ Cut \/ Crash \/ Free \/ Remove \/ Drop

Spec == Init /\ [][Next]_vars

\* Attempts are repeated, and an attempt that can go on does.
FairSpec == Spec /\ WF_vars(Work)

-----------------------------------------------------------------------------
(***************************************************************************)
(* Properties.                                                             *)
(***************************************************************************)
Fetched == pc = "fetched"

\* A planet file ends with the last chunk of the release that its last chunk
\* is from, and nothing comes twice.
TypeOK ==
    /\ pbf \notin {Absent, Extract} => Len(pbf) = Size[pbf[Len(pbf)]]
    /\ release \in Release
    /\ part \in Seq(Release)
    /\ \E r \in Release : Len(part \o buffer \o body) <= Size[r]
    /\ pc \in {"idle", "refused", "stream", "rename", "persist", "fetched"}
    /\ (pc # "stream" => body = <<>> /\ buffer = <<>>)
    /\ (pc = "persist" => pbf # Absent)
    /\ (Fetched => result # NoMetadata /\ sidecar = result)
    /\ (index # Absent => sidecar # NoMetadata)

(***************************************************************************)
(* The metadata that fetch_planet returns is that of the planet file next  *)
(* to it, however often the download was interrupted and resumed: its hash *)
(* covers the whole file, and its header is the one in the file.  (Unless  *)
(* the sidecar is still that of a planet that was deleted to start over.)  *)
(***************************************************************************)
MetadataOfPlanet ==
    Fetched /\ pbf # Absent /\ ~orphan =>
        result = [header |-> Head(pbf), sha256 |-> pbf]

(***************************************************************************)
(* After the planet file was deleted, what is returned for it is the       *)
(* metadata of the planet that the index was built from.                   *)
(***************************************************************************)
MetadataOfIndex ==
    Fetched /\ pbf = Absent /\ ~orphan => result.sha256 = index

(***************************************************************************)
(* All chunks of the planet file are from the release that the metadata    *)
(* name.  (src/pipeline/osm/mod.rs:166: "which OpenStreetMap replication   *)
(* state the data corresponds to".)                                        *)
(***************************************************************************)
OneRelease ==
    Fetched /\ pbf # Absent =>
        \A k \in DOMAIN pbf : pbf[k] = result.header

(***************************************************************************)
(* When the faults stop, an attempt succeeds.                              *)
(* (docs/TECHNICAL_DESIGN.md:302: an interrupted download is resumed on    *)
(* the next attempt.)                                                      *)
(***************************************************************************)
EventuallyFetched == []<>Fetched

(***************************************************************************)
(* The one thing that keeps attempts from succeeding is a .part file that  *)
(* is no shorter than the planet the server has.                           *)
(***************************************************************************)
Overlong == part # Absent /\ Len(part) >= Size[release]
FetchedUnlessOverlong == []<>Fetched \/ <>[]Overlong
=============================================================================
