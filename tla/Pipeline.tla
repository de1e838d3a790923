------------------------------ MODULE Pipeline ------------------------------
(***************************************************************************)
(* A whole run of the pipeline: it pins its identity to the work           *)
(* directory, goes through the steps of run_pipeline_steps, each memoised  *)
(* by the files that earlier runs left, and publishes what it built, the   *)
(* manifest last.  A run may fail or die anywhere; another one may start   *)
(* in the same work directory, under the same identity or another one, or  *)
(* on a new volume; somebody may put newer inputs into the directory.      *)
(*                                                                         *)
(* What the threads inside of import_osm and import_atp do is modelled in  *)
(* ImportOsm and ImportAtp, the downloads in PlanetFetch and FetchInputs.  *)
(***************************************************************************)
EXTENDS Publishing

CONSTANTS
    RunIds,       \* the values of --run_id, slugged; NoId is the empty one
    FirstId,      \* the one that the first runs have
    Replaceable,  \* bound: the inputs that somebody may replace
    MaxRelease,   \* bound: how many releases of the inputs there are
    Disturbances, \* what may happen to runs: a subset of DisturbanceKind
    MaxDisturbed, \* bound: how often something of that happens
    MaxClock      \* bound: how often the clock of file times ticks

DisturbanceKind ==
    {"crash", "step", "rows", "upload",     \* faults
     "replace", "volume", "identity", "unset"}  \* what people and schedulers do

VARIABLES
    disk,       \* disk[f]: what the work directory holds under the name f
    sentinel,   \* the content of the file run_id, or NoFile
    clock,      \* the time of the last change to the work directory
    release,    \* the newest release of the inputs on their servers
    pc,         \* the step the run is at; 0 when no process runs
    pending,    \* outputs of that step which are being built
    cut,        \* whether the thread that produces the rows of it has failed
    online,     \* whether runs have the credentials to publish
    disturbed,  \* how often something has happened to runs
    refreshed   \* history: somebody has replaced an input

workVars == <<disk, sentinel, clock, release, pending, cut>>
vars == <<workVars, pc, online, disturbed, refreshed, publishVars>>

-----------------------------------------------------------------------------
(***************************************************************************)
(* The steps.  "times" steps reuse their outputs if these are not older    *)
(* than the inputs, "exists" steps if they exist.  The outputs are renamed *)
(* into place in the order given, or, if the writers are "parallel", in    *)
(* any order; "rows" steps receive rows over a channel from a thread whose *)
(* failure looks to their writers like the end of the rows.                *)
(***************************************************************************)
Atp == "alltheplaces.zip"
Osm == "planet-latest.osm.pbf"
QRank == "qrank.csv.gz"
OsmViews == "osmviews.tiff"
Inputs == {Atp, Osm, QRank, OsmViews}

ASSUME PipelineAssumption ==
    /\ FirstId \in RunIds
    /\ MaxRelease \in Nat \ {0}
    /\ MaxDisturbed \in Nat /\ MaxClock \in Nat
    /\ Replaceable \subseteq Inputs
    /\ Disturbances \subseteq DisturbanceKind

Layers == <<"matched.jsonl", "unmatched.jsonl",
            "matched-detail.jsonl", "unmatched-detail.jsonl">>
EditLayers == <<"shops.jsonl", "infrastructure.jsonl", "trees.jsonl">>

Step(in, out, memo) == [kind |-> "build", in |-> in, out |-> out, memo |-> memo,
                        parallel |-> FALSE, rows |-> FALSE]
import_atp == Step({Atp}, <<"alltheplaces.parquet">>, "times")
compute_osmviews_ranks ==
    Step({"alltheplaces.parquet", OsmViews}, <<"osmviews-ranks">>, "times")
import_osm == Step({Osm}, <<"osm-features">>, "times")
collect_wikidata_ids ==
    Step({"alltheplaces.parquet", "osm-features"}, <<"wikidata-ids">>, "times")
compute_qrank_quantiles ==
    Step({QRank, "wikidata-ids"}, <<"qrank-quantiles">>, "times")
conflate ==
    [Step({"alltheplaces.parquet", "osm-features", OsmViews, "osmviews-ranks",
           "qrank-quantiles"}, <<Conflated>>, "times") EXCEPT !.rows = TRUE]
extract_conflated_layers == Step({Conflated}, Layers, "exists")
render_conflated_overview ==
    Step({Layers[1], Layers[2]}, <<"conflated-overview.pmtiles">>, "exists")
render_conflated_detail ==
    Step({Layers[3], Layers[4]}, <<"conflated-detail.pmtiles">>, "exists")
join_conflated_tiles ==
    Step({"conflated-overview.pmtiles", "conflated-detail.pmtiles"},
         <<ConflatedTiles>>, "exists")
suggest_edits ==
    [Step({Conflated}, EditLayers, "exists") EXCEPT !.parallel = TRUE, !.rows = TRUE]
render_tiles == Step(ToSet(EditLayers), <<EditsTiles>>, "exists")

fetch_inputs == [kind |-> "fetch"]
Upload(f) == [kind |-> "upload", file |-> f]
upload_conflated_bom == [kind |-> "upload", file |-> Bom]
upload_datapackage == [kind |-> "upload", file |-> Manifest]

run_pipeline_steps ==
    <<fetch_inputs, import_atp, compute_osmviews_ranks, import_osm,
      collect_wikidata_ids, compute_qrank_quantiles, conflate, Upload(Conflated),
      extract_conflated_layers, render_conflated_overview, render_conflated_detail,
      join_conflated_tiles, Upload(ConflatedTiles), suggest_edits, render_tiles,
      Upload(EditsTiles), upload_conflated_bom, upload_datapackage>>

NumSteps == Len(run_pipeline_steps)
Steps == {k \in 1 .. NumSteps : run_pipeline_steps[k].kind = "build"}
File == Inputs \cup UNION {ToSet(run_pipeline_steps[k].out) : k \in Steps}

Running == pc > 0
Done == pc = NumSteps + 1
At(kind) == pc \in 1 .. NumSteps /\ run_pipeline_steps[pc].kind = kind
step == run_pipeline_steps[pc]
Proceed == pc' = pc + 1

-----------------------------------------------------------------------------
(***************************************************************************)
(* Files: the releases of the inputs that the content derives from, the    *)
(* run that wrote it, whether all rows are there, and when it was written. *)
(***************************************************************************)
NoFile == [of |-> {}, run |-> NoId, whole |-> FALSE, at |-> 0]
Exists(f) == disk[f] # NoFile
VersionOf(i) == CHOOSE v \in 1 .. MaxRelease : <<i, v>> \in disk[i].of

\* What SHA-256 tells apart.  The run is written into conflated.parquet (in
\* its BOM); the time is not, but no two runs of tippecanoe give the same.
Content(f) == IF f = Conflated THEN [disk[f] EXCEPT !.at = 0] ELSE disk[f]

Derived(f) ==
    [of    |-> UNION {disk[i].of : i \in step.in},
     run   |-> runId,
     whole |-> ~cut /\ \A i \in step.in : disk[i].whole,
     at    |-> clock]

Disturb(kind) ==
    /\ kind \in Disturbances
    /\ disturbed < MaxDisturbed
    /\ disturbed' = disturbed + 1

-----------------------------------------------------------------------------
Init ==
    /\ disk = [f \in File |-> NoFile]
    /\ sentinel = NoId
    /\ clock = 0
    /\ release = 1
    /\ pc = 0
    /\ pending = {}
    /\ cut = FALSE
    /\ online = TRUE
    /\ disturbed = 0
    /\ refreshed = FALSE
    /\ runId = FirstId
    /\ PublishInit

\* The publishers of the inputs release new versions.  (Between two runs:
\* only the download at the start of a run looks.)
Release ==
    /\ ~Running
    /\ release < MaxRelease
    /\ release' = release + 1
    /\ UNCHANGED <<disk, sentinel, clock, pending, cut, pc, online, refreshed, disturbed,
                   publishVars>>

\* Between two runs, somebody puts the newest release of an input into place.
ReplaceInput(i) ==
    /\ ~Running
    /\ Disturb("replace")
    /\ refreshed' = TRUE
    /\ Exists(i)
    /\ VersionOf(i) < release
    /\ clock < MaxClock
    /\ clock' = clock + 1
    /\ disk' = [disk EXCEPT ![i] = [of |-> {<<i, release>>}, run |-> NoId,
                                    whole |-> TRUE, at |-> clock + 1]]
    /\ UNCHANGED <<sentinel, release, pending, cut, pc, online, publishVars>>

\* The job is scheduled anew, on an empty volume.
NewVolume ==
    /\ ~Running
    /\ Disturb("volume")
    /\ disk' = [f \in File |-> NoFile]
    /\ sentinel' = NoId
    /\ UNCHANGED <<clock, release, pending, cut, pc, online, refreshed, publishVars>>

\* PUBLIC_S3_ENDPOINT is unset, or set again.
Configure ==
    /\ ~Running
    /\ \/ online /\ Disturb("unset")
       \/ ~online /\ UNCHANGED disturbed
    /\ online' = ~online
    /\ UNCHANGED <<workVars, pc, refreshed, publishVars>>

\* A mutant of Reconcile: another run's directory is taken over.
Reconcile_takeover(id) == sentinel' = IF id = NoId THEN sentinel ELSE id

\* reconcile_run_id: a run with an identity pins it to the directory, or
\* finds it there; the directory of another one is refused.
Reconcile(id) ==
    \/ id = NoId /\ UNCHANGED sentinel
    \/ id # NoId /\ sentinel \in {NoId, id} /\ sentinel' = id

Start(id) ==
    /\ ~Running
    /\ \/ id = runId /\ UNCHANGED disturbed
       \/ id # runId /\ Disturb("identity")
    /\ Reconcile(id)
    /\ pc' = 1
    /\ BeginPublishing(id)
    /\ replaced' = (replaced \/ (Exists(Conflated) /\ disk[Conflated].run # id))
    /\ UNCHANGED <<disk, clock, release, pending, cut, online, refreshed>>

-----------------------------------------------------------------------------
(***************************************************************************)
(* fetch_inputs: what is not there is downloaded; when one download fails, *)
(* those that had finished by then stay.                                   *)
(***************************************************************************)
Missing == {i \in Inputs : ~Exists(i)}

\* A mutant of Download: some release, not the newest.
Download_any(got) ==
    /\ clock' = IF got = {} THEN clock ELSE clock + 1
    /\ \E v \in 1 .. release :
         disk' = [f \in File |-> IF f \in got
                                 THEN [of |-> {<<f, v>>}, run |-> NoId,
                                       whole |-> TRUE, at |-> clock + 1]
                                 ELSE disk[f]]

Download(got) ==
    /\ clock' = IF got = {} THEN clock ELSE clock + 1
    /\ disk' = [f \in File |-> IF f \in got
                               THEN [of |-> {<<f, release>>}, run |-> NoId,
                                     whole |-> TRUE, at |-> clock + 1]
                               ELSE disk[f]]

Fetch ==
    /\ At("fetch")
    /\ clock < MaxClock
    /\ \/ Download(Missing) /\ Proceed /\ UNCHANGED disturbed
       \/ Missing # {} /\ Disturb("step") /\ pc' = 0
            /\ \E got \in {Missing \cap {Atp, QRank}, {}} : Download(got)
    /\ UNCHANGED <<sentinel, release, pending, cut, online, refreshed, publishVars>>

\* Mutants of UpToDate: no step compares times; one output is enough.
UpToDate_exists == \A o \in ToSet(step.out) : Exists(o)
UpToDate_some == \E o \in ToSet(step.out) : Exists(o)

\* The memo check of the step at hand.
UpToDate ==
    /\ \A o \in ToSet(step.out) : Exists(o)
    /\ step.memo = "times" =>
          \A o \in ToSet(step.out), i \in step.in : disk[o].at >= disk[i].at

Reuse ==
    /\ At("build") /\ pending = {} /\ UpToDate
    /\ Proceed
    /\ UNCHANGED <<workVars, online, refreshed, disturbed, publishVars>>

\* The step starts to build its outputs; without all its inputs it fails.
Build ==
    /\ At("build") /\ pending = {} /\ ~UpToDate
    /\ clock < MaxClock
    /\ IF \A i \in step.in : Exists(i)
       THEN /\ clock' = clock + 1
            /\ pending' = ToSet(step.out)
            /\ cut' = FALSE
            /\ UNCHANGED pc
       ELSE pc' = 0 /\ UNCHANGED <<clock, pending, cut>>
    /\ UNCHANGED <<disk, sentinel, release, online, refreshed, disturbed, publishVars>>

\* The thread that sends the rows fails and drops its sender.
RowsFault ==
    /\ At("build") /\ pending = ToSet(step.out) /\ ~cut
    /\ step.rows
    /\ Disturb("rows")
    /\ cut' = TRUE
    /\ UNCHANGED <<disk, sentinel, clock, release, pending, pc, online, refreshed, publishVars>>

\* An output is complete and renamed into place.
Rename(f) ==
    /\ f \in pending
    /\ step.parallel \/ \A k, l \in DOMAIN step.out :
          step.out[k] \in pending /\ step.out[l] = f => l <= k
    /\ disk' = [disk EXCEPT ![f] = Derived(f)]
    /\ pending' = pending \ {f}
    \* The step returns when all its threads are joined.
    /\ pc' = IF pending # {f} THEN pc ELSE IF cut THEN 0 ELSE pc + 1
    /\ UNCHANGED <<sentinel, clock, release, cut, online, refreshed, disturbed, publishVars>>

\* A step returns an error before it has renamed anything.
StepError ==
    /\ At("build") /\ pending = ToSet(step.out) /\ ~cut
    /\ Disturb("step")
    /\ pc' = 0
    /\ pending' = {}
    /\ UNCHANGED <<disk, sentinel, clock, release, cut, online, refreshed,
                   publishVars>>

\* The process dies; on the server, what it was uploading stays as it is.
Crash ==
    /\ Running
    /\ Disturb("crash")
    /\ pc' = 0
    /\ pending' = {}
    /\ transfer' = NoTransfer
    /\ UNCHANGED <<disk, sentinel, clock, release, cut, online, refreshed,
                   runId, published, bucket, dangling, replaced>>

-----------------------------------------------------------------------------
\* anchor_timestamp: the release of the data is that of the newer input.
Anchor == Max({VersionOf(Atp), VersionOf(Osm)})
Sources == UNION {disk[i].of : i \in Inputs}

\* What a publishing step uploads, and under which key.
Object ==
    CASE step.file = Bom -> BomOf(published[1], Sources)
      [] step.file = Manifest ->
           ManifestOf({s \in Sources : s[1] \in {Atp, Osm}}, Anchor)
      [] OTHER -> Content(step.file)
KeyOf == Key(step.file, Anchor, Object)

Publish ==
    /\ At("upload")
    /\ \/ ~online /\ Skip(step.file, KeyOf, Object) /\ Proceed /\ UNCHANGED disturbed
       \/ /\ online
          /\ \/ Put(step.file, KeyOf, Object) /\ Proceed /\ UNCHANGED disturbed
             \/ Create(step.file) /\ UNCHANGED <<pc, disturbed>>
             \/ UploadPart(step.file) /\ UNCHANGED <<pc, disturbed>>
             \/ Finish(step.file, KeyOf, Object) /\ Proceed /\ UNCHANGED disturbed
             \/ Disturb("upload") /\ DropUpload /\ pc' = 0
    /\ UNCHANGED <<workVars, online, refreshed>>

\* The log is uploaded, whatever the result, and the process exits.
Exit ==
    /\ Done
    /\ pc' = 0
    /\ UNCHANGED <<workVars, online, refreshed, disturbed, publishVars>>

-----------------------------------------------------------------------------
Others == Release \/ NewVolume \/ Configure \/ \E i \in Replaceable : ReplaceInput(i)
StepWork == Fetch \/ Reuse \/ Build \/ \E f \in File : Rename(f)
Work == (\E id \in RunIds : Start(id)) \/ StepWork \/ Publish \/ Exit
Next == Others \/ Work \/ RowsFault \/ StepError \/ Crash

Spec == Init /\ [][Next]_vars

\* The scheduler starts a run when none is running, and a run goes on.
FairSpec == Spec /\ WF_vars(Work)
-----------------------------------------------------------------------------
(***************************************************************************)
(* Properties.                                                             *)
(***************************************************************************)
FileContent == [of : SUBSET (Inputs \X (1 .. MaxRelease)), run : RunIds \cup {NoId},
                whole : BOOLEAN, at : 0 .. MaxClock]

TypeOK ==
    /\ disk \in [File -> FileContent]
    /\ sentinel \in RunIds \cup {NoId}
    /\ clock \in 0 .. MaxClock
    /\ release \in 1 .. MaxRelease
    /\ pc \in 0 .. (NumSteps + 1)
    /\ pending \subseteq File
    /\ (pending # {} => At("build") /\ pending \subseteq ToSet(step.out))
    /\ (transfer.open => At("upload") /\ online)
    /\ dangling \in 0 .. MaxDisturbed + 1
    /\ Len(published) <= 4

HasManifest == <<Manifest>> \in DOMAIN bucket
manifest == bucket[<<Manifest>>]
Parquet == manifest.resources[1].object

(***************************************************************************)
(* Whatever the manifest in the bucket lists is in the bucket, with the    *)
(* hash that the manifest gives for it, at every moment: while files of    *)
(* the next release are uploaded, after failed and interrupted runs, and   *)
(* when runs of the same inputs publish under the same names.  (Except     *)
(* that the BOM may be another one once a run took over the                *)
(* conflated.parquet of a run with another identity.                       *)
(* docs/PRODUCTION.md:299-301.)                                            *)
(***************************************************************************)
FilesResolve ==
    HasManifest =>
        \A k \in DOMAIN manifest.resources :
            LET entry == manifest.resources[k] IN
            /\ entry.key \in DOMAIN bucket
            /\ entry.key[1] # Bom => bucket[entry.key] = entry.object

BomResolves ==
    HasManifest /\ ~replaced =>
        \A k \in DOMAIN manifest.resources :
            LET entry == manifest.resources[k] IN bucket[entry.key] = entry.object

ManifestResolves == FilesResolve /\ BomResolves

(***************************************************************************)
(* The release that the manifest announces is the one it ships: the        *)
(* conflated.parquet it lists derives from the very inputs that it names   *)
(* as sources, and the BOM names all of them, whichever inputs were        *)
(* replaced between runs and whatever earlier runs left behind.  And the   *)
(* tiles that it lists show that conflated.parquet; as the steps that make *)
(* them look at existence only, this needs that nobody replaces an input   *)
(* in a directory that has tiles in it.                                    *)
(* (src/pipeline/upload.rs:385: "visualization of conflated.parquet".)     *)
(***************************************************************************)
ManifestDescribes ==
    HasManifest =>
        /\ manifest.sources = {s \in Parquet.of : s[1] \in {Atp, Osm}}
        /\ manifest.resources[4].object.sources = Parquet.of
        /\ manifest.resources[4].object.parquet = Parquet
        /\ ~refreshed => \A k \in {2, 3} : manifest.resources[k].object.of = Parquet.of

(***************************************************************************)
(* A work directory that a run has pinned to its identity never holds a    *)
(* file written by a run with another one, wherever runs died.             *)
(* (src/pipeline/mod.rs:156-171, reconcile_run_id.)                        *)
(***************************************************************************)
OneRunPerDirectory ==
    sentinel # NoId => \A f \in File : disk[f].run \in {NoId, sentinel}

(***************************************************************************)
(* The manifest is the only object that is ever replaced: no run, retry or *)
(* rebuild puts other bytes under a name that was published.               *)
(* (docs/PRODUCTION.md:294-296: "the only object the pipeline may          *)
(* overwrite".)                                                            *)
(***************************************************************************)
OnlyManifestReplaced ==
    [][\A k \in DOMAIN bucket \ {<<Manifest>>} : bucket'[k] = bucket[k]]_bucket

(***************************************************************************)
(* What of that holds: an object that was published stays as it is, and is *)
(* never deleted.  Only the BOM of a conflated.parquet that a run took     *)
(* over from another one is replaced: it is named by the hash of that file *)
(* and not by its own (src/pipeline/upload.rs, upload_conflated_bom).      *)
(***************************************************************************)
PublishedStays ==
    [][\A key \in DOMAIN bucket \ {<<Manifest>>} :
          /\ key \in DOMAIN bucket'
          /\ bucket'[key] # bucket[key] => key[1] = Bom /\ replaced]_bucket

(***************************************************************************)
(* A new manifest never announces an older release than the one it         *)
(* replaces, not even when a restart finds old inputs in its directory.    *)
(***************************************************************************)
NeverRetracts ==
    [][HasManifest => manifest'.version >= manifest.version]_bucket

(***************************************************************************)
(* Faults delay a release but do not prevent it: again and again, a run    *)
(* gets to the end, whatever the runs before it left behind.               *)
(***************************************************************************)
EventuallyDone == []<>Done
=============================================================================
