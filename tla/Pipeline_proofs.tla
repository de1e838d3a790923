--------------------------- MODULE Pipeline_proofs ---------------------------
(***************************************************************************)
(* Theorems about Pipeline, for all releases, identities, faults and       *)
(* numbers of these.  A work directory never mixes the files of runs with  *)
(* two identities (DirectoryOfOneRun); the manifest never goes back to an  *)
(* older release (ManifestMovesForward); what it lists is there            *)
(* (ListedFilesResolve).  The release that it announces is the one that it *)
(* ships (ManifestIsTrue), the bucket holds what it lists                  *)
(* (ManifestIsServed), what was published stays as it is                   *)
(* (PublishedForGood), and every variable has its type                     *)
(* (PipelineTypeCorrect).                                                  *)
(*                                                                         *)
(* The latter rest on three invariants, one on top of the other: what the  *)
(* files of the work directory are made of, which the memo checks ensure   *)
(* (FilesInv); what a run has collected for its manifest (ListInv); and    *)
(* that a BOM is that of the conflated.parquet in its key (BomInv).        *)
(***************************************************************************)
EXTENDS Pipeline, SequenceTheorems, TLAPS

\* What a file says of the run that wrote it.
OfRun(f) == disk[f].run \in {NoId, sentinel}

\* The invariant is inductive only with what a running process knows: its own
\* identity is the pinned one, or none; and only a building step has outputs
\* underway, so that no other step ends while there are any.
Identity ==
    /\ pc \in Nat
    /\ DOMAIN disk = File
    /\ \A f \in File : OfRun(f)
    /\ Running => runId \in {NoId, sentinel}
    /\ pending # {} => At("build")

\* There are 18 steps; the proofs need only that there is a number of them.
LEMMA StepsAreMany == NumSteps \in Nat
  BY DEF NumSteps, run_pipeline_steps

\* A fresh directory has no files, and nothing runs in it.
LEMMA InitIdentity == Init => Identity
  BY DEF Init, Identity, OfRun, NoFile, Running

\* Between runs: releases, volumes, credentials and inputs come and go.
LEMMA OthersIdentity == Identity /\ Others => Identity'
<1> SUFFICES ASSUME Identity, Others PROVE Identity'
  OBVIOUS
<1> USE DEF Identity, OfRun, Running, At, step
<1>1. CASE Release
  BY <1>1 DEF Release, publishVars
<1>2. CASE NewVolume
  BY <1>2 DEF NewVolume, publishVars, NoFile
<1>3. CASE Configure
  BY <1>3 DEF Configure, publishVars, workVars
<1>4. CASE \E i \in Replaceable : ReplaceInput(i)
  BY <1>4 DEF ReplaceInput, publishVars
<1> QED
  BY <1>1, <1>2, <1>3, <1>4 DEF Others

\* A run that starts pins its identity, which no file contradicts, as a
\* directory without a sentinel has none but files of runs without identity.
LEMMA StartIdentity == \A id \in RunIds : Identity /\ Start(id) => Identity'
<1> SUFFICES ASSUME NEW id \in RunIds, Identity, Start(id) PROVE Identity'
  OBVIOUS
<1>1. UNCHANGED <<disk, pending>> /\ pc' = 1 /\ runId' = id
  BY DEF Start, BeginPublishing
<1>2. pending = {}
  BY DEF Identity, Start, Running, At
<1>3. id \in {NoId, sentinel'} /\ sentinel \in {NoId, sentinel'}
  BY DEF Start, Reconcile
<1>4. \A f \in File : OfRun(f)'
  BY <1>1, <1>3 DEF Identity, OfRun
<1> QED
  BY <1>1, <1>2, <1>3, <1>4 DEF Identity, Running

\* What is downloaded is of no run.
LEMMA FetchIdentity == Identity /\ Fetch => Identity'
<1> SUFFICES ASSUME Identity, Fetch PROVE Identity'
  OBVIOUS
<1>1. pending = {} /\ pending' = {} /\ pc \in Nat
  BY DEF Identity, Fetch, At
<1>2. pc' \in {0, pc + 1} /\ UNCHANGED <<sentinel, runId>> /\ Running
  BY DEF Fetch, Proceed, publishVars, At, Running
<1>3. \E got : Download(got)
  BY DEF Fetch
<1>4. DOMAIN disk' = File /\ \A f \in File : OfRun(f)'
  BY <1>2, <1>3 DEF Download, Identity, OfRun
<1> QED
  BY <1>1, <1>2, <1>4 DEF Identity, Running

\* What a step writes is of the run that is at it.
LEMMA RenameIdentity == \A f \in File : Identity /\ Rename(f) => Identity'
<1> SUFFICES ASSUME NEW f \in File, Identity, Rename(f) PROVE Identity'
  OBVIOUS
<1>1. At("build") /\ Running /\ runId \in {NoId, sentinel}
  BY DEF Identity, Rename, At, Running
<1>2. UNCHANGED <<sentinel, runId>>
  BY DEF Rename, publishVars
<1>3. disk' = [disk EXCEPT ![f] = Derived(f)] /\ Derived(f).run = runId
  BY DEF Rename, Derived
<1>4. DOMAIN disk' = File /\ \A g \in File : OfRun(g)'
  BY <1>1, <1>2, <1>3 DEF Identity, OfRun
<1>5. /\ pc' \in {0, pc, pc + 1}
      /\ pending' # {} => pc' = pc
  BY DEF Rename
<1> QED
  BY <1>1, <1>2, <1>4, <1>5 DEF Identity, Running, At, step

\* The other actions leave the directory as it is.
LEMMA StepIdentity ==
    Identity /\ (Reuse \/ Build \/ Publish \/ Exit \/ RowsFault \/ StepError \/ Crash)
        => Identity'
<1> SUFFICES ASSUME Identity,
                    Reuse \/ Build \/ Publish \/ Exit \/ RowsFault \/ StepError \/ Crash
             PROVE  Identity'
  OBVIOUS
<1>1. UNCHANGED <<disk, sentinel, runId>>
  BY DEF Reuse, Build, Publish, Exit, RowsFault, StepError, Crash, workVars, publishVars,
         Skip, Put, Create, UploadPart, Finish, DropUpload
<1>2. pc' \in Nat /\ (pc' > 0 => pc > 0)
  BY DEF Identity, Reuse, Build, Publish, Exit, RowsFault, StepError, Crash, Proceed, At,
         Running
<1>3. pending' # {} => At("build")'
  <2>1. CASE Reuse \/ Publish \/ Exit
    BY <2>1, StepsAreMany DEF Identity, Reuse, Publish, Exit, Done, At, workVars, step
  <2>2. CASE Build \/ RowsFault
    BY <2>2 DEF Identity, Build, RowsFault, At, step
  <2>3. CASE StepError \/ Crash
    BY <2>3 DEF StepError, Crash
  <2> QED
    BY <2>1, <2>2, <2>3
<1> QED
  BY <1>1, <1>2, <1>3 DEF Identity, OfRun, Running

LEMMA NextIdentity == Identity /\ [Next]_vars => Identity'
<1> SUFFICES ASSUME Identity, [Next]_vars PROVE Identity'
  OBVIOUS
<1>1. CASE UNCHANGED vars
  BY <1>1 DEF vars, workVars, publishVars, Identity, OfRun, Running, At, step
<1>2. CASE Next
  BY <1>2, OthersIdentity, StartIdentity, FetchIdentity, RenameIdentity, StepIdentity
     DEF Next, Work, StepWork
<1> QED
  BY <1>1, <1>2

\* A work directory that a run has pinned to its identity never holds a file
\* that a run with another one wrote, wherever runs failed or died
\* (src/pipeline/mod.rs, reconcile_run_id).
THEOREM DirectoryOfOneRun == Spec => []OneRunPerDirectory
<1>1. Identity => OneRunPerDirectory
  BY DEF Identity, OfRun, OneRunPerDirectory
<1> QED
  BY <1>1, InitIdentity, NextIdentity, PTL DEF Spec

-----------------------------------------------------------------------------
(***************************************************************************)
(* The manifest never goes back to an older release.  A run announces the  *)
(* newer of its two main inputs.  That inputs in a directory may be older  *)
(* than the manifest is no harm: one that is missing will be downloaded,   *)
(* in its newest release, and none is ever missing alone but for that.     *)
(***************************************************************************)
Holds(i, v) == disk[i].of = {<<i, v>>}
Version == bucket[<<Manifest>>].version

Announced ==
    HasManifest =>
        /\ Version \in 1 .. release
        /\ Exists(Atp) /\ Exists(Osm) =>
              \E i \in {Atp, Osm} : \E v \in 1 .. release : Holds(i, v) /\ v >= Version

Releases ==
    /\ pc \in Nat
    /\ DOMAIN disk = File
    /\ release \in 1 .. MaxRelease
    /\ pending \cap Inputs = {}
    /\ \A i \in Inputs : Exists(i) => \E v \in 1 .. release : Holds(i, v)
    /\ pc > 1 => \A i \in Inputs : Exists(i)
    /\ Announced

LEMMA MaxReleaseType == MaxRelease \in Nat \ {0}
  BY PipelineAssumption

LEMMA InputsAreFiles == Inputs \subseteq File /\ Atp \in Inputs /\ Osm \in Inputs
  BY DEF File, Inputs

\* No step writes an input.
LEMMA OutputsAreNoInputs ==
    \A k \in 1 .. NumSteps : run_pipeline_steps[k].kind = "build"
                       => ToSet(run_pipeline_steps[k].out) \cap Inputs = {}
<1> SUFFICES ASSUME NEW k \in 1 .. NumSteps, run_pipeline_steps[k].kind = "build",
                    NEW f \in ToSet(run_pipeline_steps[k].out)
             PROVE  f \notin Inputs
  OBVIOUS
<1> USE DEF Inputs, Atp, Osm, QRank, OsmViews
<1>1. k \in 1 .. 18
  BY DEF NumSteps, run_pipeline_steps
<1>2. PICK j \in DOMAIN run_pipeline_steps[k].out : f = run_pipeline_steps[k].out[j]
  BY DEF ToSet
<1>3. CASE k \in 1 .. 6
  BY <1>2, <1>3 DEF run_pipeline_steps, fetch_inputs, import_atp, compute_osmviews_ranks,
     import_osm, collect_wikidata_ids, compute_qrank_quantiles, Step
<1>4. CASE k \in 7 .. 12
  BY <1>2, <1>4 DEF run_pipeline_steps, conflate, Upload, extract_conflated_layers,
     render_conflated_overview, render_conflated_detail, join_conflated_tiles, Step,
     Conflated, ConflatedTiles, Layers
<1>5. CASE k = 14
  <2>1. suggest_edits.out = EditLayers
    BY DEF suggest_edits, Step
  <2>2. run_pipeline_steps[k] = suggest_edits
    BY <1>5 DEF run_pipeline_steps
  <2> QED
    BY <1>2, <2>1, <2>2 DEF EditLayers
<1>6. CASE k = 15
  BY <1>2, <1>6 DEF run_pipeline_steps, render_tiles, Step, EditsTiles
<1>7. CASE k \in {13, 16, 17, 18}
  BY <1>7 DEF run_pipeline_steps, Upload, upload_conflated_bom, upload_datapackage
<1> QED
  BY <1>1, <1>3, <1>4, <1>5, <1>6, <1>7

LEMMA FetchComesFirst == run_pipeline_steps[1].kind = "fetch"
  BY DEF run_pipeline_steps, fetch_inputs

LEMMA InitReleases == Init => Releases
  BY MaxReleaseType, InputsAreFiles
     DEF Init, Releases, Announced, Exists, PublishInit, HasManifest, Inputs

\* The bucket is as it was, and the files of the inputs are.
LEMMA SameReleases ==
    ASSUME Releases, UNCHANGED bucket, \A i \in Inputs : disk'[i] = disk[i],
           DOMAIN disk' = File, release' \in release .. MaxRelease,
           pc' \in Nat, pc' > 1 => pc > 1, pending' \cap Inputs = {}
    PROVE  Releases'
  BY MaxReleaseType, InputsAreFiles
     DEF Releases, Announced, HasManifest, Version, Exists, Holds

LEMMA OthersReleases == Releases /\ Others => Releases'
<1> SUFFICES ASSUME Releases, Others PROVE Releases'
  OBVIOUS
<1> USE DEF Releases, publishVars
<1>1. CASE Release
  BY <1>1, SameReleases, MaxReleaseType DEF Release
<1>2. CASE NewVolume
  BY <1>2, InputsAreFiles DEF NewVolume, Running, Announced, HasManifest, Version, Exists
<1>3. CASE Configure
  BY <1>3, SameReleases, MaxReleaseType DEF Configure, workVars
<1>4. CASE \E i \in Replaceable : ReplaceInput(i)
  <2>1. PICK i \in Inputs : ReplaceInput(i)
    BY <1>4, PipelineAssumption
  <2>2. pc = 0 /\ UNCHANGED <<pc, pending, release, bucket>>
    BY <2>1 DEF ReplaceInput, Running
  <2>3. DOMAIN disk' = File /\ Exists(i) /\ Holds(i, release)'
    BY <2>1, <2>2, InputsAreFiles DEF ReplaceInput, Holds
  <2>4. \A j \in Inputs \ {i} : disk'[j] = disk[j]
    BY <2>1, InputsAreFiles DEF ReplaceInput
  <2>5. \A j \in Inputs : Exists(j)' => \E v \in 1 .. release : Holds(j, v)'
    BY <2>2, <2>3, <2>4, MaxReleaseType DEF Exists, Holds
  <2>6. Announced'
    BY <2>2, <2>3, <2>4, InputsAreFiles, MaxReleaseType
       DEF Announced, HasManifest, Version, Exists, Holds
  <2> QED
    BY <2>2, <2>3, <2>5, <2>6
<1> QED
  BY <1>1, <1>2, <1>3, <1>4 DEF Others

\* What is downloaded is the newest, so at least what the manifest announces.
LEMMA FetchReleases == Releases /\ Fetch => Releases'
<1> SUFFICES ASSUME Releases, Fetch PROVE Releases'
  OBVIOUS
<1> USE DEF Releases
<1>1. UNCHANGED <<pending, release, bucket>>
  BY DEF Fetch, publishVars
<1>2. PICK got : /\ Download(got) /\ got \subseteq Missing
                 /\ pc' = 0 \/ (pc' = pc + 1 /\ got = Missing)
  BY DEF Fetch, Proceed
<1>3. DOMAIN disk' = File
  BY <1>2 DEF Download
<1>4. \A i \in Inputs : IF i \in got THEN Exists(i)' /\ Holds(i, release)' ELSE disk'[i] = disk[i]
  BY <1>1, <1>2, InputsAreFiles DEF Download, Exists, Holds, NoFile
<1>5. \A i \in Inputs : Exists(i)' => \E v \in 1 .. release : Holds(i, v)'
  BY <1>1, <1>4, MaxReleaseType DEF Exists, Holds
<1>6. pc' \in Nat /\ (pc' > 1 => \A i \in Inputs : Exists(i)')
  BY <1>2, <1>4 DEF Missing, Exists
<1>7. Announced'
  BY <1>1, <1>4, InputsAreFiles, MaxReleaseType
     DEF Announced, HasManifest, Version, Exists, Holds
<1> QED
  BY <1>1, <1>3, <1>5, <1>6, <1>7

LEMMA RenameReleases == \A f \in File : Identity /\ Releases /\ Rename(f) => Releases'
<1> SUFFICES ASSUME NEW f \in File, Identity, Releases, Rename(f) PROVE Releases'
  OBVIOUS
<1> USE DEF Releases
<1>1. UNCHANGED <<release, bucket>> /\ f \in pending /\ pending' = pending \ {f}
  BY DEF Rename, publishVars
<1>2. DOMAIN disk' = File /\ \A i \in Inputs : disk'[i] = disk[i]
  BY <1>1, InputsAreFiles DEF Rename
<1>3. pc' \in {0, pc, pc + 1} /\ pc > 1
  BY <1>1, FetchComesFirst DEF Rename, Identity, At
<1> QED
  BY <1>1, <1>2, <1>3, SameReleases, MaxReleaseType

\* The other steps leave the inputs and the bucket as they are.
LEMMA StepReleases ==
    ASSUME Releases,
           Reuse \/ Build \/ Exit \/ RowsFault \/ StepError \/ Crash
               \/ \E id \in RunIds : Start(id)
    PROVE  Releases'
<1> USE DEF Releases
<1>1. UNCHANGED <<disk, release, bucket>>
  BY DEF Reuse, Build, Exit, RowsFault, StepError, Crash, Start, BeginPublishing, workVars,
         publishVars
<1>2. pc' \in Nat /\ (pc' > 1 => pc > 1)
  <2>1. CASE Reuse
    BY <2>1, FetchComesFirst DEF Reuse, Proceed, At
  <2>2. CASE Build \/ Exit \/ RowsFault \/ StepError \/ Crash \/ \E id \in RunIds : Start(id)
    BY <2>2 DEF Build, Exit, RowsFault, StepError, Crash, Start
  <2> QED
    BY <2>1, <2>2
<1>3. pending' \cap Inputs = {}
  <2>1. CASE Build
    BY <2>1, OutputsAreNoInputs DEF Build, At, step
  <2>2. CASE Reuse \/ Exit \/ RowsFault \/ StepError \/ Crash \/ \E id \in RunIds : Start(id)
    BY <2>2 DEF Reuse, Exit, RowsFault, StepError, Crash, Start, workVars
  <2> QED
    BY <2>1, <2>2
<1> QED
  BY <1>1, <1>2, <1>3, SameReleases, MaxReleaseType

LEMMA VersionHeld ==
    ASSUME Releases, NEW i \in Inputs, Exists(i)
    PROVE  VersionOf(i) \in 1 .. release /\ Holds(i, VersionOf(i))
<1>1. PICK v \in 1 .. release : Holds(i, v)
  BY DEF Releases
<1>2. \A w \in 1 .. MaxRelease : <<i, w>> \in disk[i].of <=> w = v
  BY <1>1 DEF Holds
<1>3. v \in 1 .. MaxRelease
  BY <1>1, MaxReleaseType DEF Releases
<1> QED
  BY <1>1, <1>2, <1>3 DEF VersionOf

LEMMA AnchorIsNewer ==
    ASSUME Releases, Exists(Atp), Exists(Osm)
    PROVE  /\ Anchor \in 1 .. release
           /\ Anchor >= VersionOf(Atp) /\ Anchor >= VersionOf(Osm)
           /\ \E i \in {Atp, Osm} : Holds(i, Anchor)
<1>1. /\ VersionOf(Atp) \in 1 .. release /\ Holds(Atp, VersionOf(Atp))
      /\ VersionOf(Osm) \in 1 .. release /\ Holds(Osm, VersionOf(Osm))
  BY VersionHeld, InputsAreFiles
<1>2. \E m \in {VersionOf(Atp), VersionOf(Osm)} :
          \A n \in {VersionOf(Atp), VersionOf(Osm)} : m >= n
  BY <1>1 DEF Releases
<1>3. /\ Anchor \in {VersionOf(Atp), VersionOf(Osm)}
      /\ \A n \in {VersionOf(Atp), VersionOf(Osm)} : Anchor >= n
  BY <1>2 DEF Anchor, Max
<1> QED
  BY <1>1, <1>3

\* Only the manifest is stored under its key.
LEMMA KeyOfManifest == KeyOf = <<Manifest>> <=> step.file = Manifest
  BY DEF KeyOf, Key, Manifest, Bom

\* Publishing is what changes the bucket; a manifest announces the newer of
\* the two inputs, at which the one before it can not have been ahead.
LEMMA PublishReleases ==
    ASSUME Releases, Publish
    PROVE  Releases' /\ (HasManifest => manifest'.version >= manifest.version)
<1> USE DEF Releases
<1>1. UNCHANGED <<disk, release, pending>> /\ pc > 1 /\ pc' \in Nat
  BY FetchComesFirst DEF Publish, At, workVars, Proceed
<1>2. \A i \in Inputs : Exists(i)
  BY <1>1
<1>3. UNCHANGED bucket \/ Store(KeyOf, Object)
  BY DEF Publish, Skip, Put, Create, UploadPart, Finish, DropUpload
<1>4. Announced' /\ (HasManifest => Version' >= Version)
  <2>1. CASE UNCHANGED bucket
    BY <1>1, <2>1 DEF Announced, HasManifest, Version, Exists, Holds
  <2>2. CASE Store(KeyOf, Object) /\ step.file # Manifest
    <3>1. HasManifest' <=> HasManifest
      BY <2>2, KeyOfManifest DEF Store, HasManifest
    <3>2. HasManifest => Version' = Version
      BY <2>2, KeyOfManifest DEF Store, HasManifest, Version
    <3> QED
      BY <1>1, <3>1, <3>2 DEF Announced, Exists, Holds
  <2>3. CASE Store(KeyOf, Object) /\ step.file = Manifest
    <3>1. Version' = Anchor
      BY <2>3, KeyOfManifest DEF Store, Version, Object, ManifestOf, Manifest, Bom
    <3>2. HasManifest => Anchor >= Version
      <4> SUFFICES ASSUME HasManifest PROVE Anchor >= Version
        OBVIOUS
      <4>1. PICK i \in {Atp, Osm}, v \in 1 .. release : Holds(i, v) /\ v >= Version
        BY <1>2, InputsAreFiles DEF Announced
      <4>2. VersionOf(i) = v
        <5>1. Holds(i, VersionOf(i))
          BY <1>2, VersionHeld, InputsAreFiles
        <5>2. <<i, v>> = <<i, VersionOf(i)>>
          BY <4>1, <5>1 DEF Holds
        <5> QED
          BY <5>2
      <4> QED
        BY <1>2, <4>1, <4>2, AnchorIsNewer, InputsAreFiles DEF Announced
    <3>3. Announced'
      BY <1>1, <1>2, <3>1, AnchorIsNewer, InputsAreFiles DEF Announced, Exists, Holds
    <3> QED
      BY <3>1, <3>2, <3>3
  <2> QED
    BY <1>3, <2>1, <2>2, <2>3
<1>5. \A i \in Inputs : Exists(i)' /\ (\E v \in 1 .. release : Holds(i, v)')
  BY <1>1, <1>2 DEF Exists, Holds
<1> QED
  BY <1>1, <1>4, <1>5 DEF Version, manifest

LEMMA NextReleases == Identity /\ Releases /\ [Next]_vars => Releases'
<1> SUFFICES ASSUME Identity, Releases, [Next]_vars PROVE Releases'
  OBVIOUS
<1>1. CASE UNCHANGED vars
  BY <1>1, SameReleases, MaxReleaseType DEF vars, workVars, publishVars, Releases
<1>2. CASE Next
  BY <1>2, OthersReleases, FetchReleases, RenameReleases, StepReleases, PublishReleases
     DEF Next, Work, StepWork
<1> QED
  BY <1>1, <1>2

\* No manifest announces an older release than the one that it replaces,
\* whatever restarts find in their directories, and whatever is replaced in
\* them (anchor_timestamp in src/pipeline/provenance.rs,
\* upload_datapackage in upload.rs).
THEOREM ManifestMovesForward == Spec => NeverRetracts
<1> DEFINE Step_ == [HasManifest => manifest'.version >= manifest.version]_bucket
<1>1. Identity /\ Releases /\ [Next]_vars => Step_
  <2> SUFFICES ASSUME Releases, [Next]_vars, ~UNCHANGED bucket
               PROVE  HasManifest => manifest'.version >= manifest.version
    OBVIOUS
  <2>1. Publish
    BY DEF Next, Others, Work, StepWork, Release, NewVolume, Configure, ReplaceInput, Start,
           BeginPublishing, Fetch, Reuse, Build, Rename, Exit, RowsFault, StepError, Crash,
           vars, publishVars
  <2> QED
    BY <2>1, PublishReleases
<1> QED
  BY <1>1, InitIdentity, NextIdentity, InitReleases, NextReleases, PTL DEF Spec, NeverRetracts

-----------------------------------------------------------------------------
(***************************************************************************)
(* What the manifest lists is in the bucket.  An entry of the manifest was *)
(* made when its file was uploaded, by the same run; and but for the BOM   *)
(* and the manifest, a key has the hash of what is stored under it, so     *)
(* that no later upload can change that.                                   *)
(***************************************************************************)
Hashed(key, object) == key # <<Manifest>> /\ (key[1] # Bom => key[3] = object)
Uploaded(entry) == entry.key \in DOMAIN bucket

Stored ==
    /\ \A key \in DOMAIN bucket \ {<<Manifest>>} : Hashed(key, bucket[key])
    /\ \E S : published \in Seq(S)
    /\ \A k \in DOMAIN published : Hashed(published[k].key, published[k].object)
    /\ Running /\ online => \A k \in DOMAIN published : Uploaded(published[k])
    /\ HasManifest =>
          \A k \in DOMAIN manifest.resources :
              /\ Hashed(manifest.resources[k].key, manifest.resources[k].object)
              /\ Uploaded(manifest.resources[k])

LEMMA InitStored == Init => Stored
  BY EmptySeq DEF Init, Stored, PublishInit, HasManifest, Running

LEMMA StartStored == \A id \in RunIds : Stored /\ Start(id) => Stored'
  BY EmptySeq DEF Start, BeginPublishing, Stored, Hashed, Uploaded, HasManifest, manifest

\* Only publishing touches the bucket, and what is collected for the manifest.
LEMMA StepStored ==
    ASSUME Identity, Stored, Next, ~Publish, \A id \in RunIds : ~Start(id)
    PROVE  Stored'
<1>1. UNCHANGED <<bucket, published>>
  BY DEF Next, Others, Work, StepWork, Release, NewVolume, Configure, ReplaceInput, Fetch,
         Reuse, Build, Rename, Exit, RowsFault, StepError, Crash, publishVars
<1>2. Running' /\ online' => Running /\ online
  <2>1. Others => ~Running'
    BY DEF Others, Release, NewVolume, Configure, ReplaceInput, Running
  <2>2. StepWork => UNCHANGED online /\ Running
    BY StepsAreMany DEF StepWork, Fetch, Reuse, Build, Rename, Running, At, Identity
  <2>3. Exit \/ RowsFault \/ StepError \/ Crash => UNCHANGED online /\ (Running' => Running)
    BY DEF Exit, RowsFault, StepError, Crash, Running
  <2> QED
    BY <2>1, <2>2, <2>3 DEF Next, Work
<1> QED
  BY <1>1, <1>2 DEF Stored, Hashed, Uploaded, HasManifest, manifest

LEMMA KeyHasHash == step.file # Manifest => Hashed(KeyOf, Object)
  BY KeyOfManifest DEF KeyOf, Key, Hashed, Bom

\* An entry that is added to those of the run.
LEMMA EntryAdded ==
    ASSUME Stored, published' = Entry(step.file, KeyOf, Object)
    PROVE  /\ \E S : published' \in Seq(S)
           /\ \A k \in DOMAIN published' :
                 \/ k \in DOMAIN published /\ published'[k] = published[k]
                 \/ /\ step.file # Manifest
                    /\ published'[k] = [key |-> KeyOf, object |-> Object]
<1>1. CASE step.file = Manifest
  BY <1>1 DEF Entry, Stored
<1>2. CASE step.file # Manifest
  <2> DEFINE entry == [key |-> KeyOf, object |-> Object]
  <2>1. PICK S : published \in Seq(S)
    BY DEF Stored
  <2>2. published \in Seq(S \cup {entry})
    BY <2>1, SeqMonotonic
  <2>3. published' = Append(published, entry)
    BY <1>2 DEF Entry
  <2> HIDE DEF entry
  <2>4. /\ published' \in Seq(S \cup {entry})
        /\ \A k \in DOMAIN published' :
              \/ k \in DOMAIN published /\ published'[k] = published[k]
              \/ published'[k] = entry
    BY <2>2, <2>3
  <2> QED
    BY <1>2, <2>4 DEF entry
<1> QED
  BY <1>1, <1>2

LEMMA PublishStored == Stored /\ Publish => Stored'
<1> SUFFICES ASSUME Stored, Publish PROVE Stored'
  OBVIOUS
<1>1. UNCHANGED online /\ Running
  BY DEF Publish, At, Running
<1>2. CASE UNCHANGED <<bucket, published>>
  BY <1>1, <1>2 DEF Stored, Hashed, Uploaded, HasManifest, manifest
<1>3. CASE ~online /\ UNCHANGED bucket /\ published' = Entry(step.file, KeyOf, Object)
  BY <1>1, <1>3, EntryAdded, KeyHasHash DEF Stored, Hashed, Uploaded, HasManifest, manifest
<1>4. CASE online /\ Store(KeyOf, Object) /\ published' = Entry(step.file, KeyOf, Object)
  <2>1. DOMAIN bucket' = DOMAIN bucket \cup {KeyOf} /\ bucket'[KeyOf] = Object
    BY <1>4 DEF Store
  <2>2. \A key \in DOMAIN bucket \ {KeyOf} : bucket'[key] = bucket[key]
    BY <1>4 DEF Store
  <2>3. \A key \in DOMAIN bucket' \ {<<Manifest>>} : Hashed(key, bucket'[key])
    BY <2>1, <2>2, KeyOfManifest, KeyHasHash DEF Stored
  <2>4. (\A k \in DOMAIN published :
            Hashed(published[k].key, published[k].object) /\ Uploaded(published[k]))'
    BY <1>1, <1>4, <2>1, EntryAdded, KeyHasHash DEF Stored, Uploaded
  <2>5. (HasManifest =>
            \A k \in DOMAIN manifest.resources :
                /\ Hashed(manifest.resources[k].key, manifest.resources[k].object)
                /\ Uploaded(manifest.resources[k]))'
    <3>1. CASE step.file # Manifest
      BY <2>1, <2>2, <3>1, KeyOfManifest DEF Stored, HasManifest, manifest, Uploaded
    <3>2. CASE step.file = Manifest
      <4>1. manifest'.resources = published
        BY <2>1, <3>2, KeyOfManifest DEF manifest, Object, ManifestOf, Manifest, Bom
      <4>2. published' = published
        BY <1>4, <3>2 DEF Entry
      <4> QED
        BY <2>4, <4>1, <4>2
    <3> QED
      BY <3>1, <3>2
  <2> QED
    BY <2>3, <2>4, <2>5, <1>4, EntryAdded DEF Stored, Hashed, Uploaded
<1> QED
  BY <1>2, <1>3, <1>4 DEF Publish, Skip, Put, Create, UploadPart, Finish, DropUpload

LEMMA NextStored == Identity /\ Stored /\ [Next]_vars => Stored'
<1> SUFFICES ASSUME Identity, Stored, [Next]_vars PROVE Stored'
  OBVIOUS
<1>1. CASE UNCHANGED vars
  BY <1>1 DEF vars, workVars, publishVars, Stored, Hashed, Uploaded, HasManifest, manifest, Running
<1> QED
  BY <1>1, StartStored, StepStored, PublishStored

\* Whatever runs do, and wherever they fail or die, what the manifest lists is
\* in the bucket, and all but the BOM is what it was when it was listed.  This
\* is the first part of ManifestResolves (src/pipeline/upload.rs).
THEOREM ListedFilesResolve == Spec => []FilesResolve
<1>1. Stored => FilesResolve
  BY DEF Stored, FilesResolve, Hashed, Uploaded
<1> QED
  BY <1>1, InitIdentity, NextIdentity, InitStored, NextStored, PTL DEF Spec

-----------------------------------------------------------------------------
(***************************************************************************)
(* What the manifest says of the files that it lists.                      *)
(***************************************************************************)
ins(k) == run_pipeline_steps[k].in
outs(k) == ToSet(run_pipeline_steps[k].out)
OfAll(S) == UNION {disk[i].of : i \in S}

Typed ==
    /\ disk \in [File -> FileContent]
    /\ sentinel \in RunIds \cup {NoId}
    /\ runId \in RunIds
    /\ clock \in 0 .. MaxClock
    /\ release \in 1 .. MaxRelease
    /\ pc \in 0 .. (NumSteps + 1)
    /\ cut \in BOOLEAN
    /\ disturbed \in 0 .. MaxDisturbed
    /\ pending \subseteq File
    /\ (pending # {} => At("build") /\ pending \subseteq ToSet(step.out))

\* Output o of step k is as new as what the step made it of.
Newer(o, k) == \A i \in ins(k) : disk[o].at >= disk[i].at
MadeOf(o, k) == disk[o].of = OfAll(ins(k))

\* A file never outlives what it was made of; and if it looks new enough for
\* the memo check, then it is made of what is there now.  If nobody replaces
\* inputs, it always is.
Made ==
    \A k \in Steps : \A o \in outs(k) : Exists(o) =>
        /\ \A i \in ins(k) : Exists(i)
        /\ run_pipeline_steps[k].memo = "times" /\ Newer(o, k) => MadeOf(o, k)
        /\ ~refreshed => MadeOf(o, k)

\* While a step builds, its inputs are there and all else is older.
Building ==
    pending # {} =>
        /\ clock > 0
        /\ \A i \in ins(pc) : Exists(i)
        /\ \A o \in outs(pc) \ pending : Exists(o) /\ disk[o].at = clock
        /\ \A f \in File \ outs(pc) : disk[f].at < clock

\* What a run has passed, it has checked or built.
Passed ==
    \A k \in Steps : k < pc =>
        \A o \in outs(k) :
            /\ Exists(o)
            /\ run_pipeline_steps[k].memo = "times" => Newer(o, k)

FilesInv ==
    /\ Typed
    /\ \A f \in File : disk[f].at <= clock
    /\ Made
    /\ Building
    /\ Passed

-----------------------------------------------------------------------------
\* How many entries a run has collected when it is at step n.
Entries(n) ==
    IF n <= 8 THEN 0 ELSE IF n <= 13 THEN 1 ELSE IF n <= 16 THEN 2
    ELSE IF n <= 17 THEN 3 ELSE 4

BomFor(parquet, id, sources) == [parquet |-> parquet, run |-> id, sources |-> sources]

Collected ==
    Running =>
        /\ Len(published) = Entries(pc)
        /\ pc > 8 => published[1].object = Content(Conflated)
        /\ pc > 13 /\ ~refreshed => published[2].object.of = disk[Conflated].of
        /\ pc > 16 /\ ~refreshed => published[3].object.of = disk[Conflated].of
        /\ pc > 17 => published[4].object = BomFor(published[1].object, runId, Sources)

\* Uploads in parts: one at a time, and what is left of others costs a fault.
Transfers ==
    /\ transfer \in [parts : Nat, open : BOOLEAN]
    /\ transfer.parts > 0 => transfer.open
    /\ transfer.open => At("upload") /\ online /\ NumParts[step.file] > 0
    /\ dangling \in Nat
    /\ IF transfer.open THEN dangling \in 1 .. disturbed + 1
                        ELSE dangling \in 0 .. disturbed

ListInv ==
    /\ \E S : published \in Seq(S)
    /\ Len(published) <= 4
    /\ Collected
    /\ ManifestDescribes
    /\ Transfers

-----------------------------------------------------------------------------
\* A BOM under the key of a conflated.parquet is that of the run that wrote it.
BomOfKey(key, object) ==
    key[1] = Bom => object = BomFor(key[3], key[3].run, key[3].of)

BomInv ==
    ~replaced =>
        /\ Running /\ Exists(Conflated) => disk[Conflated].run = runId
        /\ \A key \in DOMAIN bucket \ {<<Manifest>>} : BomOfKey(key, bucket[key])
        /\ \A k \in DOMAIN published : BomOfKey(published[k].key, published[k].object)
        /\ HasManifest =>
              \A k \in DOMAIN manifest.resources :
                  BomOfKey(manifest.resources[k].key, manifest.resources[k].object)

-----------------------------------------------------------------------------
(***************************************************************************)
(* The steps in their order: 1 fetches, 2 to 7, 9 to 12, 14 and 15 build,  *)
(* the others upload.  MadeAt(f) is the step that makes file f, 0 if it is *)
(* an input.                                                               *)
(***************************************************************************)
MadeAt(f) ==
    CASE f = "alltheplaces.parquet" -> 2
      [] f = "osmviews-ranks" -> 3
      [] f = "osm-features" -> 4
      [] f = "wikidata-ids" -> 5
      [] f = "qrank-quantiles" -> 6
      [] f = "conflated.parquet" -> 7
      [] f \in {"matched.jsonl", "unmatched.jsonl",
                "matched-detail.jsonl", "unmatched-detail.jsonl"} -> 9
      [] f = "conflated-overview.pmtiles" -> 10
      [] f = "conflated-detail.pmtiles" -> 11
      [] f = "conflated.pmtiles" -> 12
      [] f \in {"shops.jsonl", "infrastructure.jsonl", "trees.jsonl"} -> 14
      [] f = "diffed-places.pmtiles" -> 15
      [] OTHER -> 0

LEMMA Built ==
    Steps = 2 .. 7 \cup 9 .. 12 \cup {14, 15} /\ NumSteps = 18
<1>1. NumSteps = 18
  BY DEF NumSteps, run_pipeline_steps
<1>2. \A k \in 2 .. 6 : run_pipeline_steps[k].kind = "build"
  BY DEF run_pipeline_steps, import_atp, compute_osmviews_ranks, import_osm,
     collect_wikidata_ids, compute_qrank_quantiles, Step
<1>3. run_pipeline_steps[7].kind = "build"
  BY DEF run_pipeline_steps, conflate, Step
<1>4. \A k \in 9 .. 12 : run_pipeline_steps[k].kind = "build"
  BY DEF run_pipeline_steps, extract_conflated_layers, render_conflated_overview,
     render_conflated_detail, join_conflated_tiles, Step
<1>5. run_pipeline_steps[14].kind = "build"
  <2>1. run_pipeline_steps[14] = suggest_edits
    BY DEF run_pipeline_steps
  <2>2. QED
    BY <2>1 DEF suggest_edits, Step
<1>6. run_pipeline_steps[15].kind = "build"
  BY DEF run_pipeline_steps, render_tiles, Step
<1>7. \A k \in {1, 8, 13, 16, 17, 18} : run_pipeline_steps[k].kind # "build"
  BY DEF run_pipeline_steps, fetch_inputs, Upload, upload_conflated_bom, upload_datapackage
<1>8. \A k \in 1 .. 18 : \/ k \in 2 .. 6 \/ k = 7 \/ k \in 9 .. 12 \/ k = 14 \/ k = 15
                         \/ k \in {1, 8, 13, 16, 17, 18}
  OBVIOUS
<1>9. QED
  BY <1>1, <1>2, <1>3, <1>4, <1>5, <1>6, <1>7, <1>8 DEF Steps

LEMMA Uploading ==
    \A k \in 1 .. NumSteps : run_pipeline_steps[k].kind = "upload" =>
        \/ k = 8 /\ run_pipeline_steps[k].file = Conflated
        \/ k = 13 /\ run_pipeline_steps[k].file = ConflatedTiles
        \/ k = 16 /\ run_pipeline_steps[k].file = EditsTiles
        \/ k = 17 /\ run_pipeline_steps[k].file = Bom
        \/ k = 18 /\ run_pipeline_steps[k].file = Manifest
<1>1. \A k \in 1 .. NumSteps : k \in Steps \/ k \in {1, 8, 13, 16, 17, 18}
  BY Built
<1>2. \A k \in Steps : run_pipeline_steps[k].kind = "build"
  BY DEF Steps
<1>3. run_pipeline_steps[1].kind = "fetch"
  BY FetchComesFirst
<1>4. /\ run_pipeline_steps[8].file = Conflated
      /\ run_pipeline_steps[13].file = ConflatedTiles
      /\ run_pipeline_steps[16].file = EditsTiles
      /\ run_pipeline_steps[17].file = Bom
      /\ run_pipeline_steps[18].file = Manifest
  BY DEF run_pipeline_steps, Upload, upload_conflated_bom, upload_datapackage
<1>5. QED
  BY <1>1, <1>2, <1>3, <1>4

\* What each of the building steps reads, writes and looks at.
LEMMA FirstSteps ==
    /\ ins(2) = {Atp} /\ outs(2) = {"alltheplaces.parquet"}
    /\ ins(3) = {"alltheplaces.parquet", OsmViews} /\ outs(3) = {"osmviews-ranks"}
    /\ ins(4) = {Osm} /\ outs(4) = {"osm-features"}
    /\ ins(5) = {"alltheplaces.parquet", "osm-features"} /\ outs(5) = {"wikidata-ids"}
    /\ ins(6) = {QRank, "wikidata-ids"} /\ outs(6) = {"qrank-quantiles"}
    /\ ins(7) = {"alltheplaces.parquet", "osm-features", OsmViews, "osmviews-ranks",
                 "qrank-quantiles"}
    /\ outs(7) = {Conflated}
    /\ \A k \in 2 .. 7 : run_pipeline_steps[k].memo = "times"
<1> USE DEF ins, outs, ToSet
<1>1. ins(2) = {Atp} /\ outs(2) = {"alltheplaces.parquet"} /\ run_pipeline_steps[2].memo = "times"
  BY DEF run_pipeline_steps, import_atp, Step
<1>2. /\ ins(3) = {"alltheplaces.parquet", OsmViews} /\ outs(3) = {"osmviews-ranks"}
      /\ run_pipeline_steps[3].memo = "times"
  BY DEF run_pipeline_steps, compute_osmviews_ranks, Step
<1>3. ins(4) = {Osm} /\ outs(4) = {"osm-features"} /\ run_pipeline_steps[4].memo = "times"
  BY DEF run_pipeline_steps, import_osm, Step
<1>4. /\ ins(5) = {"alltheplaces.parquet", "osm-features"} /\ outs(5) = {"wikidata-ids"}
      /\ run_pipeline_steps[5].memo = "times"
  BY DEF run_pipeline_steps, collect_wikidata_ids, Step
<1>5. /\ ins(6) = {QRank, "wikidata-ids"} /\ outs(6) = {"qrank-quantiles"}
      /\ run_pipeline_steps[6].memo = "times"
  BY DEF run_pipeline_steps, compute_qrank_quantiles, Step
<1>6. /\ ins(7) = {"alltheplaces.parquet", "osm-features", OsmViews, "osmviews-ranks",
                   "qrank-quantiles"}
      /\ outs(7) = {Conflated} /\ run_pipeline_steps[7].memo = "times"
  BY DEF run_pipeline_steps, conflate, Step
<1>7. \A k \in 2 .. 7 : k \in {2, 3, 4, 5, 6, 7}
  OBVIOUS
<1>8. \A k \in 2 .. 7 : run_pipeline_steps[k].memo = "times"
  BY <1>1, <1>2, <1>3, <1>4, <1>5, <1>6, <1>7
<1>9. QED
  BY <1>1, <1>2, <1>3, <1>4, <1>5, <1>6, <1>8

LEMMA LastSteps ==
    /\ ins(9) = {Conflated}
    /\ outs(9) = {"matched.jsonl", "unmatched.jsonl",
                  "matched-detail.jsonl", "unmatched-detail.jsonl"}
    /\ ins(10) = {"matched.jsonl", "unmatched.jsonl"}
    /\ outs(10) = {"conflated-overview.pmtiles"}
    /\ ins(11) = {"matched-detail.jsonl", "unmatched-detail.jsonl"}
    /\ outs(11) = {"conflated-detail.pmtiles"}
    /\ ins(12) = {"conflated-overview.pmtiles", "conflated-detail.pmtiles"}
    /\ outs(12) = {ConflatedTiles}
    /\ ins(14) = {Conflated}
    /\ outs(14) = {"shops.jsonl", "infrastructure.jsonl", "trees.jsonl"}
    /\ ins(15) = {"shops.jsonl", "infrastructure.jsonl", "trees.jsonl"}
    /\ outs(15) = {EditsTiles}
<1> USE DEF ins, outs, ToSet
<1>1. /\ ins(9) = {Conflated}
      /\ outs(9) = {"matched.jsonl", "unmatched.jsonl",
                    "matched-detail.jsonl", "unmatched-detail.jsonl"}
  BY DEF run_pipeline_steps, extract_conflated_layers, Step, Layers
<1>2. ins(10) = {"matched.jsonl", "unmatched.jsonl"} /\ outs(10) = {"conflated-overview.pmtiles"}
  BY DEF run_pipeline_steps, render_conflated_overview, Step, Layers
<1>3. /\ ins(11) = {"matched-detail.jsonl", "unmatched-detail.jsonl"}
      /\ outs(11) = {"conflated-detail.pmtiles"}
  BY DEF run_pipeline_steps, render_conflated_detail, Step, Layers
<1>4. /\ ins(12) = {"conflated-overview.pmtiles", "conflated-detail.pmtiles"}
      /\ outs(12) = {ConflatedTiles}
  BY DEF run_pipeline_steps, join_conflated_tiles, Step
<1>5. /\ ins(14) = {Conflated}
      /\ outs(14) = {"shops.jsonl", "infrastructure.jsonl", "trees.jsonl"}
  <2>1. run_pipeline_steps[14] = suggest_edits
    BY DEF run_pipeline_steps
  <2>2. suggest_edits.in = {Conflated} /\ suggest_edits.out = EditLayers
    BY DEF suggest_edits, Step
  <2>3. QED
    BY <2>1, <2>2 DEF EditLayers
<1>6. /\ ins(15) = {"shops.jsonl", "infrastructure.jsonl", "trees.jsonl"}
      /\ outs(15) = {EditsTiles}
  <2>1. run_pipeline_steps[15] = render_tiles
    BY DEF run_pipeline_steps
  <2>2. render_tiles.in = ToSet(EditLayers) /\ render_tiles.out = <<EditsTiles>>
    BY DEF render_tiles, Step
  <2>3. ToSet(EditLayers) = {"shops.jsonl", "infrastructure.jsonl", "trees.jsonl"}
    BY DEF EditLayers
  <2>4. QED
    BY <2>1, <2>2, <2>3
<1>7. QED
  BY <1>1, <1>2, <1>3, <1>4, <1>5, <1>6

\* The steps are in the order of what they need, and none writes a file that
\* another one writes.
LEMMA InOrder ==
    ASSUME NEW k \in Steps
    PROVE  /\ k \in 1 .. NumSteps /\ k \in Nat /\ k > 1
           /\ \A o \in outs(k) : o \in File /\ MadeAt(o) = k
           /\ \A i \in ins(k) : i \in File /\ MadeAt(i) \in 0 .. k - 1
<1>1. k \in 1 .. NumSteps /\ k > 1
  BY Built
<1>2. k \in 2 .. 7 \cup 9 .. 12 \cup {14, 15}
  BY Built
<1>3. \A o \in outs(k) : MadeAt(o) = k
  BY <1>2, FirstSteps, LastSteps DEF MadeAt, Conflated, ConflatedTiles, EditsTiles
<1>4. \A i \in ins(k) : MadeAt(i) \in 0 .. k - 1
  BY <1>2, FirstSteps, LastSteps
     DEF MadeAt, Conflated, ConflatedTiles, EditsTiles, Atp, Osm, QRank, OsmViews
<1>5. \A l \in Steps : \A o \in outs(l) : o \in File
  BY DEF File, outs
<1>6. \A i \in ins(k) : i \in Inputs \/ \E l \in Steps : i \in outs(l)
  BY <1>2, FirstSteps, LastSteps, Built DEF Inputs
<1>7. QED
  BY <1>1, <1>3, <1>4, <1>5, <1>6, InputsAreFiles

-----------------------------------------------------------------------------
(***************************************************************************)
(* The variables of the work directory have their types.                   *)
(***************************************************************************)
LEMMA InitTyped == Init => Typed
<1> SUFFICES ASSUME Init PROVE Typed
  OBVIOUS
<1>1. NoFile \in FileContent
  BY PipelineAssumption DEF NoFile, FileContent
<1>2. disk \in [File -> FileContent]
  BY <1>1 DEF Init
<1>3. clock \in 0 .. MaxClock /\ disturbed \in 0 .. MaxDisturbed /\ release \in 1 .. MaxRelease
  BY PipelineAssumption DEF Init
<1>4. runId \in RunIds /\ sentinel = NoId /\ pc = 0 /\ pending = {}
  BY PipelineAssumption DEF Init
<1>5. cut \in BOOLEAN
  BY DEF Init
<1>6. pc \in 0 .. (NumSteps + 1)
  BY <1>4, Built
<1>7. QED
  BY <1>2, <1>3, <1>4, <1>5, <1>6 DEF Typed

LEMMA OthersTyped == Typed /\ Others => Typed'
<1> SUFFICES ASSUME Typed, Others PROVE Typed'
  OBVIOUS
<1> USE PipelineAssumption DEF Typed, Running, At, step, Disturb
<1>1. CASE Release
  BY <1>1 DEF Release, publishVars
<1>2. CASE NewVolume
  <2>1. NoFile \in FileContent
    BY DEF NoFile, FileContent
  <2>2. disk' \in [File -> FileContent] /\ sentinel' = NoId
    BY <1>2, <2>1 DEF NewVolume
  <2>3. QED
    BY <1>2, <2>2 DEF NewVolume, publishVars
<1>3. CASE Configure
  BY <1>3 DEF Configure, publishVars, workVars
<1>4. ASSUME NEW i \in Replaceable, ReplaceInput(i) PROVE Typed'
  <2>1. i \in Inputs /\ clock + 1 \in 0 .. MaxClock /\ clock' = clock + 1
    BY <1>4 DEF ReplaceInput
  <2>2. [of |-> {<<i, release>>}, run |-> NoId, whole |-> TRUE, at |-> clock + 1] \in FileContent
    BY <2>1 DEF FileContent
  <2>3. disk' \in [File -> FileContent]
    BY <1>4, <2>2 DEF ReplaceInput
  <2>4. QED
    BY <1>4, <2>1, <2>3 DEF ReplaceInput, publishVars
<1>5. QED
  BY <1>1, <1>2, <1>3, <1>4 DEF Others

LEMMA FetchTyped == Typed /\ Fetch => Typed'
<1> SUFFICES ASSUME Typed, Fetch PROVE Typed'
  OBVIOUS
<1> USE PipelineAssumption DEF Typed
<1>1. /\ pending = {} /\ pending' = {}
      /\ UNCHANGED <<sentinel, release, cut, runId>>
      /\ disturbed' \in 0 .. MaxDisturbed
  BY DEF Fetch, At, step, publishVars, Disturb
<1>2. pc \in 1 .. NumSteps /\ pc' \in 0 .. (NumSteps + 1)
  BY Built DEF Fetch, At, Proceed
<1>3. PICK got \in SUBSET Inputs : Download(got)
  BY DEF Fetch, Missing
<1>4. clock' \in 0 .. MaxClock /\ clock + 1 \in 0 .. MaxClock
  BY <1>3 DEF Fetch, Download
<1>5. \A f \in got : [of |-> {<<f, release>>}, run |-> NoId, whole |-> TRUE, at |-> clock + 1]
                        \in FileContent
  BY <1>4 DEF FileContent
<1>6. disk' \in [File -> FileContent]
  BY <1>3, <1>5 DEF Download
<1>7. QED
  BY <1>1, <1>2, <1>4, <1>6

\* What a step makes is a file, made of releases of the inputs.
LEMMA DerivedTyped ==
    ASSUME Typed, pc \in Steps, NEW f
    PROVE  Derived(f) \in FileContent /\ Derived(f).of = OfAll(ins(pc))
           /\ Derived(f).at = clock /\ Derived(f).run = runId
<1> USE DEF Typed
<1>1. \A i \in step.in : disk[i] \in FileContent
  BY InOrder DEF ins, step
<1>2. UNION {disk[i].of : i \in step.in} \subseteq Inputs \X (1 .. MaxRelease)
  BY <1>1 DEF FileContent
<1>3. (~cut /\ \A i \in step.in : disk[i].whole) \in BOOLEAN
  OBVIOUS
<1>4. QED
  BY <1>2, <1>3 DEF Derived, FileContent, OfAll, ins, step

LEMMA RenameTyped == \A f \in File : Typed /\ Rename(f) => Typed'
<1> SUFFICES ASSUME NEW f \in File, Typed, Rename(f) PROVE Typed'
  OBVIOUS
<1> USE DEF Typed
<1>1. pc \in Steps
  BY DEF Rename, At, Steps
<1>2. Derived(f) \in FileContent
  BY <1>1, DerivedTyped
<1>3. disk' \in [File -> FileContent]
  BY <1>2 DEF Rename
<1>4. /\ UNCHANGED <<sentinel, clock, release, cut, disturbed, runId>>
      /\ pending' = pending \ {f} /\ pc' \in {0, pc, pc + 1}
      /\ pending' # {} => pc' = pc
  BY DEF Rename, publishVars
<1>5. pc' \in 0 .. (NumSteps + 1)
  BY <1>1, <1>4, Built
<1>6. QED
  BY <1>3, <1>4, <1>5 DEF At, step, Rename

LEMMA StepTyped ==
    ASSUME Typed,
           Reuse \/ Build \/ Publish \/ Exit \/ RowsFault \/ StepError \/ Crash
               \/ \E id \in RunIds : Start(id)
    PROVE  Typed'
<1> USE PipelineAssumption DEF Typed
<1>1. CASE Reuse
  <2>1. UNCHANGED <<workVars, disturbed, runId>> /\ pending = {} /\ pc \in Steps /\ pc' = pc + 1
    BY <1>1 DEF Reuse, publishVars, At, Steps, Proceed
  <2>2. QED
    BY <2>1, Built DEF workVars
<1>2. CASE Build
  <2>1. pc \in Steps /\ ToSet(step.out) \subseteq File
    BY <1>2, InOrder DEF Build, At, Steps, outs, step
  <2>2. UNCHANGED <<disk, sentinel, release, disturbed, runId>>
    BY <1>2 DEF Build, publishVars
  <2>3. clock' \in 0 .. MaxClock
    BY <1>2 DEF Build
  <2>4. \/ (pc' = pc /\ pending' = ToSet(step.out))
        \/ (pc' = 0 /\ pending' = {})
    <3> DEFINE there == \A i \in step.in : Exists(i)
    <3>1. IF there THEN pc' = pc /\ pending' = ToSet(step.out)
                   ELSE pc' = 0 /\ pending' = pending
      BY <1>2 DEF Build
    <3>2. pending = {}
      BY <1>2 DEF Build
    <3> HIDE DEF there
    <3>3. QED
      BY <3>1, <3>2
  <2>5. cut' = FALSE \/ cut' = cut
    BY <1>2 DEF Build
  <2>6. cut' \in BOOLEAN
    BY <2>5
  <2>7. At("build")
    BY <1>2 DEF Build
  <2>8. QED
    BY <2>1, <2>2, <2>3, <2>4, <2>6, <2>7, Built DEF At, step
<1>3. CASE Publish
  <2>1. UNCHANGED workVars /\ pending = {} /\ pc \in 1 .. NumSteps /\ pc' \in {0, pc, pc + 1}
    BY <1>3 DEF Publish, At, step, Proceed
  <2>2. disturbed' \in 0 .. MaxDisturbed
    BY <1>3 DEF Publish, Disturb
  <2>3. runId' = runId
    BY <1>3 DEF Publish, Skip, Put, Create, UploadPart, Finish, DropUpload
  <2>4. QED
    BY <2>1, <2>2, <2>3, Built DEF workVars
<1>4. CASE Exit
  BY <1>4, Built DEF Exit, Done, workVars, publishVars, At, step
<1>5. CASE RowsFault \/ StepError \/ Crash
  <2>1. disturbed' \in 0 .. MaxDisturbed
    BY <1>5 DEF RowsFault, StepError, Crash, Disturb
  <2>2. UNCHANGED <<disk, sentinel, clock, release, runId>> /\ cut' \in BOOLEAN
    BY <1>5 DEF RowsFault, StepError, Crash, publishVars
  <2>3. \/ UNCHANGED <<pc, pending>>
        \/ (pc' = 0 /\ pending' = {})
    BY <1>5 DEF RowsFault, StepError, Crash
  <2>4. QED
    BY <2>1, <2>2, <2>3, Built DEF At, step
<1>6. ASSUME NEW id \in RunIds, Start(id) PROVE Typed'
  <2>1. pending = {} /\ pc' = 1 /\ runId' = id
    BY <1>6 DEF Start, BeginPublishing, Running, At
  <2>2. sentinel' \in RunIds \cup {NoId} /\ disturbed' \in 0 .. MaxDisturbed
    BY <1>6 DEF Start, Reconcile, Disturb
  <2>3. UNCHANGED <<disk, clock, release, pending, cut>>
    BY <1>6 DEF Start
  <2>4. QED
    BY <2>1, <2>2, <2>3, Built
<1>7. QED
  BY <1>1, <1>2, <1>3, <1>4, <1>5, <1>6

LEMMA NextTyped == Typed /\ [Next]_vars => Typed'
<1> SUFFICES ASSUME Typed, [Next]_vars PROVE Typed'
  OBVIOUS
<1>1. CASE UNCHANGED vars
  BY <1>1 DEF vars, workVars, publishVars, Typed, At, step
<1>2. CASE Next
  BY <1>2, OthersTyped, FetchTyped, RenameTyped, StepTyped DEF Next, Work, StepWork
<1>3. QED
  BY <1>1, <1>2

-----------------------------------------------------------------------------
(***************************************************************************)
(* What the files are made of.                                             *)
(***************************************************************************)
LEMMA SameOf ==
    ASSUME NEW S, \A i \in S : disk'[i].of = disk[i].of
    PROVE  OfAll(S)' = OfAll(S)
  BY DEF OfAll

\* The memo check of a step that builds.
LEMMA ReuseIsRight ==
    ASSUME UpToDate
    PROVE  \A o \in outs(pc) :
              Exists(o) /\ (run_pipeline_steps[pc].memo = "times" => Newer(o, pc))
  BY DEF UpToDate, outs, ins, Newer, step

LEMMA InitFiles == Init => FilesInv
<1> SUFFICES ASSUME Init PROVE FilesInv
  OBVIOUS
<1>1. \A f \in File : ~Exists(f) /\ disk[f].at = 0
  BY DEF Init, Exists, NoFile
<1>2. clock = 0 /\ pc = 0 /\ pending = {}
  BY DEF Init
<1>3. Made /\ Passed
  BY <1>1, <1>2, InOrder DEF Made, Passed
<1>4. QED
  BY <1>1, <1>2, <1>3, InitTyped DEF FilesInv, Building

\* The files stay as they are; the run may go one step further.
LEMMA QuietFiles ==
    ASSUME FilesInv, Typed', UNCHANGED <<disk, clock>>, ~refreshed' => ~refreshed,
           pending' # {} => pending' = pending /\ pc' = pc,
           \A k \in Steps : k < pc' => k < pc \/ (k = pc /\ UpToDate)
    PROVE  FilesInv'
<1> USE DEF FilesInv
<1>1. Made'
  BY SameOf DEF Made, MadeOf, Newer, Exists, OfAll
<1>2. Building'
  BY DEF Building, Exists
<1>3. Passed'
  BY ReuseIsRight DEF Passed, Newer, Exists
<1>4. QED
  BY <1>1, <1>2, <1>3

LEMMA OthersFiles == FilesInv /\ Others => FilesInv'
<1> SUFFICES ASSUME FilesInv, Others PROVE FilesInv'
  OBVIOUS
<1> USE DEF FilesInv
<1>1. Typed'
  BY OthersTyped
<1>2. CASE Release
  BY <1>1, <1>2, QuietFiles DEF Release
<1>3. CASE Configure
  BY <1>1, <1>3, QuietFiles DEF Configure, workVars
<1>4. CASE NewVolume
  <2>1. \A f \in File : ~Exists(f)' /\ disk'[f].at = 0
    BY <1>4 DEF NewVolume, Exists, NoFile
  <2>2. clock' = clock /\ clock \in Nat /\ pc' = 0 /\ pending' = {}
    BY <1>4 DEF NewVolume, Running, Typed, At
  <2>3. Made' /\ Passed'
    BY <2>1, <2>2, InOrder DEF Made, Passed
  <2>4. QED
    BY <1>1, <2>1, <2>2, <2>3 DEF Building
<1>5. ASSUME NEW i \in Replaceable, ReplaceInput(i) PROVE FilesInv'
  <2>1. /\ i \in Inputs /\ i \in File /\ Exists(i)
        /\ clock' = clock + 1 /\ clock \in Nat /\ refreshed' = TRUE /\ pc' = 0 /\ pending' = {}
    BY <1>5, PipelineAssumption, InputsAreFiles DEF ReplaceInput, Running, Typed, At
  <2>2. disk'[i].at = clock + 1 /\ Exists(i)' /\ \A f \in File \ {i} : disk'[f] = disk[f]
    BY <1>5, <2>1 DEF ReplaceInput, Exists, NoFile, Typed
  <2>3. ASSUME NEW k \in Steps, NEW o \in outs(k), Exists(o)'
        PROVE  /\ \A j \in ins(k) : Exists(j)'
               /\ run_pipeline_steps[k].memo = "times" /\ Newer(o, k)' => MadeOf(o, k)'
    <3>1. o \in File /\ o # i /\ \A j \in ins(k) : j \in File
      BY <2>1, InOrder, OutputsAreNoInputs DEF outs, Steps
    <3>2. disk'[o] = disk[o] /\ Exists(o)
      BY <2>2, <2>3, <3>1 DEF Exists
    <3>3. \A j \in ins(k) : Exists(j)'
      BY <2>2, <3>1, <3>2 DEF Made, Exists
    <3>4. CASE i \in ins(k)
      <4>1. disk'[o].at <= clock /\ disk'[o].at \in Nat
        BY <3>1, <3>2 DEF Typed, FileContent
      <4>2. ~Newer(o, k)'
        BY <2>1, <2>2, <3>4, <4>1 DEF Newer
      <4>3. QED
        BY <3>3, <4>2
    <3>5. CASE i \notin ins(k)
      <4>1. \A j \in ins(k) : disk'[j] = disk[j]
        BY <2>2, <3>1, <3>5
      <4>2. QED
        BY <3>2, <3>3, <4>1, SameOf DEF Made, Newer, MadeOf
    <3>6. QED
      BY <3>4, <3>5
  <2>4. Made' /\ Passed' /\ Building'
    BY <2>1, <2>3, InOrder DEF Made, Passed, Building
  <2>5. \A f \in File : disk'[f].at <= clock'
    <3>1. \A f \in File : disk[f].at \in Nat
      BY DEF Typed, FileContent
    <3>2. QED
      BY <2>1, <2>2, <3>1
  <2>6. QED
    BY <1>1, <2>4, <2>5
<1>6. QED
  BY <1>2, <1>3, <1>4, <1>5 DEF Others

LEMMA FetchIsFirst == Fetch => pc = 1 /\ pc' \in {0, 2}
<1> SUFFICES ASSUME Fetch PROVE pc = 1 /\ pc' \in {0, 2}
  OBVIOUS
<1>1. pc \in 1 .. 18 /\ run_pipeline_steps[pc].kind = "fetch"
  BY Built DEF Fetch, At
<1>2. \A k \in 2 .. 18 : k \in Steps \/ k \in {8, 13, 16, 17, 18}
  BY Built
<1>3. \A k \in {8, 13, 16, 17, 18} : run_pipeline_steps[k].kind = "upload"
  BY DEF run_pipeline_steps, Upload, upload_conflated_bom, upload_datapackage
<1>4. pc = 1
  BY <1>1, <1>2, <1>3 DEF Steps
<1>5. QED
  BY <1>4 DEF Fetch, Proceed

\* What is downloaded was missing, so that nothing was made of it.
LEMMA FetchFiles == FilesInv /\ Fetch => FilesInv'
<1> SUFFICES ASSUME FilesInv, Fetch PROVE FilesInv'
  OBVIOUS
<1> USE DEF FilesInv
<1>1. PICK got \in SUBSET Missing : Download(got)
  BY DEF Fetch
<1>2. /\ Typed' /\ pending = {} /\ pending' = {} /\ refreshed' = refreshed /\ clock \in Nat
      /\ clock' \in {clock, clock + 1}
  BY <1>1, FetchTyped DEF Fetch, Typed, At, Download
<1>3. pc = 1 /\ pc' \in {0, 2}
  BY FetchIsFirst
<1>4. \A f \in File : IF f \in got THEN ~Exists(f) /\ Exists(f)' /\ disk'[f].at = clock'
                      ELSE disk'[f] = disk[f]
  <2>1. got # {} => clock' = clock + 1
    BY <1>1 DEF Download
  <2>2. QED
    BY <1>1, <1>2, <2>1 DEF Download, Missing, Exists, NoFile
<1>5. ASSUME NEW k \in Steps, NEW o \in outs(k), Exists(o)'
      PROVE  /\ \A j \in ins(k) : Exists(j)'
             /\ run_pipeline_steps[k].memo = "times" /\ Newer(o, k)' => MadeOf(o, k)'
             /\ ~refreshed' => MadeOf(o, k)'
  <2>1. o \in File /\ o \notin Inputs /\ \A j \in ins(k) : j \in File
    BY InOrder, OutputsAreNoInputs DEF outs, Steps
  <2>2. disk'[o] = disk[o] /\ Exists(o)
    BY <1>4, <1>5, <2>1 DEF Exists, Missing
  <2>3. \A j \in ins(k) : Exists(j) /\ disk'[j] = disk[j]
    BY <1>4, <2>1, <2>2 DEF Made
  <2>4. QED
    BY <1>2, <2>2, <2>3, SameOf DEF Made, Newer, MadeOf, Exists
<1>6. Made'
  BY <1>5 DEF Made
<1>7. Passed' /\ Building'
  BY <1>2, <1>3, InOrder DEF Passed, Building
<1>8. \A f \in File : disk'[f].at <= clock'
  <2>1. \A f \in File : disk[f].at \in Nat
    BY DEF Typed, FileContent
  <2>2. QED
    BY <1>2, <1>4, <2>1
<1>9. QED
  BY <1>2, <1>6, <1>7, <1>8

\* What a step writes is made of what is there, and newer than whatever was
\* made of the file that it replaces.
LEMMA RenameFiles == \A f \in File : FilesInv /\ Rename(f) => FilesInv'
<1> SUFFICES ASSUME NEW f \in File, FilesInv, Rename(f) PROVE FilesInv'
  OBVIOUS
<1> USE DEF FilesInv
<1>1. /\ Typed' /\ f \in pending /\ pending' = pending \ {f}
      /\ UNCHANGED <<clock, refreshed>> /\ clock \in Nat
      /\ pending # {f} => pc' = pc
      /\ pending = {f} => pc' \in {0, pc + 1}
  <2>1. UNCHANGED <<clock, refreshed>> /\ f \in pending /\ pending' = pending \ {f}
    BY DEF Rename
  <2>2. (pending # {f} => pc' = pc) /\ (pending = {f} => pc' \in {0, pc + 1})
    BY DEF Rename
  <2>3. Typed' /\ clock \in Nat
    BY RenameTyped DEF Typed
  <2>4. QED
    BY <2>1, <2>2, <2>3
<1>2. pc \in Steps /\ pc \in Nat /\ pending \subseteq outs(pc) /\ f \in outs(pc)
  BY <1>1 DEF Typed, At, Steps, outs, step
<1>3. /\ clock > 0 /\ \A i \in ins(pc) : Exists(i)
      /\ \A o \in outs(pc) \ pending : Exists(o) /\ disk[o].at = clock
      /\ \A g \in File \ outs(pc) : disk[g].at < clock
  BY <1>1 DEF Building
<1>4. /\ disk'[f].at = clock /\ disk'[f].of = OfAll(ins(pc)) /\ Exists(f)'
      /\ \A g \in File \ {f} : disk'[g] = disk[g]
  BY <1>2, <1>3, DerivedTyped DEF Rename, Typed, Exists, NoFile
<1>5. \A g \in File : Exists(g) => Exists(g)'
  BY <1>4 DEF Exists
<1>6. MadeAt(f) = pc /\ f \notin ins(pc) /\ \A i \in ins(pc) : i \in File /\ disk'[i] = disk[i]
  BY <1>2, <1>4, InOrder
<1>7. ASSUME NEW k \in Steps, NEW o \in outs(k), Exists(o)'
      PROVE  /\ \A j \in ins(k) : Exists(j)'
             /\ run_pipeline_steps[k].memo = "times" /\ Newer(o, k)' => MadeOf(o, k)'
             /\ ~refreshed' => MadeOf(o, k)'
  <2>1. /\ o \in File /\ MadeAt(o) = k /\ k \in Nat
        /\ \A j \in ins(k) : j \in File /\ MadeAt(j) \in 0 .. k - 1
    BY InOrder
  <2>2. CASE o = f
    <3>1. k = pc
      BY <1>6, <2>1, <2>2
    <3>2. MadeOf(o, k)'
      BY <1>4, <1>6, <2>2, <3>1, SameOf DEF MadeOf
    <3>3. \A j \in ins(k) : Exists(j)'
      BY <1>3, <1>5, <1>6, <3>1
    <3>4. QED
      BY <3>2, <3>3
  <2>3. CASE o # f
    <3>1. disk'[o] = disk[o] /\ Exists(o)
      BY <1>4, <1>7, <2>1, <2>3 DEF Exists
    <3>2. \A j \in ins(k) : Exists(j) /\ Exists(j)'
      BY <1>5, <2>1, <3>1 DEF Made
    <3>3. CASE f \in ins(k)
      <4>1. k # pc /\ o \notin outs(pc)
        BY <1>2, <1>6, <2>1, <3>3, InOrder
      <4>2. ~Newer(o, k)'
        BY <1>1, <1>3, <1>4, <2>1, <3>1, <3>3, <4>1 DEF Newer, Typed, FileContent
      <4>3. ASSUME ~refreshed' PROVE MadeOf(o, k)'
        <5>1. MadeOf(f, pc) /\ MadeOf(o, k)
          BY <1>1, <1>2, <3>1, <3>2, <3>3, <4>3 DEF Made
        <5>2. \A j \in ins(k) : disk'[j].of = disk[j].of
          BY <1>4, <2>1, <5>1 DEF MadeOf
        <5>3. QED
          BY <3>1, <5>1, <5>2, SameOf DEF MadeOf
      <4>4. QED
        BY <3>2, <4>2, <4>3
    <3>4. CASE f \notin ins(k)
      <4>1. \A j \in ins(k) : disk'[j] = disk[j]
        BY <1>4, <2>1, <3>4
      <4>2. QED
        BY <1>1, <3>1, <3>2, <4>1, SameOf DEF Made, Newer, MadeOf
    <3>5. QED
      BY <3>3, <3>4
  <2>4. QED
    BY <2>2, <2>3
<1>8. Made'
  BY <1>7 DEF Made
<1>9. Building'
  <2> SUFFICES ASSUME pending' # {} PROVE Building'
    BY DEF Building
  <2>1. pc' = pc
    BY <1>1
  <2>2. \A o \in outs(pc) \ pending' : o \in File /\ Exists(o)' /\ disk'[o].at = clock
    BY <1>1, <1>2, <1>3, <1>4, <1>5, InOrder
  <2>3. \A g \in File \ outs(pc) : disk'[g].at < clock
    BY <1>2, <1>3, <1>4
  <2>4. QED
    BY <1>1, <1>3, <1>5, <1>6, <2>1, <2>2, <2>3 DEF Building
<1>10. Passed'
  <2> SUFFICES ASSUME NEW k \in Steps, k < pc', NEW o \in outs(k)
               PROVE  (Exists(o)' /\ Newer(o, k)') \/ (Exists(o)' /\ run_pipeline_steps[k].memo # "times")
    BY DEF Passed
  <2>1. k \in Nat /\ o \in File /\ MadeAt(o) = k
        /\ \A j \in ins(k) : j \in File /\ MadeAt(j) \in 0 .. k - 1
    BY InOrder
  <2>2. CASE k < pc
    <3>1. o # f /\ f \notin ins(k)
      BY <1>2, <1>6, <2>1, <2>2
    <3>2. disk'[o] = disk[o] /\ \A j \in ins(k) : disk'[j] = disk[j]
      BY <1>4, <2>1, <3>1
    <3>3. QED
      BY <1>5, <2>1, <2>2, <3>2 DEF Passed, Newer
  <2>3. CASE k = pc
    <3>1. pending = {f}
      BY <1>1, <1>2, <2>3
    <3>2. Exists(o)' /\ disk'[o].at = clock
      BY <1>3, <1>4, <1>5, <2>1, <2>3, <3>1
    <3>3. \A j \in ins(k) : disk'[j].at <= clock
      BY <1>6, <2>1, <2>3
    <3>4. Newer(o, k)'
      BY <3>2, <3>3 DEF Newer
    <3>5. QED
      BY <3>2, <3>4
  <2>4. k < pc \/ k = pc
    BY <1>1, <1>2, <2>1
  <2>5. QED
    BY <2>2, <2>3, <2>4
<1>11. \A g \in File : disk'[g].at <= clock'
  BY <1>1, <1>4
<1>12. QED
  BY <1>1, <1>8, <1>9, <1>10, <1>11

\* The other actions write nothing.
LEMMA StepFiles ==
    ASSUME FilesInv,
           Reuse \/ Build \/ Publish \/ Exit \/ RowsFault \/ StepError \/ Crash
               \/ \E id \in RunIds : Start(id)
    PROVE  FilesInv'
<1> USE DEF FilesInv
<1>1. Typed' /\ pc \in Nat
  BY StepTyped DEF Typed
<1>2. CASE Reuse
  <2>1. pc' = pc + 1 /\ UpToDate /\ pending' = {} /\ UNCHANGED <<disk, clock, refreshed>>
    BY <1>2 DEF Reuse, Proceed, workVars
  <2>2. QED
    BY <1>1, <2>1, InOrder, QuietFiles
<1>3. CASE Publish
  <2>1. pending' = {} /\ UNCHANGED <<disk, clock, refreshed>>
    BY <1>3 DEF Publish, workVars, Typed, At
  <2>2. pc \notin Steps /\ pc' \in {0, pc, pc + 1}
    BY <1>3 DEF Publish, Proceed, At, Steps
  <2>3. QED
    BY <1>1, <2>1, <2>2, InOrder, QuietFiles
<1>4. CASE Exit
  BY <1>1, <1>4, Built, InOrder, QuietFiles DEF Exit, workVars, Done, Typed, At
<1>5. CASE RowsFault \/ StepError \/ Crash
  BY <1>1, <1>5, InOrder, QuietFiles DEF RowsFault, StepError, Crash
<1>6. CASE \E id \in RunIds : Start(id)
  <2>1. pc' = 1 /\ pending' = {} /\ UNCHANGED <<disk, clock, refreshed>>
    BY <1>6 DEF Start, Running, Typed, At
  <2>2. QED
    BY <1>1, <2>1, InOrder, QuietFiles
<1>7. CASE Build
  <2>1. CASE pc' = 0
    <3>1. UNCHANGED <<disk, clock, refreshed>> /\ pending' = {}
      BY <1>7, <2>1 DEF Build, At
    <3>2. QED
      BY <1>1, <2>1, <3>1, InOrder, QuietFiles
  <2>2. CASE pc' # 0
    <3>1. /\ pc' = pc /\ clock' = clock + 1 /\ pending' = outs(pc) /\ UNCHANGED <<disk, refreshed>>
          /\ \A i \in ins(pc) : Exists(i)
      BY <1>7, <2>2 DEF Build, outs, ins, step
    <3>2. clock \in Nat /\ \A f \in File : disk[f].at \in Nat
      BY DEF Typed, FileContent
    <3>3. \A f \in File : disk'[f].at < clock'
      BY <3>1, <3>2
    <3>4. Building'
      BY <3>1, <3>2, <3>3 DEF Building, Exists
    <3>5. Made' /\ Passed'
      BY <3>1, SameOf DEF Made, Passed, Newer, MadeOf, Exists
    <3>6. \A f \in File : disk'[f].at <= clock'
      BY <3>1, <3>2
    <3>7. QED
      BY <1>1, <3>4, <3>5, <3>6
  <2>3. QED
    BY <2>1, <2>2
<1>8. QED
  BY <1>2, <1>3, <1>4, <1>5, <1>6, <1>7

LEMMA NextFiles == FilesInv /\ [Next]_vars => FilesInv'
<1> SUFFICES ASSUME FilesInv, [Next]_vars PROVE FilesInv'
  OBVIOUS
<1>1. CASE UNCHANGED vars
  <2>1. Typed'
    BY NextTyped DEF FilesInv
  <2>2. UNCHANGED <<disk, clock, refreshed, pending, pc>>
    BY <1>1 DEF vars, workVars
  <2>3. QED
    BY <2>1, <2>2, QuietFiles
<1>2. CASE Next
  BY <1>2, OthersFiles, FetchFiles, RenameFiles, StepFiles DEF Next, Work, StepWork
<1>3. QED
  BY <1>1, <1>2

-----------------------------------------------------------------------------
(***************************************************************************)
(* The steps look at what is there as a run leaves it: once the run has    *)
(* passed conflate, conflated.parquet is made of all inputs as they are    *)
(* now; and the tiles are made of the same if no input was replaced.       *)
(***************************************************************************)
LEMMA TimedIsRight ==
    ASSUME FilesInv, NEW k \in 2 .. 7, pc > k
    PROVE  \A o \in outs(k) : MadeOf(o, k)
  BY Built, FirstSteps DEF FilesInv, Passed, Made

LEMMA ConflatedOfAll ==
    ASSUME FilesInv, pc > 7
    PROVE  disk[Conflated].of = Sources
<1>1. pc \in Nat
  BY DEF FilesInv, Typed
<1>2. disk["alltheplaces.parquet"].of = disk[Atp].of
  <2>1. MadeOf("alltheplaces.parquet", 2)
    BY <1>1, FirstSteps, TimedIsRight
  <2>2. QED
    BY <2>1, FirstSteps DEF MadeOf, OfAll
<1>3. disk["osmviews-ranks"].of = disk[Atp].of \cup disk[OsmViews].of
  <2>1. MadeOf("osmviews-ranks", 3)
    BY <1>1, FirstSteps, TimedIsRight
  <2>2. QED
    BY <1>2, <2>1, FirstSteps DEF MadeOf, OfAll
<1>4. disk["osm-features"].of = disk[Osm].of
  <2>1. MadeOf("osm-features", 4)
    BY <1>1, FirstSteps, TimedIsRight
  <2>2. QED
    BY <2>1, FirstSteps DEF MadeOf, OfAll
<1>5. disk["wikidata-ids"].of = disk[Atp].of \cup disk[Osm].of
  <2>1. MadeOf("wikidata-ids", 5)
    BY <1>1, FirstSteps, TimedIsRight
  <2>2. QED
    BY <1>2, <1>4, <2>1, FirstSteps DEF MadeOf, OfAll
<1>6. disk["qrank-quantiles"].of = disk[QRank].of \cup disk[Atp].of \cup disk[Osm].of
  <2>1. MadeOf("qrank-quantiles", 6)
    BY <1>1, FirstSteps, TimedIsRight
  <2>2. QED
    BY <1>5, <2>1, FirstSteps DEF MadeOf, OfAll
<1>7. disk[Conflated].of = disk[Atp].of \cup disk[Osm].of \cup disk[QRank].of \cup disk[OsmViews].of
  <2>1. MadeOf(Conflated, 7)
    BY <1>1, FirstSteps, TimedIsRight
  <2>2. QED
    BY <1>2, <1>3, <1>4, <1>6, <2>1, FirstSteps DEF MadeOf, OfAll
<1>8. QED
  BY <1>7 DEF Sources, Inputs

LEMMA TilesOfTheSame ==
    ASSUME FilesInv, ~refreshed
    PROVE  /\ pc > 12 => disk[ConflatedTiles].of = disk[Conflated].of
           /\ pc > 15 => disk[EditsTiles].of = disk[Conflated].of
<1>1. pc \in Nat
  BY DEF FilesInv, Typed
<1>2. \A k \in Steps : k < pc => \A o \in outs(k) : MadeOf(o, k)
  BY DEF FilesInv, Passed, Made
<1>3. ASSUME NEW k \in Steps, k < pc, ins(k) # {}, \A i \in ins(k) : disk[i].of = disk[Conflated].of
      PROVE  \A o \in outs(k) : disk[o].of = disk[Conflated].of
  <2>1. OfAll(ins(k)) = disk[Conflated].of
    BY <1>3 DEF OfAll
  <2>2. QED
    BY <1>2, <1>3, <2>1 DEF MadeOf
<1>4. ASSUME pc > 12 PROVE disk[ConflatedTiles].of = disk[Conflated].of
  <2>1. \A k \in 9 .. 12 : k \in Steps /\ k < pc
    BY <1>1, <1>4, Built
  <2>2. \A o \in outs(9) : disk[o].of = disk[Conflated].of
    BY <1>3, <2>1, LastSteps
  <2>3. \A o \in outs(10) : disk[o].of = disk[Conflated].of
    <3>1. ins(10) # {} /\ ins(10) \subseteq outs(9)
      BY LastSteps
    <3>2. QED
      BY <1>3, <2>1, <2>2, <3>1
  <2>4. \A o \in outs(11) : disk[o].of = disk[Conflated].of
    <3>1. ins(11) # {} /\ ins(11) \subseteq outs(9)
      BY LastSteps
    <3>2. QED
      BY <1>3, <2>1, <2>2, <3>1
  <2>5. \A o \in outs(12) : disk[o].of = disk[Conflated].of
    <3>1. ins(12) # {} /\ ins(12) \subseteq outs(10) \cup outs(11)
      BY LastSteps
    <3>2. QED
      BY <1>3, <2>1, <2>3, <2>4, <3>1
  <2>6. QED
    BY <2>5, LastSteps
<1>5. ASSUME pc > 15 PROVE disk[EditsTiles].of = disk[Conflated].of
  <2>1. \A k \in {14, 15} : k \in Steps /\ k < pc
    BY <1>1, <1>5, Built
  <2>2. \A o \in outs(14) : disk[o].of = disk[Conflated].of
    <3>1. ins(14) # {} /\ ins(14) \subseteq {Conflated}
      BY LastSteps
    <3>2. QED
      BY <1>3, <2>1, <3>1
  <2>3. \A o \in outs(15) : disk[o].of = disk[Conflated].of
    <3>1. ins(15) # {} /\ ins(15) \subseteq outs(14)
      BY LastSteps
    <3>2. QED
      BY <1>3, <2>1, <2>2, <3>1
  <2>4. QED
    BY <2>3, LastSteps
<1>6. QED
  BY <1>4, <1>5

LEMMA ConflatedIsFile == Conflated \in File /\ ConflatedTiles \in File /\ EditsTiles \in File
<1>1. 7 \in Steps /\ 12 \in Steps /\ 15 \in Steps
  BY Built
<1>2. QED
  BY <1>1, InOrder, FirstSteps, LastSteps

LEMMA ContentOf ==
    ASSUME FilesInv, NEW f \in File
    PROVE  Content(f).of = disk[f].of /\ Content(f).run = disk[f].run
<1>1. disk[f] \in FileContent
  BY DEF FilesInv, Typed
<1>2. QED
  BY <1>1 DEF Content, FileContent

-----------------------------------------------------------------------------
(***************************************************************************)
(* What a run collects for its manifest.                                   *)
(***************************************************************************)
LEMMA InitList == Init => ListInv
<1> SUFFICES ASSUME Init PROVE ListInv
  OBVIOUS
<1>1. published = <<>> /\ <<>> \in Seq({}) /\ Len(<<>>) = 0
  BY EmptySeq DEF Init, PublishInit
<1>2. Collected /\ ManifestDescribes
  BY DEF Init, PublishInit, Collected, ManifestDescribes, Running, HasManifest
<1>3. Transfers
  BY DEF Init, PublishInit, Transfers, NoTransfer
<1>4. QED
  BY <1>1, <1>2, <1>3 DEF ListInv

\* Nobody else writes conflated.parquet or inputs while a run publishes.
LEMMA Unwritten ==
    ASSUME FilesInv, NEW f \in File, Rename(f)
    PROVE  /\ \A i \in Inputs : disk'[i] = disk[i]
           /\ pc # 7 => disk'[Conflated] = disk[Conflated]
<1>1. pc \in Steps /\ f \in outs(pc)
  BY DEF Rename, FilesInv, Typed, At, Steps, outs, step
<1>2. f \notin Inputs /\ (pc # 7 => f # Conflated)
  BY <1>1, OutputsAreNoInputs, InOrder, Built, FirstSteps DEF outs, Steps
<1>3. QED
  BY <1>2, InputsAreFiles, ConflatedIsFile DEF Rename, FilesInv, Typed

\* A run that goes from one building step to the next has nothing to collect.
LEMMA SameEntries ==
    ASSUME NEW k \in Steps
    PROVE  /\ Entries(k + 1) = Entries(k)
           /\ \A n \in {8, 13, 16, 17} : k + 1 > n => k > n
  BY Built DEF Entries

\* What the manifest says is not touched by those who do not publish.
LEMMA SameManifest ==
    ASSUME ManifestDescribes, UNCHANGED bucket, refreshed => refreshed'
    PROVE  ManifestDescribes'
  BY DEF ManifestDescribes, HasManifest, manifest, Parquet

LEMMA OthersList == FilesInv /\ ListInv /\ Others => ListInv'
<1> SUFFICES ASSUME FilesInv, ListInv, Others PROVE ListInv'
  OBVIOUS
<1> USE DEF ListInv
<1>1. UNCHANGED <<published, bucket, transfer, dangling>> /\ ~Running /\ ~Running'
  BY DEF Others, Release, NewVolume, Configure, ReplaceInput, publishVars, Running
<1>2. refreshed => refreshed'
  BY DEF Others, Release, NewVolume, Configure, ReplaceInput
<1>3. disturbed \in Nat /\ disturbed' \in {disturbed, disturbed + 1}
  BY DEF Others, Release, NewVolume, Configure, ReplaceInput, Disturb, FilesInv, Typed
<1>4. ~transfer.open
  BY <1>1, Built DEF Transfers, At, Running
<1>5. Transfers'
  BY <1>1, <1>3, <1>4 DEF Transfers
<1>6. Collected'
  BY <1>1 DEF Collected
<1>7. QED
  BY <1>1, <1>2, <1>5, <1>6, SameManifest

LEMMA StartList == \A id \in RunIds : FilesInv /\ ListInv /\ Start(id) => ListInv'
<1> SUFFICES ASSUME NEW id \in RunIds, FilesInv, ListInv, Start(id) PROVE ListInv'
  OBVIOUS
<1> USE DEF ListInv
<1>1. /\ published' = <<>> /\ UNCHANGED <<transfer, bucket, dangling, refreshed>>
      /\ pc' = 1 /\ ~Running
  BY DEF Start, BeginPublishing
<1>2. disturbed \in Nat /\ disturbed' \in {disturbed, disturbed + 1}
  BY DEF Start, Disturb, FilesInv, Typed
<1>3. ~transfer.open
  BY <1>1, Built DEF Transfers, At, Running
<1>4. Transfers'
  BY <1>1, <1>2, <1>3 DEF Transfers
<1>5. Len(published') = 0 /\ published' \in Seq({})
  BY <1>1, EmptySeq
<1>6. Collected'
  BY <1>1, <1>5 DEF Collected, Entries
<1>7. QED
  BY <1>1, <1>4, <1>5, <1>6, SameManifest

\* The files that were collected are still what they were.
LEMMA SameCollected ==
    ASSUME Collected, pc \in Nat, Running, UNCHANGED <<published, runId, refreshed>>,
           Entries(pc') = Entries(pc), \A n \in {8, 13, 16, 17} : pc' > n => pc > n,
           pc > 8 => disk'[Conflated] = disk[Conflated] /\ \A i \in Inputs : disk'[i] = disk[i]
    PROVE  Collected'
<1> SUFFICES ASSUME Running' PROVE Collected'
  BY DEF Collected
<1>1. pc' > 8 => Content(Conflated)' = Content(Conflated)
  BY DEF Content
<1>2. pc' > 17 => Sources' = Sources
  <2> SUFFICES ASSUME pc' > 17 PROVE Sources' = Sources
    OBVIOUS
  <2>1. \A i \in Inputs : disk'[i].of = disk[i].of
    OBVIOUS
  <2>2. QED
    BY <2>1 DEF Sources
<1>3. \A n \in {8, 13, 16, 17} : pc' > n => pc > n /\ pc > 8
  OBVIOUS
<1>4. Len(published') = Entries(pc')
  BY DEF Collected
<1>5. pc' > 8 => published'[1].object = Content(Conflated)'
  BY <1>1, <1>3 DEF Collected
<1>6. pc' > 13 /\ ~refreshed' => published'[2].object.of = disk'[Conflated].of
  BY <1>3 DEF Collected
<1>7. pc' > 16 /\ ~refreshed' => published'[3].object.of = disk'[Conflated].of
  BY <1>3 DEF Collected
<1>8. pc' > 17 => published'[4].object = BomFor(published'[1].object, runId', Sources')
  BY <1>2, <1>3 DEF Collected, BomFor
<1>9. QED
  BY <1>4, <1>5, <1>6, <1>7, <1>8 DEF Collected, BomFor

LEMMA BuildList ==
    ASSUME FilesInv, ListInv,
           Fetch \/ Reuse \/ Build \/ RowsFault \/ StepError \/ Crash \/ Exit
               \/ \E f \in File : Rename(f)
    PROVE  ListInv'
<1> USE DEF ListInv
<1>1. UNCHANGED <<published, bucket, runId, refreshed, online>> /\ Running
  BY Built, SMTT(30) DEF Fetch, Reuse, Build, RowsFault, StepError, Crash, Exit, Rename, publishVars,
     Running, At, Done, FilesInv, Typed
<1>2. pc \in Nat
  BY DEF FilesInv, Typed
<1>3. Transfers'
  <2>1. disturbed \in Nat /\ disturbed' \in {disturbed, disturbed + 1}
    BY DEF Fetch, Reuse, Build, RowsFault, StepError, Crash, Exit, Rename, Disturb, FilesInv,
       Typed
  <2>2. CASE Crash
    <3>1. transfer' = NoTransfer /\ dangling' = dangling /\ disturbed' = disturbed + 1
      BY <2>2 DEF Crash, Disturb
    <3>2. dangling \in 0 .. disturbed + 1
      BY <2>1 DEF Transfers
    <3>3. QED
      <4>1. transfer' \in [parts : Nat, open : BOOLEAN] /\ transfer'.parts = 0 /\ ~transfer'.open
        BY <3>1 DEF NoTransfer
      <4>2. dangling' \in Nat /\ dangling' \in 0 .. disturbed'
        BY <2>1, <3>1, <3>2
      <4>3. QED
        BY <4>1, <4>2 DEF Transfers
  <2>3. CASE ~Crash
    <3>1. UNCHANGED <<transfer, dangling>>
      BY <2>3 DEF Fetch, Reuse, Build, RowsFault, StepError, Exit, Rename, publishVars
    <3>2. ~At("upload")
      BY <2>3, Built DEF Fetch, Reuse, Build, RowsFault, StepError, Exit, Rename, At, Done,
         FilesInv, Typed
    <3>3. ~transfer.open
      BY <3>2 DEF Transfers
    <3>4. QED
      BY <2>1, <3>1, <3>3 DEF Transfers
  <2>4. QED
    BY <2>2, <2>3
<1>4. Collected'
  <2>1. CASE pc' = 0
    BY <2>1 DEF Collected, Running
  <2>2. CASE Fetch /\ pc' # 0
    <3>1. pc = 1 /\ pc' = 2
      BY <2>2, FetchIsFirst
    <3>2. QED
      BY <1>1, <1>2, <3>1, SameCollected DEF Entries
  <2>3. CASE Reuse
    <3>1. pc \in Steps /\ pc' = pc + 1 /\ UNCHANGED disk
      BY <2>3 DEF Reuse, At, Steps, Proceed, workVars
    <3>2. QED
      BY <1>1, <1>2, <3>1, SameEntries, SameCollected
  <2>4. CASE (Build \/ RowsFault) /\ pc' # 0
    <3>1. pc' = pc /\ UNCHANGED disk
      BY <2>4 DEF Build, RowsFault
    <3>2. QED
      BY <1>1, <1>2, <3>1, SameCollected
  <2>5. ASSUME NEW f \in File, Rename(f), pc' # 0 PROVE Collected'
    <3>1. pc \in Steps /\ pc' \in {pc, pc + 1}
      BY <2>5 DEF Rename, FilesInv, Typed, At, Steps
    <3>2. pc > 8 => disk'[Conflated] = disk[Conflated] /\ \A i \in Inputs : disk'[i] = disk[i]
      BY <2>5, Unwritten
    <3>3. QED
      BY <1>1, <1>2, <3>1, <3>2, SameEntries, SameCollected
  <2>6. CASE StepError \/ Crash \/ Exit
    BY <2>6 DEF StepError, Crash, Exit, Collected, Running
  <2>7. QED
    BY <2>1, <2>2, <2>3, <2>4, <2>5, <2>6
<1>5. QED
  BY <1>1, <1>3, <1>4, SameManifest

\* An entry is added at the end.
LEMMA EntryAtTheEnd ==
    ASSUME NEW S, published \in Seq(S), NEW entry, published' = Append(published, entry)
    PROVE  /\ published' \in Seq(S \cup {entry})
           /\ Len(published') = Len(published) + 1
           /\ \A k \in 1 .. Len(published) : published'[k] = published[k]
           /\ published'[Len(published) + 1] = entry
<1>1. published \in Seq(S \cup {entry})
  BY SeqMonotonic
<1>2. QED
  BY <1>1, AppendProperties

\* The uploads that are underway, and those that were left.
LEMMA PublishTransfers ==
    ASSUME FilesInv, Transfers, Publish
    PROVE  Transfers'
<1> USE DEF Transfers
<1>1. /\ disturbed \in Nat /\ disturbed' \in {disturbed, disturbed + 1} /\ UNCHANGED online
      /\ At("upload")
  BY DEF Publish, Disturb, FilesInv, Typed
<1>2. CASE ~online
  <2>1. UNCHANGED <<transfer, dangling>>
    BY <1>2 DEF Publish, Skip
  <2>2. ~transfer.open
    BY <1>2
  <2>3. QED
    BY <1>1, <2>1, <2>2
<1>3. CASE online /\ Put(step.file, KeyOf, Object)
  <2>1. UNCHANGED <<transfer, dangling>>
    BY <1>3 DEF Put
  <2>2. ~transfer.open
    BY <1>3 DEF Put
  <2>3. QED
    BY <1>1, <2>1, <2>2
<1>4. CASE online /\ Create(step.file) /\ UNCHANGED <<pc, disturbed>>
  <2>1. transfer' = [parts |-> 0, open |-> TRUE] /\ dangling' = dangling + 1 /\ ~transfer.open
    BY <1>4 DEF Create
  <2>2. transfer' \in [parts : Nat, open : BOOLEAN] /\ transfer'.parts = 0 /\ transfer'.open
    BY <2>1
  <2>3. dangling' \in 1 .. disturbed' + 1
    BY <1>1, <1>4, <2>1
  <2>4. (At("upload") /\ online /\ NumParts[step.file] > 0)'
    BY <1>1, <1>4 DEF Create, At, step
  <2>5. QED
    BY <2>2, <2>3, <2>4
<1>5. CASE online /\ UploadPart(step.file) /\ UNCHANGED <<pc, disturbed>>
  <2>1. transfer' = [transfer EXCEPT !.parts = @ + 1] /\ dangling' = dangling /\ transfer.open
    BY <1>5 DEF UploadPart
  <2>2. transfer' \in [parts : Nat, open : BOOLEAN] /\ transfer'.open
    BY <2>1
  <2>3. (At("upload") /\ online /\ NumParts[step.file] > 0)'
    BY <1>1, <1>5, <2>1 DEF At, step
  <2>4. dangling' \in 1 .. disturbed' + 1
    BY <1>1, <1>5, <2>1
  <2>5. QED
    BY <2>2, <2>3, <2>4
<1>6. CASE online /\ Finish(step.file, KeyOf, Object)
  <2>1. transfer' = NoTransfer /\ dangling' = dangling - 1 /\ transfer.open
    BY <1>6 DEF Finish
  <2>2. transfer' \in [parts : Nat, open : BOOLEAN] /\ transfer'.parts = 0 /\ ~transfer'.open
    BY <2>1 DEF NoTransfer
  <2>3. dangling' \in 0 .. disturbed'
    BY <1>1, <2>1
  <2>4. QED
    BY <2>2, <2>3
<1>7. CASE DropUpload /\ Disturb("upload")
  <2>1. transfer' = NoTransfer /\ disturbed' = disturbed + 1
    BY <1>7 DEF DropUpload, Disturb
  <2>2. transfer' \in [parts : Nat, open : BOOLEAN] /\ transfer'.parts = 0 /\ ~transfer'.open
    BY <2>1 DEF NoTransfer
  <2>3. dangling' \in 0 .. disturbed'
    <3>1. CASE transfer.parts > 0
      BY <1>1, <1>7, <2>1, <3>1 DEF DropUpload
    <3>2. CASE ~(transfer.parts > 0)
      BY <1>1, <1>7, <2>1, <3>2 DEF DropUpload
    <3>3. QED
      BY <3>1, <3>2
  <2>4. QED
    BY <2>2, <2>3
<1>8. QED
  BY <1>2, <1>3, <1>4, <1>5, <1>6, <1>7 DEF Publish

\* At step 8, 13, 16 or 17, a file is uploaded and listed.
LEMMA FileList ==
    ASSUME FilesInv, ListInv, Publish, step.file # Manifest, pc' = pc + 1,
           published' = Entry(step.file, KeyOf, Object),
           UNCHANGED bucket \/ Store(KeyOf, Object)
    PROVE  ListInv'
<1> USE DEF ListInv
<1> DEFINE entry == [key |-> KeyOf, object |-> Object]
<1>1. /\ pc \in {8, 13, 16, 17} /\ Len(published) = Entries(pc) /\ Running
      /\ \/ pc = 8 /\ step.file = Conflated
         \/ pc = 13 /\ step.file = ConflatedTiles
         \/ pc = 16 /\ step.file = EditsTiles
         \/ pc = 17 /\ step.file = Bom
  <2>1. pc \in 1 .. NumSteps /\ step.kind = "upload"
    BY DEF Publish, At, step
  <2>2. Running
    BY <2>1 DEF Running
  <2>3. QED
    BY <2>1, <2>2, Uploading DEF Collected, step
<1>2. published' = Append(published, entry)
  BY DEF Entry
<1>3. UNCHANGED <<disk, online, refreshed, runId>>
  BY DEF Publish, workVars, Skip, Put, Create, UploadPart, Finish, DropUpload
<1>4. PICK S : published \in Seq(S)
  OBVIOUS
<1>5. /\ published' \in Seq(S \cup {entry})
      /\ Len(published') = Len(published) + 1
      /\ \A k \in 1 .. Len(published) : published'[k] = published[k]
      /\ published'[Len(published) + 1] = entry
  <2> HIDE DEF entry
  <2>1. QED
    BY <1>2, <1>4, EntryAtTheEnd
<1>6. entry.object = Object
  OBVIOUS
<1> HIDE DEF entry
<1>7. UNCHANGED <<Content(Conflated), Sources>>
  BY <1>3 DEF Content, Sources
<1>8. Collected'
  <2>1. CASE pc = 8
    <3>1. Object = Content(Conflated)
      BY <1>1, <2>1 DEF Object, Conflated, Bom, Manifest
    <3>2. QED
      BY <1>1, <1>5, <1>6, <1>7, <2>1, <3>1 DEF Collected, Entries
  <2>2. CASE pc = 13
    <3>1. Object = Content(ConflatedTiles)
      BY <1>1, <2>2 DEF Object, ConflatedTiles, Bom, Manifest
    <3>2. ~refreshed => Object.of = disk[Conflated].of
      BY <2>2, <3>1, TilesOfTheSame, ContentOf, ConflatedIsFile
    <3>3. QED
      BY <1>1, <1>3, <1>5, <1>6, <1>7, <2>2, <3>2 DEF Collected, Entries
  <2>3. CASE pc = 16
    <3>1. Object = Content(EditsTiles)
      BY <1>1, <2>3 DEF Object, EditsTiles, Bom, Manifest
    <3>2. ~refreshed => Object.of = disk[Conflated].of
      BY <2>3, <3>1, TilesOfTheSame, ContentOf, ConflatedIsFile
    <3>3. QED
      BY <1>1, <1>3, <1>5, <1>6, <1>7, <2>3, <3>2 DEF Collected, Entries
  <2>4. CASE pc = 17
    <3>1. Object = BomFor(published[1].object, runId, Sources)
      BY <1>1, <2>4 DEF Object, BomOf, BomFor
    <3>2. BomFor(published[1].object, runId, Sources)' = Object
      BY <1>1, <1>3, <1>5, <1>7, <2>4, <3>1 DEF BomFor, Entries
    <3>3. QED
      BY <1>1, <1>3, <1>5, <1>6, <1>7, <2>4, <3>1, <3>2 DEF Collected, Entries
  <2>5. QED
    BY <1>1, <2>1, <2>2, <2>3, <2>4
<1>9. Len(published') <= 4
  BY <1>1, <1>5 DEF Entries
<1>10. ManifestDescribes'
  <2>1. /\ HasManifest' <=> HasManifest
        /\ HasManifest => manifest' = manifest
    BY KeyOfManifest DEF Store, HasManifest, manifest
  <2>2. QED
    BY <1>3, <2>1 DEF ManifestDescribes, Parquet
<1>11. QED
  BY <1>5, <1>8, <1>9, <1>10, PublishTransfers

\* At step 18, the manifest says what was collected.
LEMMA ManifestList ==
    ASSUME FilesInv, ListInv, Publish, step.file = Manifest, pc' = pc + 1,
           published' = Entry(step.file, KeyOf, Object),
           UNCHANGED bucket \/ Store(KeyOf, Object)
    PROVE  ListInv'
<1> USE DEF ListInv
<1>1. pc = 18 /\ Len(published) = 4 /\ Running
  <2>1. pc \in 1 .. NumSteps /\ step.kind = "upload"
    BY DEF Publish, At, step
  <2>2. pc = 18
    BY <2>1, Uploading DEF step, Conflated, ConflatedTiles, EditsTiles, Bom, Manifest
  <2>3. QED
    BY <2>2 DEF Collected, Running, Entries
<1>2. UNCHANGED <<disk, refreshed, runId, published>>
  BY DEF Publish, workVars, Skip, Put, Create, UploadPart, Finish, DropUpload, Entry
<1>3. UNCHANGED <<Content(Conflated), Sources>>
  BY <1>2 DEF Content, Sources
<1>4. Collected'
  BY <1>1, <1>2, <1>3 DEF Collected, Entries, BomFor
<1>5. ManifestDescribes'
  <2>1. CASE UNCHANGED bucket
    BY <1>2, <2>1, SameManifest
  <2>2. CASE Store(KeyOf, Object)
    <3>1. manifest' = ManifestOf({s \in Sources : s[1] \in {Atp, Osm}}, Anchor)
      BY <2>2, KeyOfManifest DEF Store, manifest, Object, Manifest, Bom
    <3>2. manifest'.sources = {s \in Sources : s[1] \in {Atp, Osm}} /\ manifest'.resources = published
      BY <3>1 DEF ManifestOf
    <3>3. Parquet' = Content(Conflated)
      BY <1>1, <3>2 DEF Parquet, Collected
    <3>4. Parquet'.of = Sources
      BY <1>1, <3>3, ContentOf, ConflatedOfAll, ConflatedIsFile
    <3>5. published[4].object = BomFor(Parquet', runId, Sources)
      BY <1>1, <3>2 DEF Parquet, Collected
    <3>6. /\ manifest'.resources[4].object.sources = Parquet'.of
          /\ manifest'.resources[4].object.parquet = Parquet'
      BY <3>2, <3>4, <3>5 DEF BomFor
    <3>7. ~refreshed => \A k \in {2, 3} : manifest'.resources[k].object.of = Parquet'.of
      BY <1>1, <3>2, <3>4, ConflatedOfAll DEF Collected
    <3>8. QED
      BY <1>2, <3>2, <3>4, <3>6, <3>7 DEF ManifestDescribes
  <2>3. QED
    BY <2>1, <2>2
<1>6. QED
  BY <1>1, <1>2, <1>4, <1>5, PublishTransfers

LEMMA PublishList ==
    ASSUME FilesInv, ListInv, Publish
    PROVE  ListInv'
<1> USE DEF ListInv
<1>1. CASE UNCHANGED <<bucket, published>> /\ pc' \in {0, pc}
  <2>1. UNCHANGED <<disk, refreshed, runId>> /\ pc \in Nat /\ Running
    BY DEF Publish, workVars, Skip, Put, Create, UploadPart, Finish, DropUpload, At, Running
  <2>2. Collected'
    <3>1. CASE pc' = 0
      BY <3>1 DEF Collected, Running
    <3>2. CASE pc' = pc
      BY <1>1, <2>1, <3>2, SameCollected
    <3>3. QED
      BY <1>1, <3>1, <3>2
  <2>3. QED
    BY <1>1, <2>1, <2>2, SameManifest, PublishTransfers
<1>2. CASE /\ published' = Entry(step.file, KeyOf, Object) /\ pc' = pc + 1
           /\ UNCHANGED bucket \/ Store(KeyOf, Object)
  BY <1>2, FileList, ManifestList
<1>3. QED
  BY <1>1, <1>2 DEF Publish, Skip, Put, Create, UploadPart, Finish, DropUpload, Proceed

LEMMA NextList == FilesInv /\ ListInv /\ [Next]_vars => ListInv'
<1> SUFFICES ASSUME FilesInv, ListInv, [Next]_vars PROVE ListInv'
  OBVIOUS
<1>1. CASE UNCHANGED vars
  <2>1. UNCHANGED <<disk, pc, online, disturbed, refreshed, runId, published, transfer, bucket, dangling>>
    BY <1>1 DEF vars, workVars, publishVars
  <2>2. Transfers'
    BY <2>1 DEF ListInv, Transfers, At, step
  <2>3. Content(Conflated)' = Content(Conflated) /\ Sources' = Sources
    BY <2>1 DEF Content, Sources
  <2>4. Collected'
    BY <2>1, <2>3 DEF ListInv, Collected, Running, BomFor
  <2>5. QED
    BY <2>1, <2>2, <2>4, SameManifest DEF ListInv
<1>2. CASE Next
  BY <1>2, OthersList, StartList, BuildList, PublishList DEF Next, Work, StepWork
<1>3. QED
  BY <1>1, <1>2

\* The release that the manifest announces is the one it ships: the
\* conflated.parquet it lists is made of the inputs that it names, the BOM
\* names all of them and that parquet, and the tiles show it unless somebody
\* replaced inputs; whatever earlier runs left in the directory, and wherever
\* they failed (the memo checks of src/pipeline, upload_datapackage in
\* src/pipeline/upload.rs, provenance.rs).
THEOREM ManifestIsTrue == Spec => []ManifestDescribes
<1>1. ListInv => ManifestDescribes
  BY DEF ListInv
<1> QED
  BY <1>1, InitFiles, NextFiles, InitList, NextList, PTL DEF Spec

\* Every variable has its type; there is at most one upload at a time, by a
\* run with credentials, and each one that was left behind has cost a fault.
THEOREM PipelineTypeCorrect == Spec => []TypeOK
<1>1. FilesInv /\ ListInv => TypeOK
  <2> SUFFICES ASSUME FilesInv, ListInv PROVE TypeOK
    OBVIOUS
  <2>1. dangling \in 0 .. MaxDisturbed + 1
    <3>1. disturbed \in 0 .. MaxDisturbed /\ MaxDisturbed \in Nat
      BY PipelineAssumption DEF FilesInv, Typed
    <3>2. QED
      BY <3>1 DEF ListInv, Transfers
  <2>2. transfer.open => At("upload") /\ online
    BY DEF ListInv, Transfers
  <2>3. QED
    BY <2>1, <2>2 DEF FilesInv, Typed, ListInv, TypeOK
<1> QED
  BY <1>1, InitFiles, NextFiles, InitList, NextList, PTL DEF Spec

-----------------------------------------------------------------------------
(***************************************************************************)
(* The BOMs.                                                               *)
(***************************************************************************)
LEMMA InitBoms == Init => BomInv
<1> SUFFICES ASSUME Init PROVE BomInv
  OBVIOUS
<1>1. DOMAIN published = {} /\ DOMAIN bucket = {} /\ ~Running
  BY DEF Init, PublishInit, Running
<1>2. QED
  BY <1>1 DEF BomInv, HasManifest

\* While nothing is published, the BOMs are as they are.
LEMMA SameBoms ==
    ASSUME BomInv, UNCHANGED bucket, published' \in {published, <<>>}, replaced => replaced',
           ~replaced' /\ Running' /\ Exists(Conflated)' => disk'[Conflated].run = runId'
    PROVE  BomInv'
<1>1. \A k \in DOMAIN published' : k \in DOMAIN published /\ published'[k] = published[k]
  OBVIOUS
<1>2. (~replaced' => ~replaced) /\ (HasManifest' <=> HasManifest) /\ manifest' = manifest
  BY DEF HasManifest, manifest
<1>3. QED
  BY <1>1, <1>2 DEF BomInv

LEMMA StepBoms ==
    ASSUME FilesInv, BomInv, Next, ~Publish
    PROVE  BomInv'
<1>1. CASE \E id \in RunIds : Start(id)
  <2>1. PICK id \in RunIds : Start(id)
    BY <1>1
  <2>2. /\ UNCHANGED <<bucket, disk>> /\ published' = <<>> /\ runId' = id
        /\ replaced' = (replaced \/ (Exists(Conflated) /\ disk[Conflated].run # id))
    BY <2>1 DEF Start, BeginPublishing
  <2>3. replaced => replaced'
    BY <2>2
  <2>4. ~replaced' /\ Running' /\ Exists(Conflated)' => disk'[Conflated].run = runId'
    BY <2>2 DEF Exists
  <2>5. QED
    BY <2>2, <2>3, <2>4, SameBoms
<1>2. ASSUME \A id \in RunIds : ~Start(id) PROVE BomInv'
  <2>1. UNCHANGED <<bucket, published, runId, replaced>>
    BY <1>2 DEF Next, Others, Work, StepWork, Release, NewVolume, Configure, ReplaceInput, Fetch,
       Reuse, Build, Rename, Exit, RowsFault, StepError, Crash, publishVars
  <2>2. CASE Others
    BY <2>1, <2>2, SameBoms DEF Others, Release, NewVolume, Configure, ReplaceInput, Running
  <2>3. CASE \E f \in File : Rename(f)
    <3>1. PICK f \in File : Rename(f)
      BY <2>3
    <3>2. pc \in Steps /\ Running
      BY <3>1 DEF Rename, FilesInv, Typed, At, Steps, Running
    <3>3. disk' = [disk EXCEPT ![f] = Derived(f)] /\ DOMAIN disk = File
      BY <3>1 DEF Rename, FilesInv, Typed
    <3>4. Derived(f).run = runId
      BY DEF Derived
    <3>5. disk'[Conflated] = disk[Conflated] \/ disk'[Conflated].run = runId
      BY <3>3, <3>4, ConflatedIsFile
    <3>6. ~replaced' /\ Running' /\ Exists(Conflated)' => disk'[Conflated].run = runId'
      BY <2>1, <3>2, <3>5 DEF BomInv, Exists
    <3>7. QED
      BY <2>1, <3>6, SameBoms
  <2>4. CASE Fetch
    <3>1. PICK got \in SUBSET Inputs : Download(got)
      BY <2>4 DEF Fetch, Missing
    <3>2. Conflated \notin got
      BY DEF Inputs, Atp, Osm, QRank, OsmViews, Conflated
    <3>3. disk'[Conflated] = disk[Conflated]
      BY <3>1, <3>2, ConflatedIsFile DEF Download
    <3>4. Running
      BY <2>4, FetchIsFirst DEF Running
    <3>5. QED
      BY <2>1, <3>3, <3>4, SameBoms DEF BomInv, Exists
  <2>5. CASE Reuse \/ Build \/ Exit \/ RowsFault \/ StepError \/ Crash
    <3>1. UNCHANGED disk /\ (Running' => Running)
      BY <2>5, Built DEF Reuse, Build, Exit, RowsFault, StepError, Crash, workVars, Running, At,
         FilesInv, Typed
    <3>2. QED
      BY <2>1, <3>1, SameBoms DEF BomInv, Exists
  <2>6. QED
    BY <1>2, <2>2, <2>3, <2>4, <2>5 DEF Next, Work, StepWork
<1>3. QED
  BY <1>1, <1>2

\* The BOM that a run uploads is that of conflated.parquet, the run of which it is.
LEMMA UploadedBom ==
    ASSUME FilesInv, ListInv, BomInv, Publish, ~replaced
    PROVE  KeyOf # <<Manifest>> => BomOfKey(KeyOf, Object)
<1> SUFFICES ASSUME step.file # Manifest PROVE BomOfKey(KeyOf, Object)
  BY KeyOfManifest
<1>1. pc \in {8, 13, 16, 17} /\ Running /\ step.kind = "upload"
      /\ (step.file = Bom <=> pc = 17)
  BY Uploading DEF Publish, At, Running, step, Conflated, ConflatedTiles, EditsTiles, Bom, Manifest
<1>2. CASE step.file # Bom
  <2>1. KeyOf[1] = step.file
    BY <1>2 DEF KeyOf, Key
  <2>2. QED
    BY <1>2, <2>1 DEF BomOfKey
<1>3. CASE step.file = Bom
  <2>1. published[1].object = Content(Conflated) /\ pc > 7
    BY <1>1, <1>3 DEF ListInv, Collected
  <2>2. Exists(Conflated)
    BY <1>1, <1>3, Built, FirstSteps DEF FilesInv, Passed
  <2>3. Content(Conflated).run = runId /\ Content(Conflated).of = Sources
    BY <1>1, <2>1, <2>2, ContentOf, ConflatedIsFile, ConflatedOfAll DEF BomInv
  <2>4. Object = BomFor(published[1].object, runId, Sources)
    BY <1>3 DEF Object, BomOf, BomFor
  <2>5. KeyOf[3] = published[1].object
    BY <1>3 DEF KeyOf, Key, Bom, Manifest
  <2>6. QED
    BY <2>1, <2>3, <2>4, <2>5 DEF BomOfKey
<1>4. QED
  BY <1>2, <1>3

LEMMA PublishBoms ==
    ASSUME FilesInv, ListInv, Stored, BomInv, Publish
    PROVE  BomInv'
<1> SUFFICES ASSUME ~replaced' PROVE BomInv'
  BY DEF BomInv
<1>1. UNCHANGED <<disk, runId, replaced>> /\ Running
  BY DEF Publish, workVars, Skip, Put, Create, UploadPart, Finish, DropUpload, At, Running
<1>2. ~replaced /\ (Running' /\ Exists(Conflated)' => disk'[Conflated].run = runId')
  BY <1>1 DEF BomInv, Exists
<1>3. CASE UNCHANGED <<bucket, published>>
  BY <1>1, <1>2, <1>3, SameBoms
<1>4. CASE /\ published' = Entry(step.file, KeyOf, Object)
           /\ UNCHANGED bucket \/ Store(KeyOf, Object)
  <2>1. \A k \in DOMAIN published' : BomOfKey(published'[k].key, published'[k].object)
    BY <1>2, <1>4, EntryAdded, KeyOfManifest, UploadedBom DEF BomInv
  <2>2. \A key \in DOMAIN bucket' \ {<<Manifest>>} : BomOfKey(key, bucket'[key])
    BY <1>2, <1>4, UploadedBom DEF BomInv, Store
  <2>3. HasManifest' =>
          \A k \in DOMAIN manifest'.resources :
              BomOfKey(manifest'.resources[k].key, manifest'.resources[k].object)
    <3>1. CASE UNCHANGED bucket \/ step.file # Manifest
      <4>1. (HasManifest' <=> HasManifest) /\ (HasManifest => manifest' = manifest)
        BY <1>4, <3>1, KeyOfManifest DEF Store, HasManifest, manifest
      <4>2. QED
        BY <1>2, <4>1 DEF BomInv
    <3>2. CASE Store(KeyOf, Object) /\ step.file = Manifest
      <4>1. manifest'.resources = published
        BY <3>2, KeyOfManifest DEF Store, manifest, Object, ManifestOf, Manifest, Bom
      <4>2. QED
        BY <1>2, <4>1 DEF BomInv
    <3>3. QED
      BY <1>4, <3>1, <3>2
  <2>4. QED
    BY <1>2, <2>1, <2>2, <2>3 DEF BomInv
<1>5. QED
  BY <1>3, <1>4 DEF Publish, Skip, Put, Create, UploadPart, Finish, DropUpload

LEMMA NextBoms == FilesInv /\ ListInv /\ Stored /\ BomInv /\ [Next]_vars => BomInv'
<1> SUFFICES ASSUME FilesInv, ListInv, Stored, BomInv, [Next]_vars PROVE BomInv'
  OBVIOUS
<1>1. CASE UNCHANGED vars
  <2>1. UNCHANGED <<disk, pc, runId, published, bucket, replaced>>
    BY <1>1 DEF vars, workVars, publishVars
  <2>2. QED
    BY <2>1, SameBoms DEF BomInv, Exists, Running
<1>2. CASE Next
  BY <1>2, StepBoms, PublishBoms
<1>3. QED
  BY <1>1, <1>2

\* What the manifest lists is in the bucket, with the hash that the manifest
\* gives for it, at every moment: also the BOM, which has the hash of
\* conflated.parquet in its name and not its own, as long as no run takes over
\* the conflated.parquet of another one (src/pipeline/upload.rs).
THEOREM ManifestIsServed == Spec => []ManifestResolves
<1> DEFINE Inv == Identity /\ Stored /\ FilesInv /\ ListInv /\ BomInv
<1>1. Stored => FilesResolve
  BY DEF Stored, FilesResolve, Hashed, Uploaded
<1>2. Stored /\ BomInv => BomResolves
  <2> SUFFICES ASSUME Stored, BomInv, HasManifest, ~replaced,
                      NEW k \in DOMAIN manifest.resources
               PROVE  bucket[manifest.resources[k].key] = manifest.resources[k].object
    BY DEF BomResolves
  <2> DEFINE entry == manifest.resources[k]
  <2>1. entry.key \in DOMAIN bucket /\ Hashed(entry.key, entry.object)
    BY DEF Stored, Uploaded
  <2>2. Hashed(entry.key, bucket[entry.key])
    BY <2>1 DEF Stored, Hashed
  <2>3. CASE entry.key[1] # Bom
    BY <2>1, <2>2, <2>3 DEF Hashed
  <2>4. CASE entry.key[1] = Bom
    <3>1. BomOfKey(entry.key, entry.object)
      BY DEF BomInv
    <3>2. BomOfKey(entry.key, bucket[entry.key])
      BY <2>1 DEF BomInv, Hashed
    <3>3. QED
      BY <2>4, <3>1, <3>2 DEF BomOfKey
  <2>5. QED
    BY <2>3, <2>4
<1>3. Init => Inv
  BY InitIdentity, InitStored, InitFiles, InitList, InitBoms
<1>4. Inv /\ [Next]_vars => Inv'
  BY NextIdentity, NextStored, NextFiles, NextList, NextBoms
<1>5. Inv => ManifestResolves
  BY <1>1, <1>2 DEF ManifestResolves
<1> QED
  BY <1>3, <1>4, <1>5, PTL DEF Spec

\* What is published stays as it is, whatever later runs upload: they have
\* other bytes under other names, but for the BOM of a conflated.parquet that
\* a run took over (src/pipeline/upload.rs).
THEOREM PublishedForGood == Spec => PublishedStays
<1> DEFINE Inv == Identity /\ Stored /\ FilesInv /\ ListInv /\ BomInv
<1>1. Init => Inv
  BY InitIdentity, InitStored, InitFiles, InitList, InitBoms
<1>2. Inv /\ [Next]_vars => Inv'
  BY NextIdentity, NextStored, NextFiles, NextList, NextBoms
<1>3. Inv /\ [Next]_vars =>
         [\A key \in DOMAIN bucket \ {<<Manifest>>} :
             /\ key \in DOMAIN bucket'
             /\ bucket'[key] # bucket[key] => key[1] = Bom /\ replaced]_bucket
  <2> SUFFICES ASSUME Inv, [Next]_vars, ~UNCHANGED bucket,
                      NEW key \in DOMAIN bucket \ {<<Manifest>>}
               PROVE  /\ key \in DOMAIN bucket'
                      /\ bucket'[key] # bucket[key] => key[1] = Bom /\ replaced
    OBVIOUS
  <2>1. Publish
    BY DEF Next, Others, Work, StepWork, Release, NewVolume, Configure, ReplaceInput, Start,
           BeginPublishing, Fetch, Reuse, Build, Rename, Exit, RowsFault, StepError, Crash,
           vars, publishVars
  <2>2. Store(KeyOf, Object) /\ UNCHANGED replaced
    BY <2>1 DEF Publish, Skip, Put, Create, UploadPart, Finish, DropUpload
  <2>3. key \in DOMAIN bucket'
    BY <2>2 DEF Store
  <2>4. CASE key # KeyOf
    BY <2>2, <2>3, <2>4 DEF Store
  <2>5. CASE key = KeyOf
    <3>1. bucket'[key] = Object
      BY <2>2, <2>5 DEF Store
    <3>2. CASE key[1] # Bom
      <4>1. Hashed(key, bucket[key]) /\ Hashed(key, Object)
        BY <2>5, KeyOfManifest, KeyHasHash DEF Stored
      <4> QED
        BY <2>3, <3>1, <3>2, <4>1 DEF Hashed
    <3>3. CASE key[1] = Bom /\ ~replaced
      <4>1. BomOfKey(key, bucket[key])
        BY <3>3 DEF BomInv
      <4>2. BomOfKey(key, Object)
        BY <2>1, <2>5, <3>3, UploadedBom
      <4> QED
        BY <2>3, <3>1, <3>3, <4>1, <4>2 DEF BomOfKey
    <3> QED
      BY <2>3, <3>2, <3>3
  <2> QED
    BY <2>4, <2>5, <2>3
<1> QED
  BY <1>1, <1>2, <1>3, PTL DEF Spec, PublishedStays
=============================================================================
