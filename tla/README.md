# A verification of osmdiffs

`osmdiffs` is a batch pipeline: it downloads the OpenStreetMap planet file and
the AllThePlaces dump, turns both into tables in a work directory, matches them,
and publishes what it found.  A run takes hours, is started by a scheduler that
restarts it when it dies, and leaves all its state in files.  Two things are hard
about it.  One is what a run finds that another one left behind, and what the
threads of a stage do to one another when one of them fails.  The other is a
chain of algorithms (which parts of the planet to keep, how to assemble areas
from ways, which place is which feature, which feature is gone) in which every
link decides for itself what the next one may rely on.  This project models both,
checks the models with TLC, and proves with TLAPS what the rest rests upon.

Paths below are relative to the root of the repository.

## 1. The system: an inventory

| component | state | operations | interacts with |
|---|---|---|---|
| pipeline run (`src/pipeline/mod.rs`, `main.rs`) | `run_id` in the work directory | `reconcile_run_id`, 18 steps in their order | calls all steps |
| inputs (`pipeline/inputs.rs`) | – | four downloads at once; the first error cancels the others | `fetch_planet`, `fetch_atp`, `fetch_packaged` |
| planet download (`pipeline/osm/fetch.rs`) | planet, `.part`, sidecar | reuse, hash, resume, restart, rename, persist | HTTP server; people; `import_osm`'s index |
| AllThePlaces and packaged inputs (`pipeline/atp/fetch.rs`, `pipeline/packaged.rs`) | file, sidecar | reuse, download, check the hash | HTTP servers |
| `import_osm` (`pipeline/osm/mod.rs`, `index.rs`, `tables/feature_index.rs`) | index, inverted index, string pool | early return, open, prune, assemble, index | planet; stages |
| memoised stages (`pipeline/osm/prune.rs`, `assemble.rs`, `tables/*`) | 20 intermediate files | check times, reuse, build, publish by rename | each other, through files |
| threads of a stage (same files) | bounded channels, join results | produce blobs, filter them in a rayon bridge, feed, write, join | channels |
| PBF blob index (`pipeline/osm/mod.rs`) | offsets of blobs | `partition`: binary search for the first way and relation | producers |
| what the stages compute (`prune.rs`, `assemble.rs`) | tables by id | what relations, ways and nodes need; features bottom-up | string pool, relation graph, geometry |
| relation graph (`tables/graph.rs`) | edges | children before parents, a way out of cycles; ancestors | super-relations |
| geometry (`geometry/*`) | – | stitch, cut, nest rings, unwrap the antimeridian, unite | assembly |
| `import_atp` (`pipeline/atp/*`) | parquet file, four side files | reuse, rebuild some or all; nondescript contacts, brand domains | zip; places |
| matchers (`matchers/*`) | – | mask, evidence, score of a candidate | conflation |
| conflation (`pipeline/conflate`) | `conflated.parquet` | match in two passes, assign exclusively, propose deletions, write in order | index, places, importance |
| importance (`osm_views.rs`, `qrank`, `wikidata_ids.rs`, `importance.rs`) | three memoised files | ranks, quantiles, score of a row | conflation |
| tiles, edits (`tiles.rs`, `conflated_tiles.rs`, `edits.rs`, `edit_suggesters`) | memoised files | extract, render with external commands, join; suggest | uploads |
| upload, manifest (`upload.rs`, `datapackage.rs`, `provenance.rs`) | objects in a bucket | multipart upload, BOM, manifest | S3 |
| logging, memory statistics | – | output only | – |

`PROJECT.json` says of each component how much of it is modelled, and lists 40
hazards at their lines, each with the properties that would notice it going wrong.

**What is hard here.**

* *Crashes and restarts.*  A stage publishes two or three files one after the
  other.  A run may die between any two renames, and the next one must work out
  from modification times alone what is still good.
* *Partial failure.*  Threads of a stage are joined, and their results looked
  at, in a fixed order, but they fail in any.  A writer cannot tell a producer
  that failed from one that is done: both close the channel.
* *Deadlock and termination* of producers, workers, feeders and writers that are
  connected by bounded channels.
* *Stale state.*  Several different checks decide whether something is up to
  date: earliest output against latest input (most stages), latest of three
  outputs against the planet (`import_osm`), each file for itself (`import_atp`),
  mere existence (`build_index`, everything after `conflate`).
* *A world that moves on.*  Servers publish new releases between two attempts
  of one download; people delete files, replace them, or bring a new volume; two
  runs with different identities publish into one bucket.
* *Promises between algorithms.*  `assemble` looks up strings that four passes
  of `prune` must have collected; relations of relations need their members
  first, also where there are cycles; the exclusive assignment must not depend on
  which worker was faster; a feature may be proposed for deletion only if nothing
  else vouches for it.

## 2. The modules

```
 the work directory                 the planet                  the places

 MemoStages <-----------+           MatchMasks ---------------> Contacts
  ^      ^              |             ^                           ^
  |      refines        |            PlanetBlobs                 PoiMatcher  TransitMatcher
  |      StageThreads   |             ^                            ^   InfrastructureMatcher
  |        ^            |            RelationGraph                Matchers
  |  StageThreads_proofs|             ^     Lines                  ^
 ImportOsm <- OsmStages |             |       ^                   Deletion  Importance  Sorting
  ^                     |             |     Areas    Tables        ^            ^         ^
 ImportOsm_proofs ------+             |       ^        ^          Matching -----+---------+
                                     OsmData -+--------+           ^     ^
 PlanetFetch <- PlanetFetch_proofs    ^                           Conflate  Matching_proofs -> Folding
                                     OsmBuild                      ^     ^         ^
 FetchInputs <- ImportAtp                                         Products Conflate_proofs
                  ^
          ImportAtp_proofs

 Publishing <- Pipeline <- Pipeline_proofs
```

An arrow points to the module that is extended, refined, or proved about.
`MC...` modules are the instances for TLC; the `.cfg` files choose the bounds.

### The work directory

**`MemoStages`** is the abstract protocol of memoised stages over any graph of
stages.  `disk` maps each file name of the work directory to its content,
abstracted to the planet versions it derives from (`from`), whether all its
records are there (`whole`) and its modification time (`at`).  A temporary file is
not on `disk`: it matters only when it is renamed.  `pending` holds the outputs
of the stage at hand whose writer is still running, `stream` what the writers
receive, `failed` whether any thread of the stage has returned an error.

| action | code |
|---|---|
| `Reuse` | the check at the head of every stage, e.g. `prune.rs:207-214` |
| `Build` | entering `thread::scope` |
| `EndStream` | the producer is done, its senders are dropped |
| `ReadFault` | the producer or the consumer returns an error; its senders are dropped all the same |
| `WriteFault(f)` | a writer returns an error; its receiver is dropped |
| `Cut` | sending to a writer that has failed is an error that stops the consumer |
| `Publish(f)` | a writer renames its file into place (`u64_set.rs:321`) |
| `StageOk`, `StageError` | all threads are joined |
| `Crash` | the process dies |

`In[s]` are the files a stage reads and `Timed[s]` those whose modification time
its check looks at; both are constants, so that the difference between a stage
that compares all times and one that does not is data of the model.  The clock of
modification times ticks when a stage begins to build and when a planet arrives.

**`ImportOsm`** is `import_osm` itself, with the ten stages of `OsmStages`.  It
adds what is not a stage: `Download` (only if neither the planet nor the features
are there), `ReturnEarly` with its check of the *latest* of three modification
times, and people who replace or delete the planet between runs.  `build_index`
gets its own write actions because it runs on one thread and renames the feature
storage before it starts on the inverted index (`CreatePublish`), and an error
ends it with whatever is published by then (`CreateFault`).  `outdated` is a
history variable: a planet was put next to a complete index of another one.

**`StageThreads`** is one stage with all its threads: the producer, the workers of
the rayon bridge, the feeders (`rel_member_collector`, `rel_strings_reader`), and
the writers.  Records carry the name of their writer and where they come from, and
`got` collects what a writer has received.  A thread that fails drops its ends of
the channels; others notice when they send (`Gone`) or when the channel of a
writer is closed (`Closed`).  The refinement mapping computes `pending`, `stream`
and `failed` of `MemoStages` from the threads.  The external sorts of the writers
are part of `Receive` and `Publish`.  A panic ends the process (`join().expect`),
which is a `Crash`.

**`PlanetFetch`** is `fetch_planet`.  A file is a sequence of chunks, each named by
the release it is from; the hash of a file is what was hashed.  `buffer` is the
chunk that tokio's `File` has accepted but not yet written, so that an attempt that
ends may or may not lose it.  `orphan` is a history variable: the planet was
deleted along with the features, and the sidecar stayed.

**`FetchInputs`** has the other downloads, and all four at once.  `step[d]` is where
the future of download `d` is: it asks, streams into a temporary file, verifies a
hash, writes the sidecar (`Describe`), renames the file (`Publish`).  `Fail` is
what `try_join4` does: it drops the other futures wherever they are.  A renaming
that a future has already handed to the threads of the runtime is not undone by
that: `shutdown_background` does not wait, and the run still uploads its log
before the process is over (`End`).  Until then `Describe` or `Publish` may happen,
as the last act of its fetch, or never.  (In `PlanetFetch`, where one fetch is by
itself, a late renaming is one before the `Crash`.)
**`ImportAtp`** extends it with `import_atp`: the thread that reads the zip, the
one that sorts and publishes the parquet file and then writes four small files one
by one, and `Rebuild`, which makes those of the four that are stale from the
parquet file.

**`Publishing`** is the bucket: uploads in one request or in parts, keys with
hashes, the BOM, the manifest.  What SHA-256 tells apart, the model tells apart:
an object *is* its content, a key contains it.  **`Pipeline`** is a whole run:
`run_pipeline_steps` is data, a sequence of steps with their inputs, outputs and
kind of check, and `Reuse`, `Build`, `Rename`, `StepError`, `RowsFault` and
`Publish` interpret it as the functions of `src/pipeline` do one after the other.
Around a run there are the scheduler (`Start`, under the same or another identity),
people (`ReplaceInput`, `NewVolume`, `Configure`) and the publishers of the inputs
(`Release`).

### From the planet to features

**`PlanetBlobs`**: a planet is a sequence of blobs, a blob one of nodes, ways and
relations.  `partition` and `Blobs` are the binary searches and the passes over the
blobs of a type.  **`RelationGraph`**: edges as in `tables/graph.rs`; `NextNode` and
`AfterNext` are the steps of its iterator.  **`Tables`**: the string pool with its
hashes, buckets and values; tables by id, which refuse a key they have.
**`Lines`** and **`Areas`**: the geometry, on a grid of unit squares: stitching of
lines, rings, their nesting, polygons, the antimeridian.  An area is the set of its
squares, so "the same area" is equality.  **`OsmData`**: what each pass of `prune`
and `assemble` computes from a blob.  **`OsmBuild`**: the passes in their order, as
a specification with one action per pass, and one per relation of relations.

### From places to products

**`MatchMasks`**, **`Contacts`**, **`PoiMatcher`**, **`TransitMatcher`**,
**`InfrastructureMatcher`**, **`Matchers`**, **`Deletion`** and **`Importance`** are
pure: which categories tags have, what counts as evidence, what a candidate is
worth, when a feature is gone, how important a row is.  Tags are sequences of keys
and values in normal form; positions are on a line, whose countries are given by
`Borders`.  Scores are integers with the resolution of the code's constants.
**`Matching`** composes them: the cells and masks of the inverted index, the query
around a place, and what each result is worth (`WorldOf`).  **`Sorting`** is stable
sorting, by the position that each element takes: nothing is known of `SortSeq`
where elements compare equal.  `Ordered` is the same for a set, in a total order.

**`Conflate`** is what the threads do with that: workers that match the places of a
batch in parallel and send rows through a bounded channel (`Match`, `Send`), the
assignment of exclusive matches after the first pass (`SecondPass`), the search for
features that are gone (`BeginDeletion`, `send_deletion_candidates`), the writer
(`Receive`, `Publish`), and a fault of the reader, of a worker or of the writer.
**`Products`** goes on with the file: `extract_conflated_layers`, with the batches
in which the file is read and which rows a zoom level shows, and `suggest_edits`.

### Correspondence and its limits

`map` in `PROJECT.json` names for every definition the lines it stands for; names
are those of the source where there is one.  A definition whose name ends in
`_something` and whose comment calls it a mutant is not part of the model: it is a
plausible bug, and replacing the definition that follows it by it makes TLC find a
violation of a property of the run.

## 3. What each run checks

Runs that pass:

| run | properties | bounds | distinct states |
|---|---|---|---|
| `ImportOsm` | `ReturnedFresh` `StagesFresh` `NoPartialFile` `SettledStays` `EventuallyReturned` | 10 stages, 3 planets, 2 faults of any kind, planet replaced or deleted between runs | 1,075,225 |
| `StageThreads` | `TypeOK` `OkMeansAll` `ImplementsMemo` `Terminates` | 3 writers, 2 workers, 2 feeders, channels of capacity 1, 2 faults | 690,330 |
| `PlanetFetch` | `TypeOK` `MetadataOfPlanet` `MetadataOfIndex` `FetchedUnlessOverlong` | 3 releases of 3, 2 and 4 chunks, 3 faults, 3 acts by hand | 12,162 |
| `ImportAtp` | `Described` `ParquetIntact` `SettledStays` `EventuallyImported` `FetchedOnce` | 3 AllThePlaces runs, 2 releases of a packaged input, 1 fault, 2 files deleted by hand | 1,050,539 |
| `Pipeline` | `ManifestResolves` `ManifestDescribes` `OneRunPerDirectory` `NeverRetracts` `PublishedStays` `EventuallyDone` | all 18 steps, 2 releases, 3 identities (one of them "none"), 2 disturbances of 8 kinds | 117,841 |
| `Conflate` | `OkIsComplete` `Reproducible` `GoneIsJustified` `StableAssignment` `KeepsTheBest` `StrongEvidenceWins` `ContradictionsNeverMatch` `SharedEvidenceTellsNothing` `ImportanceAveragesHalf` `MapOfTheFile` `EditsAgree` `Terminates` | 264 worlds, 2 workers, a channel of 2, 1 fault of reader, worker or writer | 33,133 |
| `OsmBuild` | `Collected` `BottomUp` `NothingLost` `AreaOfRings` | 1721 planets | 21,917 |

Runs that show a disagreement between the code and what the repository says of it:

| run | property | what happens |
|---|---|---|
| `ImportOsm_reuse` | `ReusedAllFresh` | a planet is replaced, and the run dies after `assemble_strings`: the next one finds one file of three fresh and returns the old index with the new string pool (`osm/mod.rs:89`, `feature_index.rs:555`) |
| `ImportOsm_partial` | `ReturnedWhole` | a read error in any stage: its writers publish truncated files before the error is returned, and the next run reuses them |
| `PlanetFetch_splice` | `OneRelease` | a download is resumed after a new release came out (`fetch.rs:141`) |
| `PlanetFetch_refused` | `EventuallyFetched` | a process that ends between the last chunk and the rename leaves a complete `.part` file, on which every later attempt fails (`fetch.rs:141-150`) |
| `Pipeline_bom` | `OnlyManifestReplaced` | a run with another identity that reuses a finished `conflated.parquet` uploads a different BOM under the published key (`upload.rs:491`) |

The passing runs say exactly how far these go: `ReturnedFresh` holds unless
`outdated`, so replacing a planet is safe until the index is complete;
`NoPartialFile` and the first part of `ParquetIntact` hold until the first error of
a thread; `MetadataOfPlanet` holds unless `orphan`; `FetchedUnlessOverlong` says that
an overlong `.part` file is the *only* thing that keeps a download from succeeding;
`ManifestResolves` needs no condition for the presence of what is listed, and for
its bytes only that no `conflated.parquet` was taken over (`replaced`).

**Why the bounds are enough.**

* *`ImportOsm`.*  The ten stages and their files are the real ones.  Two planets
  make a stale file; the third lets one planet be replaced, deleted and downloaded
  again.  Two faults let a run die while it repairs what an earlier one left.
* *`StageThreads`.*  Channels of capacity 1 block as early as they can, two workers
  race for a writer, one writer has no feeder and two have one; two faults let a
  second thread fail while the first failure spreads.
* *`PlanetFetch`.*  Releases of different lengths, growing and shrinking, put the
  end of a `.part` file before, at and after the end of a planet.
* *`ImportAtp`.*  Three AllThePlaces runs with `MaxStaleness` 1 make the newest one
  acceptable, stale and replaced.  A fault is a cut connection, an error or a crash
  anywhere; two deletions remove a sidecar and its file, or a zip and a side file.
* *`Pipeline`.*  The 18 steps are the real ones.  One disturbance leaves a mess, the
  second befalls its repair; two releases make old and new; three identities are
  none, the first, and another.
* *`Conflate`.*  Most kinds of worlds are made for a case: ties, places that
  compete for a feature, features that are shared, ids that agree, contradict or
  extend one another, contacts that are shared nearby or far apart, brands and names
  in two countries, the register of Swiss stops and its stops abroad, whose SLOIDs
  have long numbers that are no UIC codes (`Padded` has the others; `PartOfAbroad`
  and `Border` are the worlds where that matters), the platforms of one stop, a
  feature in three cells, a node and a way with one number.  The rest is generated: a place
  and two features, of all combinations of a few tags and positions.  Thresholds
  such as `MIN_SWISS_TRANSIT_FEATURES` (10,000) are constants, set so that instances
  reach both sides of them.  Two workers and a channel of two are what a race needs.
* *`OsmBuild`.*  A few primitives of all types, some of which refer to nodes that
  are not there, are cut into blobs in every way.  Three relations are in each other
  in all ways, themselves and cycles included.  A square with a hole is cut into
  ways that come in several orders and all directions; or into ways that repeat each
  other, lead nowhere, or do not close; in one relation, or each in a relation
  within it; off the antimeridian, and across it.  Nine strings share four hashes.

**Deadlock** is checked in all runs but `Conflate` and `OsmBuild`, which stop when
they are done: a directory that is done is returned again and again, so the other
models never stop by design.  For `Conflate`, `Terminates` says the same.

**Fairness.**  `ImportOsm`, `PlanetFetch`, `ImportAtp` and `Pipeline` assume weak
fairness of the work of a run taken together (`Work`): the scheduler starts a run
again after one has ended, and a run that can go on does.  People, faults and
releases are under no obligation; their number is bounded, so that "when they have
stopped" makes sense.  `StageThreads` and `Conflate` assume that some thread that
can take a step does (`ThreadStep`, `Step`), which the operating system sees to;
no fairness is assumed of one thread against another.  `Products` adds the same for
the steps after conflation.  `MemoStages` and `OsmBuild` need none.

## 4. The properties

Of the work directory:

* `StagesFresh`: once past a stage that compares the times of all it reads, its
  outputs derive from the planet at hand, and from no other.
* `NoPartialFile`: processes that die leave no incomplete file under its name.
* `ReturnedFresh`: what `import_osm` returns derives from the planet next to it.
* `SettledStays`: after success, later runs rewrite nothing, even without the
  planet (which "doesn't cost a re-download", `docs/TECHNICAL_DESIGN.md:307`).
* `EventuallyReturned`: again and again, a run returns its features.
* `OkMeansAll`: a scope that returns `Ok` has published everything, completely.
* `ImplementsMemo`: the threads implement `MemoStages` with one stage.
* `Terminates`: whoever fails, all threads end.
* `MetadataOfPlanet`, `MetadataOfIndex`: what `fetch_planet` returns describes
  the planet file, or the planet that the index was built from.
* `FetchedUnlessOverlong`: see above.
* `Described`: a raw input is the release its sidecar tells of, and
  `alltheplaces.parquet` is of the run whose metadata go into the provenance.
* `ParquetIntact`: it has all places, and the small files are of the same run.
* `EventuallyImported`: only a raw file without a sidecar, or the lack of any recent
  AllThePlaces run, keeps an import from succeeding.
* `FetchedOnce`: an input that is there with its sidecar is neither fetched again
  nor overwritten, whatever fails, is released, or is renamed after a cancellation.

Of what is published:

* `ManifestResolves`: what the manifest lists is in the bucket, at every moment.
* `ManifestDescribes`: it ships what it announces: `conflated.parquet` derives from
  the very inputs it names, the BOM names all, the tiles show that file.
* `OneRunPerDirectory`: a pinned directory has no file of another identity.
* `NeverRetracts`: a new manifest never announces an older release.
* `PublishedStays`: nothing that was published is replaced or deleted, but for the
  BOM of a `conflated.parquet` that was taken over; what remains true of the claim
  that `Pipeline_bom` refutes.
* `EventuallyDone`: again and again, a run gets to its end.

Of the features:

* `Collected`: `assemble` finds every string it looks up (it panics otherwise).
* `BottomUp`: relations come once, and after those in them, unless on or above a
  cycle.
* `NothingLost`: what is interesting and has a place becomes a feature, with all
  its places, and with none that are not its own.
* `AreaOfRings`: a multipolygon is the area its rings enclose by the even-odd rule.

Of matches, and what becomes of them:

* `OkIsComplete`: "ok" means a whole file: the row of each place that has a matcher
  and of each feature that looks gone, each of them once.
* `Reproducible`: a whole file is the one that a single worker would have made.
* `KeepsTheBest`, `StableAssignment`: the candidates that are kept are the best;
  and no place would rather have a feature that it could have had.
* `StrongEvidenceWins`, `ContradictionsNeverMatch`, `SharedEvidenceTellsNothing`:
  what the comments of the matchers promise about ids, brands, contacts and domains.
* `GoneIsJustified`: no feature is proposed for deletion that is matched, is a stop
  whose IFOPT id or UIC code the register lists, or is in a country whose places say nothing about it.
* `ImportanceAveragesHalf`: the importance in a file is a quantile, ties included.
* `MapOfTheFile`: both passes over the map show each row, in the same layer, with
  no zoom left out, and a click leads to its row.
* `EditsAgree`: an edit makes a feature agree with a match, in what is trusted and
  in nothing else, and there is one edit for a feature that disagrees.

Each has a mutant in `PROJECT.json`.

## 5. What is proved

All of it holds for every value of the constants that meets the named assumptions
of the modules; TLC evaluates these on every run.  They ask for what the code has:
stages that read what earlier ones write (`StagesAssumption`, `GraphAssumption`),
steps in the order of `run_pipeline_steps` (`PipelineAssumption`), channels that hold
something and finitely many threads (`ThreadsAssumption`, `ConflateAssumption`),
batches that make up a file of places, and spiders that have names
(`WorldsAssumption`, `SpidersAssumption`); the reader of a file returns at least a row
at once (`ProductsAssumption`).  An input (`IsInput`) ranks places by their tags, the
tags of a place, which was a JSON object, have keys that differ, and features have ids
that differ.  The bounds on faults, releases and people are arbitrary numbers.

All 19 invariants, action properties and refinements that the runs `ImportOsm`,
`StageThreads`, `PlanetFetch`, `ImportAtp` and `Pipeline` check are theorems, and so
are the nine invariants of `Conflate` and the two of `Products`; where types are
proved, a run need not check them (`TypeOK` of `ImportOsm` and `Pipeline`):

| theorem | property | argument |
|---|---|---|
| `ImportOsm_proofs` `TypeCorrect`, `MemoFresh`, `CrashSafe` | `StagesFresh`, `NoPartialFile` | `MemoInv`, `WholeInv` |
| `ImportOsm_proofs` `ImportTypeCorrect`, `ImportFresh`, `ImportCrashSafe`, `ImportReturnsFresh`, `ImportSettles` | (`TypeOK`), `StagesFresh`, `NoPartialFile`, `ReturnedFresh`, `SettledStays` | `ImportInv` |
| `StageThreads_proofs` `ThreadsTypeCorrect`, `ThreadsImplementMemo`, `ThreadsReturnAll` | `TypeOK`, `ImplementsMemo`, `OkMeansAll` | `StageInv` |
| `PlanetFetch_proofs` `PlanetTypeCorrect`, `PlanetDescribed`, `IndexDescribed` | `TypeOK`, `MetadataOfPlanet`, `MetadataOfIndex` | `ChunksInv`, `FetchInv` |
| `ImportAtp_proofs` `MetadataDescribe`, `AtpIntact`, `AtpSettles`, `FetchesOnce` | `Described`, `ParquetIntact`, `SettledStays`, `FetchedOnce` | `ImportInv`, `FilesInv` |
| `Pipeline_proofs` `DirectoryOfOneRun`, `ManifestMovesForward`, `ListedFilesResolve` | `OneRunPerDirectory`, `NeverRetracts` | `Identity`, `Releases`, `Stored` |
| `Pipeline_proofs` `PipelineTypeCorrect`, `ManifestIsServed`, `ManifestIsTrue`, `PublishedForGood` | (`TypeOK`), `ManifestResolves`, `ManifestDescribes`, `PublishedStays` | `FilesInv`, `ListInv`, `BomInv` |
| `Conflate_proofs` `OkMeansComplete`, `FilesAreReproducible`, `ImportanceIsFair` | `OkIsComplete`, `Reproducible`, `ImportanceAveragesHalf` | `ConflateInv`, `SentInv` |
| `Conflate_proofs` `BestAreKept`, `NoContradictions`, `StrongestEvidenceWins`, `EvidenceIsNotShared` | `KeepsTheBest`, `ContradictionsNeverMatch`, `StrongEvidenceWins`, `SharedEvidenceTellsNothing` | `FromInput`, folds |
| `Conflate_proofs` `MatchesAreStable`, `DeletionsAreJustified` | `StableAssignment`, `GoneIsJustified` | `FromInput`, `CoverageInv`, `SentInv` |
| `Conflate_proofs` `EditsAreRight`, `MapShowsEveryPlace` | `EditsAgree`, `MapOfTheFile` | `EditsInv`, `LayersInv` |

The arguments:

* *Stages.*  That a stage was reused says only something about modification times,
  so the invariant has to turn times into derivations.  `MemoInv` does: times never
  lie ahead of the clock (`TimesOK`); a file that is not older than all inputs of
  its stage derives from just these inputs, as they are now (`Derivation`); all
  stages behind the run have their outputs (`BehindExist`); and what the stage at
  hand has published so far derives from its inputs (`PublishedOK`).  `WholeInv` adds
  that no stream is cut and no thread has failed while there was no error.
* *`import_osm`.*  `ImportInv` takes `MemoInv` over, where people replace or delete
  the planet between runs, and adds how the index comes into being: the inverted
  index is begun only when the feature storage is in place, and not at all if there is
  one (`InvertedLast`); a finished index that nobody put a planet next to derives from
  that planet, and no run gets past the early return (`FreshIndex`); and whoever
  returns leaves a directory in which the next run returns early (`SettledInv`).
* *Threads.*  `ThreadsImplementMemo` is the step refinement: every step of a
  thread is, under the mapping of `StageThreads`, one of `MemoStages` or none.  The
  invariant says who may have returned what (`ThreadsInv`), where the records are
  that have left the producer (`Accounted`: in a channel, in a thread or in `got`),
  and that what a writer has published is all of its records, unless something was
  cut (`Published`).  The proof found an error of the model: two arms of the `CASE`
  of the mapping overlapped, which TLC resolves by their order and TLA+ does not.
* *The planet.*  `FetchInv` says that the hasher has seen exactly what is in the
  `.part` file and in the buffer, that a download goes on only while no sidecar
  counts, and that a sidecar that counts describes the planet, or the index if the
  planet is gone.  `ChunksInv` has the lengths: what arrives is as long as the
  release that its end is of, whichever its beginning is of.
* *AllThePlaces.*  `ImportInv` says that a download is under way only where there is
  no file (`DownloadInv`), that a parquet file without its zip is of the run its
  sidecar tells of (`ParquetInv`), and that a run has what it will return
  (`ProgressInv`).  Times are irrelevant to that, but not to `AtpIntact`: `FilesInv`
  relates the ages of the small files to what they were made from.
* *Directory and manifest.*  `Identity` says what a running process knows: its
  identity is the pinned one, or none; and only a building step has outputs under way.
  The order within `reconcile_run_id` (pin first, write later) makes it inductive.  A
  run may find old inputs in its directory, so `Releases` relates these to the
  manifest: once both main inputs are there, one is at least as new as what the
  manifest announces.  `Stored` says that a key has the hash of what is stored under
  it, but for the BOM and the manifest, and that a run with credentials has uploaded
  what it has collected.
* *What is announced.*  `FilesInv` follows the derivations through the steps that
  compare times and those that do not; `ListInv` says that what a run has collected
  is what is in its directory; and `BomInv` that equal `conflated.parquet`s have
  equal inputs, and hence the same BOM, as long as none was taken over.
* *Folds.*  Most of what is said of `Conflate` and `Products` is said of a fold.  The
  module `Folding` shows, once for every operator, that the folds of the community
  modules are steps from an element to the next; what holds of the result is then
  shown step by step, by induction over the number of elements.  The library's
  theorems of induction take an operator, which no installed prover can instantiate;
  but that a *set* that has 0, and with each number the next one, has all of them
  needs none, and follows from `NatLessThanWellFounded` (`NumbersFrom0`).
* *The rows.*  `ConflateInv` is a balance: the rows that workers, channel and writer
  have are those of the places and features that the producer is through with, and
  *as many of them in every set of rows*, as two places may have equal rows, unless a
  thread has failed (`Accounted`); and a file is published when nothing is on its way
  (`Published`).  That sorting neither loses nor doubles a row is a lemma of its own
  (`PositionsAreAll`): positions differ, as the order is total up to ties, so by the
  pigeonhole principle each is taken.  It also covers the order of the index.  The
  proof found two misplaced bullets in `Gone`, which had drawn a condition into the
  scope of a quantifier.
* *`Reproducible`.*  Two files with the same rows, each as often, are the same once
  they are sorted: rows that compare equal are equal, since a row is ordered by
  all that it has.  Each row being there as often is what `Accounted` says, and that
  the two have matched with the same coverage is `CoverageInv`, in which the coverage
  is the fold of the batches so far.
* *`ImportanceAveragesHalf`.*  Twice the rank of a row counts the pairs in which it
  has the higher score, and those in which it ties; summed over all rows, each pair
  of rows is counted for both.
* *Candidates.*  The invariant of `keep_best` says that what is kept so far is in
  order, has no feature twice, and that whatever has been seen and is not kept is no
  better than the last.  What contradicts a place has a score of zero, which is not
  kept; evidence by ids is worth more than everything else together.
* *The assignment.*  Its pairs are in a total order, so that the order in which
  workers have found them does not matter.  `Assigned` is the invariant of going
  through them: a place without its pair so far has lost that feature to an earlier
  one of the spider, and whoever has a feature that was taken already may share it.
* *Deletions.*  Coverage is a fold over batches of folds over places; `Covers` says
  what it has from a place for certain (IFOPT ids and UIC codes of stops), and that whatever names and
  ids it has are those of some place of that country.  `SentInv` says that each row on
  its way is of a place, or of a feature that no row matches.
* *Shared evidence.*  The contacts of all places are collected in one rectangle for
  each value (`Grouped`), and statistics of domains are those of the places so far (`FeaturesCounted`).
* *Products.*  They change nothing that `Conflate` has (`ProductsConflate`), and a file
  that is published stays as it is.  An edit is a filter as a fold; that the keys of a
  place differ makes it agree with all of its tags.  For the map, each layer marks
  each pair of place and feature as often as the rows up to here have it
  (`OnTheMap`), and ordinals are counted on from batch to batch (`FileMapped`).

Only model-checked:

* Liveness (`EventuallyReturned`, `Terminates`, `FetchedUnlessOverlong`,
  `EventuallyImported`, `EventuallyDone`), which needs fairness and `ENABLED`.
* `OsmBuild`.  `NothingLost` and `AreaOfRings` are theorems of plane geometry in the
  first place (that stitching finds the rings there are, that the even-odd rule does
  not depend on how they are cut), `Collected` and `BottomUp` speak of what walks
  through a graph reach, as sorted edges that are filtered and
  searched; `SortSeq`, `SelectSeq` and `SubSeq` have definitions that the
  prover cannot expand.

## 6. What is not modelled

Left out because the models cannot see it:

* *Power failures.*  A crash is the death of the process.  Several tables are
  renamed without `sync_all` (e.g. `coord_table.rs:280`), so that after a power
  failure a name may be there without its data.
* *Equal modification times* of two stages, and clocks that go back.
* *A planet replaced during a run* (`mod.rs:550`), or dropped in over the sidecar
  of an old one (`fetch.rs:91`) with an old modification time.
* A server that answers a Range request with wrong bytes, or wrongly ends a
  response early without an error.
* *A read error of the spool file* between the two passes of
  `feature_index.rs:858`, which is taken for its end.  It is the one hazard in
  `PROJECT.json` that no property covers: the spool is a file within one action.
* An upload that is dropped before its first part was accepted is not aborted
  (`upload.rs:107`); `dangling` counts it, but only the lifecycle rules of the
  bucket can remove it, so no property is stated about it.

Left out because it is wording, layout, or somebody else's program:

* Layouts of the tables, WKB, headers and parsing of PBF, GeoJSON, JSON and
  TIFF; logging, memory statistics and the upload of the log.
* Simplification and compaction of geometries, S2 coverings and floating point:
  the grid of `Lines` and `Areas` has no coordinates to simplify, the line of
  `Matching` has cells of a fixed length.
* `tippecanoe` and `tile-join`, with their thinning out of dense tiles; what they
  do with layers that are empty throughout.
* Normal forms of telephone numbers, addresses and names; tables of tags beyond
  what instances have; lifecycle prefixes; order by the frequency of strings.

What came up while modelling and has no run of its own:

* `edits.rs:65-80` keeps one edit for each number, but node 5 and way 5 have the
  same one (`writer.rs:323-326` stores it without the type): one of the two edits
  is lost.  `EditsAgree` makes this exception.  A feature with two matches that
  differ gets the edit for one of them, and on the next run perhaps the other.
* `deletion.rs:81-85` and `295-305`: a place whose name is under three keys counts
  three times towards the minimum of mentions of that name.
* `reconcile_run_id` compares slugs, so that two identities with the same slug are
  one.
* A super-relation that is only there as a member of another is written as a
  feature with an empty mask; a leaf relation in the same situation is not.
* `assemble.rs:644-646` says that children come first, with no exception for
  cycles; the traversal makes one, and `BottomUp` states it.
* When the producer of `suggest_edits` fails, its writers publish what they have,
  as in `ImportOsm_partial`, and the next run reuses it, as these steps look at
  existence only (`cut` in `Pipeline`).

## 7. The plan

Done: the modules, runs and theorems above.  What is left to prove is `OsmBuild`:

1. `Collected`: that `ancestors` is closed under the parents of what it has visited,
   since each step of the walk takes a node that no other step has taken, and that
   the string pool finds what it was made of.
2. The first and second parts of `BottomUp`: that `remaining` counts the edges from
   nodes that are still to come.
