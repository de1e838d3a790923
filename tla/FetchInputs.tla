----------------------------- MODULE FetchInputs -----------------------------
(***************************************************************************)
(* The first step of a pipeline run: four inputs are fetched at once, and  *)
(* the first that fails cancels the others.  The planet, which has a       *)
(* module of its own (PlanetFetch), only succeeds or fails here.  The      *)
(* AllThePlaces dump and the packaged resources (QRank, OSMViews) are each *)
(* streamed into a temporary file; then a sidecar with the metadata is     *)
(* renamed into place, and then the file itself.  A later run reuses what  *)
(* is there.                                                               *)
(*                                                                         *)
(* The releases of a publisher are numbered.  What a file holds is         *)
(* abstracted to the release it comes from.                                *)
(***************************************************************************)
EXTENDS Naturals, FiniteSets

CONSTANTS
    Packaged,     \* the resources of data packages
    Derived,      \* the files that import_atp makes
    MaxRelease,   \* bound: MaxRelease[d] releases of the publisher of d
    MaxStaleness, \* how many releases behind an AllThePlaces run may be
    MaxFaults,    \* bound: crashes and errors
    MaxByHand,    \* bound: files deleted by hand
    ByHand,       \* the files that people delete
    MaxClock      \* bound: ticks of the clock of modification times

Download == {"atp"} \cup Packaged
Fetch == Download \cup {"osm"}

Raw(d) == <<d, "raw">>
Sidecar(d) == <<d, "meta">>
Parquet == <<"atp", "parquet">>
File == {Raw(d) : d \in Download} \cup {Sidecar(d) : d \in Download} \cup Derived

ASSUME FetchAssumption ==
    /\ Parquet \in Derived
    /\ "atp" \notin Packaged /\ "osm" \notin Packaged
    /\ ByHand \subseteq File

VARIABLES
    disk,     \* disk[f]: what the work directory holds under the name f
    clock,    \* the time a file written now is stamped with
    usable,   \* usable[d]: the releases the publisher lists that look sound
    latest,   \* latest[d]: the latest release that the publisher lists
    run,      \* where the run is
    step,     \* step[x]: where the fetch of x is
    meta,     \* meta[d]: the release whose metadata the fetch has in memory
    tmp,      \* tmp[d]: the release whose bytes the temporary file holds
    faults,   \* how many crashes and errors occurred so far
    deleted,  \* how many files were deleted by hand so far
    orphans   \* history: whose sidecar was deleted while data was left

fetchVars == <<step, meta, tmp>>
worldVars == <<usable, latest>>
handVars == <<deleted, orphans>>
inputVars == <<disk, clock, worldVars, run, fetchVars, faults, handVars>>

NoFile == [of |-> 0, whole |-> FALSE, at |-> 0]
Content == [of : Nat \ {0}, whole : BOOLEAN, at : 0 .. MaxClock] \cup {NoFile}
Exists(f) == disk[f] # NoFile

MaxOf(S) == CHOOSE x \in S : \A y \in S : y <= x

Tick == clock < MaxClock /\ clock' = clock + 1
Fault == faults < MaxFaults /\ faults' = faults + 1

-----------------------------------------------------------------------------
InputsInit ==
    /\ disk = [f \in File |-> NoFile]
    /\ clock = 0
    /\ usable = [d \in Download |-> {1}]
    /\ latest = [d \in Download |-> 1]
    /\ run = "idle"
    /\ step = [x \in Fetch |-> "idle"]
    /\ meta = [d \in Download |-> 0]
    /\ tmp = [d \in Download |-> 0]
    /\ faults = 0
    /\ deleted = 0
    /\ orphans = {}

\* A publisher lists a new release; an AllThePlaces run may look broken.
Release(d) ==
    /\ latest[d] < MaxRelease[d]
    /\ latest' = [latest EXCEPT ![d] = @ + 1]
    /\ \E sound \in IF d = "atp" THEN BOOLEAN ELSE {TRUE} :
          usable' = IF sound THEN [usable EXCEPT ![d] = @ \cup {latest[d] + 1}]
                             ELSE usable
    /\ UNCHANGED <<disk, clock, run, fetchVars, faults, handVars>>

HasData(d) == Exists(Raw(d)) \/ (d = "atp" /\ Exists(Parquet))

Remove(f) ==
    /\ run = "idle"
    /\ f \in ByHand
    /\ Exists(f)
    /\ deleted < MaxByHand
    /\ deleted' = deleted + 1
    /\ orphans' = orphans \cup {d \in Download : f = Sidecar(d) /\ HasData(d)}
    /\ disk' = [disk EXCEPT ![f] = NoFile]
    /\ UNCHANGED <<clock, worldVars, run, fetchVars, faults>>

Start ==
    /\ run = "idle"
    /\ run' = "fetch"
    /\ step' = [x \in Fetch |-> "look"]
    /\ UNCHANGED <<disk, clock, worldVars, meta, tmp, faults, handVars>>

(***************************************************************************)
(* One fetch.  An error of any of them fails the whole step: try_join4     *)
(* drops the other futures where they are, and the run goes on to its end. *)
(* But what a future has handed to the threads of the runtime is done all  *)
(* the same, unless the process ends first: shutdown_background does not   *)
(* wait.  So a file may still be renamed into place, and that is the last  *)
(* that its fetch does.                                                    *)
(***************************************************************************)
Renaming == {"describe", "publish"}
Goto(x, s) == step' = [step EXCEPT ![x] = s]
Rename(d, next) == Goto(d, IF run = "fetch" THEN next ELSE "idle")

Fail(x) ==
    LET late == {d \in Download \ {x} : step[d] \in Renaming} IN
    /\ run' = "failed"
    /\ step' = [y \in Fetch |-> IF y \in late THEN step[y] ELSE "idle"]
    /\ meta' = [d \in Download |-> IF d \in late THEN meta[d] ELSE 0]
    /\ tmp' = [d \in Download |-> IF d \in late THEN tmp[d] ELSE 0]

\* The process is over.
Stop ==
    /\ run' = "idle"
    /\ step' = [x \in Fetch |-> "idle"]
    /\ meta' = [d \in Download |-> 0]
    /\ tmp' = [d \in Download |-> 0]

End ==
    /\ run = "failed"
    /\ Stop
    /\ UNCHANGED <<disk, clock, worldVars, faults, handVars>>

\* Mutants of StandIn: only the raw file counts; it does so only as long as
\* there is no newer release.
StandIn_raw(d) == Exists(Raw(d))
StandIn_newest(d) == Exists(Raw(d)) /\ disk[Raw(d)].of = MaxOf(usable[d])

\* Something that can stand in for the input is there, and so is its sidecar.
StandIn(d) == Exists(Raw(d)) \/ (d = "atp" /\ Exists(Parquet) /\ Exists(Sidecar(d)))

\* A mutant of Reuse: the metadata are those of the release listed now.
Reuse_listed(d) ==
    /\ step[d] = "look"
    /\ StandIn(d)
    /\ Exists(Sidecar(d))
    /\ Goto(d, "done")
    /\ meta' = [meta EXCEPT ![d] = MaxOf(usable[d])]
    /\ UNCHANGED <<disk, clock, worldVars, run, tmp, faults, handVars>>

Reuse(d) ==
    /\ step[d] = "look"
    /\ StandIn(d)
    /\ Exists(Sidecar(d))
    /\ Goto(d, "done")
    /\ meta' = [meta EXCEPT ![d] = disk[Sidecar(d)].of]
    /\ UNCHANGED <<disk, clock, worldVars, run, tmp, faults, handVars>>

\* The raw file is there without a sidecar: a hard error.
Undescribed(d) ==
    /\ step[d] = "look"
    /\ Exists(Raw(d))
    /\ ~Exists(Sidecar(d))
    /\ Fail(d)
    /\ UNCHANGED <<disk, clock, worldVars, faults, handVars>>

\* The newest usable release, if it is not too far behind.
Newest(d) == MaxOf(usable[d])
Current(d) == d = "atp" => latest[d] - Newest(d) <= MaxStaleness

Discover(d) ==
    /\ step[d] = "look"
    /\ ~StandIn(d)
    /\ Current(d)
    /\ meta' = [meta EXCEPT ![d] = Newest(d)]
    /\ Goto(d, "download")
    /\ UNCHANGED <<disk, clock, worldVars, run, tmp, faults, handVars>>

TooStale(d) ==
    /\ step[d] = "look"
    /\ ~StandIn(d)
    /\ ~Current(d)
    /\ Fail(d)
    /\ UNCHANGED <<disk, clock, worldVars, faults, handVars>>

(***************************************************************************)
(* The bytes of a packaged resource may be those of another release than   *)
(* the descriptor says, when its publisher is just replacing both.         *)
(***************************************************************************)
Stream(d) ==
    /\ step[d] = "download"
    /\ \E r \in IF d = "atp" THEN {meta[d]} ELSE {meta[d], latest[d]} :
          tmp' = [tmp EXCEPT ![d] = r]
    /\ Goto(d, IF d = "atp" THEN "describe" ELSE "verify")
    /\ UNCHANGED <<disk, clock, worldVars, run, meta, faults, handVars>>

StreamFault(d) ==
    /\ run = "fetch"
    /\ step[d] \in {"look", "download"} \cup Renaming
    /\ Fault
    /\ Fail(d)
    /\ UNCHANGED <<disk, clock, worldVars, handVars>>

Verify(d) ==
    /\ step[d] = "verify"
    /\ tmp[d] = meta[d]
    /\ Goto(d, "describe")
    /\ UNCHANGED <<disk, clock, worldVars, run, meta, tmp, faults, handVars>>

Mismatch(d) ==
    /\ step[d] = "verify"
    /\ tmp[d] # meta[d]
    /\ Fail(d)
    /\ UNCHANGED <<disk, clock, worldVars, faults, handVars>>

\* The sidecar is renamed into place, before the file that it describes.
Describe(d) ==
    /\ step[d] = "describe"
    /\ disk' = [disk EXCEPT ![Sidecar(d)] = [of |-> meta[d], whole |-> TRUE, at |-> clock]]
    /\ Rename(d, "publish")
    /\ UNCHANGED <<clock, worldVars, run, meta, tmp, faults, handVars>>

Publish(d) ==
    /\ step[d] = "publish"
    /\ Tick
    /\ disk' = [disk EXCEPT ![Raw(d)] = [of |-> tmp[d], whole |-> TRUE, at |-> clock']]
    /\ tmp' = [tmp EXCEPT ![d] = 0]
    /\ Rename(d, "done")
    /\ UNCHANGED <<worldVars, run, meta, faults, handVars>>

PlanetOk ==
    /\ step["osm"] = "look"
    /\ Goto("osm", "done")
    /\ UNCHANGED <<disk, clock, worldVars, run, meta, tmp, faults, handVars>>

PlanetFault ==
    /\ step["osm"] = "look"
    /\ Fault
    /\ Fail("osm")
    /\ UNCHANGED <<disk, clock, worldVars, handVars>>

\* All four are there: the step returns them, and import_atp is called.
Fetched ==
    /\ run = "fetch"
    /\ \A x \in Fetch : step[x] = "done"
    /\ run' = "import"
    /\ step' = [x \in Fetch |-> "idle"]
    /\ UNCHANGED <<disk, clock, worldVars, meta, tmp, faults, handVars>>

FetchStep ==
    \/ \E d \in Download :
          \/ Reuse(d) \/ Undescribed(d) \/ Discover(d) \/ TooStale(d)
          \/ Stream(d) \/ Verify(d) \/ Mismatch(d) \/ Describe(d) \/ Publish(d)
    \/ PlanetOk \/ Fetched \/ End

-----------------------------------------------------------------------------
(***************************************************************************)
(* A raw input that lies in the work directory is the release its sidecar  *)
(* tells of, whenever a run dies, is cancelled or is told the wrong hash,  *)
(* unless somebody deleted that sidecar.  (fetch_atp and fetch_packaged    *)
(* write the sidecar first; a file without one would be a hard error in    *)
(* every later run.)  Part of Described in ImportAtp.                      *)
(***************************************************************************)
InputsDescribed ==
    \A d \in Download \ orphans :
        Exists(Raw(d)) => disk[Sidecar(d)].of = disk[Raw(d)].of

(***************************************************************************)
(* What is complete is fetched once.  An input that is there with its      *)
(* sidecar, or a parquet file that stands in for it, is not written again, *)
(* nor is its sidecar: not by the next attempt after another input failed, *)
(* whatever has been released meanwhile, and not by what a cancelled fetch *)
(* had left to the runtime.  (src/pipeline/inputs.rs:9-20)                 *)
(***************************************************************************)
Complete(d) ==
    /\ Exists(Sidecar(d))
    /\ Exists(Raw(d)) \/ (d = "atp" /\ Exists(Parquet) /\ d \notin orphans)

FetchedOnce ==
    [][\A d \in Download : Complete(d) =>
          \A f \in {Raw(d), Sidecar(d)} : disk'[f] \in {disk[f], NoFile}]_inputVars
=============================================================================
