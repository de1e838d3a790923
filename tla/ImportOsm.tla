----------------------------- MODULE ImportOsm ------------------------------
(***************************************************************************)
(* The step import_osm of the pipeline, over the memoised stages of        *)
(* OsmStages: the check that returns early when the finished features are  *)
(* not older than the planet file, the stages, and the last stage, which   *)
(* differs from the others: build_index runs in one thread and renames the *)
(* feature storage into place before it starts on the inverted index.      *)
(* Between two runs the planet file may be replaced or deleted by hand.    *)
(***************************************************************************)
EXTENDS MemoStages, OsmStages

CONSTANT ByHand   \* what people do to the planet file between two runs
ASSUME ByHandAssumption == ByHand \subseteq {"replace", "remove"}

VARIABLES
    early,        \* whether the features were returned by the early check
    settled,      \* history: the last run returned, the planet is still that one
    outdated      \* history: a planet was put next to an index that was there

vars == <<memoVars, early, settled, outdated>>

IndexStage == NumStages
Features == {Index, Inverted, Strings}

(***************************************************************************)
(* What import_osm needs of its graph of stages: the last one makes the    *)
(* index from outputs of others, and only asks whether it exists; all the  *)
(* others compare the times of all they read, and one makes the strings.   *)
(***************************************************************************)
ASSUME GraphAssumption ==
    /\ Source = Pbf
    /\ Out[IndexStage] = {Index, Inverted}
    /\ Timed[IndexStage] = {}
    /\ Source \notin In[IndexStage]
    /\ \A s \in 1 .. (IndexStage - 1) : Timed[s] = In[s]
    /\ \E s \in 1 .. (IndexStage - 1) : Strings \in Out[s]

ASSUME BoundsAssumption == MaxFaults \in Nat /\ MaxInstalls \in Nat /\ MaxClock \in Nat

-----------------------------------------------------------------------------
\* OsmFeatureIndex::exists and OsmFeatures::exists
IndexExists == Exists(Index) /\ Exists(Inverted)
FeaturesExist == IndexExists /\ Exists(Strings)

\* The latest of the three is older than the planet.  Without a planet file
\* there is nothing to compare with.
Stale == Exists(Pbf) /\ \A f \in Features : disk[f].at < disk[Pbf].at

-----------------------------------------------------------------------------
Init == MemoInit /\ early = FALSE /\ settled = FALSE /\ outdated = FALSE

\* Mutants of Download: the features do not stand in for a planet that is
\* gone; the index alone does.
Download_always ==
    /\ pc = "idle"
    /\ ~Exists(Pbf)
    /\ PutSource
    /\ UNCHANGED <<runVars, early, settled, outdated>>
Download_indexOnly == Download_always /\ ~Exists(Index)

\* fetch_planet downloads unless the planet or the finished features exist.
Download ==
    /\ pc = "idle"
    /\ ~Exists(Pbf)
    /\ ~FeaturesExist
    /\ PutSource
    /\ UNCHANGED <<runVars, early, settled, outdated>>

\* Somebody drops another planet file into the work directory.
ReplacePlanet ==
    /\ "replace" \in ByHand
    /\ pc = "idle"
    /\ PutSource
    /\ settled' = FALSE
    /\ outdated' = (outdated \/ IndexExists)
    /\ UNCHANGED <<runVars, early>>

\* Somebody deletes the planet file to free its space.  (Bounded by
\* MaxInstalls, so that the download it may call for is within the bound.)
RemovePlanet ==
    /\ "remove" \in ByHand
    /\ pc = "idle"
    /\ Exists(Pbf)
    /\ installs < MaxInstalls
    /\ disk' = [disk EXCEPT ![Pbf] = NoFile]
    /\ UNCHANGED <<clock, runVars, countVars, early, settled, outdated>>

\* The features are there and not older than the planet: nothing to do.
ReturnEarly ==
    /\ pc = "idle"
    /\ FeaturesExist
    /\ ~Stale
    /\ pc' = "returned"
    /\ early' = TRUE
    /\ UNCHANGED <<disk, clock, stage, pending, stream, failed, countVars, settled,
                   outdated>>

\* Otherwise the planet is opened and the stages run.
Import ==
    /\ ~(FeaturesExist /\ ~Stale)
    /\ Begin
    /\ early' = FALSE
    /\ UNCHANGED <<settled, outdated>>

-----------------------------------------------------------------------------
(***************************************************************************)
(* OsmFeatureIndex::create runs on one thread: it publishes the feature    *)
(* storage first, and an error ends it with whatever is published by then. *)
(***************************************************************************)
CreateFault ==
    /\ pc = "build"
    /\ stage = IndexStage
    /\ pending # {}
    /\ Fault("write")
    /\ pending' = {}
    /\ failed' = TRUE
    /\ UNCHANGED <<disk, clock, pc, stage, stream, installs>>

\* The inverted index is begun when the feature storage is in place.
CreatePublish(f) ==
    /\ (stage = IndexStage /\ f = Inverted => Index \notin pending)
    /\ Publish(f)

StageWork ==
    /\ \/ Reuse \/ Build \/ EndStream \/ Cut
       \/ \E f \in File : CreatePublish(f)
       \/ StageOk \/ StageError
    /\ UNCHANGED <<early, settled, outdated>>

StageFault ==
    /\ \/ ReadFault \/ CreateFault
       \/ stage # IndexStage /\ \E f \in File : WriteFault(f)
       \/ Crash
    /\ UNCHANGED <<early, settled, outdated>>

\* import_osm returns the index with the strings that the stages opened.
Return ==
    /\ pc = "built"
    /\ pc' = "returned"
    /\ UNCHANGED <<disk, clock, stage, pending, stream, failed, countVars, early, settled,
                   outdated>>

\* The rest of the pipeline is done with the features; the process exits.
Exit ==
    /\ pc = "returned"
    /\ pc' = "idle"
    /\ settled' = TRUE
    /\ UNCHANGED <<disk, clock, stage, pending, stream, failed, countVars, early,
                   outdated>>

-----------------------------------------------------------------------------
ByPeople == ReplacePlanet \/ RemovePlanet
Work == Download \/ ReturnEarly \/ Import \/ StageWork \/ Return \/ Exit
Next == ByPeople \/ StageFault \/ Work

Spec == Init /\ [][Next]_vars

\* The scheduler restarts a run that has ended, and a run that has not ended
\* goes on; nothing makes people or faults act.
FairSpec == Spec /\ WF_vars(Work)

-----------------------------------------------------------------------------
(***************************************************************************)
(* Properties.                                                             *)
(***************************************************************************)
TypeOK ==
    /\ disk \in [File -> Content]
    /\ clock \in 0 .. MaxClock
    /\ pc \in {"idle", "check", "build", "built", "returned"}
    /\ stage \in 1 .. (NumStages + 1)
    /\ (pc \in {"check", "build"} => stage \in Stage)
    /\ pending \subseteq IF pc = "build" THEN Out[stage] ELSE {}
    /\ stream \in {"open", "ended", "cut"}
    /\ failed \in BOOLEAN
    /\ faults \in [FaultKind -> 0 .. MaxFaults]
    /\ installs \in 0 .. MaxInstalls
    /\ early \in BOOLEAN
    /\ settled \in BOOLEAN
    /\ outdated \in BOOLEAN

Returned == pc = "returned"

(***************************************************************************)
(* The index and the string pool that import_osm returns belong together:  *)
(* all three files derive from one and the same version of the planet, and *)
(* it is that of the planet file next to them, if that is still there;     *)
(* unless somebody put a planet next to the index of another one.          *)
(* (Feature tags in the index are positions in the string pool, so a pool  *)
(* of another version gives every feature wrong tags.)                     *)
(***************************************************************************)
ReturnedFresh ==
    Returned /\ ~outdated =>
        \E v \in 1 .. clock :
            /\ \A f \in Features : disk[f].from = {v}
            /\ Exists(Pbf) => disk[Pbf].from = {v}

(***************************************************************************)
(* What import_osm returns has all the records it should have.             *)
(* (docs/TECHNICAL_DESIGN.md:584: a restart finds each intermediate either *)
(* fully written or absent.)                                               *)
(***************************************************************************)
ReturnedWhole == Returned => \A f \in Features : disk[f].whole

(***************************************************************************)
(* The features are reused only if all of their files are at least as      *)
(* fresh as the planet.  (src/pipeline/mod.rs:533-538, earliest_modified.) *)
(***************************************************************************)
ReusedAllFresh ==
    Returned /\ early /\ Exists(Pbf) =>
        \A f \in Features : disk[f].at >= disk[Pbf].at

(***************************************************************************)
(* Once a run has returned its features, the runs after it rewrite nothing *)
(* until another planet arrives.  In particular, deleting the planet file  *)
(* does not cost another download.  (docs/TECHNICAL_DESIGN.md:307-308.)    *)
(***************************************************************************)
SettledStays ==
    [][settled /\ settled' =>
          /\ \A f \in File \ {Pbf} : disk'[f] = disk[f]
          /\ disk'[Pbf] \in {disk[Pbf], NoFile}]_vars

(***************************************************************************)
(* Faults delay the import but do not prevent it: whenever they have       *)
(* stopped, a run returns the features.                                    *)
(***************************************************************************)
EventuallyReturned == []<>Returned
=============================================================================
