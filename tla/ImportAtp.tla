------------------------------ MODULE ImportAtp ------------------------------
(***************************************************************************)
(* The AllThePlaces side of the pipeline: fetch_inputs, and import_atp,    *)
(* which turns the zip into alltheplaces.parquet and four small files next *)
(* to it.  One thread reads the zip, another sorts what it receives,       *)
(* renames the parquet file into place and then writes the four files one  *)
(* by one.  A later run reuses the parquet file unless the zip is newer,   *)
(* and rebuilds from it those small files that are missing or stale.       *)
(***************************************************************************)
EXTENDS FetchInputs, Sequences

Nondescript == << <<"atp", "phones">>, <<"atp", "emails">>, <<"atp", "websites">> >>
BrandDomains == <<"atp", "brand-domains">>
Side == {Nondescript[i] : i \in 1 .. 3} \cup {BrandDomains}
AtpFiles == {Parquet} \cup Side

ASSUME ImportAssumption == Derived = AtpFiles

VARIABLES
    todo,     \* the files that the step at hand has yet to write, in order
    stream,   \* the channel from the reader of the zip: "open", "ended", "cut"
    dead,     \* the writer has returned an error
    erred,    \* history: some thread has returned an error
    trimmed,  \* history: the zip was deleted next to an outdated small file
    settled   \* history: since import_atp returned, at most the zip was deleted

importVars == <<todo, stream, dead>>
pastVars == <<erred, trimmed, settled>>
vars == <<inputVars, importVars, pastVars>>

Zip == Raw("atp")

Init ==
    /\ InputsInit
    /\ todo = <<>>
    /\ stream = "ended"
    /\ dead = FALSE
    /\ erred = FALSE
    /\ trimmed = FALSE
    /\ settled = FALSE

-----------------------------------------------------------------------------
\* With the zip gone, there is nothing that a file could be older than.
Stale(f) == Exists(Zip) /\ disk[f].at < disk[Zip].at

Lacks(f) == ~Exists(f) \/ Stale(f)

Rebuild ==
    (IF \E i \in 1 .. 3 : Lacks(Nondescript[i]) THEN Nondescript ELSE <<>>)
        \o (IF Lacks(BrandDomains) THEN <<BrandDomains>> ELSE <<>>)

\* The parquet file is reused; what lacks is built from it.
ReuseParquet ==
    /\ run = "import"
    /\ ~Lacks(Parquet)
    /\ todo' = Rebuild
    /\ run' = "rebuild"
    /\ IF Rebuild = <<>> THEN UNCHANGED clock ELSE Tick
    /\ UNCHANGED <<disk, worldVars, fetchVars, faults, handVars, stream, dead, pastVars>>

\* The parquet file is missing or older than the zip: two threads are spawned.
Spawn ==
    /\ run = "import"
    /\ Lacks(Parquet)
    /\ Tick
    /\ run' = "scan"
    /\ todo' = <<Parquet>> \o Nondescript \o <<BrandDomains>>
    /\ stream' = "open"
    /\ dead' = FALSE
    /\ UNCHANGED <<disk, worldVars, fetchVars, faults, handVars, pastVars>>

\* A mutant of ReaderEnd: a clone of the sender outlives the reader.
ReaderEnd_leak ==
    /\ run = "scan"
    /\ stream = "open"
    /\ UNCHANGED vars

\* process_zip has sent every place and drops its end of the channel.
ReaderEnd ==
    /\ run = "scan"
    /\ stream = "open"
    /\ stream' = "ended"
    /\ UNCHANGED <<inputVars, todo, dead, pastVars>>

\* process_zip fails, or finds the receiver gone; its end is dropped too.
ReaderError ==
    /\ run = "scan"
    /\ stream = "open"
    /\ IF dead THEN UNCHANGED faults ELSE Fault
    /\ stream' = "cut"
    /\ erred' = TRUE
    /\ UNCHANGED <<disk, clock, worldVars, run, fetchVars, handVars, todo, dead,
                   trimmed, settled>>

\* process_places, or the rebuild, writes its next file.
WriteNext(content) ==
    /\ todo # <<>>
    /\ disk' = [disk EXCEPT ![Head(todo)] = content]
    /\ todo' = Tail(todo)
    /\ UNCHANGED <<clock, worldVars, run, fetchVars, faults, handVars, stream, dead, pastVars>>

\* A mutant of WriterStep: the parquet file is written under its final name.
WriterStep_inPlace ==
    /\ run = "scan"
    /\ ~dead
    /\ WriteNext([of |-> disk[Zip].of, whole |-> stream = "ended", at |-> clock])

\* The end of the channel is taken for the end of the data.
WriterStep ==
    /\ run = "scan"
    /\ stream # "open"
    /\ ~dead
    /\ WriteNext([of |-> disk[Zip].of, whole |-> stream = "ended", at |-> clock])

RebuildStep ==
    /\ run = "rebuild"
    /\ WriteNext([disk[Parquet] EXCEPT !.at = clock])

WriterError ==
    /\ run = "scan"
    /\ ~dead
    /\ todo # <<>>
    /\ Fault
    /\ dead' = TRUE
    /\ erred' = TRUE
    /\ UNCHANGED <<disk, clock, worldVars, run, fetchVars, handVars, todo, stream,
                   trimmed, settled>>

RebuildError ==
    /\ run = "rebuild"
    /\ todo # <<>>
    /\ Fault
    /\ Stop
    /\ todo' = <<>>
    /\ erred' = TRUE
    /\ UNCHANGED <<disk, clock, worldVars, handVars, stream, dead, trimmed, settled>>

\* Both threads are joined; an error of either is the result.
Join ==
    /\ run = "scan"
    /\ stream # "open"
    /\ todo = <<>> \/ dead
    /\ todo' = <<>>
    /\ dead' = FALSE
    /\ stream' = "ended"
    /\ IF dead \/ stream = "cut"
       THEN Stop /\ UNCHANGED settled
       ELSE run' = "done" /\ settled' = TRUE /\ UNCHANGED fetchVars
    /\ UNCHANGED <<disk, clock, worldVars, faults, handVars, erred, trimmed>>

RebuildEnd ==
    /\ run = "rebuild"
    /\ todo = <<>>
    /\ run' = "done"
    /\ settled' = TRUE
    /\ UNCHANGED <<disk, clock, worldVars, fetchVars, faults, handVars, importVars,
                   erred, trimmed>>

\* The run goes on to other steps, and is over at some point.
Exit ==
    /\ run = "done"
    /\ Stop
    /\ UNCHANGED <<disk, clock, worldVars, faults, handVars, importVars, pastVars>>

Crash ==
    /\ run # "idle"
    /\ Fault
    /\ Stop
    /\ todo' = <<>>
    /\ stream' = "ended"
    /\ dead' = FALSE
    /\ UNCHANGED <<disk, clock, worldVars, handVars, pastVars>>

\* People delete the zip once the parquet file is there; anything else, too.
RemoveByHand(f) ==
    /\ Remove(f)
    /\ settled' = (settled /\ f = Zip)
    /\ trimmed' = (trimmed \/ (f = Zip /\ Exists(Parquet)
                     /\ \E s \in Side : Exists(s) /\ disk[s].of # disk[Parquet].of))
    /\ UNCHANGED <<importVars, erred>>

Work ==
    \/ Start /\ UNCHANGED <<importVars, pastVars>>
    \/ FetchStep /\ UNCHANGED <<importVars, pastVars>>
    \/ ReuseParquet \/ Spawn \/ ReaderEnd \/ WriterStep \/ RebuildStep
    \/ Join \/ RebuildEnd \/ Exit

Next ==
    \/ Work \/ ReaderError \/ WriterError \/ RebuildError \/ Crash
    \/ \E f \in File : RemoveByHand(f)
    \/ /\ \/ \E d \in Download : Release(d) \/ StreamFault(d)
          \/ PlanetFault
       /\ UNCHANGED <<importVars, pastVars>>

Spec == Init /\ [][Next]_vars

\* The scheduler starts a run again after one has failed, and a run that can
\* go on does.
FairSpec == Spec /\ WF_vars(Work)

-----------------------------------------------------------------------------
(***************************************************************************)
(* The metadata that go into the provenance of everything published tell   *)
(* of the files they lie next to: a raw input is the release that its      *)
(* sidecar tells of (InputsDescribed), and the parquet file that import_atp*)
(* returns is of the run whose metadata it was given, unless somebody      *)
(* deleted the sidecar and left the file: then a download that is cut off  *)
(* after it wrote a new sidecar leaves the two apart.                      *)
(* (src/pipeline/inputs.rs:11-20)                                          *)
(***************************************************************************)
Described ==
    /\ InputsDescribed
    /\ run = "done" /\ "atp" \notin orphans => disk[Parquet].of = meta["atp"]

(***************************************************************************)
(* What import_atp returns is one thing, however often runs die.  The      *)
(* parquet file has all places, until a thread returns an error for the    *)
(* first time (process_places takes a closed channel for the end of the    *)
(* data); and the small files are of the same AllThePlaces run, whatever a *)
(* run that died had left of an earlier one, unless the zip was deleted    *)
(* while some of them were still outdated: their modification times are    *)
(* compared with those of the zip only.                                    *)
(***************************************************************************)
ParquetIntact ==
    run = "done" =>
        /\ ~erred => disk[Parquet].whole
        /\ ~trimmed => \A s \in Side : disk[s].of = disk[Parquet].of

(***************************************************************************)
(* Once import_atp has returned, later runs download and write nothing,    *)
(* even if new releases come out and the zip is deleted to save space.     *)
(* (src/pipeline/inputs.rs:9-20)                                           *)
(***************************************************************************)
SettledStays ==
    [][settled /\ settled' => \A f \in File : disk'[f] \in {disk[f], NoFile}]_vars

\* What only people can repair: a raw file without a sidecar, or no
\* AllThePlaces run that is recent enough.
Stuck ==
    \/ \E d \in Download : Exists(Raw(d)) /\ ~Exists(Sidecar(d))
    \/ ~StandIn("atp") /\ ~Current("atp")

(***************************************************************************)
(* When faults, releases and deletions have come to an end, import_atp     *)
(* succeeds again and again, unless one of the two known obstacles is in   *)
(* the way: no combination of leftovers keeps it from succeeding.          *)
(***************************************************************************)
EventuallyImported == []<>(run = "done" \/ Stuck)
=============================================================================
