----------------------------- MODULE MemoStages -----------------------------
(***************************************************************************)
(* A run of memoised stages over a work directory that survives the run.   *)
(* Every stage of the pipeline follows the same protocol: if all of its    *)
(* output files exist and the earliest of them was modified no earlier     *)
(* than the latest of its inputs, the stage reuses them; otherwise it      *)
(* streams its inputs through threads whose writers each publish one       *)
(* output by renaming a temporary file, in an order nobody controls.  A    *)
(* run may die at any point; the next one finds whatever was published.    *)
(*                                                                         *)
(* The module is parameterised by the graph of stages, so that what holds  *)
(* of it holds of every such graph; OsmStages has the graph of import_osm. *)
(***************************************************************************)
EXTENDS Naturals, FiniteSets

CONSTANTS
    File,       \* the files of the work directory that the stages use
    Source,     \* the file that comes from outside the run
    NumStages,  \* the stages are 1 .. NumStages, in the order they run
    In,         \* In[s]: the files stage s reads
    Timed,      \* Timed[s]: those of them whose times its memo check compares
    Out,        \* Out[s]: the files stage s publishes
    Faults,     \* what may go wrong: a subset of FaultKind
    MaxFaults,  \* bound: how often something goes wrong
    MaxInstalls,\* bound: how often the source is put into the directory
    MaxClock    \* bound: how often the clock of file times ticks

Stage == 1 .. NumStages
FaultKind == {"crash", "read", "write"}

(***************************************************************************)
(* Stages form a pipeline: an input is the source or an output of an       *)
(* earlier stage, and no two stages publish the same file.                 *)
(***************************************************************************)
ASSUME StagesAssumption ==
    /\ NumStages \in Nat \ {0}
    /\ Source \in File
    /\ In \in [Stage -> SUBSET File]
    /\ Timed \in [Stage -> SUBSET File]
    /\ Out \in [Stage -> SUBSET File]
    /\ \A s \in Stage : In[s] # {} /\ Timed[s] \subseteq In[s]
    /\ \A s \in Stage : Source \notin Out[s]
    /\ \A s \in Stage : \A i \in In[s] :
          i = Source \/ \E t \in 1 .. (s - 1) : i \in Out[t]
    /\ \A s, t \in Stage : s # t => Out[s] \cap Out[t] = {}
    /\ Faults \subseteq FaultKind

VARIABLES
    disk,      \* disk[f]: what the work directory holds under the name f
    clock,     \* the time a file written now is stamped with
    pc,        \* where the run is: "idle" when no process runs
    stage,     \* the stage being checked or built
    pending,   \* outputs of that stage whose writer is still running
    stream,    \* what its writers receive: "open", or how it came to an end
    failed,    \* whether some thread of the stage has returned an error
    faults,    \* faults[k]: how often a fault of kind k occurred so far
    installs   \* how often the source was put into the directory so far

runVars == <<pc, stage, pending, stream, failed>>
countVars == <<faults, installs>>
memoVars == <<disk, clock, runVars, countVars>>

-----------------------------------------------------------------------------
(***************************************************************************)
(* Files.  The content of a file is abstracted to the versions of the      *)
(* source it derives from (a version is named by the time it arrived) and  *)
(* to whether every record that belongs into the file is there.            *)
(***************************************************************************)
Content == [from : SUBSET Nat, whole : BOOLEAN, at : Nat]
NoFile == [from |-> {}, whole |-> FALSE, at |-> 0]

Exists(f) == disk[f] # NoFile

\* A mutant of UpToDate: the latest output counts.
UpToDate_latest(s) ==
    /\ \A o \in Out[s] : Exists(o)
    /\ \E o \in Out[s] : \A i \in Timed[s] : disk[o].at >= disk[i].at

\* All outputs exist, and the earliest of them is at least as recent as the
\* latest of the inputs whose times are compared.
UpToDate(s) ==
    \A o \in Out[s] :
        /\ Exists(o)
        /\ \A i \in Timed[s] : disk[o].at >= disk[i].at

\* What a writer of stage s has received when its channel is closed.
Derived(s) ==
    [from  |-> UNION {disk[i].from : i \in In[s]},
     whole |-> stream = "ended" /\ \A i \in In[s] : disk[i].whole,
     at    |-> clock]

NoFaults == [k \in FaultKind |-> 0]

Fault(kind) ==
    /\ kind \in Faults
    /\ faults["crash"] + faults["read"] + faults["write"] < MaxFaults
    /\ faults' = [faults EXCEPT ![kind] = @ + 1]

\* So far, processes may have died, but no thread returned an error.
NoError == faults["read"] = 0 /\ faults["write"] = 0

-----------------------------------------------------------------------------
MemoInit ==
    /\ disk = [f \in File |-> NoFile]
    /\ clock = 0
    /\ pc = "idle"
    /\ stage = 1
    /\ pending = {}
    /\ stream = "ended"
    /\ failed = FALSE
    /\ faults = NoFaults
    /\ installs = 0

\* A new version of the source is put into the work directory.
PutSource ==
    /\ installs < MaxInstalls
    /\ clock < MaxClock
    /\ clock' = clock + 1
    /\ disk' = [disk EXCEPT ![Source] =
                   [from |-> {clock + 1}, whole |-> TRUE, at |-> clock + 1]]
    /\ installs' = installs + 1
    /\ UNCHANGED faults

InstallSource == pc = "idle" /\ PutSource /\ UNCHANGED runVars

\* The run opens the source and goes to its first stage.
Begin ==
    /\ pc = "idle"
    /\ Exists(Source)
    /\ pc' = "check"
    /\ stage' = 1
    /\ UNCHANGED <<disk, clock, pending, stream, failed, countVars>>

\* To the stage after this one, if there is one.
Advance ==
    /\ stage' = stage + 1
    /\ pc' = IF stage = NumStages THEN "built" ELSE "check"

\* The outputs of the stage are up to date: they are opened, not rebuilt.
Reuse ==
    /\ pc = "check"
    /\ UpToDate(stage)
    /\ Advance
    /\ UNCHANGED <<disk, clock, pending, stream, failed, countVars>>

\* They are not: the threads of the stage are spawned.
Build ==
    /\ pc = "check"
    /\ ~UpToDate(stage)
    /\ clock < MaxClock
    /\ clock' = clock + 1
    /\ pc' = "build"
    /\ pending' = Out[stage]
    /\ stream' = "open"
    /\ failed' = FALSE
    /\ UNCHANGED <<disk, stage, countVars>>

\* The producer has sent its last item and the channels close.
EndStream ==
    /\ pc = "build"
    /\ stream = "open"
    /\ stream' = "ended"
    /\ UNCHANGED <<disk, clock, pc, stage, pending, failed, countVars>>

(***************************************************************************)
(* The producer or the consumer returns an error.  Its senders are dropped *)
(* with it, which to the writers looks like the end of the stream.         *)
(***************************************************************************)
ReadFault ==
    /\ pc = "build"
    /\ stream = "open"
    /\ Fault("read")
    /\ stream' = "cut"
    /\ failed' = TRUE
    /\ UNCHANGED <<disk, clock, pc, stage, pending, installs>>

\* A writer returns an error and publishes nothing.
WriteFault(f) ==
    /\ pc = "build"
    /\ f \in pending
    /\ Fault("write")
    /\ pending' = pending \ {f}
    /\ failed' = TRUE
    /\ UNCHANGED <<disk, clock, pc, stage, stream, installs>>

(***************************************************************************)
(* An item for a writer that has failed finds its receiver gone: sending   *)
(* it is an error that stops the consumer and cuts the other writers short.*)
(***************************************************************************)
Cut ==
    /\ pc = "build"
    /\ stream = "open"
    /\ failed
    /\ stream' = "cut"
    /\ UNCHANGED <<disk, clock, pc, stage, pending, failed, countVars>>

\* A mutant of Publish: the file is created under its final name.
Publish_inPlace(f) ==
    /\ pc = "build"
    /\ f \in pending
    /\ disk' = [disk EXCEPT ![f] = Derived(stage)]
    /\ pending' = IF stream = "open" THEN pending ELSE pending \ {f}
    /\ UNCHANGED <<clock, pc, stage, stream, failed, countVars>>

\* A writer whose stream is over renames its finished file into place.
Publish(f) ==
    /\ pc = "build"
    /\ stream # "open"
    /\ f \in pending
    /\ disk' = [disk EXCEPT ![f] = Derived(stage)]
    /\ pending' = pending \ {f}
    /\ UNCHANGED <<clock, pc, stage, stream, failed, countVars>>

\* All threads are joined; the stage returns its outputs.
StageOk ==
    /\ pc = "build"
    /\ stream # "open"
    /\ pending = {}
    /\ ~failed
    /\ Advance
    /\ UNCHANGED <<disk, clock, pending, stream, failed, countVars>>

\* All threads are joined; one has failed, the run ends with its error.
StageError ==
    /\ pc = "build"
    /\ stream # "open"
    /\ pending = {}
    /\ failed
    /\ pc' = "idle"
    /\ stream' = "ended"
    /\ failed' = FALSE
    /\ UNCHANGED <<disk, clock, stage, pending, countVars>>

\* The process dies; temporary files and everything in memory are lost.
Crash ==
    /\ pc # "idle"
    /\ Fault("crash")
    /\ pc' = "idle"
    /\ pending' = {}
    /\ stream' = "ended"
    /\ failed' = FALSE
    /\ UNCHANGED <<disk, clock, stage, installs>>

\* All stages are up to date; the process exits.
Finish ==
    /\ pc = "built"
    /\ pc' = "idle"
    /\ UNCHANGED <<disk, clock, stage, pending, stream, failed, countVars>>

-----------------------------------------------------------------------------
\* The threads of the stage at hand.
Threads ==
    \/ EndStream \/ Cut \/ ReadFault
    \/ \E f \in File : WriteFault(f) \/ Publish(f)
    \/ StageOk \/ StageError

StageNext == Reuse \/ Build \/ Threads \/ Crash

MemoNext == InstallSource \/ Begin \/ StageNext \/ Finish

MemoSpec == MemoInit /\ [][MemoNext]_memoVars

-----------------------------------------------------------------------------
(***************************************************************************)
(* Properties.                                                             *)
(***************************************************************************)
\* ("returned" is a state of modules that build on this one.)
MemoTypeOK ==
    /\ disk \in [File -> Content]
    /\ clock \in Nat
    /\ pc \in {"idle", "check", "build", "built", "returned"}
    /\ stage \in 1 .. (NumStages + 1)
    /\ (pc \in {"check", "build"} => stage \in Stage)
    /\ (pc = "built" => stage = NumStages + 1)
    /\ pending \subseteq File
    /\ stream \in {"open", "ended", "cut"}
    /\ failed \in BOOLEAN
    /\ faults \in [FaultKind -> Nat]
    /\ installs \in Nat

\* Stage s and all stages before it compare the times of all they read.
Diligent(s) == \A t \in 1 .. s : Timed[t] = In[t]

(***************************************************************************)
(* The modification times are enough: once the run is past a stage that    *)
(* compares the times of all it reads, by reuse or by building it, every   *)
(* output of that stage derives from the source that lies in the directory *)
(* now and from no other, whatever earlier runs left there and wherever    *)
(* they died.  (The memo checks of pipeline::osm::prune and assemble.)     *)
(***************************************************************************)
StagesFresh ==
    pc \in {"check", "build", "built"} =>
        \A s \in 1 .. (stage - 1) : Diligent(s) =>
            \A o \in Out[s] : disk[o].from = disk[Source].from

(***************************************************************************)
(* However often processes die, no file under its final name is missing    *)
(* records: what a writer renames into place is complete, until for the    *)
(* first time a thread returns an error.                                   *)
(* (docs/TECHNICAL_DESIGN.md:584-588, which makes no such exception.)      *)
(***************************************************************************)
NoPartialFile == NoError => \A f \in File : Exists(f) => disk[f].whole
=============================================================================
