-------------------------- MODULE ImportAtp_proofs --------------------------
(***************************************************************************)
(* Theorems about ImportAtp, whatever the inputs, the releases, the faults *)
(* and the files that people delete.  Metadata tell of the files they lie  *)
(* next to, and of the parquet file (MetadataDescribe); what import_atp    *)
(* returns is one thing (AtpIntact) and stays as it is (AtpSettles); and   *)
(* an input that is complete is not written again (FetchesOnce).           *)
(*                                                                         *)
(* ImportInv says where a run is and what the sidecars tell; FilesInv, which*)
(* rests on it, how old the files are, and what follows from their ages.   *)
(***************************************************************************)
EXTENDS ImportAtp, SequenceTheorems, TLAPS

Underway == {"download", "verify", "describe", "publish"}
Importing == {"import", "scan", "rebuild", "done"}

TypesInv ==
    /\ DOMAIN disk = File
    /\ DOMAIN step = Fetch
    /\ DOMAIN meta = Download
    /\ DOMAIN tmp = Download
    /\ clock \in Nat
    /\ todo \in Seq(AtpFiles)

\* A download is under way only where there is no file yet; from "describe" on,
\* what has been downloaded is what the metadata say, and from "publish" on,
\* the sidecar says so, too.
DownloadInv(d) ==
    /\ run # "fetch" => step[d] = "idle" \/ (run = "failed" /\ step[d] \in Renaming)
    /\ step[d] \in Underway => ~Exists(Raw(d))
    /\ step[d] \in {"describe", "publish"} => tmp[d] = meta[d]
    /\ step[d] = "publish" => Exists(Sidecar(d)) /\ disk[Sidecar(d)].of = meta[d]
    /\ d \notin orphans /\ Exists(Raw(d)) => disk[Sidecar(d)].of = disk[Raw(d)].of

\* What import_atp is called with.
Ready ==
    /\ Exists(Zip) \/ Exists(Parquet)
    /\ Exists(Sidecar("atp"))
    /\ disk[Sidecar("atp")].of = meta["atp"]

\* The parquet file is of the run that the sidecar tells of.  A zip that would
\* replace it is downloaded only if the file is gone, or the sidecar.
ParquetInv ==
    "atp" \notin orphans =>
        /\ Exists(Parquet) =>
              Exists(Sidecar("atp")) /\ disk[Sidecar("atp")].of = disk[Parquet].of
        /\ step["atp"] \in Underway => ~Exists(Parquet)

\* A run that goes on to the end has a parquet file by then.
ProgressInv ==
    /\ step["atp"] = "done" \/ run \in Importing => Ready
    /\ run = "scan" =>
          /\ Exists(Zip)
          /\ clock > 0
          /\ Exists(Parquet) \/ (todo # <<>> /\ Head(todo) = Parquet)
    /\ run = "rebuild" => Exists(Parquet) /\ todo \in Seq(Side)
    /\ run = "done" => Exists(Parquet)

ImportInv ==
    /\ TypesInv
    /\ \A d \in Download : DownloadInv(d)
    /\ ParquetInv
    /\ ProgressInv

\* Which names there are, and that they differ.
LEMMA Names ==
    /\ "atp" \in Download /\ Download \subseteq Fetch
    /\ \A d \in Download : Raw(d) \in File /\ Sidecar(d) \in File
    /\ \A d, e \in Download : Raw(d) # Sidecar(e)
    /\ \A d, e \in Download : d # e => Raw(d) # Raw(e) /\ Sidecar(d) # Sidecar(e)
    /\ AtpFiles \subseteq File /\ Parquet \in AtpFiles /\ Side \subseteq AtpFiles
    /\ \A d \in Download : \A f \in AtpFiles : f # Raw(d) /\ f # Sidecar(d)
    /\ Parquet \notin Side
    /\ Zip \in File /\ Zip = Raw("atp")
<1>1. "atp" \in Download /\ Download \subseteq Fetch
  BY DEF Download, Fetch
<1>2. \A d \in Download : Raw(d) \in File /\ Sidecar(d) \in File
  BY DEF File
<1>3. \A d, e \in Download :
          Raw(d) # Sidecar(e) /\ (d # e => Raw(d) # Raw(e) /\ Sidecar(d) # Sidecar(e))
  BY DEF Raw, Sidecar
<1>4. AtpFiles \subseteq File /\ Parquet \in AtpFiles /\ Side \subseteq AtpFiles
  BY ImportAssumption DEF File, AtpFiles
<1>5. Side = {<<"atp", "phones">>, <<"atp", "emails">>, <<"atp", "websites">>,
              <<"atp", "brand-domains">>}
  BY DEF Side, Nondescript, BrandDomains
<1>6. \A d \in Download : \A f \in AtpFiles : f # Raw(d) /\ f # Sidecar(d)
  BY <1>5 DEF AtpFiles, Parquet, Raw, Sidecar
<1>7. Parquet \notin Side
  BY <1>5 DEF Parquet
<1> QED
  BY <1>1, <1>2, <1>3, <1>4, <1>6, <1>7 DEF Zip

LEMMA InitInv == Init => ImportInv
  BY Names DEF Init, InputsInit, ImportInv, TypesInv, DownloadInv, ParquetInv, ProgressInv,
     Ready, Exists, Underway, Importing

\* What a run had under way when it ends is dropped ...
LEMMA StopInv ==
    ASSUME ImportInv, Stop, UNCHANGED <<disk, clock, orphans>>, todo' \in Seq(AtpFiles)
    PROVE  ImportInv'
  BY Names DEF Stop, ImportInv, TypesInv, DownloadInv, ParquetInv, ProgressInv, Ready, Exists,
     Underway, Importing

\* ... and when a fetch fails, so is all but the files that are being renamed.
LEMMA FailInv ==
    ASSUME ImportInv, NEW x \in Fetch, Fail(x), UNCHANGED <<disk, clock, orphans, todo>>
    PROVE  ImportInv'
<1> USE Names
<1>1. /\ run' = "failed" /\ DOMAIN step' = Fetch /\ DOMAIN meta' = Download /\ DOMAIN tmp' = Download
      /\ \A d \in Download :
            \/ step'[d] = "idle"
            \/ step'[d] = step[d] /\ step[d] \in Renaming /\ meta'[d] = meta[d] /\ tmp'[d] = tmp[d]
  BY DEF Fail
<1>2. TypesInv'
  BY <1>1 DEF ImportInv, TypesInv
<1>3. \A d \in Download : DownloadInv(d)'
  BY <1>1 DEF ImportInv, DownloadInv, Exists, Underway, Renaming
<1>4. ParquetInv' /\ ProgressInv'
  BY <1>1 DEF ImportInv, ParquetInv, ProgressInv, Ready, Exists, Underway, Importing, Renaming
<1> QED
  BY <1>2, <1>3, <1>4 DEF ImportInv

\* Steps of other threads and of publishers.
LEMMA OtherInv ==
    ASSUME ImportInv, UNCHANGED <<disk, clock, run, fetchVars, orphans, todo>>
    PROVE  ImportInv'
  BY DEF fetchVars, ImportInv, TypesInv, DownloadInv, ParquetInv, ProgressInv, Ready, Exists

\* Files, times and lists as they are; a fetch goes on in memory.
LEMMA FetchInMemory ==
    ASSUME ImportInv, NEW d \in Download,
           Start \/ Reuse(d) \/ Discover(d) \/ Stream(d) \/ Verify(d) \/ PlanetOk \/ Fetched,
           UNCHANGED todo
    PROVE  ImportInv'
<1> USE Names DEF ImportInv, TypesInv, fetchVars, worldVars, handVars, Renaming
<1>1. UNCHANGED <<disk, clock, orphans>>
  BY DEF Start, Reuse, Discover, Stream, Verify, PlanetOk, Fetched
<1>2. CASE Start
  BY <1>1, <1>2 DEF Start, DownloadInv, ParquetInv, ProgressInv, Ready, Exists, Underway,
     Importing
<1>3. CASE Reuse(d)
  BY <1>1, <1>3 DEF Reuse, Goto, StandIn, DownloadInv, ParquetInv, ProgressInv, Ready, Exists,
     Underway, Importing, Zip
<1>4. CASE Discover(d)
  BY <1>1, <1>4 DEF Discover, Goto, StandIn, DownloadInv, ParquetInv, ProgressInv, Ready,
     Exists, Underway, Importing, Zip
<1>5. CASE Stream(d)
  BY <1>1, <1>5 DEF Stream, Goto, DownloadInv, ParquetInv, ProgressInv, Ready, Exists,
     Underway, Importing
<1>6. CASE Verify(d)
  BY <1>1, <1>6 DEF Verify, Goto, DownloadInv, ParquetInv, ProgressInv, Ready, Exists,
     Underway, Importing
<1>7. CASE PlanetOk
  BY <1>1, <1>7, FetchAssumption DEF PlanetOk, Goto, Download, DownloadInv, ParquetInv,
     ProgressInv, Ready, Exists
<1>8. CASE Fetched
  BY <1>1, <1>8 DEF Fetched, DownloadInv, ParquetInv, ProgressInv, Ready, Exists, Underway,
     Importing
<1> QED
  BY <1>2, <1>3, <1>4, <1>5, <1>6, <1>7, <1>8

\* The sidecar is renamed into place, where there is no file yet ...
LEMMA DescribeInv ==
    ASSUME ImportInv, NEW d \in Download, Describe(d), UNCHANGED todo
    PROVE  ImportInv'
<1> USE Names DEF ImportInv, TypesInv, handVars
<1>1. /\ step[d] = "describe" /\ run \in {"fetch", "failed"}
      /\ UNCHANGED <<clock, orphans, run, meta, tmp>>
      /\ step' = [step EXCEPT ![d] = IF run = "fetch" THEN "publish" ELSE "idle"]
  BY DEF Describe, Rename, Goto, DownloadInv
<1>2. /\ DOMAIN disk' = File
      /\ Exists(Sidecar(d))' /\ disk'[Sidecar(d)].of = meta[d]
      /\ \A f \in File \ {Sidecar(d)} : disk'[f] = disk[f]
  BY DEF Describe, Exists, NoFile
<1>3. ~Exists(Raw(d)) /\ tmp[d] = meta[d]
  BY <1>1 DEF DownloadInv, Underway
<1>4. \A e \in Download : DownloadInv(e)'
  BY <1>1, <1>2, <1>3 DEF DownloadInv, Exists, Underway
<1>5. ParquetInv'
  BY <1>1, <1>2 DEF ParquetInv, Exists, Underway
<1>6. ProgressInv'
  BY <1>1, <1>2 DEF ProgressInv, Ready, Exists, Importing
<1> QED
  BY <1>1, <1>2, <1>4, <1>5, <1>6

\* ... and then the file, of which it tells.
LEMMA PublishInv ==
    ASSUME ImportInv, NEW d \in Download, Publish(d), UNCHANGED todo
    PROVE  ImportInv'
<1> USE Names DEF ImportInv, TypesInv, handVars
<1>1. /\ step[d] = "publish" /\ run \in {"fetch", "failed"}
      /\ UNCHANGED <<orphans, run, meta>> /\ clock' = clock + 1
      /\ step' = [step EXCEPT ![d] = IF run = "fetch" THEN "done" ELSE "idle"]
      /\ tmp' = [tmp EXCEPT ![d] = 0]
  BY DEF Publish, Rename, Goto, Tick, DownloadInv
<1>2. /\ DOMAIN disk' = File
      /\ Exists(Raw(d))' /\ disk'[Raw(d)].of = tmp[d]
      /\ \A f \in File \ {Raw(d)} : disk'[f] = disk[f]
  BY DEF Publish, Exists, NoFile
<1>3. tmp[d] = meta[d] /\ Exists(Sidecar(d)) /\ disk[Sidecar(d)].of = meta[d]
  BY <1>1 DEF DownloadInv
<1>4. \A e \in Download : DownloadInv(e)'
  BY <1>1, <1>2, <1>3 DEF DownloadInv, Exists, Underway
<1>5. ParquetInv'
  BY <1>1, <1>2 DEF ParquetInv, Exists, Underway
<1>6. ProgressInv'
  BY <1>1, <1>2, <1>3 DEF ProgressInv, Ready, Exists, Importing, Zip
<1> QED
  BY <1>1, <1>2, <1>4, <1>5, <1>6

\* People delete a file between runs; without its sidecar, what is left is an
\* orphan.
LEMMA RemoveInv ==
    ASSUME ImportInv, NEW f \in File, RemoveByHand(f)
    PROVE  ImportInv'
<1> USE Names DEF ImportInv, TypesInv, fetchVars, importVars
<1>1. /\ run = "idle" /\ UNCHANGED <<clock, run, step, meta, tmp, todo>>
      /\ orphans' = orphans \cup {d \in Download : f = Sidecar(d) /\ HasData(d)}
      /\ disk' = [disk EXCEPT ![f] = NoFile]
  BY DEF RemoveByHand, Remove
<1>2. \A g \in File : IF g = f THEN ~Exists(g)' ELSE disk'[g] = disk[g]
  BY <1>1 DEF Exists
<1>3. \A d \in Download : step[d] = "idle"
  BY <1>1 DEF DownloadInv
<1>4. \A d \in Download : DownloadInv(d)'
  BY <1>1, <1>2, <1>3 DEF DownloadInv, Exists, Underway, HasData
<1>5. ParquetInv'
  BY <1>1, <1>2, <1>3 DEF ParquetInv, Exists, Underway, HasData
<1>6. ProgressInv'
  BY <1>1, <1>3 DEF ProgressInv, Importing
<1> QED
  BY <1>1, <1>4, <1>5, <1>6

LEMMA ListsOfFiles ==
    /\ Rebuild \in Seq(Side)
    /\ <<Parquet>> \o Nondescript \o <<BrandDomains>> \in Seq(AtpFiles)
    /\ Head(<<Parquet>> \o Nondescript \o <<BrandDomains>>) = Parquet
    /\ <<Parquet>> \o Nondescript \o <<BrandDomains>> # <<>>
    /\ \A s \in Seq(Side) : s \in Seq(AtpFiles)
<1>1. Nondescript \in Seq(Side) /\ <<BrandDomains>> \in Seq(Side) /\ <<>> \in Seq(Side)
  <2>1. \A x, y, z \in Side : <<x, y, z>> \in Seq(Side)
    OBVIOUS
  <2>2. <<"atp", "phones">> \in Side /\ <<"atp", "emails">> \in Side
        /\ <<"atp", "websites">> \in Side
    BY DEF Side, Nondescript
  <2>3. Nondescript \in Seq(Side)
    BY <2>1, <2>2 DEF Nondescript
  <2>4. BrandDomains \in Side
    BY DEF Side
  <2> QED
    BY <2>3, <2>4
<1>2. Rebuild \in Seq(Side)
  BY <1>1 DEF Rebuild
<1>3. \A s \in Seq(Side) : s \in Seq(AtpFiles)
  BY Names
<1>4. \A s, t \in Seq(AtpFiles) :
          /\ <<Parquet>> \o s \o t \in Seq(AtpFiles)
          /\ Head(<<Parquet>> \o s \o t) = Parquet
          /\ <<Parquet>> \o s \o t # <<>>
  BY Names
<1> QED
  BY <1>1, <1>2, <1>3, <1>4

\* import_atp begins; the zip or the parquet file is there.
LEMMA BeginInv ==
    ASSUME ImportInv, ReuseParquet \/ Spawn
    PROVE  ImportInv'
<1> USE Names, ListsOfFiles DEF ImportInv, TypesInv, fetchVars, handVars
<1>1. run = "import" /\ UNCHANGED <<disk, step, meta, tmp, orphans>> /\ Ready
  BY DEF ReuseParquet, Spawn, ProgressInv, Importing
<1>2. clock' \in Nat /\ (Spawn => clock' > 0)
  BY DEF ReuseParquet, Spawn, Tick
<1>3. \A d \in Download : DownloadInv(d)'
  BY <1>1 DEF ReuseParquet, Spawn, DownloadInv, Exists
<1>4. ParquetInv'
  BY <1>1 DEF ParquetInv, Exists
<1>5. CASE ReuseParquet
  BY <1>1, <1>2, <1>3, <1>4, <1>5 DEF ReuseParquet, Lacks, ProgressInv, Ready, Exists, Importing
<1>6. CASE Spawn
  <2>1. Exists(Zip)
    BY <1>1, <1>6 DEF Spawn, Lacks, Stale, Ready
  <2> QED
    BY <1>1, <1>2, <1>3, <1>4, <1>6, <2>1 DEF Spawn, ProgressInv, Ready, Exists, Importing
<1> QED
  BY <1>5, <1>6

\* The next file is written.
LEMMA WriteInv ==
    ASSUME ImportInv, WriterStep \/ RebuildStep
    PROVE  ImportInv'
<1> USE Names, ListsOfFiles DEF ImportInv, TypesInv, fetchVars, handVars
<1> DEFINE f == Head(todo)
<1>1. /\ UNCHANGED <<clock, run, step, meta, tmp, orphans>>
      /\ todo # <<>> /\ todo' = Tail(todo)
      /\ \E content : disk' = [disk EXCEPT ![f] = content]
  BY DEF WriterStep, RebuildStep, WriteNext
<1>2. run \in {"scan", "rebuild"} /\ \A d \in Download : step[d] = "idle"
  BY DEF WriterStep, RebuildStep, DownloadInv
<1>3. f \in AtpFiles /\ todo' \in Seq(AtpFiles)
  BY <1>1
<1>4. DOMAIN disk' = File /\ \A g \in File \ {f} : disk'[g] = disk[g]
  BY <1>1
<1>5. run = "rebuild" => f \in Side /\ todo' \in Seq(Side)
  BY <1>1 DEF ProgressInv
<1>6. run = "scan" =>
        /\ Exists(Parquet)' /\ (f = Parquet \/ disk'[Parquet] = disk[Parquet])
        /\ f = Parquet => disk'[Parquet].of = disk[Zip].of
  <2>1. run = "scan" => disk' = [disk EXCEPT ![f] =
                             [of |-> disk[Zip].of, whole |-> stream = "ended", at |-> clock]]
    BY DEF WriterStep, RebuildStep, WriteNext
  <2>2. run = "scan" => clock > 0 /\ (Exists(Parquet) \/ f = Parquet)
    BY DEF ProgressInv
  <2> QED
    BY <1>3, <2>1, <2>2 DEF Exists, NoFile
<1>7. Exists(Zip)' = Exists(Zip) /\ disk'[Zip] = disk[Zip]
      /\ disk'[Sidecar("atp")] = disk[Sidecar("atp")]
  BY <1>3, <1>4 DEF Exists
<1>8. \A d \in Download : DownloadInv(d)'
  BY <1>1, <1>2, <1>3, <1>4 DEF DownloadInv, Exists, Underway
<1>9. ParquetInv'
  <2>1. CASE run = "scan"
    <3>1. "atp" \notin orphans => disk[Sidecar("atp")].of = disk[Zip].of
      BY <2>1 DEF DownloadInv, ProgressInv, Zip
    <3> QED
      BY <1>1, <1>2, <1>6, <1>7, <2>1, <3>1 DEF ParquetInv, ProgressInv, Ready, Exists,
         Underway, Importing
  <2>2. CASE run = "rebuild"
    BY <1>1, <1>2, <1>4, <1>5, <1>7, <2>2 DEF ParquetInv, Exists, Underway
  <2> QED
    BY <1>2, <2>1, <2>2
<1>10. ProgressInv'
  BY <1>1, <1>2, <1>4, <1>5, <1>6, <1>7 DEF ProgressInv, Ready, Exists, Importing
<1> QED
  BY <1>1, <1>3, <1>4, <1>8, <1>9, <1>10

\* The threads are joined, or the rebuild is over.
LEMMA EndInv ==
    ASSUME ImportInv, Join \/ RebuildEnd
    PROVE  ImportInv'
<1> USE ListsOfFiles
<1>0. <<>> \in Seq(AtpFiles) /\ todo \in Seq(AtpFiles)
  BY DEF ImportInv, TypesInv
<1>1. CASE Stop
  BY <1>0, <1>1, StopInv DEF Join, RebuildEnd, handVars, importVars
<1>2. CASE ~Stop
  <2>1. /\ run \in {"scan", "rebuild"} /\ run' = "done" /\ todo = <<>> /\ todo' \in Seq(AtpFiles)
        /\ UNCHANGED <<disk, clock, step, meta, tmp, orphans>>
    BY <1>0, <1>2 DEF Join, RebuildEnd, handVars, importVars, fetchVars
  <2> QED
    BY <2>1 DEF ImportInv, TypesInv, DownloadInv, ParquetInv, ProgressInv, Ready, Exists,
       Importing
<1> QED
  BY <1>1, <1>2

LEMMA NextInv == ImportInv /\ [Next]_vars => ImportInv'
<1> SUFFICES ASSUME ImportInv, [Next]_vars PROVE ImportInv'
  OBVIOUS
<1>0. <<>> \in Seq(AtpFiles) /\ todo \in Seq(AtpFiles)
  BY DEF ImportInv, TypesInv
<1>1. CASE UNCHANGED vars
  BY <1>1, OtherInv DEF vars, inputVars, importVars, handVars
<1>2. CASE Start /\ UNCHANGED <<importVars, pastVars>>
  BY <1>2, FetchInMemory, Names DEF importVars
<1>3. CASE FetchStep /\ UNCHANGED <<importVars, pastVars>>
  <2>1. UNCHANGED todo
    BY <1>3 DEF importVars
  <2>2. CASE PlanetOk \/ Fetched
    BY <2>1, <2>2, FetchInMemory, Names
  <2>3. ASSUME NEW d \in Download, Reuse(d) \/ Discover(d) \/ Stream(d) \/ Verify(d)
        PROVE  ImportInv'
    BY <2>1, <2>3, FetchInMemory
  <2>4. ASSUME NEW d \in Download, Undescribed(d) \/ TooStale(d) \/ Mismatch(d)
        PROVE  ImportInv'
    BY <2>1, <2>4, FailInv, Names DEF Undescribed, TooStale, Mismatch, handVars
  <2>5. ASSUME NEW d \in Download, Describe(d) \/ Publish(d)
        PROVE  ImportInv'
    BY <2>1, <2>5, DescribeInv, PublishInv
  <2>6. CASE End
    BY <1>0, <2>1, <2>6, StopInv DEF End, handVars
  <2> QED
    BY <1>3, <2>2, <2>3, <2>4, <2>5, <2>6 DEF FetchStep
<1>4. CASE ReuseParquet \/ Spawn \/ WriterStep \/ RebuildStep \/ Join \/ RebuildEnd
  BY <1>4, BeginInv, WriteInv, EndInv
<1>5. CASE ReaderEnd \/ ReaderError \/ WriterError
  BY <1>5, OtherInv DEF ReaderEnd, ReaderError, WriterError, inputVars, handVars
<1>6. CASE Exit \/ RebuildError \/ Crash
  BY <1>0, <1>6, StopInv DEF Exit, RebuildError, Crash, importVars, handVars
<1>7. CASE \E f \in File : RemoveByHand(f)
  BY <1>7, RemoveInv
<1>8. CASE (\E d \in Download : Release(d)) /\ UNCHANGED <<importVars, pastVars>>
  BY <1>8, OtherInv DEF Release, importVars, handVars
<1>9. CASE ((\E d \in Download : StreamFault(d)) \/ PlanetFault) /\ UNCHANGED <<importVars, pastVars>>
  BY <1>9, FailInv, Names DEF StreamFault, PlanetFault, Fetch, importVars, handVars
<1> QED
  BY <1>1, <1>2, <1>3, <1>4, <1>5, <1>6, <1>7, <1>8, <1>9 DEF Next, Work

\* The metadata that go into the provenance of everything published tell of
\* the files they lie next to, wherever runs fail, are cancelled or die, unless
\* somebody deleted the sidecar of a file that is there
\* (src/pipeline/inputs.rs, atp/fetch.rs, packaged.rs, atp/mod.rs).
THEOREM MetadataDescribe == Spec => []Described
<1>1. ImportInv => Described
  BY DEF ImportInv, DownloadInv, ParquetInv, ProgressInv, Ready, Importing, Described,
     InputsDescribed
<1> QED
  BY <1>1, InitInv, NextInv, PTL DEF Spec

-----------------------------------------------------------------------------
(***************************************************************************)
(* What import_atp returns, and what later runs do about it.               *)
(***************************************************************************)
Elements(s) == {s[i] : i \in DOMAIN s}

\* No file is from the future.
TimesInv ==
    \A f \in File :
        /\ disk[f] = [of |-> disk[f].of, whole |-> disk[f].whole, at |-> disk[f].at]
        /\ disk[f].at \in 0 .. clock

\* Only an error cuts a stream or ends a writer, and so makes a file that is
\* not whole.
WholeInv ==
    /\ stream \in {"open", "ended", "cut"}
    /\ ~erred => /\ stream # "cut" /\ ~dead
                 /\ Exists(Parquet) => disk[Parquet].whole

\* A file that is not older than the zip was made from it.  Without a zip, the
\* small files are of the parquet file, or the zip was deleted too early.
OriginInv ==
    /\ Exists(Zip) => \A f \in AtpFiles :
          Exists(f) /\ disk[f].at >= disk[Zip].at => disk[f].of = disk[Zip].of
    /\ ~trimmed /\ ~Exists(Zip) /\ Exists(Parquet) => \A s \in Side :
          Exists(s) => disk[s].of = disk[Parquet].of

\* Nothing is lacking but what is yet to be written.
WrittenInv ==
    /\ run = "scan" => \A f \in AtpFiles \ Elements(todo) : ~Lacks(f)
    /\ run = "rebuild" => \A f \in AtpFiles \ Elements(todo) : ~Lacks(f)
    /\ run = "rebuild" /\ todo # <<>> => clock > 0
    /\ run = "done" => \A f \in AtpFiles : ~Lacks(f)

\* A fetch that is done leaves what the next one reuses.
FetchedInv ==
    \A d \in Download : step[d] = "done" \/ run \in Importing =>
        Exists(Sidecar(d)) /\ StandIn(d)

\* After a run that succeeded there is nothing to do.
SettledInv ==
    settled =>
        /\ \A d \in Download : Exists(Sidecar(d)) /\ StandIn(d) /\ step[d] \notin Underway
        /\ \A f \in AtpFiles : ~Lacks(f)
        /\ run # "scan"
        /\ run = "rebuild" => todo = <<>>

FilesInv == TimesInv /\ WholeInv /\ OriginInv /\ WrittenInv /\ FetchedInv /\ SettledInv

LEMMA InitFiles == Init => FilesInv
<1> SUFFICES ASSUME Init PROVE FilesInv
  OBVIOUS
<1>1. \A f \in File : disk[f] = NoFile
  BY DEF Init, InputsInit
<1>2. TimesInv
  BY <1>1 DEF Init, InputsInit, TimesInv, NoFile
<1>3. WholeInv /\ OriginInv
  BY <1>1, Names DEF Init, WholeInv, OriginInv, Exists
<1>4. WrittenInv /\ FetchedInv /\ SettledInv
  BY Names DEF Init, InputsInit, WrittenInv, FetchedInv, SettledInv, Importing
<1> QED
  BY <1>2, <1>3, <1>4 DEF FilesInv

\* What is said of files alone, where they stay.
LEMMA SameFiles ==
    ASSUME disk' = disk
    PROVE  /\ \A f : (Exists(f)' <=> Exists(f)) /\ (Lacks(f)' <=> Lacks(f))
           /\ \A d : StandIn(d)' <=> StandIn(d)
  BY DEF Exists, Lacks, Stale, StandIn

\* Where they stay, the clock does not go back and no one deletes too early,
\* so does what is said of their times and origins.
LEMMA QuietFiles ==
    ASSUME ImportInv, FilesInv, UNCHANGED <<disk, trimmed>>, clock' \in {clock, clock + 1}
    PROVE  TimesInv' /\ OriginInv'
<1>1. TimesInv'
  <2>1. clock \in Nat
    BY DEF ImportInv, TypesInv
  <2>2. \A n \in 0 .. clock : n \in 0 .. clock'
    BY <2>1
  <2> QED
    BY <2>2 DEF FilesInv, TimesInv
<1>2. OriginInv'
  BY SameFiles DEF FilesInv, OriginInv
<1> QED
  BY <1>1, <1>2

LEMMA StopFiles ==
    ASSUME ImportInv, FilesInv, Stop, UNCHANGED <<disk, clock, trimmed, settled>>,
           erred => erred', ~erred' => stream' # "cut" /\ ~dead',
           stream' \in {stream, "ended"}
    PROVE  FilesInv'
<1>1. run' = "idle" /\ \A x \in Fetch : step'[x] = "idle"
  BY DEF Stop
<1>2. WholeInv'
  BY SameFiles DEF FilesInv, WholeInv
<1>3. WrittenInv'
  BY <1>1 DEF WrittenInv
<1>4. FetchedInv' /\ SettledInv'
  BY <1>1, SameFiles, Names DEF FilesInv, FetchedInv, SettledInv, Importing, Underway
<1> QED
  BY <1>2, <1>3, <1>4, QuietFiles DEF FilesInv

LEMMA FailFiles ==
    ASSUME ImportInv, FilesInv, NEW x \in Fetch, Fail(x), UNCHANGED <<disk, clock>>,
           UNCHANGED <<importVars, pastVars>>
    PROVE  FilesInv'
<1>1. /\ run' = "failed" /\ \A d \in Download : step'[d] \in {"idle", step[d]} \ {"done"}
      /\ UNCHANGED <<disk, clock, todo, stream, dead, erred, trimmed, settled>>
  BY Names DEF Fail, Renaming, importVars, pastVars
<1>2. WholeInv'
  BY <1>1, SameFiles DEF FilesInv, WholeInv
<1>3. WrittenInv'
  BY <1>1 DEF WrittenInv
<1>4. FetchedInv' /\ SettledInv'
  BY <1>1, SameFiles DEF FilesInv, FetchedInv, SettledInv, Importing, Underway
<1> QED
  BY <1>1, <1>2, <1>3, <1>4, QuietFiles DEF FilesInv

\* A fetch goes on in memory; if everything is there, it is reused.
LEMMA FetchFiles ==
    ASSUME ImportInv, FilesInv, NEW d \in Download,
           Start \/ Reuse(d) \/ Discover(d) \/ Stream(d) \/ Verify(d) \/ PlanetOk \/ Fetched,
           UNCHANGED <<importVars, pastVars>>
    PROVE  FilesInv'
<1> USE Names, SameFiles
<1>1. UNCHANGED <<disk, clock, todo, stream, dead, erred, trimmed, settled>>
  BY DEF Start, Reuse, Discover, Stream, Verify, PlanetOk, Fetched, importVars, pastVars
<1>2. WholeInv'
  BY <1>1 DEF FilesInv, WholeInv
<1>3. run' = run \/ run' \in {"fetch", "import"}
  BY DEF Start, Reuse, Discover, Stream, Verify, PlanetOk, Fetched
<1>4. WrittenInv'
  BY <1>1, <1>3 DEF FilesInv, WrittenInv
<1>5. DOMAIN step = Fetch
  BY DEF ImportInv, TypesInv
<1>6. \A e \in Download : step'[e] = "done" => step[e] = "done" \/ (StandIn(e) /\ Exists(Sidecar(e)))
  BY <1>5, FetchAssumption
     DEF Start, Reuse, Discover, Stream, Verify, PlanetOk, Fetched, Goto, Download
<1>7. run' \in Importing =>
        \/ run \in Importing
        \/ \A e \in Download : step[e] = "done"
  BY DEF Start, Reuse, Discover, Stream, Verify, PlanetOk, Fetched, Importing
<1>8. FetchedInv'
  BY <1>1, <1>6, <1>7 DEF FilesInv, FetchedInv
<1>9. ASSUME settled, NEW e \in Download
      PROVE  step'[e] \notin Underway
  <2>1. StandIn(d) /\ step[d] \notin Underway /\ step[e] \notin Underway
    BY <1>9 DEF FilesInv, SettledInv
  <2> QED
    BY <1>5, <2>1, FetchAssumption
       DEF Start, Reuse, Discover, Stream, Verify, PlanetOk, Fetched, Goto, Underway, Download
<1>10. SettledInv'
  BY <1>1, <1>3, <1>9 DEF FilesInv, SettledInv
<1> QED
  BY <1>1, <1>2, <1>4, <1>8, <1>10, QuietFiles DEF FilesInv

LEMMA DescribeFiles ==
    ASSUME ImportInv, FilesInv, NEW d \in Download, Describe(d), UNCHANGED <<importVars, pastVars>>
    PROVE  FilesInv'
<1> USE Names
<1>1. /\ step[d] = "describe" /\ run \in {"fetch", "failed"} /\ run' = run
      /\ UNCHANGED <<clock, todo, stream, dead, erred, trimmed, settled>>
      /\ step' = [step EXCEPT ![d] = IF run = "fetch" THEN "publish" ELSE "idle"]
      /\ DOMAIN step = Fetch
  BY DEF Describe, Rename, Goto, ImportInv, TypesInv, DownloadInv, importVars, pastVars
<1>2. /\ Exists(Sidecar(d))'
      /\ disk'[Sidecar(d)] = [of |-> meta[d], whole |-> TRUE, at |-> clock]
      /\ \A f \in File \ {Sidecar(d)} : disk'[f] = disk[f]
  BY DEF Describe, Exists, NoFile, ImportInv, TypesInv
<1>3. \A f \in AtpFiles \cup {Raw(e) : e \in Download} : disk'[f] = disk[f] /\ (Exists(f)' <=> Exists(f))
  BY <1>2 DEF Exists
<1>4. ~settled
  BY <1>1 DEF FilesInv, SettledInv, Underway
<1>5. TimesInv'
  <2>1. clock \in 0 .. clock
    BY DEF ImportInv, TypesInv
  <2> QED
    BY <1>1, <1>2, <2>1 DEF FilesInv, TimesInv
<1>6. WholeInv'
  BY <1>1, <1>3 DEF FilesInv, WholeInv
<1>7. OriginInv'
  BY <1>1, <1>3 DEF FilesInv, OriginInv
<1>8. WrittenInv'
  BY <1>1 DEF WrittenInv
<1>9. \A e \in Download : Exists(Sidecar(e)) => Exists(Sidecar(e))'
  BY <1>2 DEF Exists
<1>10. \A e \in Download : StandIn(e) => StandIn(e)'
  BY <1>3, <1>9 DEF StandIn
<1>11. FetchedInv'
  BY <1>1, <1>9, <1>10 DEF FilesInv, FetchedInv, Importing
<1> QED
  BY <1>1, <1>4, <1>5, <1>6, <1>7, <1>8, <1>11 DEF FilesInv, SettledInv

\* A zip that is published is newer than all that was made from earlier ones.
LEMMA PublishFiles ==
    ASSUME ImportInv, FilesInv, NEW d \in Download, Publish(d), UNCHANGED <<importVars, pastVars>>
    PROVE  FilesInv'
<1> USE Names
<1>1. /\ step[d] = "publish" /\ run \in {"fetch", "failed"} /\ run' = run
      /\ clock' = clock + 1 /\ clock \in Nat
      /\ UNCHANGED <<todo, stream, dead, erred, trimmed, settled>>
      /\ step' = [step EXCEPT ![d] = IF run = "fetch" THEN "done" ELSE "idle"]
      /\ DOMAIN step = Fetch /\ Exists(Sidecar(d))
  BY DEF Publish, Tick, Rename, Goto, ImportInv, TypesInv, DownloadInv, importVars, pastVars
<1>2. /\ Exists(Raw(d))'
      /\ disk'[Raw(d)] = [of |-> tmp[d], whole |-> TRUE, at |-> clock + 1]
      /\ \A f \in File \ {Raw(d)} : disk'[f] = disk[f]
  BY <1>1 DEF Publish, Exists, NoFile, ImportInv, TypesInv
<1>3. \A f \in File \ {Raw(d)} : Exists(f)' <=> Exists(f)
  BY <1>2 DEF Exists
<1>4. ~settled
  BY <1>1 DEF FilesInv, SettledInv, Underway
<1>5. TimesInv'
  BY <1>1, <1>2 DEF FilesInv, TimesInv
<1>6. \A f \in AtpFiles : f \in File \ {Raw(d)}
  OBVIOUS
<1>7. WholeInv'
  BY <1>1, <1>2, <1>3, <1>6 DEF FilesInv, WholeInv
<1>8. OriginInv'
  <2>1. CASE d = "atp"
    <3>1. \A f \in AtpFiles : disk'[f].at \in 0 .. clock
      BY <1>2, <1>6 DEF FilesInv, TimesInv
    <3>2. disk'[Zip].at = clock + 1 /\ Exists(Zip)'
      BY <1>2, <2>1
    <3> QED
      BY <1>1, <3>1, <3>2 DEF OriginInv
  <2>2. CASE d # "atp"
    <3>1. Zip \in File \ {Raw(d)}
      BY <2>2
    <3> QED
      BY <1>1, <1>2, <1>3, <1>6, <3>1 DEF FilesInv, OriginInv
  <2> QED
    BY <2>1, <2>2
<1>9. WrittenInv'
  BY <1>1 DEF WrittenInv
<1>10. \A e \in Download : Exists(Sidecar(e)) => Exists(Sidecar(e))'
  BY <1>3
<1>11. \A e \in Download : (StandIn(e) => StandIn(e)') /\ StandIn(d)'
  BY <1>2, <1>3, <1>6, <1>10 DEF StandIn
<1>12. FetchedInv'
  BY <1>1, <1>10, <1>11 DEF FilesInv, FetchedInv, Importing
<1> QED
  BY <1>1, <1>4, <1>5, <1>7, <1>8, <1>9, <1>12 DEF FilesInv, SettledInv

\* The elements of a list.
LEMMA ElementsOfTail ==
    ASSUME NEW s \in Seq(AtpFiles), s # <<>>
    PROVE  Elements(s) = {Head(s)} \cup Elements(Tail(s))
<1>1. /\ Len(s) \in Nat /\ Len(s) >= 1 /\ DOMAIN s = 1 .. Len(s) /\ Head(s) = s[1]
      /\ DOMAIN Tail(s) = 1 .. (Len(s) - 1)
      /\ \A i \in 1 .. (Len(s) - 1) : Tail(s)[i] = s[i + 1]
  BY HeadTailProperties, LenProperties, EmptySeq
<1>2. \A i \in 1 .. Len(s) : i = 1 \/ (i - 1 \in 1 .. (Len(s) - 1) /\ (i - 1) + 1 = i)
  BY <1>1
<1>3. \A i \in 1 .. Len(s) : i = 1 \/ s[i] = Tail(s)[i - 1]
  BY <1>1, <1>2
<1>4. ASSUME NEW x \in Elements(s)
      PROVE  x \in {Head(s)} \cup Elements(Tail(s))
  <2>1. PICK i \in 1 .. Len(s) : x = s[i]
    BY <1>1 DEF Elements
  <2> QED
    BY <1>1, <1>2, <1>3, <2>1 DEF Elements
<1>5. ASSUME NEW x \in Elements(Tail(s))
      PROVE  x \in Elements(s)
  <2>1. PICK i \in 1 .. (Len(s) - 1) : x = Tail(s)[i]
    BY <1>1 DEF Elements
  <2>2. i + 1 \in 1 .. Len(s)
    BY <1>1
  <2> QED
    BY <1>1, <2>1, <2>2 DEF Elements
<1>6. Head(s) \in Elements(s)
  BY <1>1 DEF Elements
<1> QED
  BY <1>4, <1>5, <1>6

LEMMA ElementsOfConcat ==
    ASSUME NEW s \in Seq(AtpFiles), NEW u \in Seq(AtpFiles)
    PROVE  Elements(s) \cup Elements(u) \subseteq Elements(s \o u)
<1>1. /\ Len(s) \in Nat /\ Len(u) \in Nat /\ DOMAIN s = 1 .. Len(s) /\ DOMAIN u = 1 .. Len(u)
      /\ DOMAIN (s \o u) = 1 .. (Len(s) + Len(u))
      /\ \A i \in 1 .. (Len(s) + Len(u)) :
            (s \o u)[i] = IF i <= Len(s) THEN s[i] ELSE u[i - Len(s)]
  BY ConcatProperties, LenProperties
<1>2. ASSUME NEW i \in 1 .. Len(s)
      PROVE  s[i] \in Elements(s \o u)
  <2>1. i \in 1 .. (Len(s) + Len(u)) /\ (s \o u)[i] = s[i]
    BY <1>1
  <2> QED
    BY <1>1, <2>1 DEF Elements
<1>3. ASSUME NEW i \in 1 .. Len(u)
      PROVE  u[i] \in Elements(s \o u)
  <2>1. i + Len(s) \in 1 .. (Len(s) + Len(u)) /\ (s \o u)[i + Len(s)] = u[i]
    BY <1>1
  <2> QED
    BY <1>1, <2>1 DEF Elements
<1> QED
  BY <1>1, <1>2, <1>3 DEF Elements

\* The two lists that import_atp works through have all that lacks.
LEMMA ElementsOfLists ==
    /\ AtpFiles \subseteq Elements(<<Parquet>> \o Nondescript \o <<BrandDomains>>)
    /\ \A f \in Side : Lacks(f) => f \in Elements(Rebuild)
<1> USE DEF Elements
<1>1. /\ <<Parquet>> \in Seq(AtpFiles) /\ Nondescript \in Seq(AtpFiles)
      /\ <<BrandDomains>> \in Seq(AtpFiles) /\ <<>> \in Seq(AtpFiles)
  <2>1. \A x, y, z \in AtpFiles : <<x, y, z>> \in Seq(AtpFiles)
    OBVIOUS
  <2>2. <<"atp", "phones">> \in AtpFiles /\ <<"atp", "emails">> \in AtpFiles
        /\ <<"atp", "websites">> \in AtpFiles
    BY DEF AtpFiles, Side, Nondescript
  <2>3. Nondescript \in Seq(AtpFiles)
    BY <2>1, <2>2 DEF Nondescript
  <2>4. BrandDomains \in AtpFiles /\ Parquet \in AtpFiles
    BY DEF AtpFiles, Side
  <2> QED
    BY <2>3, <2>4
<1>2. <<Parquet>> \o Nondescript \in Seq(AtpFiles)
  BY <1>1
<1>3. Parquet \in Elements(<<Parquet>>) /\ BrandDomains \in Elements(<<BrandDomains>>)
  OBVIOUS
<1>4. \A i \in 1 .. 3 : Nondescript[i] \in Elements(Nondescript)
  <2>1. DOMAIN Nondescript = 1 .. 3
    BY DEF Nondescript
  <2> QED
    BY <2>1
<1>5. AtpFiles = {Parquet} \cup {Nondescript[i] : i \in 1 .. 3} \cup {BrandDomains}
  BY DEF AtpFiles, Side
<1> HIDE DEF Elements
<1>6. AtpFiles \subseteq Elements(<<Parquet>> \o Nondescript \o <<BrandDomains>>)
  BY <1>1, <1>2, <1>3, <1>4, <1>5, ElementsOfConcat
<1>7. ASSUME NEW f \in Side, Lacks(f)
      PROVE  f \in Elements(Rebuild)
  <2> DEFINE s == IF \E i \in 1 .. 3 : Lacks(Nondescript[i]) THEN Nondescript ELSE <<>>
             u == IF Lacks(BrandDomains) THEN <<BrandDomains>> ELSE <<>>
  <2>1. Rebuild = s \o u
    BY DEF Rebuild
  <2>2. s \in Seq(AtpFiles) /\ u \in Seq(AtpFiles)
    BY <1>1
  <2>3. f \in Elements(s) \/ f \in Elements(u)
    BY <1>3, <1>4, <1>7 DEF Side
  <2> QED
    BY <2>1, <2>2, <2>3, ElementsOfConcat
<1> QED
  BY <1>6, <1>7

\* import_atp begins: it notes what lacks.
LEMMA BeginFiles ==
    ASSUME ImportInv, FilesInv, ReuseParquet \/ Spawn
    PROVE  FilesInv'
<1> USE SameFiles, ElementsOfLists
<1>1. /\ run = "import" /\ UNCHANGED <<disk, step, meta, tmp, erred, trimmed, settled>>
      /\ clock' \in {clock, clock + 1} /\ clock \in Nat
  BY DEF ReuseParquet, Spawn, Tick, fetchVars, pastVars, ImportInv, TypesInv
<1>2. TimesInv' /\ OriginInv'
  BY <1>1, QuietFiles
<1>3. FetchedInv'
  BY <1>1 DEF FilesInv, FetchedInv, Importing
<1>4. CASE ReuseParquet
  <2>1. /\ ~Lacks(Parquet) /\ run' = "rebuild" /\ todo' = Rebuild
        /\ Rebuild # <<>> => clock' > 0
        /\ UNCHANGED <<stream, dead>>
    BY <1>1, <1>4 DEF ReuseParquet, Tick
  <2>2. WholeInv'
    BY <1>1, <2>1 DEF FilesInv, WholeInv
  <2>3. \A f \in AtpFiles \ Elements(Rebuild) : ~Lacks(f)
    BY <2>1 DEF AtpFiles
  <2>4. WrittenInv'
    BY <1>1, <2>1, <2>3 DEF WrittenInv
  <2>5. settled => Rebuild = <<>>
    <3>1. settled => (\A f \in Side : ~Lacks(f)) /\ BrandDomains \in Side
                     /\ \A i \in 1 .. 3 : Nondescript[i] \in Side
      BY Names DEF FilesInv, SettledInv, Side
    <3>2. <<>> \o <<>> = <<>>
      OBVIOUS
    <3> QED
      BY <3>1, <3>2 DEF Rebuild
  <2>6. SettledInv'
    BY <1>1, <2>1, <2>5 DEF FilesInv, SettledInv
  <2> QED
    BY <1>2, <1>3, <2>2, <2>4, <2>6 DEF FilesInv
<1>5. CASE Spawn
  <2>1. /\ Lacks(Parquet) /\ run' = "scan" /\ stream' = "open" /\ dead' = FALSE
        /\ todo' = <<Parquet>> \o Nondescript \o <<BrandDomains>>
    BY <1>5 DEF Spawn
  <2>2. WholeInv'
    BY <1>1, <2>1 DEF FilesInv, WholeInv
  <2>3. WrittenInv'
    BY <2>1 DEF WrittenInv
  <2>4. ~settled
    BY <2>1, Names DEF FilesInv, SettledInv
  <2> QED
    BY <1>1, <1>2, <1>3, <2>2, <2>3, <2>4 DEF FilesInv, SettledInv
<1> QED
  BY <1>4, <1>5

\* The next file is written: it is of the zip, and if it is not the parquet
\* file, also of that.
LEMMA WriteFiles ==
    ASSUME ImportInv, FilesInv, WriterStep \/ RebuildStep
    PROVE  FilesInv'
<1> USE Names, ListsOfFiles
<1>1. /\ UNCHANGED <<clock, run, step, meta, tmp, stream, dead, erred, trimmed, settled>>
      /\ todo # <<>> /\ todo' = Tail(todo) /\ DOMAIN disk = File /\ todo \in Seq(AtpFiles)
  BY DEF WriterStep, RebuildStep, WriteNext, fetchVars, pastVars, ImportInv, TypesInv
<1>2. run \in {"scan", "rebuild"} /\ clock \in Nat /\ clock > 0
  BY <1>1 DEF WriterStep, RebuildStep, ImportInv, TypesInv, ProgressInv, FilesInv, WrittenInv
<1>3. PICK f \in AtpFiles : f = Head(todo) /\ (run = "rebuild" => f \in Side)
  <2>1. Head(todo) \in AtpFiles /\ (run = "rebuild" => Head(todo) \in Side)
    BY <1>1 DEF ImportInv, ProgressInv
  <2> QED
    BY <2>1
<1>4. \A g \in File \ {f} : disk'[g] = disk[g] /\ (Exists(g)' <=> Exists(g))
  BY <1>3 DEF WriterStep, RebuildStep, WriteNext, Exists, ImportInv, TypesInv
<1>5. run = "scan" => disk'[f] = [of |-> disk[Zip].of, whole |-> stream = "ended", at |-> clock]
  BY <1>1, <1>3 DEF WriterStep, RebuildStep, WriteNext
<1>6. run = "rebuild" => disk'[f] = [of |-> disk[Parquet].of, whole |-> disk[Parquet].whole, at |-> clock]
  BY <1>1, <1>3 DEF WriterStep, RebuildStep, WriteNext, FilesInv, TimesInv
<1>7. disk'[f].at = clock /\ Exists(f)'
      /\ disk'[f] = [of |-> disk'[f].of, whole |-> disk'[f].whole, at |-> disk'[f].at]
  <2>1. \E o, w : disk'[f] = [of |-> o, whole |-> w, at |-> clock]
    BY <1>2, <1>5, <1>6
  <2>2. \A o, w : [of |-> o, whole |-> w, at |-> clock] # NoFile
    BY <1>2 DEF NoFile
  <2> QED
    BY <2>1, <2>2 DEF Exists
<1>8. /\ disk'[Zip] = disk[Zip] /\ (Exists(Zip)' <=> Exists(Zip)) /\ disk[Zip].at \in 0 .. clock
  BY <1>3, <1>4 DEF FilesInv, TimesInv
<1>9. TimesInv'
  <2>1. \A g \in File \ {f} : disk'[g].at \in 0 .. clock
    BY <1>4 DEF FilesInv, TimesInv
  <2>2. disk'[f].at \in 0 .. clock
    BY <1>2, <1>7
  <2> QED
    BY <1>1, <1>4, <1>7, <2>1, <2>2 DEF FilesInv, TimesInv
<1>10. WholeInv'
  <2>1. CASE f = Parquet
    <3>1. run = "scan" /\ stream # "open"
      BY <1>2, <1>3, <2>1 DEF WriterStep, RebuildStep
    <3>2. ~erred => stream # "cut" /\ ~dead
      BY DEF FilesInv, WholeInv
    <3>3. stream \in {"ended", "cut"}
      BY <3>1 DEF FilesInv, WholeInv
    <3>4. ~erred => disk'[Parquet].whole
      <4>1. disk'[Parquet].whole = (stream = "ended")
        BY <1>5, <2>1, <3>1
      <4>2. ~erred => stream = "ended"
        BY <3>2, <3>3
      <4> QED
        BY <4>1, <4>2
    <3> QED
      BY <1>1, <3>2, <3>3, <3>4 DEF WholeInv
  <2>2. CASE f # Parquet
    BY <1>1, <1>4, <2>2 DEF FilesInv, WholeInv
  <2> QED
    BY <2>1, <2>2
<1>11. Exists(Zip) => disk'[f].of = disk[Zip].of
  <2>1. run = "rebuild" /\ Exists(Zip) => Exists(Parquet) /\ disk[Parquet].at >= disk[Zip].at
    <3>1. run = "rebuild" => ~Lacks(Parquet)
      <4>1. run = "rebuild" => todo \in Seq(Side)
        BY DEF ImportInv, ProgressInv
      <4>2. run = "rebuild" => Parquet \notin Elements(todo)
        BY <4>1, LenProperties, ElementOfSeq DEF Elements
      <4> QED
        BY <4>2 DEF FilesInv, WrittenInv
    <3>2. disk[Parquet].at \in 0 .. clock
      BY DEF FilesInv, TimesInv
    <3> QED
      BY <1>2, <1>8, <3>1, <3>2 DEF Lacks, Stale
  <2> QED
    BY <1>2, <1>5, <1>6, <2>1 DEF FilesInv, OriginInv
<1>12. OriginInv'
  <2>1. ASSUME Exists(Zip), NEW g \in AtpFiles, Exists(g)', disk'[g].at >= disk[Zip].at
        PROVE  disk'[g].of = disk[Zip].of
    BY <1>4, <1>11, <2>1 DEF FilesInv, OriginInv
  <2>2. ASSUME ~trimmed, ~Exists(Zip), NEW s \in Side, Exists(s)', Exists(Parquet)'
        PROVE  disk'[s].of = disk'[Parquet].of
    <3>1. run = "rebuild" /\ f # Parquet /\ disk'[Parquet] = disk[Parquet] /\ Exists(Parquet)
      BY <1>2, <1>3, <1>4, <2>2 DEF ImportInv, ProgressInv
    <3> QED
      BY <1>4, <1>6, <2>2, <3>1 DEF FilesInv, OriginInv
  <2> QED
    BY <1>1, <1>8, <2>1, <2>2 DEF OriginInv
<1>13. ~Lacks(f)' /\ \A g \in AtpFiles : ~Lacks(g) => ~Lacks(g)'
  <2>1. ~(disk'[f].at < disk'[Zip].at)
    BY <1>2, <1>7, <1>8
  <2>2. \A g \in AtpFiles : g # f => (Lacks(g)' <=> Lacks(g))
    BY <1>4, <1>8 DEF Lacks, Stale
  <2>3. ~Lacks(f)'
    BY <1>7, <2>1 DEF Lacks, Stale
  <2> QED
    BY <2>2, <2>3
<1>14. Elements(todo) = {f} \cup Elements(todo')
  BY <1>1, <1>3, ElementsOfTail
<1>15. WrittenInv'
  BY <1>1, <1>2, <1>13, <1>14 DEF FilesInv, WrittenInv
<1>16. \A d \in Download : (Exists(Sidecar(d)) => Exists(Sidecar(d))') /\ (StandIn(d) => StandIn(d)')
  <2>1. \A d \in Download : Sidecar(d) # f /\ Raw(d) # f
    BY <1>3
  <2>2. \A d \in Download : /\ Exists(Sidecar(d))' <=> Exists(Sidecar(d))
                            /\ Exists(Raw(d))' <=> Exists(Raw(d))
    BY <1>4, <2>1
  <2>3. Exists(Parquet) => Exists(Parquet)'
    BY <1>4, <1>7
  <2> QED
    BY <2>2, <2>3 DEF StandIn
<1>17. FetchedInv'
  BY <1>1, <1>16 DEF FilesInv, FetchedInv
<1>18. ~settled
  BY <1>1, <1>2 DEF FilesInv, SettledInv
<1> QED
  BY <1>1, <1>9, <1>10, <1>12, <1>15, <1>17, <1>18 DEF FilesInv, SettledInv

\* The threads end, or one of them fails.
LEMMA ThreadFiles ==
    ASSUME ImportInv, FilesInv, ReaderEnd \/ ReaderError \/ WriterError
    PROVE  FilesInv'
<1> USE SameFiles
<1>1. UNCHANGED <<disk, clock, run, step, todo, trimmed, settled>>
  BY DEF ReaderEnd, ReaderError, WriterError, inputVars, fetchVars, pastVars
<1>2. WholeInv'
  BY <1>1 DEF ReaderEnd, ReaderError, WriterError, pastVars, FilesInv, WholeInv
<1>3. WrittenInv' /\ FetchedInv' /\ SettledInv'
  BY <1>1 DEF FilesInv, WrittenInv, FetchedInv, SettledInv
<1> QED
  BY <1>1, <1>2, <1>3, QuietFiles DEF FilesInv

\* When everything is written, nothing lacks.
LEMMA DoneFiles ==
    ASSUME ImportInv, FilesInv, Join \/ RebuildEnd
    PROVE  FilesInv'
<1> USE SameFiles
<1>1. CASE Stop
  <2>1. UNCHANGED <<disk, clock, trimmed, erred>> /\ run \in {"scan", "rebuild"} /\ run' = "idle"
    BY <1>1 DEF Join, RebuildEnd, Stop
  <2>2. Join /\ settled' = settled /\ stream' = "ended" /\ dead' = FALSE
    BY <2>1 DEF Join, RebuildEnd
  <2> QED
    BY <1>1, <2>1, <2>2, StopFiles
<1>2. CASE ~Stop
  <2>1. /\ run \in {"scan", "rebuild"} /\ run' = "done" /\ settled' = TRUE
        /\ UNCHANGED <<disk, clock, step, trimmed, erred>>
        /\ todo = <<>> /\ stream' \in {stream, "ended"} /\ (~dead => ~dead')
    BY <1>2 DEF Join, RebuildEnd, fetchVars, importVars, ImportInv
  <2>2. \A f \in AtpFiles : ~Lacks(f)
    BY <2>1 DEF FilesInv, WrittenInv, Elements
  <2>3. WholeInv' /\ WrittenInv'
    <3>1. WholeInv'
      BY <2>1 DEF FilesInv, WholeInv
    <3>2. WrittenInv'
      BY <2>1, <2>2 DEF WrittenInv
    <3> QED
      BY <3>1, <3>2
  <2>4. FetchedInv'
    BY <2>1 DEF FilesInv, FetchedInv, Importing
  <2>5. \A d \in Download : Exists(Sidecar(d)) /\ StandIn(d) /\ step[d] = "idle"
    BY <2>1 DEF FilesInv, FetchedInv, ImportInv, DownloadInv, Importing
  <2>6. SettledInv'
    BY <2>1, <2>2, <2>5 DEF SettledInv, Underway
  <2> QED
    BY <2>1, <2>3, <2>4, <2>6, QuietFiles DEF FilesInv
<1> QED
  BY <1>1, <1>2

\* Without the zip nothing lacks that did not lack before, and the parquet
\* file stands in for it.
LEMMA RemoveFiles ==
    ASSUME ImportInv, FilesInv, NEW f \in File, RemoveByHand(f)
    PROVE  FilesInv'
<1> USE Names
<1>1. /\ run = "idle" /\ UNCHANGED <<clock, run, step, todo, stream, dead, erred>>
      /\ disk' = [disk EXCEPT ![f] = NoFile] /\ DOMAIN disk = File
      /\ settled' = (settled /\ f = Zip)
      /\ trimmed' = (trimmed \/ (f = Zip /\ Exists(Parquet)
                       /\ \E s \in Side : Exists(s) /\ disk[s].of # disk[Parquet].of))
  BY DEF RemoveByHand, Remove, fetchVars, importVars, ImportInv, TypesInv
<1>2. ~Exists(f)' /\ \A g \in File \ {f} : disk'[g] = disk[g] /\ (Exists(g)' <=> Exists(g))
  BY <1>1 DEF Exists
<1>3. TimesInv'
  <2>1. disk'[f] = NoFile /\ clock \in Nat
    BY <1>1 DEF ImportInv, TypesInv
  <2>2. /\ NoFile = [of |-> NoFile.of, whole |-> NoFile.whole, at |-> NoFile.at]
        /\ NoFile.at = 0
    BY DEF NoFile
  <2> QED
    BY <1>1, <1>2, <2>1, <2>2 DEF FilesInv, TimesInv
<1>4. WholeInv'
  BY <1>1, <1>2 DEF FilesInv, WholeInv
<1>5. OriginInv'
  <2>1. CASE f = Zip
    <3>1. \A g \in AtpFiles : g \in File \ {f}
      BY <2>1
    <3> QED
      BY <1>1, <1>2, <2>1, <3>1 DEF FilesInv, OriginInv
  <2>2. CASE f # Zip
    <3>1. disk'[Zip] = disk[Zip] /\ (Exists(Zip)' <=> Exists(Zip)) /\ (trimmed' <=> trimmed)
      BY <1>1, <1>2, <2>2
    <3> QED
      BY <1>2, <3>1 DEF FilesInv, OriginInv
  <2> QED
    BY <2>1, <2>2
<1>6. WrittenInv'
  BY <1>1 DEF WrittenInv
<1>7. FetchedInv'
  BY <1>1 DEF FetchedInv, ImportInv, DownloadInv, Importing
<1>8. SettledInv'
  <2> SUFFICES ASSUME settled, f = Zip PROVE SettledInv'
    BY <1>1 DEF SettledInv
  <2>1. \A g \in AtpFiles : g \in File \ {f}
    OBVIOUS
  <2>2. \A g \in AtpFiles : ~Lacks(g)'
    BY <1>2, <2>1 DEF FilesInv, SettledInv, Lacks, Stale
  <2>3. \A d \in Download : Exists(Sidecar(d))'
    BY <1>2 DEF FilesInv, SettledInv
  <2>4. \A d \in Download : StandIn(d)'
    <3>1. Exists(Parquet)'
      BY <2>2 DEF Lacks
    <3>2. \A d \in Download : d # "atp" => Raw(d) \in File \ {f}
      OBVIOUS
    <3> QED
      BY <1>2, <2>3, <3>1, <3>2 DEF FilesInv, SettledInv, StandIn
  <2> QED
    BY <1>1, <2>2, <2>3, <2>4 DEF FilesInv, SettledInv
<1> QED
  BY <1>3, <1>4, <1>5, <1>6, <1>7, <1>8 DEF FilesInv

\* What happens elsewhere.
LEMMA OtherFiles ==
    ASSUME ImportInv, FilesInv, UNCHANGED <<disk, clock, run, fetchVars, importVars, pastVars>>
    PROVE  FilesInv'
<1>1. UNCHANGED <<disk, clock, run, step, todo, stream, dead, erred, trimmed, settled>>
  BY DEF fetchVars, importVars, pastVars
<1>2. WholeInv' /\ WrittenInv' /\ FetchedInv' /\ SettledInv'
  BY <1>1, SameFiles DEF FilesInv, WholeInv, WrittenInv, FetchedInv, SettledInv
<1> QED
  BY <1>1, <1>2, QuietFiles DEF FilesInv

LEMMA NextFiles == ImportInv /\ FilesInv /\ [Next]_vars => FilesInv'
<1> SUFFICES ASSUME ImportInv, FilesInv, [Next]_vars PROVE FilesInv'
  OBVIOUS
<1>0. ~erred => stream # "cut" /\ ~dead
  BY DEF FilesInv, WholeInv
<1>1. CASE UNCHANGED vars
  BY <1>1, OtherFiles DEF vars, inputVars, importVars, pastVars
<1>2. CASE Start /\ UNCHANGED <<importVars, pastVars>>
  BY <1>2, FetchFiles, Names
<1>3. CASE FetchStep /\ UNCHANGED <<importVars, pastVars>>
  <2>1. UNCHANGED <<importVars, pastVars>>
    BY <1>3
  <2>2. CASE PlanetOk \/ Fetched
    BY <2>1, <2>2, FetchFiles, Names
  <2>3. ASSUME NEW d \in Download, Reuse(d) \/ Discover(d) \/ Stream(d) \/ Verify(d)
        PROVE  FilesInv'
    BY <2>1, <2>3, FetchFiles
  <2>4. ASSUME NEW d \in Download, Undescribed(d) \/ TooStale(d) \/ Mismatch(d)
        PROVE  FilesInv'
    BY <2>1, <2>4, FailFiles, Names DEF Undescribed, TooStale, Mismatch
  <2>5. ASSUME NEW d \in Download, Describe(d) \/ Publish(d)
        PROVE  FilesInv'
    BY <2>1, <2>5, DescribeFiles, PublishFiles
  <2>6. CASE End
    BY <1>0, <2>1, <2>6, StopFiles DEF End, importVars, pastVars
  <2> QED
    BY <1>3, <2>2, <2>3, <2>4, <2>5, <2>6 DEF FetchStep
<1>4. CASE ReuseParquet \/ Spawn \/ WriterStep \/ RebuildStep \/ Join \/ RebuildEnd
  BY <1>4, BeginFiles, WriteFiles, DoneFiles
<1>5. CASE ReaderEnd \/ ReaderError \/ WriterError
  BY <1>5, ThreadFiles
<1>6. CASE Exit \/ RebuildError \/ Crash
  BY <1>0, <1>6, StopFiles DEF Exit, RebuildError, Crash, importVars, pastVars
<1>7. CASE \E f \in File : RemoveByHand(f)
  BY <1>7, RemoveFiles
<1>8. CASE (\E d \in Download : Release(d)) /\ UNCHANGED <<importVars, pastVars>>
  BY <1>8, OtherFiles DEF Release
<1>9. CASE ((\E d \in Download : StreamFault(d)) \/ PlanetFault) /\ UNCHANGED <<importVars, pastVars>>
  BY <1>9, FailFiles, Names DEF StreamFault, PlanetFault, Fetch
<1> QED
  BY <1>1, <1>2, <1>3, <1>4, <1>5, <1>6, <1>7, <1>8, <1>9 DEF Next, Work

LEMMA FilesInvariant == Spec => [](ImportInv /\ FilesInv)
  BY InitInv, InitFiles, NextInv, NextFiles, PTL DEF Spec

(***************************************************************************)
(* What import_atp returns is one thing: the parquet file is whole until a *)
(* thread returns an error for the first time, and the small files are of  *)
(* the same AllThePlaces run as it, unless the zip was deleted next to     *)
(* outdated ones (atp/mod.rs).                                             *)
(***************************************************************************)
THEOREM AtpIntact == Spec => []ParquetIntact
<1>1. ImportInv /\ FilesInv => ParquetIntact
  <2> SUFFICES ASSUME ImportInv, FilesInv, run = "done" PROVE ParquetIntact
    BY DEF ParquetIntact
  <2> USE Names
  <2>1. Exists(Parquet) /\ \A f \in AtpFiles : ~Lacks(f)
    BY DEF ImportInv, ProgressInv, FilesInv, WrittenInv
  <2>2. ~erred => disk[Parquet].whole
    BY <2>1 DEF FilesInv, WholeInv
  <2>3. ASSUME ~trimmed, NEW s \in Side
        PROVE  disk[s].of = disk[Parquet].of
    <3>1. CASE Exists(Zip)
      <4>1. \A f \in AtpFiles : disk[f].at \in Nat /\ disk[Zip].at \in Nat
        BY DEF FilesInv, TimesInv, ImportInv, TypesInv
      <4>2. \A f \in AtpFiles : Exists(f) /\ disk[f].at >= disk[Zip].at
        BY <2>1, <3>1, <4>1 DEF Lacks, Stale
      <4> QED
        BY <3>1, <4>2 DEF FilesInv, OriginInv
    <3>2. CASE ~Exists(Zip)
      BY <2>1, <2>3, <3>2 DEF FilesInv, OriginInv, Lacks
    <3> QED
      BY <3>1, <3>2
  <2> QED
    BY <2>2, <2>3 DEF ParquetIntact
<1> QED
  BY <1>1, FilesInvariant, PTL

(***************************************************************************)
(* Once import_atp has returned, no later run writes a file, whatever is   *)
(* released and wherever it dies, also when the zip is deleted             *)
(* (src/pipeline/inputs.rs:9-20).                                          *)
(***************************************************************************)
THEOREM AtpSettles == Spec => SettledStays
<1>1. ImportInv /\ FilesInv /\ [Next]_vars =>
         [settled /\ settled' => \A f \in File : disk'[f] \in {disk[f], NoFile}]_vars
  <2> SUFFICES ASSUME ImportInv, FilesInv, Next, settled, NEW f \in File
               PROVE  disk'[f] \in {disk[f], NoFile}
    OBVIOUS
  <2>1. \A d \in Download : ~Describe(d) /\ ~Publish(d)
    BY DEF FilesInv, SettledInv, Underway, Describe, Publish
  <2>2. ~WriterStep /\ ~RebuildStep
    BY DEF FilesInv, SettledInv, WriterStep, RebuildStep, WriteNext
  <2>3. disk' = disk \/ \E g \in File : disk' = [disk EXCEPT ![g] = NoFile]
    BY <2>1, <2>2
       DEF Next, Work, Start, FetchStep, Reuse, Undescribed, Discover, TooStale, Stream, Verify,
           Mismatch, PlanetOk, Fetched, End, ReuseParquet, Spawn, ReaderEnd, Join, RebuildEnd, Exit,
           ReaderError, WriterError, RebuildError, Crash, RemoveByHand, Remove, Release,
           StreamFault, PlanetFault, inputVars
  <2> QED
    BY <2>3 DEF ImportInv, TypesInv
<1> QED
  BY <1>1, FilesInvariant, PTL DEF Spec, SettledStays

(***************************************************************************)
(* An input that is complete is neither fetched again nor overwritten,     *)
(* however often the step fails, the process dies, files are renamed after *)
(* their fetch was cancelled, and something newer is released              *)
(* (src/pipeline/inputs.rs:9-20, fetch_atp, fetch_packaged).               *)
(***************************************************************************)
THEOREM FetchesOnce == Spec => FetchedOnce
<1>1. ImportInv /\ [Next]_vars =>
         [\A d \in Download : Complete(d) =>
             \A f \in {Raw(d), Sidecar(d)} : disk'[f] \in {disk[f], NoFile}]_inputVars
  <2> SUFFICES ASSUME ImportInv, Next, NEW d \in Download, Complete(d),
                      NEW f \in {Raw(d), Sidecar(d)}
               PROVE  disk'[f] \in {disk[f], NoFile}
    BY DEF vars
  <2> USE Names
  <2>1. step[d] \notin Underway
    BY DEF ImportInv, DownloadInv, ParquetInv, Complete
  <2>2. f \in File /\ DOMAIN disk = File
    BY DEF ImportInv, TypesInv
  <2>3. ASSUME NEW e \in Download, Describe(e) \/ Publish(e)
        PROVE  disk'[f] = disk[f]
    <3>1. e # d
      BY <2>1, <2>3 DEF Describe, Publish, Underway
    <3>2. f \notin {Raw(e), Sidecar(e)}
      BY <3>1
    <3> QED
      BY <2>2, <2>3, <3>2 DEF Describe, Publish
  <2>4. CASE WriterStep \/ RebuildStep
    <3>1. Head(todo) \in AtpFiles
      BY <2>4 DEF ImportInv, TypesInv, WriterStep, RebuildStep, WriteNext
    <3>2. f # Head(todo)
      BY <3>1
    <3> QED
      BY <2>2, <2>4, <3>2 DEF WriterStep, RebuildStep, WriteNext
  <2>5. ASSUME ~WriterStep, ~RebuildStep, \A e \in Download : ~Describe(e) /\ ~Publish(e)
        PROVE  disk' = disk \/ \E g \in File : disk' = [disk EXCEPT ![g] = NoFile]
    BY <2>5
       DEF Next, Work, Start, FetchStep, Reuse, Undescribed, Discover, TooStale, Stream, Verify,
           Mismatch, PlanetOk, Fetched, End, ReuseParquet, Spawn, ReaderEnd, Join, RebuildEnd,
           Exit, ReaderError, WriterError, RebuildError, Crash, RemoveByHand, Remove, Release,
           StreamFault, PlanetFault, inputVars
  <2> QED
    BY <2>2, <2>3, <2>4, <2>5
<1> QED
  BY <1>1, InitInv, NextInv, PTL DEF Spec, FetchedOnce
=============================================================================
