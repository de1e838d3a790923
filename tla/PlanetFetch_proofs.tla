------------------------- MODULE PlanetFetch_proofs -------------------------
(***************************************************************************)
(* The metadata that fetch_planet returns are those of the planet file, or *)
(* of the planet that the index was built from when the file is gone: for  *)
(* releases of any number and size, any number of faults, and whatever     *)
(* people do by hand, while the sidecar is not that of a planet that was   *)
(* deleted together with its features (`orphan').  And, whatever mixture   *)
(* of releases a resumed download makes, the planet file is as long as the *)
(* release that its end is of (PlanetTypeCorrect).                         *)
(***************************************************************************)
EXTENDS PlanetFetch, SequenceTheorems, TLAPS

\* The types that the proof needs.
Types ==
    /\ release \in Release
    /\ part \in Seq(Nat) /\ pbf \in Seq(Nat) /\ index \in Seq(Nat)
    /\ body \in Seq(Nat) /\ buffer \in Seq(Nat) /\ hasher \in Seq(Nat)
    /\ pc \in {"idle", "refused", "stream", "rename", "persist", "fetched"}

\* The sidecar does not count: there is none, or it is an orphan.
NoSidecar == sidecar = NoMetadata \/ orphan

\* A download goes on only while there is neither planet nor sidecar, and
\* the hasher has seen what the .part file holds or is about to hold.
Downloading ==
    /\ (pc # "stream" => buffer = <<>>)
    /\ (pc = "stream" =>
          /\ pbf = Absent /\ NoSidecar
          /\ hasher = part \o buffer
          /\ hasher # <<>> \/ body # <<>>)
    /\ (pc = "rename" =>
          /\ pbf = Absent /\ NoSidecar
          /\ hasher = part /\ part # <<>>)
    /\ (pc = "persist" =>
          pbf # Absent /\ NoSidecar /\ hasher = pbf)

\* The sidecar is that of the planet, or of the planet behind the index.
Described ==
    /\ (index # Absent => sidecar # NoMetadata)
    /\ (~NoSidecar /\ pbf # Absent => sidecar = Metadata(pbf))
    /\ (~NoSidecar /\ pbf = Absent =>
          index # Absent /\ sidecar.sha256 = index)
    /\ (Fetched => result = sidecar /\ sidecar # NoMetadata)

FetchInv == Types /\ Downloading /\ Described

-----------------------------------------------------------------------------
\* The planet of a release is a sequence with at least one chunk.
LEMMA PlanetNonEmpty ==
    ASSUME NEW r \in Release
    PROVE  Planet(r) \in Seq(Nat) /\ Planet(r) # <<>> /\ Len(Planet(r)) = Size[r]
<1>1. Size[r] \in Nat \ {0} /\ r \in Nat
  BY PlanetFetchAssumption DEF Release
<1>2. Planet(r) \in Seq(Nat)
  BY <1>1, IsASeq DEF Planet
<1>3. Len(Planet(r)) = Size[r]
  BY <1>1, <1>2 DEF Planet
<1>4. QED
  BY <1>1, <1>2, <1>3

\* Metadata of something that was hashed are metadata.
LEMMA MetadataExist ==
    ASSUME NEW h \in Seq(Nat), h # <<>>
    PROVE  Metadata(h) # NoMetadata
<1>1. Metadata(h).sha256 = h
  BY DEF Metadata
<1>2. NoMetadata.sha256 = <<>>
  BY DEF NoMetadata
<1>3. QED
  BY <1>1, <1>2

LEMMA FetchInit == Init => FetchInv
<1> SUFFICES ASSUME Init PROVE FetchInv
  OBVIOUS
<1>1. 1 \in Release
  BY PlanetFetchAssumption DEF Release
<1>2. Types
  BY <1>1 DEF Init, Types, Absent
<1>3. Downloading /\ Described
  BY DEF Init, Downloading, Described, NoSidecar, Fetched, Absent
<1>4. QED
  BY <1>2, <1>3 DEF FetchInv, NoSidecar

-----------------------------------------------------------------------------
\* The chunks that a Request brings follow those that are there.
LEMMA ResumeStep == ASSUME FetchInv, Resume PROVE FetchInv'
<1> USE DEF FetchInv, NoSidecar, history
<1>1. pbf = Absent /\ NoSidecar /\ pc = "idle"
  BY DEF Resume, ToDownload, Described
<1>2. body' \in Seq(Nat) /\ body' # <<>>
  <2>1. Planet(release) \in Seq(Nat) /\ Len(Planet(release)) = Size[release]
    BY PlanetNonEmpty DEF Types
  <2>2. Len(part) \in Nat /\ Size[release] \in Nat /\ Len(part) + 1 <= Size[release]
    BY PlanetFetchAssumption DEF Resume, Types, Release
  <2>3. \A i \in Len(part) + 1 .. Size[release] : Planet(release)[i] \in Nat
    BY <2>1, <2>2, ElementOfSeq
  <2>4. body' = SubSeq(Planet(release), Len(part) + 1, Size[release])
    BY DEF Resume
  <2>5. body' \in Seq(Nat) /\ Len(body') = Size[release] - (Len(part) + 1) + 1
    BY <2>2, <2>3, <2>4, SubSeqProperties
  <2>6. QED
    BY <2>2, <2>5
<1>3. hasher' = part' \o buffer'
  <2>1. hasher' = part /\ part' = part /\ buffer' = buffer /\ buffer = <<>>
    BY <1>1 DEF Resume, Downloading, disk, history
  <2>2. QED
    BY <2>1, ConcatEmptySeq DEF Types
<1>4. Types'
  BY <1>2 DEF Resume, Types, disk, history
<1>5. Downloading'
  BY <1>1, <1>2, <1>3 DEF Resume, Downloading, disk, history
<1>6. Described'
  BY <1>1 DEF Resume, Described, disk, Fetched, Metadata
<1>7. QED
  BY <1>4, <1>5, <1>6

LEMMA RestartStep == ASSUME FetchInv, Restart PROVE FetchInv'
<1> USE DEF FetchInv, NoSidecar, history
<1>1. pbf = Absent /\ NoSidecar /\ pc = "idle"
  BY DEF Restart, ToDownload, Described
<1>2. body' \in Seq(Nat) /\ body' # <<>>
  BY PlanetNonEmpty DEF Restart, Types
<1>3. hasher' = part' \o buffer' /\ part' = <<>> /\ hasher' = <<>>
  <2>1. hasher' = <<>> /\ part' = <<>> /\ buffer' = <<>>
    BY <1>1 DEF Restart, Downloading
  <2>2. <<>> \o <<>> = <<>>
    BY ConcatEmptySeq, <<>> \in Seq(Nat)
  <2>3. QED
    BY <2>1, <2>2
<1>4. Types'
  BY <1>2, <1>3 DEF Restart, Types
<1>5. Downloading'
  BY <1>1, <1>2, <1>3 DEF Restart, Downloading
<1>6. Described'
  BY <1>1 DEF Restart, Described, Fetched, Metadata
<1>7. QED
  BY <1>4, <1>5, <1>6

\* The chunk in the buffer is written, and the next one takes its place.
LEMMA ChunkStep == ASSUME FetchInv, Chunk PROVE FetchInv'
<1> USE DEF FetchInv, NoSidecar, history
<1>1. /\ pc = "stream" /\ pbf = Absent /\ NoSidecar
      /\ hasher = part \o buffer
  BY DEF Chunk, Downloading
<1>2. Head(body) \in Nat /\ Tail(body) \in Seq(Nat)
  BY HeadTailProperties DEF Chunk, Types
<1>3. hasher' \in Seq(Nat) /\ hasher' # <<>>
  <2>1. hasher \in Seq(Nat)
    BY DEF Types
  <2>2. /\ Append(hasher, Head(body)) \in Seq(Nat)
        /\ Append(hasher, Head(body)) # <<>>
    BY <1>2, <2>1, AppendProperties
  <2>3. QED
    BY <2>2 DEF Chunk
<1>4. part' = hasher /\ buffer' = <<Head(body)>>
  BY <1>1 DEF Chunk
<1>5. hasher' = part' \o buffer'
  <2>1. hasher' = Append(hasher, Head(body))
    BY DEF Chunk
  <2>2. Append(hasher, Head(body)) = hasher \o <<Head(body)>>
    BY <1>2, AppendIsConcat DEF Types
  <2>3. QED
    BY <1>4, <2>1, <2>2
<1>6. Types'
  <2>1. <<Head(body)>> \in Seq(Nat)
    BY <1>2
  <2>2. QED
    BY <1>2, <1>3, <1>4, <2>1 DEF Chunk, Types
<1>7. Downloading'
  BY <1>1, <1>3, <1>5 DEF Chunk, Downloading
<1>8. Described'
  BY <1>1 DEF Chunk, Described, Fetched, Metadata
<1>9. QED
  BY <1>6, <1>7, <1>8

LEMMA FlushStep == ASSUME FetchInv, Flush PROVE FetchInv'
<1> USE DEF FetchInv, NoSidecar, history
<1>1. /\ pc = "stream" /\ pbf = Absent /\ NoSidecar
      /\ part' = hasher /\ hasher # <<>>
  BY DEF Flush, Downloading
<1>2. Types'
  BY <1>1 DEF Flush, Types
<1>3. Downloading'
  BY <1>1 DEF Flush, Downloading
<1>4. Described'
  BY <1>1 DEF Flush, Described, Fetched, Metadata
<1>5. QED
  BY <1>2, <1>3, <1>4

LEMMA RenameStep == ASSUME FetchInv, Rename PROVE FetchInv'
<1> USE DEF FetchInv, NoSidecar, history
<1>1. /\ pc = "rename" /\ pbf = Absent /\ NoSidecar
      /\ hasher = part /\ part # <<>>
  BY DEF Rename, Downloading
<1>2. Types'
  BY <1>1 DEF Rename, Types, Absent
<1>3. Downloading'
  BY <1>1 DEF Rename, Downloading, Absent
<1>4. Described'
  BY <1>1 DEF Rename, Described, Fetched
<1>5. QED
  BY <1>2, <1>3, <1>4

\* What was hashed is the planet file.
LEMMA PersistStep == ASSUME FetchInv, Persist PROVE FetchInv'
<1> USE DEF FetchInv, NoSidecar, history
<1>1. pbf # Absent /\ hasher = pbf
  BY DEF Persist, Downloading
<1>2. Metadata(pbf) # NoMetadata
  BY <1>1, MetadataExist DEF Types, Absent
<1>3. /\ sidecar' = Metadata(pbf) /\ result' = Metadata(pbf)
      /\ pbf' = pbf /\ index' = index /\ pc' = "fetched"
  BY <1>1 DEF Persist, Return
<1>4. Types'
  BY <1>3 DEF Persist, Types
<1>5. Downloading'
  BY <1>3 DEF Persist, Downloading
<1>6. Described'
  BY <1>1, <1>2, <1>3 DEF Described, Fetched, Metadata
<1>7. QED
  BY <1>4, <1>5, <1>6

\* An attempt that ends early leaves the planet and its description alone.
LEMMA GiveUpStep == ASSUME FetchInv, GiveUp PROVE FetchInv'
<1> USE DEF FetchInv, NoSidecar, history
<1>1. part' \in Seq(Nat)
  <2>1. part \o buffer \in Seq(Nat)
    BY ConcatProperties DEF Types
  <2>2. QED
    BY <2>1 DEF GiveUp, Types
<1>2. Types'
  BY <1>1 DEF GiveUp, Types
<1>3. Downloading'
  BY DEF GiveUp, Downloading
<1>4. Described'
  BY DEF GiveUp, Described, Fetched, Metadata
<1>5. QED
  BY <1>2, <1>3, <1>4

\* The steps that neither download nor meddle.
LEMMA OtherStep ==
    ASSUME FetchInv,
           \/ Publish \/ ReusePlanet \/ HashPlanet \/ ReuseIndex
           \/ Refused \/ EndRefused \/ Import \/ UNCHANGED vars
    PROVE  FetchInv'
<1> USE DEF FetchInv, NoSidecar, history
<1>1. CASE Publish \/ Refused \/ EndRefused \/ UNCHANGED vars
  <2>1. Types'
    BY <1>1 DEF Publish, Refused, EndRefused, vars, disk, history, Types
  <2>2. Downloading'
    BY <1>1 DEF Publish, Refused, EndRefused, ToDownload, vars, disk, history, Downloading
  <2>3. Described'
    BY <1>1 DEF Publish, Refused, EndRefused, vars, disk, history, Described, Fetched, Metadata
  <2>4. QED
    BY <2>1, <2>2, <2>3
<1>2. CASE ReusePlanet \/ ReuseIndex
  <2>1. Types' /\ Downloading'
    BY <1>2 DEF ReusePlanet, ReuseIndex, Return, disk, history, Types, Downloading
  <2>2. Described'
    BY <1>2 DEF ReusePlanet, ReuseIndex, Return, disk, history, Described, Fetched, Metadata
  <2>3. QED
    BY <2>1, <2>2
<1>3. CASE HashPlanet
  <2>1. Types' /\ Downloading'
    BY <1>3 DEF HashPlanet, disk, history, Types, Downloading
  <2>2. Described'
    BY <1>3 DEF HashPlanet, disk, history, Described, Fetched, Metadata
  <2>3. QED
    BY <2>1, <2>2
<1>4. CASE Import
  <2>1. Types' /\ Downloading'
    BY <1>4 DEF Import, Types, Downloading
  <2>2. /\ sidecar # NoMetadata
        /\ ~orphan /\ pbf # Absent => sidecar = Metadata(pbf)
        /\ ~orphan /\ pbf = Absent => index # Absent /\ sidecar.sha256 = index
    BY <1>4 DEF Import, Described, Fetched
  <2>3. pbf' = pbf /\ sidecar' = sidecar /\ pc' = "idle" /\ orphan' = orphan
    BY <1>4 DEF Import, history
  <2>4. Metadata(pbf)' = Metadata(pbf)
    BY <2>3 DEF Metadata
  <2>5. ~orphan => index' # Absent
    BY <1>4, <2>2 DEF Import
  <2>6. pbf = Absent => index' = index
    BY <1>4 DEF Import
  <2>7. Described'
    BY <2>2, <2>3, <2>4, <2>5, <2>6 DEF Described, Fetched
  <2>8. QED
    BY <2>1, <2>7
<1>5. QED
  BY <1>1, <1>2, <1>3, <1>4

\* What people may do by hand: free the planet that the index was built
\* from, delete both, or drop an extract into a directory without sidecar.
LEMMA ByHandStep == ASSUME FetchInv, Free \/ Remove \/ Drop PROVE FetchInv'
<1> USE DEF FetchInv, NoSidecar, history
<1>1. CASE Free
  <2>1. pc = "idle" /\ pbf # Absent /\ index = pbf /\ pbf' = Absent
    BY <1>1 DEF Free, Meddle
  <2>2. sidecar # NoMetadata /\ (~orphan => sidecar = Metadata(pbf))
    BY <2>1 DEF Described
  <2>3. ~orphan => sidecar.sha256 = index
    BY <2>1, <2>2 DEF Metadata
  <2>4. Types' /\ Downloading'
    BY <1>1, <2>1 DEF Free, Types, Downloading, Absent
  <2>5. Described'
    BY <1>1, <2>1, <2>2, <2>3 DEF Free, Described, Fetched
  <2>6. QED
    BY <2>4, <2>5
<1>2. CASE Drop
  <2>1. pc = "idle" /\ sidecar = NoMetadata /\ pbf' = Extract
    BY <1>2 DEF Drop, Meddle
  <2>2. Types' /\ Downloading'
    BY <1>2, <2>1 DEF Drop, Types, Downloading, Extract
  <2>3. Described'
    BY <1>2, <2>1 DEF Drop, Described, Fetched
  <2>4. QED
    BY <2>2, <2>3
<1>3. CASE Remove
  <2>1. pc = "idle" /\ pbf' = Absent /\ index' = Absent /\ NoSidecar'
    BY <1>3 DEF Remove, Meddle
  <2>2. Types' /\ Downloading'
    BY <1>3, <2>1 DEF Remove, Types, Downloading, Absent
  <2>3. Described'
    BY <1>3, <2>1 DEF Remove, Described, Fetched
  <2>4. QED
    BY <2>2, <2>3
<1>4. QED
  BY <1>1, <1>2, <1>3

LEMMA FetchStep == ASSUME FetchInv, [Next]_vars PROVE FetchInv'
<1>1. CASE Work
  BY <1>1, ResumeStep, RestartStep, ChunkStep, FlushStep, RenameStep, PersistStep,
     OtherStep DEF Work
<1>2. CASE Cut \/ Crash
  BY <1>2, GiveUpStep DEF Cut, Crash
<1>3. QED
  BY <1>1, <1>2, OtherStep, ByHandStep DEF Next

(***************************************************************************)
(* The metadata that fetch_planet returns are those of the planet file,    *)
(* unless the sidecar is an orphan.                                        *)
(***************************************************************************)
THEOREM PlanetDescribed == Spec => []MetadataOfPlanet
<1>1. FetchInv /\ [Next]_vars => FetchInv'
  BY FetchStep
<1>2. FetchInv => MetadataOfPlanet
  BY DEF FetchInv, Described, NoSidecar, MetadataOfPlanet, Metadata, Fetched
<1>3. QED
  BY <1>1, <1>2, FetchInit, PTL DEF Spec

(***************************************************************************)
(* Under the same condition, what stands in for a planet file that was     *)
(* deleted is the metadata of the planet that the index was built from.    *)
(***************************************************************************)
THEOREM IndexDescribed == Spec => []MetadataOfIndex
<1>1. FetchInv /\ [Next]_vars => FetchInv'
  BY FetchStep
<1>2. FetchInv => MetadataOfIndex
  BY DEF FetchInv, Described, NoSidecar, MetadataOfIndex, Fetched
<1>3. QED
  BY <1>1, <1>2, FetchInit, PTL DEF Spec

-----------------------------------------------------------------------------
(***************************************************************************)
(* Whatever releases the chunks of a download are from, it ends with the   *)
(* last chunk of one, and has as many as that: what is in the .part file,  *)
(* in the buffer and on its way always makes up one such file.             *)
(***************************************************************************)
Complete(s) == s # <<>> /\ s[Len(s)] \in Release /\ Len(s) = Size[s[Len(s)]]

Arriving == part \o buffer \o body

ChunksInv ==
    /\ part \in Seq(Release) /\ buffer \in Seq(Release) /\ body \in Seq(Release)
    /\ pc # "stream" => body = <<>>
    /\ pc = "stream" => Complete(Arriving)
    /\ pc = "rename" => Complete(part)
    /\ pbf \notin {Absent, Extract} => Complete(pbf)
    /\ \E r \in Release : Len(Arriving) <= Size[r]

LEMMA ReleaseSizes == \A r \in Release : Size[r] \in Nat \ {0}
  BY PlanetFetchAssumption, ElementOfSeq, LenProperties DEF Release

LEMMA CompleteFits ==
    ASSUME NEW s, Complete(s)
    PROVE  \E r \in Release : Len(s) <= Size[r]
<1>1. s[Len(s)] \in Release /\ Len(s) = Size[s[Len(s)]]
  BY DEF Complete
<1>2. Size[s[Len(s)]] <= Size[s[Len(s)]]
  BY <1>1, ReleaseSizes
<1>3. QED
  BY <1>1, <1>2

\* With nothing on its way, all there is is the .part file.
LEMMA NothingArrives ==
    ASSUME NEW s \in Seq(Release)
    PROVE  s \o <<>> \o <<>> = s
BY ConcatEmptySeq

\* What the server sends completes what is there.
LEMMA RestCompletes ==
    ASSUME NEW r \in Release, NEW s \in Seq(Release), Len(s) < Size[r]
    PROVE  LET rest == SubSeq(Planet(r), Len(s) + 1, Size[r])
           IN  rest \in Seq(Release) /\ Complete(s \o rest)
<1> DEFINE rest == SubSeq(Planet(r), Len(s) + 1, Size[r])
<1>1. Size[r] \in Nat \ {0} /\ Len(s) \in Nat /\ Len(s) + 1 <= Size[r]
  BY ReleaseSizes, LenProperties
<1>2. \A i \in 1 .. Size[r] : Planet(r)[i] = r
  BY DEF Planet
<1>3. \A i \in Len(s) + 1 .. Size[r] : Planet(r)[i] \in Release
  BY <1>1, <1>2
<1>4. /\ rest \in Seq(Release)
      /\ Len(rest) = Size[r] - (Len(s) + 1) + 1
      /\ \A i \in 1 .. Size[r] - (Len(s) + 1) + 1 : rest[i] = Planet(r)[Len(s) + 1 + i - 1]
  BY <1>1, <1>3, SubSeqProperties
<1> HIDE DEF rest
<1>5. Len(rest) = Size[r] - Len(s) /\ Len(rest) \in Nat /\ Len(rest) >= 1
  BY <1>1, <1>4
<1>6. rest[Len(rest)] = Planet(r)[Size[r]]
  BY <1>1, <1>4, <1>5
<1>7. /\ s \o rest \in Seq(Release)
      /\ Len(s \o rest) = Size[r]
      /\ (s \o rest)[Size[r]] = rest[Len(rest)]
  <2>1. /\ s \o rest \in Seq(Release) /\ Len(s \o rest) = Len(s) + Len(rest)
        /\ \A i \in 1 .. Len(s) + Len(rest) :
              (s \o rest)[i] = IF i <= Len(s) THEN s[i] ELSE rest[i - Len(s)]
    BY <1>4, ConcatProperties
  <2>2. Len(s) + Len(rest) = Size[r] /\ Size[r] - Len(s) = Len(rest) /\ ~(Size[r] <= Len(s))
    BY <1>1, <1>5
  <2>3. QED
    BY <1>1, <2>1, <2>2
<1>8. (s \o rest)[Len(s \o rest)] = r /\ s \o rest # <<>>
  BY <1>1, <1>2, <1>6, <1>7
<1>9. QED
  BY <1>4, <1>7, <1>8 DEF Complete, rest

LEMMA ChunksInit == Init => ChunksInv
<1> SUFFICES ASSUME Init PROVE ChunksInv
  OBVIOUS
<1>1. part = <<>> /\ buffer = <<>> /\ body = <<>> /\ pbf = Absent /\ pc = "idle"
  BY DEF Init, Absent
<1>2. <<>> \in Seq(Release) /\ Len(<<>>) = 0
  BY EmptySeq
<1>3. Arriving = <<>>
  BY <1>1, <1>2, NothingArrives DEF Arriving
<1>4. 1 \in Release /\ 0 <= Size[1]
  BY ReleaseSizes, PlanetFetchAssumption DEF Release
<1>5. QED
  BY <1>1, <1>2, <1>3, <1>4 DEF ChunksInv

\* An attempt begins: the rest is requested, or all of it.
LEMMA ChunksRequest ==
    ASSUME FetchInv, ChunksInv, Resume \/ Restart
    PROVE  ChunksInv'
<1> USE DEF FetchInv, history
<1>1. pc = "idle" /\ pbf = Absent /\ pbf' = pbf /\ pc' = "stream" /\ buffer = <<>> /\ buffer' = buffer
  BY DEF Resume, Restart, ToDownload, Downloading, disk
<1>2. part' \in Seq(Release) /\ body' \in Seq(Release) /\ Complete(part' \o body')
  <2>1. CASE Resume
    BY <2>1, RestCompletes DEF Resume, disk, ChunksInv, Types
  <2>2. CASE Restart
    <3>1. body' = Planet(release) /\ part' = <<>> /\ release \in Release
      BY <2>2 DEF Restart, Types
    <3>2. Planet(release) \in Seq(Release) /\ Len(Planet(release)) = Size[release]
      <4>1. \A i \in 1 .. Size[release] : release \in Release
        BY <3>1
      <4>2. Planet(release) \in Seq(Release)
        BY <3>1, <4>1, ReleaseSizes, IsASeq DEF Planet
      <4>3. QED
        BY <3>1, <4>2, PlanetNonEmpty
    <3>3. Complete(Planet(release))
      BY <3>1, <3>2, ReleaseSizes DEF Complete, Planet
    <3>4. QED
      BY <3>1, <3>2, <3>3, EmptySeq, ConcatEmptySeq
  <2>3. QED
    BY <2>1, <2>2
<1>3. Arriving' = part' \o body'
  BY <1>1, <1>2, ConcatEmptySeq DEF Arriving
<1>4. QED
  BY <1>1, <1>2, <1>3, CompleteFits, EmptySeq DEF ChunksInv

LEMMA HeadAndTail ==
    ASSUME NEW S, NEW s \in Seq(S), s # <<>>
    PROVE  <<Head(s)>> \o Tail(s) = s
<1> DEFINE t == <<Head(s)>> \o Tail(s)
<1>1. /\ Head(s) \in S /\ Tail(s) \in Seq(S) /\ Len(Tail(s)) = Len(s) - 1
      /\ \A i \in 1 .. Len(Tail(s)) : Tail(s)[i] = s[i + 1]
  BY HeadTailProperties
<1>2. Head(s) = s[1] /\ Len(s) \in Nat /\ Len(s) > 0
  BY LenProperties
<1>3. <<Head(s)>> \in Seq(S) /\ Len(<<Head(s)>>) = 1 /\ <<Head(s)>>[1] = Head(s)
  BY <1>1
<1>4. /\ t \in Seq(S) /\ Len(t) = 1 + Len(Tail(s))
      /\ \A i \in 1 .. 1 + Len(Tail(s)) :
            t[i] = IF i <= 1 THEN <<Head(s)>>[i] ELSE Tail(s)[i - 1]
  BY <1>1, <1>3, ConcatProperties
<1> HIDE DEF t
<1>5. Len(t) = Len(s)
  BY <1>1, <1>2, <1>4
<1>6. \A i \in 1 .. Len(t) : t[i] = s[i]
  <2> SUFFICES ASSUME NEW i \in 1 .. Len(t) PROVE t[i] = s[i]
    OBVIOUS
  <2>1. CASE i = 1
    BY <1>2, <1>3, <1>4, <1>5, <2>1
  <2>2. CASE i > 1
    <3>1. i - 1 \in 1 .. Len(Tail(s)) /\ ~(i <= 1) /\ (i - 1) + 1 = i
      BY <1>1, <1>2, <1>5, <2>2
    <3>2. QED
      BY <1>1, <1>4, <1>5, <3>1
  <2>3. QED
    BY <1>2, <1>5, <2>1, <2>2
<1>7. t = s
  BY <1>4, <1>5, <1>6, SeqEqual
<1>8. QED
  BY <1>7 DEF t

\* A chunk goes from the connection to the buffer, another one to the file.
LEMMA ChunksArrive ==
    ASSUME FetchInv, ChunksInv, Chunk
    PROVE  ChunksInv'
<1>1. /\ body # <<>> /\ part' = part \o buffer /\ buffer' = <<Head(body)>> /\ body' = Tail(body)
      /\ pbf' = pbf /\ pc' = pc /\ pc = "stream"
      /\ part \in Seq(Release) /\ buffer \in Seq(Release) /\ body \in Seq(Release)
  BY DEF Chunk, ChunksInv
<1>2. Head(body) \in Release /\ Tail(body) \in Seq(Release)
  BY <1>1, HeadTailProperties
<1>3. part \o buffer \in Seq(Release) /\ <<Head(body)>> \in Seq(Release)
  BY <1>1, <1>2, ConcatProperties
<1>4. <<Head(body)>> \o Tail(body) = body
  BY <1>1, HeadAndTail
<1>5. Arriving' = Arriving
  <2>1. Arriving' = (part \o buffer) \o <<Head(body)>> \o Tail(body)
    BY <1>1 DEF Arriving
  <2>2. ((part \o buffer) \o <<Head(body)>>) \o Tail(body)
           = (part \o buffer) \o (<<Head(body)>> \o Tail(body))
    BY <1>2, <1>3, ConcatAssociative
  <2>3. QED
    BY <1>4, <2>1, <2>2 DEF Arriving
<1>6. QED
  BY <1>1, <1>2, <1>3, <1>5 DEF ChunksInv

\* The last chunk is written, and the file renamed into place.
LEMMA ChunksEnd ==
    ASSUME FetchInv, ChunksInv, Flush \/ Rename
    PROVE  ChunksInv'
<1> USE DEF FetchInv
<1>1. CASE Flush
  <2>1. /\ body = <<>> /\ body' = <<>> /\ part' = part \o buffer /\ buffer' = <<>> /\ pbf' = pbf
        /\ pc = "stream" /\ pc' = "rename" /\ part \o buffer \in Seq(Release)
    BY <1>1, ConcatProperties DEF Flush, ChunksInv
  <2>2. Arriving = part \o buffer /\ Arriving' = part \o buffer
    BY <2>1, ConcatEmptySeq, NothingArrives DEF Arriving
  <2>3. QED
    BY <2>1, <2>2, EmptySeq DEF ChunksInv
<1>2. CASE Rename
  <2>1. /\ buffer = <<>> /\ buffer' = <<>> /\ body = <<>> /\ body' = <<>>
        /\ part' = <<>> /\ pbf' = part
        /\ pc = "rename" /\ pc' = "persist" /\ Complete(part)
    BY <1>2 DEF Rename, ChunksInv, Downloading, Absent
  <2>2. Arriving' = <<>> /\ Len(<<>>) = 0
    BY <2>1, EmptySeq, NothingArrives DEF Arriving
  <2>3. \E r \in Release : 0 <= Size[r]
    BY PlanetFetchAssumption, ReleaseSizes DEF Release
  <2>4. QED
    BY <2>1, <2>2, <2>3, EmptySeq DEF ChunksInv
<1>3. QED
  BY <1>1, <1>2

\* What an attempt that ends early leaves is not longer than what was to come.
LEMMA ChunksGiveUp ==
    ASSUME FetchInv, ChunksInv, GiveUp
    PROVE  ChunksInv'
<1>1. /\ part \in Seq(Release) /\ buffer \in Seq(Release) /\ body \in Seq(Release)
      /\ body' = <<>> /\ buffer' = <<>> /\ pbf' = pbf /\ pc' = "idle"
      /\ part' \in {part, part \o buffer}
  BY DEF GiveUp, ChunksInv
<1>2. /\ part \o buffer \in Seq(Release) /\ Len(part \o buffer) = Len(part) + Len(buffer)
      /\ Len(Arriving) = Len(part \o buffer) + Len(body)
      /\ Len(part) \in Nat /\ Len(buffer) \in Nat /\ Len(body) \in Nat
  BY <1>1, ConcatProperties, LenProperties DEF Arriving
<1>3. part' \in Seq(Release) /\ Len(part') <= Len(Arriving)
  <2> DEFINE all == Len(Arriving)
             s == part \o buffer
  <2>1. s \in Seq(Release) /\ Len(s) <= all /\ Len(part) <= all
    BY <1>2
  <2>2. part' = part \/ part' = s
    BY <1>1
  <2> HIDE DEF all, s
  <2>3. part' \in Seq(Release) /\ Len(part') <= all
    BY <1>1, <2>1, <2>2
  <2> QED
    BY <2>3 DEF all
<1>4. Arriving' = part'
  BY <1>1, <1>3, NothingArrives DEF Arriving
<1>5. PICK r \in Release : Len(Arriving) <= Size[r]
  BY DEF ChunksInv
<1>6. Len(part') <= Size[r]
  BY <1>2, <1>3, <1>5, ReleaseSizes
<1>7. QED
  BY <1>1, <1>3, <1>4, <1>6, EmptySeq DEF ChunksInv

LEMMA ChunksStep ==
    ASSUME FetchInv, ChunksInv, [Next]_vars
    PROVE  ChunksInv'
<1>1. CASE Cut \/ Crash
  BY <1>1, ChunksGiveUp DEF Cut, Crash
<1>2. ASSUME UNCHANGED <<part, buffer, body>>, pbf' \in {pbf, Absent, Extract},
             pc' # "rename", pc' = "stream" => pc = "stream", pc = "stream" => pc' = "stream"
      PROVE  ChunksInv'
  BY <1>2 DEF ChunksInv, Arriving
<1>3. CASE Free \/ Remove \/ Drop
  BY <1>2, <1>3 DEF Free, Remove, Drop, Meddle
<1>4. CASE ReusePlanet \/ HashPlanet \/ ReuseIndex \/ Refused \/ EndRefused \/ Persist \/ Import
  BY <1>2, <1>4 DEF ReusePlanet, HashPlanet, ReuseIndex, Refused, EndRefused, Persist, Import,
     Return, ToDownload, disk
<1>5. CASE Publish \/ UNCHANGED vars
  BY <1>5 DEF Publish, vars, disk, ChunksInv, Arriving
<1>6. QED
  BY <1>1, <1>3, <1>4, <1>5, ChunksRequest, ChunksArrive, ChunksEnd DEF Next, Work

(***************************************************************************)
(* Every variable has its type; a planet file, whatever mixture of releases*)
(* it may be, ends with the last chunk of one and is as long as that; and  *)
(* a .part file never grows beyond all releases.                           *)
(***************************************************************************)
THEOREM PlanetTypeCorrect == Spec => []TypeOK
<1>1. FetchInv /\ ChunksInv /\ [Next]_vars => FetchInv' /\ ChunksInv'
  BY FetchStep, ChunksStep
<1>2. FetchInv /\ ChunksInv => TypeOK
  BY DEF FetchInv, Types, Downloading, Described, ChunksInv, Complete, Arriving, TypeOK, Absent
<1>3. QED
  BY <1>1, <1>2, FetchInit, ChunksInit, PTL DEF Spec
=============================================================================
