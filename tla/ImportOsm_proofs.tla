-------------------------- MODULE ImportOsm_proofs ---------------------------
(***************************************************************************)
(* Proofs about MemoStages, for every graph of stages that satisfies       *)
(* StagesAssumption and every bound; and about ImportOsm, which has these  *)
(* stages, for every graph that satisfies GraphAssumption, too.            *)
(***************************************************************************)
EXTENDS ImportOsm, TLAPS

Running == pc \in {"check", "build", "built"}

(***************************************************************************)
(* The inductive invariant.  The times of the files tell the order in      *)
(* which they were written: nothing is newer than the clock, and while a   *)
(* stage is built only what it has published already bears the time now.   *)
(***************************************************************************)
TimesOK ==
    /\ \A f \in File : disk[f].at <= clock
    /\ pc = "build" =>
         /\ clock > 0
         /\ pending \subseteq Out[stage]
         /\ \A f \in File : f \notin Out[stage] \ pending => disk[f].at < clock

\* A stage that compares the times of all it reads can trust the comparison.
Derivation ==
    \A s \in Stage : Timed[s] = In[s] =>
        \A o \in Out[s] :
            /\ Exists(o)
            /\ \A i \in In[s] : Exists(i) /\ disk[o].at >= disk[i].at
            => disk[o].from = UNION {disk[i].from : i \in In[s]}

\* The run has a source, and the stages behind it have all their outputs.
BehindExist ==
    /\ Exists(Source) => disk[Source].from # {}
    /\ Running =>
         /\ Exists(Source)
         /\ \A s \in 1 .. (stage - 1) : \A o \in Out[s] : Exists(o)

\* What the stage at hand has published derives from its inputs.
PublishedOK ==
    pc = "build" /\ ~failed =>
        \A o \in Out[stage] \ pending :
            /\ Exists(o)
            /\ disk[o].from = UNION {disk[i].from : i \in In[stage]}

MemoInv ==
    MemoTypeOK /\ TimesOK /\ Derivation /\ BehindExist /\ PublishedOK /\ StagesFresh

-----------------------------------------------------------------------------
\* An input of a stage is the source or lies behind the stage.
LEMMA InputsBehind ==
    ASSUME NEW s \in Stage, NEW i \in In[s]
    PROVE  /\ i \in File
           /\ i \notin Out[s]
           /\ i = Source \/ \E t \in 1 .. (s - 1) : t \in Stage /\ i \in Out[t]
<1>1. i = Source \/ \E t \in 1 .. (s - 1) : i \in Out[t]
  BY StagesAssumption
<1>2. \A t \in 1 .. (s - 1) : t \in Stage /\ t # s
  BY StagesAssumption DEF Stage
<1>3. i \in File
  BY StagesAssumption
<1>4. i \notin Out[s]
  BY <1>1, <1>2, StagesAssumption
<1>5. QED
  BY <1>1, <1>2, <1>3, <1>4

LEMMA OutputsAreFiles ==
    ASSUME NEW s \in Stage, NEW o \in Out[s]
    PROVE  o \in File /\ o # Source
BY StagesAssumption

LEMMA StageBefore ==
    ASSUME NEW k \in 1 .. (NumStages + 1), NEW s \in 1 .. (k - 1)
    PROVE  s \in Stage
BY StagesAssumption DEF Stage

-----------------------------------------------------------------------------
\* The content a writer publishes is a content.
LEMMA DerivedType ==
    ASSUME MemoTypeOK, stage \in Stage
    PROVE  Derived(stage) \in Content
<1>1. In[stage] \subseteq File
  BY StagesAssumption
<1>2. \A i \in In[stage] : disk[i].from \subseteq Nat
  BY <1>1 DEF MemoTypeOK, Content
<1>3. UNION {disk[i].from : i \in In[stage]} \subseteq Nat
  BY <1>2
<1>4. QED
  BY <1>3 DEF Derived, Content, MemoTypeOK

\* Stage numbers stay in range when the run goes to the next stage.
LEMMA AdvanceType ==
    ASSUME stage \in Stage, Advance
    PROVE  /\ stage' \in 1 .. (NumStages + 1)
           /\ pc' \in {"check", "built"}
           /\ pc' = "check" => stage' \in Stage
           /\ pc' = "built" => stage' = NumStages + 1
BY StagesAssumption DEF Advance, Stage

LEMMA FaultType ==
    ASSUME MemoTypeOK, NEW kind, Fault(kind)
    PROVE  faults' \in [FaultKind -> Nat]
<1>1. faults \in [FaultKind -> Nat] /\ faults' = [faults EXCEPT ![kind] = @ + 1]
  BY DEF Fault, MemoTypeOK
<1>2. \A k \in FaultKind : faults[k] \in Nat /\ faults[k] + 1 \in Nat
  BY <1>1
<1>3. QED
  BY <1>1, <1>2

(***************************************************************************)
(* Type correctness.                                                       *)
(***************************************************************************)
LEMMA TypeInit == MemoInit => MemoTypeOK
<1>1. NoFile \in Content
  BY DEF NoFile, Content
<1>2. 1 \in 1 .. (NumStages + 1)
  BY StagesAssumption
<1>3. ASSUME MemoInit PROVE MemoTypeOK
  <2>1. disk \in [File -> Content]
    BY <1>1, <1>3 DEF MemoInit
  <2>2. pending \subseteq File
    BY <1>3 DEF MemoInit
  <2>3. faults \in [FaultKind -> Nat]
    BY <1>3 DEF MemoInit, NoFaults
  <2>4. QED
    BY <1>2, <1>3, <2>1, <2>2, <2>3 DEF MemoInit, MemoTypeOK
<1>4. QED
  BY <1>3

LEMMA TypeStep == MemoTypeOK /\ [MemoNext]_memoVars => MemoTypeOK'
<1> SUFFICES ASSUME MemoTypeOK, [MemoNext]_memoVars
             PROVE  MemoTypeOK'
  OBVIOUS
<1>1. CASE InstallSource
  <2>1. [from |-> {clock + 1}, whole |-> TRUE, at |-> clock + 1] \in Content
    BY DEF MemoTypeOK, Content
  <2>2. disk' \in [File -> Content]
    BY <1>1, <2>1, Zenon DEF InstallSource, PutSource, MemoTypeOK
  <2>3. clock' \in Nat /\ installs' \in Nat
    BY <1>1 DEF InstallSource, PutSource, MemoTypeOK
  <2>4. QED
    BY <1>1, <2>2, <2>3 DEF InstallSource, PutSource, runVars, MemoTypeOK
<1>2. CASE Begin
  BY <1>2, StagesAssumption DEF Begin, countVars, MemoTypeOK, Stage
<1>3. CASE Reuse
  BY <1>3, AdvanceType DEF Reuse, countVars, MemoTypeOK
<1>4. CASE Build
  <2>1. stage \in Stage
    BY <1>4 DEF Build, MemoTypeOK
  <2>2. pending' \subseteq File
    BY <1>4, <2>1, StagesAssumption DEF Build
  <2>3. clock' \in Nat
    BY <1>4 DEF Build, MemoTypeOK
  <2>4. QED
    BY <1>4, <2>1, <2>2, <2>3 DEF Build, countVars, MemoTypeOK
<1>5. CASE EndStream \/ Cut
  BY <1>5 DEF EndStream, Cut, countVars, MemoTypeOK
<1>6. CASE ReadFault
  BY <1>6, FaultType DEF ReadFault, MemoTypeOK
<1>7. ASSUME NEW f \in File, WriteFault(f)
      PROVE  MemoTypeOK'
  <2>1. faults' \in [FaultKind -> Nat]
    BY <1>7, FaultType DEF WriteFault
  <2>2. QED
    BY <1>7, <2>1 DEF WriteFault, MemoTypeOK
<1>8. ASSUME NEW f \in File, Publish(f)
      PROVE  MemoTypeOK'
  <2>1. stage \in Stage
    BY <1>8 DEF Publish, MemoTypeOK
  <2>2. Derived(stage) \in Content
    BY <2>1, DerivedType
  <2>3. QED
    BY <1>8, <2>2 DEF Publish, countVars, MemoTypeOK
<1>9. CASE StageOk
  BY <1>9, AdvanceType DEF StageOk, countVars, MemoTypeOK
<1>10. CASE StageError
  BY <1>10 DEF StageError, countVars, MemoTypeOK
<1>11. CASE Crash
  <2>1. pending' \subseteq File /\ faults' \in [FaultKind -> Nat]
    BY <1>11, FaultType DEF Crash
  <2>2. QED
    BY <1>11, <2>1 DEF Crash, MemoTypeOK
<1>12. CASE Finish
  BY <1>12 DEF Finish, countVars, MemoTypeOK
<1>13. CASE UNCHANGED memoVars
  BY <1>13 DEF memoVars, runVars, countVars, MemoTypeOK
<1>14. QED
  BY <1>1, <1>2, <1>3, <1>4, <1>5, <1>6, <1>7, <1>8, <1>9, <1>10, <1>11,
     <1>12, <1>13
     DEF MemoNext, StageNext, Threads

(***************************************************************************)
(* Every state of every run is well typed: a run never gets past its last  *)
(* stage and a stage never holds what is not a file of the directory.      *)
(***************************************************************************)
THEOREM TypeCorrect == MemoSpec => []MemoTypeOK
<1>1. QED
  BY TypeInit, TypeStep, PTL DEF MemoSpec

-----------------------------------------------------------------------------
\* Only two actions write to the directory.
LEMMA DiskWriters ==
    ASSUME [MemoNext]_memoVars, ~InstallSource, \A f \in File : ~Publish(f)
    PROVE  disk' = disk
BY DEF MemoNext, StageNext, Threads, Begin, Reuse, Build, EndStream, Cut, ReadFault,
       WriteFault, StageOk, StageError, Crash, Finish, memoVars

\* What the two write, and that they leave every other file alone.
LEMMA InstallEffect ==
    ASSUME MemoTypeOK, InstallSource
    PROVE  /\ clock' = clock + 1
           /\ disk'[Source] = [from |-> {clock + 1}, whole |-> TRUE, at |-> clock + 1]
           /\ \A f \in File \ {Source} : disk'[f] = disk[f]
           /\ pc' = "idle"
<1>1. Source \in File
  BY StagesAssumption
<1>2. QED
  BY <1>1 DEF InstallSource, PutSource, runVars, MemoTypeOK

LEMMA PublishEffect ==
    ASSUME MemoTypeOK, NEW f \in File, Publish(f)
    PROVE  /\ disk'[f] = Derived(stage)
           /\ \A g \in File \ {f} : disk'[g] = disk[g]
           /\ pc = "build" /\ pc' = "build" /\ stage' = stage /\ stage \in Stage
           /\ clock' = clock /\ failed' = failed
           /\ f \in pending /\ pending' = pending \ {f}
BY DEF Publish, MemoTypeOK

\* A file that is newer than no other is older than what is written now.
LEMMA TimesStep ==
    ASSUME MemoTypeOK, TimesOK, [MemoNext]_memoVars
    PROVE  TimesOK'
<1> USE DEF TimesOK
<1>1. CASE InstallSource
  <2>1. \A f \in File : disk[f].at \in Nat
    BY DEF MemoTypeOK, Content
  <2>2. \A f \in File : disk'[f].at <= clock'
    BY <1>1, <2>1, InstallEffect DEF MemoTypeOK
  <2>3. pc' = "idle"
    BY <1>1, InstallEffect
  <2>4. QED
    BY <2>2, <2>3
<1>2. ASSUME NEW f \in File, Publish(f)
      PROVE  TimesOK'
  <2>1. Derived(stage).at = clock
    BY DEF Derived
  <2>2. QED
    BY <1>2, <2>1, PublishEffect DEF MemoTypeOK
<1>3. CASE Build
  <2>1. \A f \in File : disk[f].at \in Nat
    BY DEF MemoTypeOK, Content
  <2>2. clock' = clock + 1 /\ disk' = disk /\ stage' = stage /\ pending' = Out[stage]
    BY <1>3 DEF Build
  <2>3. QED
    BY <2>1, <2>2 DEF MemoTypeOK
<1>4. ASSUME NEW f \in File, WriteFault(f)
      PROVE  TimesOK'
  BY <1>4 DEF WriteFault
<1>5. CASE \/ Begin \/ Reuse \/ EndStream \/ Cut \/ ReadFault \/ StageOk \/ StageError
           \/ Crash \/ Finish \/ UNCHANGED memoVars
  BY <1>5 DEF Begin, Reuse, EndStream, Cut, ReadFault, StageOk, StageError, Crash,
              Finish, Advance, memoVars, runVars
<1>6. QED
  BY <1>1, <1>2, <1>3, <1>4, <1>5 DEF MemoNext, StageNext, Threads

\* A file that exists before a step exists after it.
LEMMA NothingVanishes ==
    ASSUME MemoTypeOK, TimesOK, [MemoNext]_memoVars, NEW f \in File, Exists(f)
    PROVE  Exists(f)'
<1> USE DEF Exists
<1>1. CASE InstallSource
  <2>1. NoFile.at = 0 /\ clock + 1 # 0
    BY DEF NoFile, MemoTypeOK
  <2>2. disk'[Source].at = clock + 1
    BY <1>1, InstallEffect
  <2>3. QED
    BY <1>1, <2>1, <2>2, InstallEffect
<1>2. ASSUME NEW g \in File, Publish(g)
      PROVE  Exists(f)'
  <2>1. Derived(stage).at = clock /\ clock > 0 /\ NoFile.at = 0
    BY <1>2, PublishEffect DEF Derived, TimesOK, NoFile
  <2>2. Derived(stage) # NoFile
    BY <2>1 DEF MemoTypeOK
  <2>3. QED
    BY <1>2, <2>2, PublishEffect
<1>3. QED
  BY <1>1, <1>2, DiskWriters

\* Writing a file does not make a stale output look up to date.
LEMMA DerivationStep ==
    ASSUME MemoTypeOK, TimesOK, Derivation, [MemoNext]_memoVars
    PROVE  Derivation'
<1> SUFFICES ASSUME NEW s \in Stage, Timed[s] = In[s], NEW o \in Out[s],
                    Exists(o)',
                    \A i \in In[s] : Exists(i)' /\ disk'[o].at >= disk'[i].at
             PROVE  disk'[o].from = UNION {disk'[i].from : i \in In[s]}
  BY DEF Derivation
<1> o \in File /\ o # Source
  BY OutputsAreFiles
<1> \A i \in In[s] : i \in File /\ i \notin Out[s]
  BY InputsBehind
<1> \A f \in File : disk[f].at \in Nat
  BY DEF MemoTypeOK, Content
<1> \A f \in File : disk[f].at <= clock
  BY DEF TimesOK
<1>1. CASE InstallSource
  <2>1. disk'[o] = disk[o]
    BY <1>1, InstallEffect
  <2>2. Source \notin In[s]
    BY <1>1, <2>1, InstallEffect DEF MemoTypeOK
  <2>3. \A i \in In[s] : disk'[i] = disk[i]
    BY <1>1, <2>2, InstallEffect
  <2>4. QED
    BY <2>1, <2>3 DEF Derivation, Exists
<1>2. ASSUME NEW f \in File, Publish(f)
      PROVE  disk'[o].from = UNION {disk'[i].from : i \in In[s]}
  <2>0. stage \in Stage /\ f \in Out[stage]
    BY <1>2, PublishEffect DEF TimesOK
  <2>1. CASE s = stage
    <3>1. \A i \in In[s] : disk'[i] = disk[i]
      BY <1>2, <2>0, <2>1, PublishEffect
    <3>2. CASE o = f
      <4>1. Derived(s).from = UNION {disk[i].from : i \in In[s]}
        BY DEF Derived
      <4>2. disk'[o].from = UNION {disk[i].from : i \in In[s]}
        BY <1>2, <2>1, <3>2, <4>1, PublishEffect
      <4>3. {disk[i].from : i \in In[s]} = {disk'[i].from : i \in In[s]}
        BY <3>1
      <4>4. QED
        BY <4>2, <4>3
    <3>3. CASE o # f
      <4>1. disk'[o] = disk[o]
        BY <1>2, <3>3, PublishEffect
      <4>2. QED
        BY <3>1, <4>1 DEF Derivation, Exists
    <3>4. QED
      BY <3>2, <3>3
  <2>2. CASE s # stage
    <3>1. o \notin Out[stage]
      BY <2>0, <2>2, StagesAssumption
    <3>2. disk'[o] = disk[o] /\ disk[o].at < clock
      BY <1>2, <2>0, <3>1, PublishEffect DEF TimesOK
    <3>3. disk'[f].at = clock
      <4>1. Derived(stage).at = clock
        BY DEF Derived
      <4>2. QED
        BY <1>2, <4>1, PublishEffect
    <3>4. f \notin In[s]
      BY <3>2, <3>3 DEF MemoTypeOK
    <3>5. \A i \in In[s] : disk'[i] = disk[i]
      BY <1>2, <3>4, PublishEffect
    <3>6. QED
      BY <3>2, <3>5 DEF Derivation, Exists
  <2>3. QED
    BY <2>1, <2>2
<1>3. CASE disk' = disk
  BY <1>3 DEF Derivation, Exists
<1>4. QED
  BY <1>1, <1>2, <1>3, DiskWriters

\* Reusing or finishing a stage leaves none of its outputs missing.
LEMMA BehindStep ==
    ASSUME MemoTypeOK, TimesOK, BehindExist, PublishedOK, [MemoNext]_memoVars
    PROVE  BehindExist'
<1>1. (Exists(Source) => disk[Source].from # {})'
  <2>1. Source \in File
    BY StagesAssumption
  <2>2. CASE InstallSource
    BY <2>2, InstallEffect
  <2>3. ASSUME NEW f \in File, Publish(f)
        PROVE  disk'[Source] = disk[Source]
    <3>1. f # Source
      BY <2>3, PublishEffect, OutputsAreFiles DEF TimesOK
    <3>2. QED
      BY <2>1, <2>3, <3>1, PublishEffect
  <2>4. CASE disk'[Source] = disk[Source]
    BY <2>4 DEF BehindExist, Exists
  <2>5. QED
    BY <2>2, <2>3, <2>4, DiskWriters
<1>2. ASSUME Running'
      PROVE  Exists(Source)' /\ \A s \in 1 .. (stage' - 1) : \A o \in Out[s] : Exists(o)'
  <2>0. Source \in File /\ \A s \in Stage : Out[s] \subseteq File
    BY StagesAssumption
  <2>1. CASE Begin
    <3>1. Exists(Source) /\ disk' = disk /\ stage' = 1
      BY <2>1 DEF Begin
    <3>2. QED
      BY <3>1 DEF Exists
  <2>2. CASE Reuse \/ StageOk
    <3>1. stage \in Stage /\ stage' = stage + 1 /\ disk' = disk /\ Running
      BY <2>2 DEF Reuse, StageOk, Advance, MemoTypeOK, Running
    <3>2. \A o \in Out[stage] : Exists(o)
      <4>1. CASE Reuse
        BY <4>1 DEF Reuse, UpToDate
      <4>2. CASE StageOk
        BY <4>2 DEF StageOk, PublishedOK
      <4>3. QED
        BY <2>2, <4>1, <4>2
    <3>3. \A s \in 1 .. (stage' - 1) : s = stage \/ s \in 1 .. (stage - 1)
      BY <3>1 DEF Stage
    <3>4. QED
      BY <3>1, <3>2, <3>3 DEF BehindExist, Exists
  <2>3. CASE \/ Build \/ EndStream \/ Cut \/ ReadFault
             \/ \E f \in File : WriteFault(f) \/ Publish(f)
             \/ UNCHANGED memoVars
    <3>1. Running /\ stage' = stage
      BY <1>2, <2>3 DEF Build, EndStream, Cut, ReadFault, WriteFault, Publish, memoVars,
                        runVars, Running
    <3>2. \A s \in 1 .. (stage - 1) : s \in Stage
      BY StageBefore DEF MemoTypeOK
    <3>3. QED
      BY <2>0, <3>1, <3>2, NothingVanishes DEF BehindExist
  <2>4. CASE InstallSource \/ StageError \/ Crash \/ Finish
    BY <1>2, <2>4, InstallEffect DEF StageError, Crash, Finish, Running
  <2>5. QED
    BY <2>1, <2>2, <2>3, <2>4 DEF MemoNext, StageNext, Threads
<1>3. QED
  BY <1>1, <1>2 DEF BehindExist

\* What a writer publishes derives from the inputs, and they stay as they are.
LEMMA PublishedStep ==
    ASSUME MemoTypeOK, TimesOK, PublishedOK, [MemoNext]_memoVars
    PROVE  PublishedOK'
<1> SUFFICES ASSUME pc' = "build", ~failed', NEW o \in Out[stage'] \ pending'
             PROVE  /\ Exists(o)'
                    /\ disk'[o].from = UNION {disk'[i].from : i \in In[stage']}
  BY DEF PublishedOK
<1>1. ASSUME NEW f \in File, Publish(f)
      PROVE  /\ Exists(o)'
             /\ disk'[o].from = UNION {disk'[i].from : i \in In[stage']}
  <2>1. stage \in Stage /\ f \in Out[stage] /\ o \in Out[stage] /\ ~failed
    BY <1>1, PublishEffect DEF TimesOK
  <2>2. \A i \in In[stage] : i \in File /\ i # f /\ i # o
    BY <2>1, InputsBehind
  <2>3. \A i \in In[stage] : disk'[i] = disk[i]
    BY <1>1, <2>2, PublishEffect
  <2>4. {disk'[i].from : i \in In[stage']} = {disk[i].from : i \in In[stage]}
    BY <1>1, <2>3, PublishEffect
  <2>5. CASE o = f
    <3>1. Derived(stage).from = UNION {disk[i].from : i \in In[stage]}
      BY DEF Derived
    <3>2. Derived(stage).at = clock /\ NoFile.at = 0
      BY DEF Derived, NoFile
    <3>3. clock # 0
      BY <1>1, PublishEffect DEF TimesOK
    <3>4. disk'[o] = Derived(stage)
      BY <1>1, <2>5, PublishEffect
    <3>5. QED
      BY <2>4, <3>1, <3>2, <3>3, <3>4 DEF Exists
  <2>6. CASE o # f
    <3>1. o \in File
      BY <2>1, OutputsAreFiles
    <3>2. disk'[o] = disk[o] /\ o \notin pending /\ pc = "build"
      BY <1>1, <2>6, <3>1, PublishEffect
    <3>3. QED
      BY <2>1, <2>4, <3>2 DEF PublishedOK, Exists
  <2>7. QED
    BY <2>5, <2>6
<1>2. CASE EndStream \/ Cut \/ UNCHANGED memoVars
  BY <1>2 DEF EndStream, Cut, memoVars, runVars, PublishedOK, Exists
<1>3. CASE Build
  BY <1>3 DEF Build
<1>4. CASE \/ InstallSource \/ Begin \/ Reuse \/ StageOk \/ StageError \/ Crash \/ Finish
  BY <1>4, InstallEffect DEF Begin, Reuse, StageOk, StageError, Crash, Finish, Advance
<1>5. CASE ReadFault \/ \E f \in File : WriteFault(f)
  BY <1>5 DEF ReadFault, WriteFault
<1>6. QED
  BY <1>1, <1>2, <1>3, <1>4, <1>5 DEF MemoNext, StageNext, Threads

\* The inputs of a diligent stage all derive from the source.
LEMMA InputsFresh ==
    ASSUME MemoTypeOK, BehindExist, StagesFresh, Running, stage \in Stage, Diligent(stage)
    PROVE  /\ \A i \in In[stage] : Exists(i)
           /\ UNION {disk[i].from : i \in In[stage]} = disk[Source].from
<1>1. \A t \in 1 .. (stage - 1) : Diligent(t)
  BY DEF Diligent, Stage
<1>2. ASSUME NEW i \in In[stage]
      PROVE  Exists(i) /\ disk[i].from = disk[Source].from
  <2>1. CASE i = Source
    BY <2>1 DEF BehindExist
  <2>2. ASSUME NEW t \in 1 .. (stage - 1), i \in Out[t]
        PROVE  Exists(i) /\ disk[i].from = disk[Source].from
    BY <1>1, <2>2 DEF BehindExist, StagesFresh, Running
  <2>3. QED
    BY <2>1, <2>2, InputsBehind
<1>3. In[stage] # {}
  BY StagesAssumption
<1>4. QED
  BY <1>2, <1>3

\* Past a stage means fresh, however the run got past it.
LEMMA FreshStep ==
    ASSUME MemoInv, [MemoNext]_memoVars
    PROVE  StagesFresh'
<1> USE DEF MemoInv
<1> SUFFICES ASSUME Running', NEW s \in 1 .. (stage' - 1), Diligent(s), NEW o \in Out[s]
             PROVE  disk'[o].from = disk'[Source].from
  BY DEF StagesFresh, Running, Diligent
<1>1. CASE Reuse \/ StageOk
  <2>1. stage \in Stage /\ stage' = stage + 1 /\ disk' = disk /\ Running
    BY <1>1 DEF Reuse, StageOk, Advance, MemoTypeOK, Running
  <2>2. CASE s = stage
    <3>1. /\ \A i \in In[stage] : Exists(i)
          /\ UNION {disk[i].from : i \in In[stage]} = disk[Source].from
      BY <2>1, <2>2, InputsFresh
    <3>2. Timed[stage] = In[stage]
      BY <2>1, <2>2 DEF Diligent, Stage
    <3>3. disk[o].from = UNION {disk[i].from : i \in In[stage]}
      <4>1. CASE Reuse
        BY <2>1, <2>2, <3>1, <3>2, <4>1 DEF Reuse, UpToDate, Derivation
      <4>2. CASE StageOk
        BY <2>2, <4>2 DEF StageOk, PublishedOK
      <4>3. QED
        BY <1>1, <4>1, <4>2
    <3>4. QED
      BY <2>1, <3>1, <3>3
  <2>3. CASE s # stage
    <3>1. s \in 1 .. (stage - 1)
      BY <2>1, <2>3 DEF Stage
    <3>2. QED
      BY <2>1, <3>1 DEF StagesFresh, Running
  <2>4. QED
    BY <2>2, <2>3
<1>2. ASSUME NEW f \in File, Publish(f)
      PROVE  disk'[o].from = disk'[Source].from
  <2>1. stage \in Stage /\ stage' = stage /\ f \in Out[stage] /\ Running
    BY <1>2, PublishEffect DEF TimesOK, Running
  <2>2. s \in Stage /\ s # stage
    BY <2>1, StageBefore DEF Stage, MemoTypeOK
  <2>3. o \in File /\ o # f /\ f # Source /\ Source \in File
    BY <2>1, <2>2, StagesAssumption
  <2>4. disk'[o] = disk[o] /\ disk'[Source] = disk[Source]
    BY <1>2, <2>3, PublishEffect
  <2>5. QED
    BY <2>1, <2>4 DEF StagesFresh, Running
<1>3. CASE \/ Build \/ EndStream \/ Cut \/ ReadFault \/ \E f \in File : WriteFault(f)
           \/ UNCHANGED memoVars
  BY <1>3 DEF Build, EndStream, Cut, ReadFault, WriteFault, memoVars, runVars,
              StagesFresh, Running
<1>4. CASE \/ InstallSource \/ StageError \/ Crash \/ Finish
  BY <1>4, InstallEffect DEF StageError, Crash, Finish, Running
<1>5. CASE Begin
  BY <1>5 DEF Begin
<1>6. QED
  BY <1>1, <1>2, <1>3, <1>4, <1>5 DEF MemoNext, StageNext, Threads

LEMMA InvInit == MemoInit => MemoInv
<1> SUFFICES ASSUME MemoInit PROVE MemoInv
  OBVIOUS
<1> USE DEF MemoInit
<1>1. MemoTypeOK
  BY TypeInit
<1>2. \A f \in File : disk[f] = NoFile
  OBVIOUS
<1>3. TimesOK
  BY <1>2 DEF TimesOK, NoFile
<1>4. Derivation
  BY <1>2, StagesAssumption DEF Derivation, Exists
<1>5. BehindExist
  BY <1>2, StagesAssumption DEF BehindExist, Exists, Running
<1>6. PublishedOK /\ StagesFresh
  BY DEF PublishedOK, StagesFresh
<1>7. QED
  BY <1>1, <1>3, <1>4, <1>5, <1>6 DEF MemoInv

LEMMA InvStep == MemoInv /\ [MemoNext]_memoVars => MemoInv'
<1> SUFFICES ASSUME MemoInv, [MemoNext]_memoVars PROVE MemoInv'
  OBVIOUS
<1>1. MemoTypeOK'
  BY TypeStep DEF MemoInv
<1>2. TimesOK' /\ Derivation' /\ BehindExist' /\ PublishedOK'
  BY TimesStep, DerivationStep, BehindStep, PublishedStep DEF MemoInv
<1>3. StagesFresh'
  BY FreshStep
<1>4. QED
  BY <1>1, <1>2, <1>3 DEF MemoInv

(***************************************************************************)
(* Comparing modification times suffices.  In any graph of stages, after   *)
(* any history of crashes, read errors, write errors, restarts and new     *)
(* versions of the source between runs, a run that is past a stage holds   *)
(* outputs of that stage that derive from the present source alone --      *)
(* provided that this stage and all before it compare the times of all     *)
(* they read.                                                              *)
(***************************************************************************)
THEOREM MemoFresh == MemoSpec => []StagesFresh
<1>1. MemoInv => StagesFresh
  BY DEF MemoInv
<1>2. QED
  BY <1>1, InvInit, InvStep, PTL DEF MemoSpec

-----------------------------------------------------------------------------
\* Until there is an error no stream is cut, so every writer sees all of it.
WholeInv == NoError => stream # "cut" /\ ~failed /\ NoPartialFile

LEMMA InputsExist ==
    ASSUME BehindExist, Running, stage \in Stage, NEW i \in In[stage]
    PROVE  Exists(i)
BY InputsBehind DEF BehindExist

LEMMA NoErrorBefore ==
    ASSUME MemoTypeOK, [MemoNext]_memoVars, NoError'
    PROVE  NoError
<1> USE DEF NoError
<1>1. CASE ReadFault \/ Crash \/ \E f \in File : WriteFault(f)
  BY <1>1 DEF ReadFault, Crash, WriteFault, Fault, MemoTypeOK, FaultKind
<1>2. CASE UNCHANGED faults
  BY <1>2
<1>3. QED
  BY <1>1, <1>2 DEF MemoNext, StageNext, Threads, InstallSource, PutSource, Begin, Reuse,
        Build, EndStream, Cut, Publish, StageOk, StageError, Finish, memoVars, countVars

LEMMA WholeStep ==
    ASSUME MemoInv, WholeInv, [MemoNext]_memoVars
    PROVE  WholeInv'
<1> SUFFICES ASSUME NoError'
             PROVE  stream' # "cut" /\ ~failed' /\ NoPartialFile'
  BY DEF WholeInv
<1>0. NoError /\ stream # "cut" /\ ~failed /\ NoPartialFile
  BY NoErrorBefore DEF MemoInv, WholeInv
<1> USE <1>0 DEF MemoInv
<1>1. CASE InstallSource
  <2>1. stream' = stream /\ failed' = failed
    BY <1>1 DEF InstallSource, runVars
  <2>2. disk'[Source].whole
    BY <1>1, InstallEffect
  <2>3. QED
    BY <1>1, <2>1, <2>2, InstallEffect DEF NoPartialFile, Exists
<1>2. ASSUME NEW f \in File, Publish(f)
      PROVE  stream' # "cut" /\ ~failed' /\ NoPartialFile'
  <2>1. stage \in Stage /\ Running
    BY <1>2 DEF Publish, Running, MemoTypeOK
  <2>2. stream' = stream /\ stream = "ended" /\ failed' = failed
    BY <1>2 DEF Publish, MemoTypeOK
  <2>3. \A i \in In[stage] : i \in File /\ disk[i].whole
    BY <2>1, InputsExist, InputsBehind DEF NoPartialFile
  <2>4. Derived(stage).whole
    BY <2>2, <2>3 DEF Derived
  <2>5. QED
    BY <1>2, <2>2, <2>4, PublishEffect DEF NoPartialFile, Exists
<1>3. CASE ReadFault \/ \E f \in File : WriteFault(f)
  BY <1>3 DEF ReadFault, WriteFault, Fault, NoError, MemoTypeOK, FaultKind
<1>4. CASE \/ Begin \/ Reuse \/ Build \/ EndStream \/ Cut \/ StageOk \/ StageError
           \/ Crash \/ Finish \/ UNCHANGED memoVars
  BY <1>4 DEF Begin, Reuse, Build, EndStream, Cut, StageOk, StageError, Crash, Finish,
              memoVars, runVars, NoPartialFile, Exists
<1>5. QED
  BY <1>1, <1>2, <1>3, <1>4 DEF MemoNext, StageNext, Threads

(***************************************************************************)
(* Crashes never leave a partial file under a final name: however often    *)
(* processes were killed, every file a restart can find is complete, as    *)
(* long as no thread has returned an error.  (Such an error does leave     *)
(* partial files; see ReturnedWhole in ImportOsm.)                         *)
(***************************************************************************)
THEOREM CrashSafe == MemoSpec => []NoPartialFile
<1>1. MemoInit => WholeInv
  BY DEF MemoInit, WholeInv, NoPartialFile, Exists
<1>2. MemoInv /\ WholeInv /\ [MemoNext]_memoVars => WholeInv'
  BY WholeStep
<1>3. WholeInv => NoPartialFile
  BY DEF WholeInv, NoPartialFile
<1>4. QED
  BY <1>1, <1>2, <1>3, InvInit, InvStep, PTL DEF MemoSpec

-----------------------------------------------------------------------------
(***************************************************************************)
(* ImportOsm.                                                              *)
(***************************************************************************)

(***************************************************************************)
(* The inductive invariant.  To what MemoInv says of the stages it adds    *)
(* how the index comes into being.                                         *)
(***************************************************************************)
\* The source is one version, not newer than the clock.
SourceVersion == Exists(Source) => \E v \in 1 .. clock : disk[Source].from = {v}

\* What a stage has published bears the time now, and what the stages behind
\* the run have published is at least as recent as the planet.
StageTimes ==
    /\ pc = "build" /\ ~failed =>
          \A o \in Out[stage] \ pending : disk[o].at = clock
    /\ Running =>
          \A s \in 1 .. (stage - 1) : s < IndexStage =>
             \A o \in Out[s] : disk[o].at >= disk[Source].at

\* The inverted index is begun when the feature storage is in place, and not
\* at all if there is one.
InvertedLast ==
    /\ Exists(Inverted) => Exists(Index) /\ Exists(Strings)
    /\ pc = "build" /\ stage = IndexStage =>
          /\ Index \in pending => Inverted \in pending
          /\ Inverted \in pending =>
                /\ ~Exists(Inverted)
                /\ Index \notin pending =>
                      Exists(Index) /\ disk[Index].from = disk[Source].from

\* A finished index that nobody put a planet next to is that of the planet,
\* and no run gets past the early return.
FreshIndex ==
    IndexExists /\ ~outdated =>
        /\ \E v \in 1 .. clock :
              /\ \A f \in Features : disk[f].from = {v}
              /\ Exists(Pbf) => disk[Pbf].from = {v}
        /\ ~Stale
        /\ pc # "check"
        /\ pc = "build" => stage = IndexStage /\ Inverted \notin pending

\* Whoever returns leaves a directory in which the next run returns early.
SettledInv ==
    /\ Returned => FeaturesExist /\ ~Stale
    /\ settled => FeaturesExist /\ ~Stale /\ pc \in {"idle", "returned"}

ImportInv ==
    /\ MemoInv /\ TypeOK
    /\ SourceVersion /\ StageTimes /\ InvertedLast /\ FreshIndex /\ SettledInv

-----------------------------------------------------------------------------
LEMMA Graph ==
    /\ Source = Pbf /\ Source \in File
    /\ IndexStage \in Stage /\ IndexStage - 1 \in Nat
    /\ Index \in File /\ Inverted \in File /\ Strings \in File
    /\ Pbf \notin Features
    /\ Index # Inverted
<1>1. IndexStage \in Stage
  BY StagesAssumption DEF Stage, IndexStage
<1>2. Index \in File /\ Inverted \in File
  BY <1>1, StagesAssumption, GraphAssumption
<1>3. PICK s \in 1 .. (IndexStage - 1) : Strings \in Out[s]
  BY GraphAssumption
<1>4. s \in Stage
  BY <1>1, StagesAssumption DEF Stage, IndexStage
<1>5. Strings \in File
  BY <1>3, <1>4, StagesAssumption
<1>6. QED
  BY <1>1, <1>2, <1>5, StagesAssumption, GraphAssumption
     DEF Features, Pbf, Index, Inverted, Strings, Stage

\* What the files of the index are outputs of.
LEMMA IndexOutputs ==
    ASSUME NEW s \in Stage
    PROVE  /\ Index \in Out[s] <=> s = IndexStage
           /\ Inverted \in Out[s] <=> s = IndexStage
           /\ Strings \in Out[s] => s < IndexStage
<1>1. IndexStage \in Stage /\ Out[IndexStage] = {Index, Inverted}
  BY Graph, GraphAssumption
<1>2. PICK t \in 1 .. (IndexStage - 1) : Strings \in Out[t]
  BY GraphAssumption
<1>3. t \in Stage /\ t < IndexStage
  BY <1>1, StagesAssumption DEF Stage, IndexStage
<1>4. Strings \in Out[s] => s = t
  BY <1>2, <1>3, StagesAssumption
<1>5. QED
  BY <1>1, <1>3, <1>4, StagesAssumption

\* Every stage before the last one compares the times of all it reads.
LEMMA AllDiligent == \A s \in 1 .. (IndexStage - 1) : Diligent(s)
BY GraphAssumption, Graph DEF Diligent, Stage

(***************************************************************************)
(* Most steps of import_osm are steps of MemoStages; these are the others. *)
(***************************************************************************)
Others == RemovePlanet \/ ReturnEarly \/ CreateFault \/ Return \/ Exit

LEMMA Steps ==
    ASSUME [Next]_vars
    PROVE  [MemoNext]_memoVars \/ Others
<1>1. CASE Download \/ ReplacePlanet
  BY <1>1 DEF Download, ReplacePlanet, MemoNext, InstallSource
<1>2. CASE Import
  BY <1>2 DEF Import, MemoNext
<1>3. CASE StageWork
  BY <1>3 DEF StageWork, CreatePublish, MemoNext, StageNext, Threads
<1>4. CASE StageFault
  BY <1>4 DEF StageFault, MemoNext, StageNext, Threads, Others
<1>5. CASE UNCHANGED vars
  BY <1>5 DEF vars
<1>6. QED
  BY <1>1, <1>2, <1>3, <1>4, <1>5 DEF Next, ByPeople, Work, Others

\* What of the directory the others leave as it is.
LEMMA OthersKeep ==
    ASSUME Others
    PROVE  /\ clock' = clock /\ stage' = stage
           /\ pc' # "build" \/ CreateFault
           /\ ~Running' \/ CreateFault
           /\ \/ disk' = disk
              \/ RemovePlanet /\ disk' = [disk EXCEPT ![Pbf] = NoFile] /\ pc' = "idle"
BY DEF Others, RemovePlanet, ReturnEarly, CreateFault, Return, Exit, runVars, Running

\* Removing the planet removes no other file.
LEMMA RemoveEffect ==
    ASSUME MemoTypeOK, disk' = [disk EXCEPT ![Pbf] = NoFile]
    PROVE  /\ disk'[Pbf] = NoFile
           /\ \A f \in File \ {Pbf} : disk'[f] = disk[f]
BY Graph DEF MemoTypeOK

-----------------------------------------------------------------------------
LEMMA OthersType == MemoTypeOK /\ Others => MemoTypeOK'
<1> SUFFICES ASSUME MemoTypeOK, Others PROVE MemoTypeOK'
  OBVIOUS
<1>1. CASE RemovePlanet
  <2>1. disk' \in [File -> Content]
    BY <1>1 DEF RemovePlanet, MemoTypeOK, NoFile, Content
  <2>2. QED
    BY <1>1, <2>1 DEF RemovePlanet, runVars, countVars, MemoTypeOK
<1>2. CASE ReturnEarly \/ Return \/ Exit
  BY <1>2 DEF ReturnEarly, Return, Exit, countVars, MemoTypeOK
<1>3. CASE CreateFault
  BY <1>3, FaultType DEF CreateFault, MemoTypeOK
<1>4. QED
  BY <1>1, <1>2, <1>3 DEF Others

\* What is derived from what does not depend on the planet being there.
LEMMA OthersMemoInv == MemoInv /\ Others => MemoInv'
<1> SUFFICES ASSUME MemoInv, Others PROVE MemoInv'
  OBVIOUS
<1> USE DEF MemoInv
<1>1. MemoTypeOK'
  BY OthersType
<1>2. TimesOK'
  <2>1. CASE RemovePlanet
    <3>1. NoFile.at = 0
      BY DEF NoFile
    <3>2. QED
      BY <2>1, <3>1, RemoveEffect DEF RemovePlanet, runVars, TimesOK, MemoTypeOK
  <2>2. CASE CreateFault
    <3>1. \A f \in Out[stage] : f \in Out[stage] \ pending'
      BY <2>2 DEF CreateFault
    <3>2. stage \in Stage /\ pending' = {} /\ pc = "build" /\ pc' = "build"
      BY <2>2 DEF CreateFault, MemoTypeOK
    <3>3. \A f \in File : f \notin Out[stage] => disk[f].at < clock
      BY <3>2 DEF TimesOK
    <3>4. QED
      BY <2>2, <3>1, <3>2, <3>3 DEF CreateFault, TimesOK
  <2>3. QED
    BY <2>1, <2>2, OthersKeep DEF Others, TimesOK, ReturnEarly, Return, Exit
<1>3. Derivation'
  <2>1. CASE disk' = disk
    BY <2>1 DEF Derivation, Exists
  <2>2. CASE disk' = [disk EXCEPT ![Pbf] = NoFile]
    <3> SUFFICES ASSUME NEW s \in Stage, Timed[s] = In[s], NEW o \in Out[s],
                        Exists(o)',
                        \A i \in In[s] : Exists(i)' /\ disk'[o].at >= disk'[i].at
                 PROVE  disk'[o].from = UNION {disk'[i].from : i \in In[s]}
      BY DEF Derivation
    <3>1. o \in File /\ o # Pbf
      BY OutputsAreFiles, Graph
    <3>2. \A i \in In[s] : i \in File /\ i # Pbf
      BY <2>2, RemoveEffect, InputsBehind DEF Exists
    <3>3. disk'[o] = disk[o] /\ \A i \in In[s] : disk'[i] = disk[i]
      BY <2>2, <3>1, <3>2, RemoveEffect
    <3>4. QED
      BY <3>3 DEF Derivation, Exists
  <2>3. QED
    BY <2>1, <2>2, OthersKeep
<1>4. BehindExist'
  <2>1. CASE disk' = disk
    BY <2>1, OthersKeep DEF BehindExist, Exists, Running, CreateFault
  <2>2. CASE disk' = [disk EXCEPT ![Pbf] = NoFile] /\ pc' = "idle"
    <3>1. ~Running' /\ ~Exists(Source)'
      BY <2>2, RemoveEffect, Graph DEF Running, Exists
    <3>2. QED
      BY <3>1 DEF BehindExist
  <2>3. QED
    BY <2>1, <2>2, OthersKeep
<1>5. PublishedOK'
  BY OthersKeep DEF PublishedOK, CreateFault
<1>6. StagesFresh'
  BY OthersKeep DEF StagesFresh, CreateFault, Running
<1>7. QED
  BY <1>1, <1>2, <1>3, <1>4, <1>5, <1>6

LEMMA MemoInvStep == MemoInv /\ [Next]_vars => MemoInv'
BY Steps, InvStep, OthersMemoInv

(***************************************************************************)
(* The stages of import_osm stay fresh although, between two runs, planets *)
(* are replaced, deleted and downloaded again.                             *)
(***************************************************************************)
THEOREM ImportFresh == Spec => []StagesFresh
<1>1. Init => MemoInv
  BY InvInit DEF Init
<1>2. MemoInv => StagesFresh
  BY DEF MemoInv
<1>3. QED
  BY <1>1, <1>2, MemoInvStep, PTL DEF Spec

-----------------------------------------------------------------------------
LEMMA OthersWhole == MemoInv /\ WholeInv /\ Others => WholeInv'
<1> SUFFICES ASSUME MemoInv, WholeInv, Others, NoError'
             PROVE  stream' # "cut" /\ ~failed' /\ NoPartialFile'
  BY DEF WholeInv
<1>1. CASE CreateFault
  BY <1>1 DEF CreateFault, Fault, NoError, MemoInv, MemoTypeOK, FaultKind
<1>2. CASE RemovePlanet
  <2>1. NoError /\ stream' = stream /\ failed' = failed
    BY <1>2 DEF RemovePlanet, runVars, countVars, NoError
  <2>2. QED
    BY <1>2, <2>1, RemoveEffect
       DEF RemovePlanet, WholeInv, NoPartialFile, Exists, MemoInv
<1>3. CASE ReturnEarly \/ Return \/ Exit
  BY <1>3 DEF ReturnEarly, Return, Exit, countVars, WholeInv, NoPartialFile, NoError,
              Exists
<1>4. QED
  BY <1>1, <1>2, <1>3 DEF Others

(***************************************************************************)
(* No process that dies leaves a partial file behind, build_index with its *)
(* two files included.                                                     *)
(***************************************************************************)
THEOREM ImportCrashSafe == Spec => []NoPartialFile
<1>1. Init => MemoInv /\ WholeInv
  BY InvInit DEF Init, MemoInit, WholeInv, NoPartialFile, Exists
<1>2. MemoInv /\ WholeInv /\ [Next]_vars => WholeInv'
  BY Steps, WholeStep, OthersWhole
<1>3. WholeInv => NoPartialFile
  BY DEF WholeInv, MemoInit, NoPartialFile
<1>4. QED
  BY <1>1, <1>2, <1>3, MemoInvStep, PTL DEF Spec

-----------------------------------------------------------------------------
\* A fault is counted, and the counters stay within their bound.
LEMMA FaultBound ==
    ASSUME faults \in [FaultKind -> 0 .. MaxFaults], NEW kind, Fault(kind)
    PROVE  faults' \in [FaultKind -> 0 .. MaxFaults]
<1> USE BoundsAssumption
<1>1. \A k \in FaultKind : faults[k] \in 0 .. MaxFaults
  OBVIOUS
<1>2. \A k \in FaultKind : faults[k] + 1 \in 0 .. MaxFaults
  BY <1>1 DEF Fault, FaultKind
<1>3. QED
  BY <1>2 DEF Fault

\* What all steps of the stages keep of the type.
LEMMA BoundsStep ==
    ASSUME MemoInv, TypeOK, [MemoNext]_memoVars \/ Others
    PROVE  /\ clock' \in 0 .. MaxClock
           /\ installs' \in 0 .. MaxInstalls
           /\ faults' \in [FaultKind -> 0 .. MaxFaults]
<1> USE BoundsAssumption
<1>1. CASE InstallSource
  BY <1>1 DEF InstallSource, PutSource, TypeOK
<1>2. CASE Build
  BY <1>2 DEF Build, TypeOK, countVars
<1>3. CASE ReadFault \/ Crash \/ CreateFault \/ \E f \in File : WriteFault(f)
  <2>1. clock' = clock /\ installs' = installs
    BY <1>3 DEF ReadFault, Crash, CreateFault, WriteFault
  <2>2. faults' \in [FaultKind -> 0 .. MaxFaults]
    BY <1>3, FaultBound DEF ReadFault, Crash, CreateFault, WriteFault, TypeOK
  <2>3. QED
    BY <2>1, <2>2 DEF TypeOK
<1>4. CASE UNCHANGED <<clock, countVars>>
  BY <1>4 DEF TypeOK, countVars
<1>5. QED
  BY <1>1, <1>2, <1>3, <1>4
     DEF MemoNext, StageNext, Threads, Begin, Reuse, EndStream, Cut, Publish, StageOk,
         StageError, Finish, memoVars, Others, RemovePlanet, ReturnEarly, Return, Exit

\* There are writers only while a stage is built.
LEMMA PendingStep ==
    ASSUME MemoInv, TypeOK, [MemoNext]_memoVars \/ Others
    PROVE  (pending \subseteq IF pc = "build" THEN Out[stage] ELSE {})'
<1>1. pending \subseteq IF pc = "build" THEN Out[stage] ELSE {}
  BY DEF TypeOK
<1>2. CASE pc = "build" /\ pc' = "build"
  BY <1>1, <1>2
     DEF MemoNext, StageNext, Threads, InstallSource, PutSource, runVars, Begin, Reuse, Build,
         EndStream, Cut, ReadFault, WriteFault, Publish, StageOk, StageError, Crash, Finish,
         Advance, memoVars, Others, RemovePlanet, ReturnEarly, CreateFault, Return, Exit
<1>3. CASE pc # "build" /\ pc' = "build"
  BY <1>1, <1>3
     DEF MemoNext, StageNext, Threads, InstallSource, PutSource, runVars, Begin, Reuse, Build,
         EndStream, Cut, ReadFault, WriteFault, Publish, StageOk, StageError, Crash, Finish,
         Advance, memoVars, Others, RemovePlanet, ReturnEarly, CreateFault, Return, Exit
<1>4. CASE pc' # "build"
  BY <1>1, <1>4
     DEF MemoNext, StageNext, Threads, InstallSource, PutSource, runVars, Begin, Reuse, Build,
         EndStream, Cut, ReadFault, WriteFault, Publish, StageOk, StageError, Crash, Finish,
         Advance, memoVars, Others, RemovePlanet, ReturnEarly, CreateFault, Return, Exit
<1>5. QED
  BY <1>2, <1>3, <1>4

LEMMA HistoryType ==
    ASSUME TypeOK, [Next]_vars
    PROVE  early' \in BOOLEAN /\ settled' \in BOOLEAN /\ outdated' \in BOOLEAN
<1>1. early' \in BOOLEAN /\ settled' \in BOOLEAN
  BY DEF TypeOK, Next, vars, ByPeople, Work, ReplacePlanet, RemovePlanet, Download,
         ReturnEarly, Import, StageWork, StageFault, Return, Exit
<1>2. outdated' \in BOOLEAN
  <2>1. CASE ReplacePlanet
    BY <2>1, Zenon DEF ReplacePlanet, TypeOK, IndexExists, Exists
  <2>2. CASE outdated' = outdated
    BY <2>2 DEF TypeOK
  <2>3. QED
    BY <2>1, <2>2 DEF Next, vars, ByPeople, Work, RemovePlanet, Download,
         ReturnEarly, Import, StageWork, StageFault, Return, Exit
<1>3. QED
  BY <1>1, <1>2

LEMMA TypeOKInit == Init => TypeOK
<1> SUFFICES ASSUME Init PROVE TypeOK
  OBVIOUS
<1>1. MemoTypeOK
  BY TypeInit DEF Init
<1>2. faults \in [FaultKind -> 0 .. MaxFaults]
  BY BoundsAssumption DEF Init, MemoInit, NoFaults
<1>3. clock \in 0 .. MaxClock /\ installs \in 0 .. MaxInstalls
  BY BoundsAssumption DEF Init, MemoInit
<1>4. QED
  BY <1>1, <1>2, <1>3 DEF Init, MemoInit, MemoTypeOK, TypeOK

LEMMA TypeOKStep == MemoInv /\ TypeOK /\ [Next]_vars => TypeOK'
<1> SUFFICES ASSUME MemoInv, TypeOK, [Next]_vars PROVE TypeOK'
  OBVIOUS
<1>1. MemoTypeOK'
  BY MemoInvStep DEF MemoInv
<1>2. [MemoNext]_memoVars \/ Others
  BY Steps
<1>3. QED
  BY <1>1, <1>2, BoundsStep, PendingStep, HistoryType DEF MemoTypeOK, TypeOK

(***************************************************************************)
(* Every state of import_osm is well typed: clocks and counters keep to    *)
(* their bounds, and only a stage that is being built has writers.         *)
(***************************************************************************)
THEOREM ImportTypeCorrect == Spec => []TypeOK
<1>1. Init => MemoInv
  BY InvInit DEF Init
<1>2. QED
  BY <1>1, TypeOKInit, TypeOKStep, MemoInvStep, PTL DEF Spec

-----------------------------------------------------------------------------
\* The planet file changes only between runs.
LEMMA SourceKept ==
    ASSUME MemoInv, [Next]_vars
    PROVE  /\ clock \in Nat /\ clock' \in Nat /\ clock' >= clock
           /\ disk'[Source] = disk[Source] \/ InstallSource \/ RemovePlanet
<1> USE DEF MemoInv
<1>1. clock \in Nat /\ clock' \in Nat
  BY MemoInvStep DEF MemoTypeOK
<1>2. clock' = clock \/ clock' = clock + 1
  <2>1. CASE [MemoNext]_memoVars
    BY <2>1 DEF MemoNext, StageNext, Threads, InstallSource, PutSource, Begin, Reuse, Build,
                EndStream, Cut, ReadFault, WriteFault, Publish, StageOk, StageError, Crash,
                Finish, memoVars
  <2>2. QED
    BY <2>1, Steps, OthersKeep
<1>3. disk'[Source] = disk[Source] \/ InstallSource \/ RemovePlanet
  <2>1. ASSUME NEW f \in File, Publish(f)
        PROVE  disk'[Source] = disk[Source]
    BY <2>1, PublishEffect, OutputsAreFiles, Graph DEF TimesOK
  <2>2. QED
    BY <2>1, DiskWriters, Steps, OthersKeep
<1>4. QED
  BY <1>1, <1>2, <1>3

LEMMA SourceVersionStep ==
    ASSUME MemoInv, SourceVersion, [Next]_vars
    PROVE  SourceVersion'
<1>1. CASE disk'[Source] = disk[Source]
  BY <1>1, SourceKept DEF SourceVersion, Exists
<1>2. CASE InstallSource
  <2>1. clock' = clock + 1 /\ disk'[Source].from = {clock + 1}
    BY <1>2, InstallEffect DEF MemoInv
  <2>2. clock + 1 \in 1 .. clock'
    BY <2>1, SourceKept
  <2>3. QED
    BY <2>1, <2>2 DEF SourceVersion
<1>3. CASE RemovePlanet
  BY <1>3, RemoveEffect, Graph DEF RemovePlanet, MemoInv, SourceVersion, Exists
<1>4. QED
  BY <1>1, <1>2, <1>3, SourceKept

-----------------------------------------------------------------------------
\* What is behind a stage is at least as recent as the planet; so are the
\* outputs of a stage that are as recent as its inputs.
LEMMA NotOlder ==
    ASSUME MemoInv, StageTimes, Running, stage \in Stage, stage < IndexStage,
           NEW o \in Out[stage], \A i \in In[stage] : disk[o].at >= disk[i].at
    PROVE  disk[o].at >= disk[Source].at
<1> USE DEF MemoInv
<1>1. PICK i \in In[stage] : TRUE
  BY StagesAssumption
<1>2. \A f \in File : disk[f].at \in Nat
  BY DEF MemoTypeOK, Content
<1>3. i \in File /\ o \in File /\ Source \in File
  BY InputsBehind, OutputsAreFiles, Graph
<1>4. ASSUME NEW t \in 1 .. (stage - 1), i \in Out[t]
      PROVE  disk[i].at >= disk[Source].at
  <2>1. t < IndexStage
    BY Graph, StagesAssumption DEF Stage, IndexStage
  <2>2. QED
    BY <1>4, <2>1 DEF StageTimes
<1>5. disk[i].at >= disk[Source].at
  BY <1>2, <1>3, <1>4, InputsBehind
<1>6. QED
  BY <1>2, <1>3, <1>5

LEMMA StageTimesStep ==
    ASSUME MemoInv, StageTimes, [Next]_vars
    PROVE  StageTimes'
<1> USE DEF MemoInv
<1> USE Steps
<1>1. ASSUME pc' = "build", ~failed', NEW o \in Out[stage'] \ pending'
      PROVE  disk'[o].at = clock'
  <2>1. ASSUME NEW f \in File, Publish(f)
        PROVE  disk'[o].at = clock'
    <3>1. stage \in Stage /\ o \in File /\ Derived(stage).at = clock
      BY <1>1, <2>1, PublishEffect, OutputsAreFiles DEF Derived
    <3>2. CASE o = f
      BY <2>1, <3>1, <3>2, PublishEffect
    <3>3. CASE o # f
      BY <1>1, <2>1, <3>1, <3>3, PublishEffect DEF StageTimes
    <3>4. QED
      BY <3>2, <3>3
  <2>2. CASE EndStream \/ Cut \/ UNCHANGED memoVars
    BY <1>1, <2>2 DEF EndStream, Cut, memoVars, runVars, StageTimes
  <2>3. CASE \/ Build \/ ReadFault \/ \E f \in File : WriteFault(f)
             \/ InstallSource \/ Begin \/ Reuse \/ StageOk \/ StageError \/ Crash
             \/ Finish \/ Others
    BY <1>1, <2>3, InstallEffect, OthersKeep
       DEF Build, ReadFault, WriteFault, Begin, Reuse, StageOk, StageError, Crash, Finish,
           Advance, CreateFault
  <2>4. QED
    BY <2>1, <2>2, <2>3 DEF MemoNext, StageNext, Threads
<1>2. ASSUME Running', NEW s \in 1 .. (stage' - 1), s < IndexStage, NEW o \in Out[s]
      PROVE  disk'[o].at >= disk'[Source].at
  <2>1. CASE Reuse \/ StageOk
    <3>1. stage \in Stage /\ stage' = stage + 1 /\ disk' = disk /\ Running
      BY <2>1 DEF Reuse, StageOk, Advance, MemoTypeOK, Running
    <3>2. CASE s = stage
      <4>1. \A i \in In[stage] : i \in File
        BY <3>1, InputsBehind
      <4>2. \A i \in In[stage] : disk[o].at >= disk[i].at
        <5>1. CASE Reuse
          <6>1. stage \in 1 .. (IndexStage - 1)
            BY <1>2, <3>1, <3>2, StagesAssumption DEF Stage, IndexStage
          <6>2. Timed[stage] = In[stage]
            BY <6>1, GraphAssumption
          <6>3. QED
            BY <1>2, <3>2, <5>1, <6>2 DEF Reuse, UpToDate
        <5>2. CASE StageOk
          <6>1. disk[o].at = clock
            BY <3>2, <5>2 DEF StageOk, StageTimes
          <6>2. \A f \in File : disk[f].at \in Nat /\ disk[f].at <= clock
            BY DEF TimesOK, MemoTypeOK, Content
          <6>3. QED
            BY <4>1, <6>1, <6>2 DEF MemoTypeOK
        <5>3. QED
          BY <2>1, <5>1, <5>2
      <4>3. QED
        BY <1>2, <3>1, <3>2, <4>2, NotOlder
    <3>3. CASE s # stage
      <4>1. s \in 1 .. (stage - 1)
        BY <3>1, <3>3, StagesAssumption DEF Stage
      <4>2. QED
        BY <1>2, <3>1, <4>1 DEF StageTimes
    <3>4. QED
      BY <3>2, <3>3
  <2>2. ASSUME NEW f \in File, Publish(f)
        PROVE  disk'[o].at >= disk'[Source].at
    <3>1. stage \in Stage /\ stage' = stage /\ f \in Out[stage] /\ Running
      BY <2>2, PublishEffect DEF TimesOK, Running
    <3>2. s \in Stage /\ s # stage
      BY <3>1, StageBefore DEF Stage, MemoTypeOK
    <3>3. o \in File /\ o # f /\ f # Source /\ Source \in File
      BY <3>1, <3>2, StagesAssumption
    <3>4. disk'[o] = disk[o] /\ disk'[Source] = disk[Source]
      BY <2>2, <3>3, PublishEffect
    <3>5. QED
      BY <1>2, <3>1, <3>4 DEF StageTimes
  <2>3. CASE \/ Build \/ EndStream \/ Cut \/ ReadFault \/ \E f \in File : WriteFault(f)
             \/ CreateFault \/ UNCHANGED memoVars
    BY <1>2, <2>3 DEF Build, EndStream, Cut, ReadFault, WriteFault, CreateFault, memoVars,
                      runVars, StageTimes, Running
  <2>4. CASE \/ InstallSource \/ StageError \/ Crash \/ Finish
             \/ RemovePlanet \/ ReturnEarly \/ Return \/ Exit
    BY <1>2, <2>4, InstallEffect
       DEF StageError, Crash, Finish, RemovePlanet, ReturnEarly, Return, Exit, Running, runVars
  <2>5. CASE Begin
    BY <1>2, <2>5 DEF Begin
  <2>6. QED
    BY <2>1, <2>2, <2>3, <2>4, <2>5 DEF MemoNext, StageNext, Threads, Others
<1>3. QED
  BY <1>1, <1>2 DEF StageTimes

-----------------------------------------------------------------------------
\* Whoever has come to the last stage has the strings, and all inputs of
\* that stage derive from the planet.
LEMMA AtTheIndex ==
    ASSUME MemoInv, Running, stage >= IndexStage
    PROVE  /\ Exists(Source)
           /\ Exists(Strings)
           /\ disk[Strings].from = disk[Source].from
           /\ UNION {disk[i].from : i \in In[IndexStage]} = disk[Source].from
<1> USE DEF MemoInv
<1>1. \A s \in 1 .. (IndexStage - 1) : s \in 1 .. (stage - 1) /\ s \in Stage /\ Diligent(s)
  BY AllDiligent, StagesAssumption DEF MemoTypeOK, Stage, IndexStage
<1>2. \A s \in 1 .. (IndexStage - 1) : \A o \in Out[s] :
          Exists(o) /\ disk[o].from = disk[Source].from
  BY <1>1 DEF BehindExist, StagesFresh, Running
<1>3. Exists(Strings) /\ disk[Strings].from = disk[Source].from
  BY <1>2, GraphAssumption
<1>4. \A i \in In[IndexStage] : disk[i].from = disk[Source].from
  <2>1. \A i \in In[IndexStage] : \E t \in 1 .. (IndexStage - 1) : i \in Out[t]
    BY InputsBehind, Graph, GraphAssumption
  <2>2. QED
    BY <1>2, <2>1
<1>5. In[IndexStage] # {}
  BY Graph, StagesAssumption
<1>6. QED
  BY <1>3, <1>4, <1>5 DEF BehindExist

\* What it means for a writer of the index to publish: the feature storage
\* comes first, and both derive from the planet.
LEMMA IndexPublished ==
    ASSUME MemoInv, NEW f \in File, CreatePublish(f)
    PROVE  /\ Publish(f) /\ stage \in Stage /\ Running
           /\ f \in {Index, Inverted} <=> stage = IndexStage
           /\ f = Inverted => Index \notin pending
           /\ f = Strings => stage < IndexStage
           /\ disk'[Source] = disk[Source]
           /\ stage = IndexStage =>
                 /\ disk'[f].from = disk[Source].from
                 /\ disk'[f].at = clock
<1> USE DEF MemoInv
<1>1. Publish(f) /\ stage \in Stage /\ Running /\ f \in Out[stage]
  BY PublishEffect DEF CreatePublish, TimesOK, Running
<1>2. f \in {Index, Inverted} <=> stage = IndexStage
  BY <1>1, IndexOutputs, GraphAssumption
<1>3. disk'[Source] = disk[Source]
  BY <1>1, PublishEffect, OutputsAreFiles, Graph
<1>4. stage = IndexStage => disk'[f].from = disk[Source].from /\ disk'[f].at = clock
  <2>1. stage = IndexStage => Derived(stage).from = disk[Source].from
    BY <1>1, AtTheIndex DEF Derived, MemoTypeOK
  <2>2. Derived(stage).at = clock
    BY DEF Derived
  <2>3. QED
    BY <1>1, <2>1, <2>2, PublishEffect
<1>5. QED
  BY <1>1, <1>2, <1>3, <1>4, IndexOutputs DEF CreatePublish

\* Only publishing and people at the planet change what is in the directory.
LEMMA FeaturesKept ==
    ASSUME MemoInv, [Next]_vars, \A f \in File : ~CreatePublish(f)
    PROVE  \A f \in Features : disk'[f] = disk[f]
<1>1. CASE InstallSource
  BY <1>1, InstallEffect, Graph DEF MemoInv, Features
<1>2. CASE RemovePlanet
  BY <1>2, RemoveEffect, Graph DEF MemoInv, Features, RemovePlanet
<1>3. CASE disk' = disk
  BY <1>3
<1>4. QED
  BY <1>1, <1>2, <1>3
     DEF Next, ByPeople, Work, Download, ReplacePlanet, InstallSource, Import, StageWork,
         StageFault, ReturnEarly, Return, Exit, Begin, Reuse, Build, EndStream, Cut,
         ReadFault, WriteFault, CreateFault, StageOk, StageError, Crash, vars, memoVars

LEMMA InvertedLastStep ==
    ASSUME MemoInv, InvertedLast, [Next]_vars
    PROVE  InvertedLast'
<1> USE DEF MemoInv
<1>1. ASSUME NEW f \in File, CreatePublish(f)
      PROVE  InvertedLast'
  <2>1. /\ disk'[f] = Derived(stage) /\ \A g \in File \ {f} : disk'[g] = disk[g]
        /\ pending' = pending \ {f} /\ f \in pending
        /\ pc = "build" /\ pc' = "build" /\ stage' = stage /\ clock > 0
    BY <1>1, PublishEffect, IndexPublished DEF TimesOK
  <2>2. f \in {Index, Inverted} => Exists(Strings) /\ stage = IndexStage
    BY <1>1, IndexPublished, AtTheIndex DEF MemoTypeOK
  <2>3. disk'[f] # NoFile
    BY <2>1 DEF Derived, NoFile, MemoTypeOK
  <2>4. CASE f = Inverted
    <3>1. Exists(Index) /\ Index \notin pending /\ Exists(Strings)
      BY <1>1, <2>1, <2>2, <2>4, IndexPublished DEF InvertedLast
    <3>2. Strings # Inverted /\ Index # Inverted
      BY DEF Strings, Inverted, Index
    <3>3. disk'[Index] = disk[Index] /\ disk'[Strings] = disk[Strings]
      BY <2>1, <2>4, <3>2, Graph
    <3>4. QED
      BY <2>1, <2>4, <3>1, <3>3 DEF InvertedLast, Exists
  <2>5. CASE f = Index
    <3>1. Inverted \in pending /\ ~Exists(Inverted) /\ stage = IndexStage
      BY <2>1, <2>2, <2>5 DEF InvertedLast
    <3>2. disk'[Inverted] = disk[Inverted] /\ Inverted # f
      BY <2>1, <2>5, Graph
    <3>3. disk'[Index].from = disk'[Source].from
      BY <1>1, <2>2, <2>5, IndexPublished
    <3>4. QED
      BY <2>1, <2>3, <2>5, <3>1, <3>2, <3>3 DEF InvertedLast, Exists
  <2>6. CASE f \notin {Index, Inverted}
    <3>1. stage # IndexStage
      BY <1>1, <2>6, IndexPublished
    <3>2. disk'[Index] = disk[Index] /\ disk'[Inverted] = disk[Inverted]
      BY <2>1, <2>6, Graph
    <3>3. disk'[Strings] = disk[Strings] \/ disk'[Strings] # NoFile
      BY <2>1, <2>3, Graph
    <3>4. QED
      BY <2>1, <3>1, <3>2, <3>3 DEF InvertedLast, Exists
  <2>7. QED
    BY <2>4, <2>5, <2>6
<1>2. ASSUME \A f \in File : ~CreatePublish(f)
      PROVE  InvertedLast'
  <2>1. disk'[Index] = disk[Index] /\ disk'[Inverted] = disk[Inverted]
        /\ disk'[Strings] = disk[Strings]
    BY <1>2, FeaturesKept DEF Features
  <2>2. CASE pc' # "build" \/ stage' # IndexStage
    BY <2>1, <2>2 DEF InvertedLast, Exists
  <2>3. CASE Build /\ stage = IndexStage
    <3>1. ~Exists(Inverted)
      BY <2>3, GraphAssumption DEF Build, UpToDate, InvertedLast
    <3>2. pending' = {Index, Inverted} /\ disk' = disk
      BY <2>3, GraphAssumption DEF Build
    <3>3. QED
      BY <2>1, <3>1, <3>2 DEF InvertedLast, Exists
  <2>4. CASE pc = "build" /\ pc' = "build" /\ stage' = stage /\ stage = IndexStage
             /\ pending' \in {pending, {}} /\ disk' = disk
    BY <2>4 DEF InvertedLast, Exists
  <2>5. QED
    BY <1>2, <2>2, <2>3, <2>4
       DEF Next, ByPeople, Work, Download, ReplacePlanet, RemovePlanet, PutSource, runVars,
           Import, StageWork, StageFault, ReturnEarly, Return, Exit, Begin, Reuse, Build,
           EndStream, Cut, ReadFault, WriteFault, CreateFault, StageOk, StageError, Crash,
           Advance, vars, memoVars
<1>3. QED
  BY <1>1, <1>2

-----------------------------------------------------------------------------
\* A finished index stays that of the planet: the runs that follow return
\* early, and a planet is not downloaded again.
LEMMA FreshKept ==
    ASSUME MemoInv, InvertedLast, FreshIndex, [Next]_vars, IndexExists, ~outdated, ~outdated'
    PROVE  FreshIndex'
<1> USE DEF MemoInv
<1>1. FeaturesExist /\ ~Stale
  BY DEF InvertedLast, FeaturesExist, IndexExists, FreshIndex
<1>2. PICK v \in 1 .. clock :
         /\ \A f \in Features : disk[f].from = {v}
         /\ Exists(Pbf) => disk[Pbf].from = {v}
  BY DEF FreshIndex
<1>3. v \in 1 .. clock'
  BY SourceKept
<1>4. ~Download /\ ~ReplacePlanet /\ ~Import /\ ~Reuse /\ ~Build
  BY <1>1 DEF Download, ReplacePlanet, Import, Reuse, Build, FreshIndex
<1>5. ASSUME NEW f \in File PROVE ~CreatePublish(f)
  <2> SUFFICES ASSUME CreatePublish(f) PROVE FALSE
    OBVIOUS
  <2>1. f \in pending /\ pc = "build"
    BY IndexPublished, PublishEffect
  <2>2. f \in {Index, Inverted} /\ stage = IndexStage /\ Inverted \notin pending
    BY <2>1, IndexPublished DEF FreshIndex
  <2>3. QED
    BY <2>1, <2>2 DEF InvertedLast
<1>6. \A f \in Features : disk'[f] = disk[f]
  BY <1>5, FeaturesKept
<1>7. disk'[Pbf] = disk[Pbf] \/ ~Exists(Pbf)'
  <2>1. disk' = disk \/ RemovePlanet
    BY <1>4, <1>5 DEF Next, ByPeople, Work, StageWork, StageFault, ReturnEarly, Return, Exit,
         EndStream, Cut, ReadFault, WriteFault, CreateFault, StageOk, StageError, Crash, vars,
         memoVars
  <2>2. RemovePlanet => ~Exists(Pbf)'
    BY RemoveEffect DEF RemovePlanet, Exists
  <2>3. QED
    BY <2>1, <2>2
<1>8. ~Stale'
  BY <1>1, <1>6, <1>7 DEF Stale, Exists
<1>9. pc' # "check" /\ (pc' = "build" => stage' = IndexStage /\ Inverted \notin pending')
  <2>1. pc # "check" /\ (pc = "build" => stage = IndexStage /\ Inverted \notin pending)
    BY DEF FreshIndex
  <2>2. QED
    BY <1>4, <1>5, <2>1
       DEF Next, ByPeople, Work, StageWork, StageFault, RemovePlanet, runVars, ReturnEarly,
           Return, Exit, EndStream, Cut, ReadFault, WriteFault, CreateFault, StageOk,
           StageError, Crash, Advance, IndexStage, vars, memoVars
<1>10. \E w \in 1 .. clock' :
          /\ \A f \in Features : disk'[f].from = {w}
          /\ Exists(Pbf)' => disk'[Pbf].from = {w}
  <2>1. \A f \in Features : disk'[f].from = {v}
    BY <1>2, <1>6
  <2>2. Exists(Pbf)' => disk'[Pbf].from = {v}
    BY <1>2, <1>7 DEF Exists
  <2>3. QED
    BY <1>3, <2>1, <2>2
<1>11. QED
  BY <1>8, <1>9, <1>10 DEF FreshIndex, Exists

LEMMA FreshIndexStep ==
    ASSUME MemoInv, SourceVersion, InvertedLast, FreshIndex, [Next]_vars
    PROVE  FreshIndex'
<1> USE DEF MemoInv
<1> SUFFICES ASSUME IndexExists', ~outdated' PROVE FreshIndex'
  BY DEF FreshIndex
<1>1. ~outdated
  BY DEF Next, ByPeople, Work, Download, ReplacePlanet, RemovePlanet, Import, StageWork,
         StageFault, ReturnEarly, Return, Exit, vars
<1>2. CASE IndexExists
  BY <1>1, <1>2, FreshKept
<1>3. CASE ~IndexExists
  <2>1. PICK f \in File : CreatePublish(f)
    BY <1>3, FeaturesKept DEF IndexExists, Exists, Features
  <2>2. /\ \A g \in File \ {f} : disk'[g] = disk[g]
        /\ pending' = pending \ {f} /\ f \in pending /\ pc' = "build" /\ stage' = stage
        /\ pc = "build" /\ clock' = clock
    BY <2>1, PublishEffect, IndexPublished
  <2>3. f = Inverted
    <3>1. f \in {Index, Inverted}
      BY <1>3, <2>2, Graph DEF IndexExists, Exists
    <3>2. ASSUME f = Index PROVE FALSE
      <4>1. disk'[Inverted] = disk[Inverted]
        BY <2>2, <3>2, Graph
      <4>2. Exists(Inverted)
        BY <4>1 DEF IndexExists, Exists
      <4>3. QED
        BY <1>3, <4>2 DEF InvertedLast, IndexExists
    <3>3. QED
      BY <3>1, <3>2
  <2>4. stage = IndexStage /\ Index \notin pending
    BY <2>1, <2>3, IndexPublished
  <2>5. Exists(Source) /\ disk[Strings].from = disk[Source].from
    BY <2>1, <2>4, IndexPublished, AtTheIndex DEF MemoTypeOK
  <2>6. disk[Index].from = disk[Source].from
    BY <2>2, <2>3, <2>4 DEF InvertedLast
  <2>7. disk'[Strings] = disk[Strings] /\ disk'[Index] = disk[Index]
        /\ disk'[Source] = disk[Source]
    <3>1. Strings # Inverted
      BY DEF Strings, Inverted
    <3>2. QED
      BY <2>1, <2>2, <2>3, <3>1, Graph, IndexPublished
  <2>8. disk'[Inverted].from = disk[Source].from /\ disk'[Inverted].at = clock
    BY <2>1, <2>3, <2>4, IndexPublished
  <2>9. PICK v \in 1 .. clock : disk[Source].from = {v}
    BY <2>5 DEF SourceVersion
  <2>10. \A g \in Features : disk'[g].from = {v}
    BY <2>5, <2>6, <2>7, <2>8, <2>9 DEF Features
  <2>11. disk'[Pbf].from = {v}
    BY <2>7, <2>9, Graph
  <2>12. ~Stale'
    <3>1. disk[Source].at <= clock /\ disk[Source].at \in Nat /\ clock \in Nat
      BY Graph DEF TimesOK, MemoTypeOK, Content
    <3>2. QED
      BY <2>7, <2>8, <3>1, Graph DEF Stale, Features
  <2>13. QED
    BY <2>2, <2>3, <2>4, <2>9, <2>10, <2>11, <2>12 DEF FreshIndex
<1>4. QED
  BY <1>2, <1>3

-----------------------------------------------------------------------------
\* While the features are settled nothing is written; see SettledStays.
LEMMA SettledKept ==
    ASSUME MemoInv, SettledInv, [Next]_vars, settled, settled'
    PROVE  /\ \A f \in File \ {Pbf} : disk'[f] = disk[f]
           /\ disk'[Pbf] \in {disk[Pbf], NoFile}
           /\ pc' \in {"idle", "returned"}
<1> USE DEF MemoInv
<1>1. FeaturesExist /\ ~Stale /\ pc \in {"idle", "returned"}
  BY DEF SettledInv
<1>2. CASE RemovePlanet
  BY <1>1, <1>2, RemoveEffect DEF RemovePlanet, runVars
<1>3. CASE ReturnEarly \/ Exit \/ UNCHANGED vars
  BY <1>1, <1>3 DEF ReturnEarly, Exit, vars, memoVars, runVars
<1>4. CASE Crash
  BY <1>1, <1>4 DEF Crash
<1>5. ~Download /\ ~ReplacePlanet /\ ~Import /\ ~StageWork /\ ~Return
  BY <1>1 DEF Download, ReplacePlanet, Import, StageWork, Reuse, Build, EndStream, Cut,
              CreatePublish, Publish, StageOk, StageError, Return
<1>6. StageFault => Crash
  BY <1>1 DEF StageFault, ReadFault, CreateFault, WriteFault
<1>7. QED
  BY <1>2, <1>3, <1>4, <1>5, <1>6 DEF Next, ByPeople, Work

\* A run that has been through all stages has all the features, and the
\* strings, at least, are not older than the planet.
LEMMA BuiltIsSettled ==
    ASSUME MemoInv, StageTimes, pc = "built"
    PROVE  FeaturesExist /\ ~Stale
<1> USE DEF MemoInv
<1>1. Running /\ stage >= IndexStage /\ IndexStage \in 1 .. (stage - 1)
  BY StagesAssumption DEF Running, MemoTypeOK, IndexStage
<1>2. IndexExists
  BY <1>1, GraphAssumption DEF BehindExist, IndexExists
<1>3. PICK t \in 1 .. (IndexStage - 1) : Strings \in Out[t]
  BY GraphAssumption
<1>4. t \in 1 .. (stage - 1) /\ t < IndexStage
  BY <1>1, <1>3, StagesAssumption DEF MemoTypeOK, IndexStage
<1>5. disk[Strings].at >= disk[Pbf].at
  BY <1>1, <1>3, <1>4, Graph DEF StageTimes
<1>6. disk[Strings].at \in Nat /\ disk[Pbf].at \in Nat
  BY Graph DEF MemoTypeOK, Content
<1>7. QED
  BY <1>1, <1>2, <1>5, <1>6, AtTheIndex DEF FeaturesExist, Stale, Features

LEMMA SettledStep ==
    ASSUME MemoInv, StageTimes, SettledInv, [Next]_vars
    PROVE  SettledInv'
<1> USE DEF MemoInv
<1>1. ASSUME pc' = "returned"
      PROVE  FeaturesExist' /\ ~Stale'
  <2>1. CASE ReturnEarly \/ Return
    BY <2>1, BuiltIsSettled DEF ReturnEarly, Return, FeaturesExist, IndexExists, Exists, Stale
  <2>2. CASE UNCHANGED vars
    BY <1>1, <2>2 DEF vars, memoVars, runVars, SettledInv, Returned, FeaturesExist, IndexExists,
                      Exists, Stale
  <2>3. QED
    BY <1>1, <2>1, <2>2
       DEF Next, ByPeople, Work, Download, ReplacePlanet, RemovePlanet, runVars, Import, Begin,
           StageWork, StageFault, Reuse, Build, EndStream, Cut, CreatePublish, Publish, StageOk,
           StageError, ReadFault, CreateFault, WriteFault, Crash, Advance, Exit
<1>2. ASSUME settled'
      PROVE  FeaturesExist' /\ ~Stale' /\ pc' \in {"idle", "returned"}
  <2>1. CASE Exit
    BY <2>1 DEF Exit, SettledInv, Returned, FeaturesExist, IndexExists, Exists, Stale
  <2>2. CASE settled
    <3>1. /\ \A f \in Features : disk'[f] = disk[f]
          /\ disk'[Pbf] \in {disk[Pbf], NoFile}
          /\ pc' \in {"idle", "returned"}
      BY <1>2, <2>2, SettledKept, Graph DEF Features
    <3>2. FeaturesExist /\ ~Stale
      BY <2>2 DEF SettledInv
    <3>3. QED
      BY <3>1, <3>2 DEF FeaturesExist, IndexExists, Exists, Stale, Features
  <2>3. QED
    BY <1>2, <2>1, <2>2
       DEF Next, ByPeople, Work, Download, ReplacePlanet, RemovePlanet, Import, StageWork,
           StageFault, ReturnEarly, Return, vars
<1>3. QED
  BY <1>1, <1>2 DEF SettledInv, Returned

-----------------------------------------------------------------------------
LEMMA ImportInvInit == Init => ImportInv
<1> SUFFICES ASSUME Init PROVE ImportInv
  OBVIOUS
<1>1. MemoInv /\ TypeOK
  BY InvInit, TypeOKInit DEF Init
<1>2. \A f \in File : ~Exists(f)
  BY DEF Init, MemoInit, Exists
<1>3. SourceVersion /\ InvertedLast /\ FreshIndex
  BY <1>2, Graph
     DEF SourceVersion, InvertedLast, FreshIndex, IndexExists, Init, MemoInit
<1>4. StageTimes /\ SettledInv
  BY DEF Init, MemoInit, StageTimes, Running, SettledInv, Returned
<1>5. QED
  BY <1>1, <1>3, <1>4 DEF ImportInv

LEMMA ImportInvStep == ImportInv /\ [Next]_vars => ImportInv'
BY MemoInvStep, TypeOKStep, SourceVersionStep, StageTimesStep, InvertedLastStep,
   FreshIndexStep, SettledStep
   DEF ImportInv

(***************************************************************************)
(* The index and the strings that import_osm returns are those of one and  *)
(* the same planet, and of the one next to them if there is one -- whatever *)
(* failed, died, or was deleted and downloaded again, but for a planet that *)
(* somebody put next to a finished index.                                  *)
(***************************************************************************)
THEOREM ImportReturnsFresh == Spec => []ReturnedFresh
<1>1. ImportInv => ReturnedFresh
  BY DEF ImportInv, ReturnedFresh, SettledInv, FeaturesExist, FreshIndex
<1>2. QED
  BY <1>1, ImportInvInit, ImportInvStep, PTL DEF Spec

(***************************************************************************)
(* Once a run has returned, no later one writes anything, and none asks    *)
(* for the planet again if somebody has deleted it.                        *)
(***************************************************************************)
THEOREM ImportSettles == Spec => SettledStays
<1>1. ImportInv /\ [Next]_vars =>
        [settled /\ settled' =>
            /\ \A f \in File \ {Pbf} : disk'[f] = disk[f]
            /\ disk'[Pbf] \in {disk[Pbf], NoFile}]_vars
  BY SettledKept DEF ImportInv
<1>2. QED
  BY <1>1, ImportInvInit, ImportInvStep, PTL DEF Spec, SettledStays

=============================================================================
