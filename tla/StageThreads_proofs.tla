------------------------- MODULE StageThreads_proofs -------------------------
(***************************************************************************)
(* Proofs about StageThreads, for any number of threads, blobs and records *)
(* and any capacity of the channels: the threads of a stage implement one  *)
(* stage of MemoStages, and no record is lost when the stage succeeds.     *)
(***************************************************************************)
EXTENDS StageThreads, SequenceTheorems, FiniteSetTheorems, TLAPS

Status == {"run", "ok", "error"}
BlobRecord == UNION {ToSet(RecordsOf(b)) : b \in DOMAIN Blobs}

-----------------------------------------------------------------------------
(***************************************************************************)
(* The inductive invariant: types, who may have returned what, and where   *)
(* the records are.                                                        *)
(***************************************************************************)
StatusOK ==
    /\ pc \in {"idle", "check", "build", "built"}
    /\ stage \in {1, 2}
    /\ pc \in {"check", "build"} => stage = 1
    /\ producer \in Status
    /\ consumer \in Status \cup {"stop"}
    /\ feeder \in [Feeder -> Status]
    /\ writer \in [Writer -> Status]

ChannelsOK ==
    /\ sent \in 0 .. Len(Blobs)
    /\ blobs \in Seq(DOMAIN Blobs)
    /\ Len(blobs) <= Cardinality(Worker)
    /\ work \in [Worker -> Seq(BlobRecord)]
    /\ fed \in [Feeder -> 0 .. FeedSize]
    /\ DOMAIN chan = Writer /\ chan = [f \in Writer |-> chan[f]]
    /\ \A f \in Writer : chan[f] \in Seq(All(f)) /\ Len(chan[f]) <= Capacity
    /\ DOMAIN got = Writer /\ got = [f \in Writer |-> got[f]]
    /\ \A f \in Writer : got[f] \subseteq All(f)

\* Whoever fails is noticed by those who send to it; whoever is done has no
\* senders left.  Without a scope there are no threads.
Errors ==
    /\ ~Building => /\ producer = "ok" /\ consumer = "ok"
                    /\ \A t \in Feeder : feeder[t] = "ok"
                    /\ \A f \in Writer : writer[f] = "ok"
    /\ consumer = "ok" => producer # "run" /\ blobs = <<>>
    /\ consumer \in {"ok", "error"} => \A w \in Worker : work[w] = <<>>
    /\ consumer \in {"stop", "error"} => \E f \in Writer : writer[f] = "error"
    /\ \A t \in Feeder : feeder[t] = "error" => writer[FeedsTo[t]] = "error"
    /\ \A f \in Writer : writer[f] = "ok" => Closed(f)

ThreadsInv == StatusOK /\ ChannelsOK /\ Errors

\* Where record r of a blob b may be, as long as no thread has failed.
OnItsWay(r) ==
    \/ r.from > sent \/ r.from \in ToSet(blobs)
    \/ \E w \in Worker : r \in ToSet(work[w])
    \/ r \in ToSet(chan[r.to]) \/ r \in got[r.to]

Accounted ==
    /\ Building /\ producer = "ok" => sent = Len(Blobs)
    /\ \A t \in Feeder : Building /\ feeder[t] = "ok" => fed[t] = FeedSize
    /\ Building /\ consumer \in {"run", "ok"} =>
          \A r \in BlobRecord : writer[r.to] # "error" => OnItsWay(r)
    /\ \A t \in Feeder : Building /\ writer[FeedsTo[t]] # "error" =>
          \A k \in 1 .. fed[t] :
             FeedRecord(t, k) \in ToSet(chan[FeedsTo[t]]) \cup got[FeedsTo[t]]

\* What was published before the first error is whole, and has all records.
Published ==
    /\ disk[Source] = Memo!NoFile \/ disk[Source].whole
    /\ pc # "idle" => disk[Source] # Memo!NoFile
    /\ \A f \in Writer : Building /\ writer[f] = "ok" /\ stream = "ended" => disk[f].whole
    /\ \A f \in Writer : Building /\ writer[f] = "ok" /\ disk[f].whole => got[f] = All(f)
    /\ DOMAIN disk = {Source} \cup Writer

StageInv == ThreadsInv /\ Accounted /\ Published

-----------------------------------------------------------------------------
(***************************************************************************)
(* Sequences as sets.                                                      *)
(***************************************************************************)
LEMMA ToSetEmpty == ToSet(<<>>) = {}
BY DEF ToSet

LEMMA ToSetAppend ==
    ASSUME NEW S, NEW s \in Seq(S), NEW e \in S
    PROVE  /\ Append(s, e) \in Seq(S) /\ Len(Append(s, e)) = Len(s) + 1
           /\ ToSet(Append(s, e)) = ToSet(s) \cup {e}
<1>1. /\ Append(s, e) \in Seq(S) /\ Len(Append(s, e)) = Len(s) + 1
      /\ \A i \in 1 .. Len(s) : Append(s, e)[i] = s[i]
      /\ Append(s, e)[Len(s) + 1] = e
  BY AppendProperties
<1>2. DOMAIN s = 1 .. Len(s) /\ Len(s) \in Nat
  BY LenProperties
<1>3. DOMAIN Append(s, e) = 1 .. Len(s) + 1
  BY <1>1, LenProperties
<1>4. 1 .. Len(s) + 1 = (1 .. Len(s)) \cup {Len(s) + 1}
  BY <1>2
<1>5. QED
  BY <1>1, <1>2, <1>3, <1>4 DEF ToSet

LEMMA ToSetTail ==
    ASSUME NEW S, NEW s \in Seq(S), s # <<>>
    PROVE  /\ Head(s) \in S /\ Tail(s) \in Seq(S) /\ Len(Tail(s)) <= Len(s)
           /\ ToSet(s) = {Head(s)} \cup ToSet(Tail(s))
<1>1. /\ Head(s) \in S /\ Tail(s) \in Seq(S) /\ Len(Tail(s)) = Len(s) - 1
      /\ \A i \in 1 .. Len(Tail(s)) : Tail(s)[i] = s[i + 1]
  BY HeadTailProperties
<1>2. DOMAIN s = 1 .. Len(s) /\ Len(s) \in Nat /\ Len(s) # 0
  BY LenProperties, EmptySeq
<1>3. DOMAIN Tail(s) = 1 .. (Len(s) - 1)
  BY <1>1, LenProperties
<1>4. Head(s) = s[1]
  OBVIOUS
<1>5. 1 .. Len(s) = {1} \cup {i + 1 : i \in 1 .. (Len(s) - 1)}
  <2>1. ASSUME NEW j \in 1 .. Len(s), j # 1
        PROVE  j - 1 \in 1 .. (Len(s) - 1) /\ (j - 1) + 1 = j
    BY <1>2, <2>1
  <2>2. 1 .. Len(s) \subseteq {1} \cup {i + 1 : i \in 1 .. (Len(s) - 1)}
    BY <2>1
  <2>3. ASSUME NEW i \in 1 .. (Len(s) - 1)
        PROVE  i + 1 \in 1 .. Len(s)
    BY <1>2
  <2>4. QED
    BY <1>2, <2>2, <2>3
<1>6. \A i \in 1 .. (Len(s) - 1) : Tail(s)[i] = s[i + 1]
  BY <1>1
<1>7. {s[i + 1] : i \in 1 .. (Len(s) - 1)} = ToSet(Tail(s))
  BY <1>3, <1>6 DEF ToSet
<1>8. ToSet(s) = {s[1]} \cup {s[i + 1] : i \in 1 .. (Len(s) - 1)}
  BY <1>2, <1>5 DEF ToSet
<1>9. QED
  BY <1>1, <1>2, <1>4, <1>7, <1>8

-----------------------------------------------------------------------------
\* The records of the blobs: where they come from and where they belong.
LEMMA RecordsOfBlob ==
    ASSUME NEW b \in DOMAIN Blobs
    PROVE  /\ RecordsOf(b) \in Seq(BlobRecord)
           /\ \A r \in ToSet(RecordsOf(b)) : r.from = b /\ r.to \in Writer
<1>1. Blobs[b] \in Seq(Writer)
  BY ThreadsAssumption, ElementOfSeq, LenProperties
<1>2. DOMAIN Blobs[b] = 1 .. Len(Blobs[b]) /\ Len(Blobs[b]) \in Nat
      /\ \A k \in 1 .. Len(Blobs[b]) : Blobs[b][k] \in Writer
  BY <1>1, LenProperties, ElementOfSeq
<1>3. DOMAIN RecordsOf(b) = 1 .. Len(Blobs[b])
  BY <1>2 DEF RecordsOf
<1>4. \A k \in 1 .. Len(Blobs[b]) :
         RecordsOf(b)[k] = [to |-> Blobs[b][k], from |-> b, no |-> k]
  BY <1>2 DEF RecordsOf
<1>5. \A k \in 1 .. Len(Blobs[b]) : RecordsOf(b)[k] \in ToSet(RecordsOf(b))
  BY <1>3 DEF ToSet
<1>6. \A k \in 1 .. Len(Blobs[b]) : RecordsOf(b)[k] \in BlobRecord
  BY <1>5 DEF BlobRecord
<1>7. RecordsOf(b) \in [1 .. Len(Blobs[b]) -> BlobRecord]
  BY <1>2, <1>6 DEF RecordsOf
<1>8. RecordsOf(b) \in Seq(BlobRecord)
  BY <1>2, <1>7, SeqDef
<1>9. \A r \in ToSet(RecordsOf(b)) : r.from = b /\ r.to \in Writer
  BY <1>2, <1>3, <1>4 DEF ToSet
<1>10. QED
  BY <1>8, <1>9

LEMMA BlobRecords ==
    ASSUME NEW r \in BlobRecord
    PROVE  /\ r.from \in DOMAIN Blobs /\ r \in ToSet(RecordsOf(r.from))
           /\ r.to \in Writer /\ r \in All(r.to)
<1>1. PICK b \in DOMAIN Blobs : r \in ToSet(RecordsOf(b))
  BY DEF BlobRecord
<1>2. r.from = b /\ r.to \in Writer
  BY <1>1, RecordsOfBlob
<1>3. QED
  BY <1>1, <1>2 DEF All, BlobRecord

LEMMA FeedRecords ==
    ASSUME NEW t \in Feeder, NEW k \in 1 .. FeedSize
    PROVE  FeedsTo[t] \in Writer /\ FeedRecord(t, k) \in All(FeedsTo[t])
<1>1. t \in {u \in Feeder : FeedsTo[u] = FeedsTo[t]}
  OBVIOUS
<1>2. FeedRecord(t, k) \in
        {FeedRecord(v, l) : v \in {u \in Feeder : FeedsTo[u] = FeedsTo[t]}, l \in 1 .. FeedSize}
  BY <1>1
<1>3. QED
  BY <1>2, ThreadsAssumption DEF All

LEMMA AllRecords ==
    ASSUME NEW f \in Writer, NEW r \in All(f)
    PROVE  \/ r \in BlobRecord /\ r.to = f
           \/ \E t \in Feeder, k \in 1 .. FeedSize : FeedsTo[t] = f /\ r = FeedRecord(t, k)
BY DEF All, BlobRecord

-----------------------------------------------------------------------------
\* The steps that are taken while there are no threads, and that leave the
\* directory alone but for the source.
LEMMA OutsideSteps ==
    ASSUME StatusOK, Install \/ Begin \/ Reuse \/ Finish \/ UNCHANGED vars
    PROVE  /\ UNCHANGED threads
           /\ pc' = "build" <=> pc = "build"
           /\ pc' \in {"idle", "check", "build", "built"} /\ stage' \in {1, 2}
           /\ pc' \in {"check", "build"} => stage' = 1
           /\ \/ disk' = disk
              \/ /\ Install /\ pc = "idle" /\ pc' = "idle"
                 /\ disk' = [disk EXCEPT ![Source] =
                       [from |-> {clock + 1}, whole |-> TRUE, at |-> clock + 1]]
           /\ pc = "idle" /\ pc' # "idle" => disk[Source] # Memo!NoFile
<1>1. CASE Install
  BY <1>1 DEF Install, Memo!InstallSource, Memo!PutSource, Memo!runVars, StatusOK
<1>2. CASE Begin
  BY <1>2 DEF Begin, Memo!Begin, Memo!Exists, StatusOK
<1>3. CASE Reuse
  BY <1>3 DEF Reuse, Memo!Reuse, Memo!Advance, StatusOK
<1>4. CASE Finish
  BY <1>4 DEF Finish, Memo!Finish, StatusOK
<1>5. CASE UNCHANGED vars
  BY <1>5 DEF vars, rest, StatusOK
<1>6. QED
  BY <1>1, <1>2, <1>3, <1>4, <1>5

\* Who does what in a scope, and where a scope is entered and left.
InScope ==
    \/ ProducerSend \/ ProducerReturn \/ ProducerFault
    \/ \E w \in Worker : Take(w) \/ WorkerSend(w)
    \/ BridgeReturn
    \/ \E t \in Feeder : FeederStep(t)
    \/ \E f \in Writer : Receive(f) \/ Publish(f) \/ WriteFault(f)

Outside == Install \/ Begin \/ Reuse \/ Finish \/ UNCHANGED vars

LEMMA Steps ==
    ASSUME [Next]_vars
    PROVE  Outside \/ Spawn \/ InScope \/ JoinOk \/ JoinError \/ Crash
BY DEF Next, ThreadStep, ThreadFault, InScope, Outside

LEMMA InScopeKeeps ==
    ASSUME InScope
    PROVE  /\ pc' = pc /\ stage' = stage /\ clock' = clock /\ installs' = installs
           /\ disk' = disk \/ \E f \in Writer : Publish(f)
BY DEF InScope, ProducerSend, ProducerReturn, ProducerFault, Take, WorkerSend, BridgeReturn,
       FeederStep, Receive, Publish, WriteFault, rest

LEMMA StatusStep ==
    ASSUME StatusOK, [Next]_vars
    PROVE  StatusOK'
<1>1. CASE Outside
  BY <1>1, OutsideSteps DEF Outside, StatusOK, threads, upstream, downstream
<1>2. CASE Spawn
  BY <1>2 DEF Spawn, Upstream, Downstream, StatusOK, Status
<1>3. CASE InScope
  <2>1. /\ producer' \in Status /\ consumer' \in Status \cup {"stop"}
        /\ feeder' \in [Feeder -> Status] /\ writer' \in [Writer -> Status]
    <3>1. CASE ProducerSend \/ ProducerReturn \/ ProducerFault \/ BridgeReturn
               \/ \E w \in Worker : Take(w) \/ WorkerSend(w)
      BY <3>1 DEF ProducerSend, ProducerReturn, ProducerFault, BridgeReturn, Take, WorkerSend,
                  downstream, StatusOK, Status
    <3>2. ASSUME NEW t \in Feeder, FeederStep(t)
          PROVE  feeder' \in [Feeder -> Status] /\ UNCHANGED <<producer, consumer, writer>>
      BY <3>2 DEF FeederStep, StatusOK, Status
    <3>3. ASSUME NEW f \in Writer, Receive(f) \/ Publish(f) \/ WriteFault(f)
          PROVE  writer' \in [Writer -> Status] /\ UNCHANGED <<producer, consumer, feeder>>
      BY <3>3 DEF Receive, Publish, WriteFault, upstream, StatusOK, Status
    <3>4. QED
      BY <1>3, <3>1, <3>2, <3>3 DEF InScope, StatusOK
  <2>2. QED
    BY <1>3, <2>1, InScopeKeeps DEF StatusOK
<1>4. CASE JoinOk
  BY <1>4 DEF JoinOk, Joined, threads, upstream, downstream, StatusOK
<1>5. CASE JoinError \/ Crash
  BY <1>5 DEF JoinError, Crash, Upstream, Downstream, StatusOK, Status
<1>6. QED
  BY <1>1, <1>2, <1>3, <1>4, <1>5, Steps

-----------------------------------------------------------------------------
\* Entering or leaving a scope sets everybody to the same state.
LEMMA ErrorsReset ==
    ASSUME NEW s \in {"run", "ok"}, Upstream(s), Downstream(s),
           s = "run" => pc' = "build", s = "ok" => pc' = "idle",
           StatusOK
    PROVE  Errors'
<1>1. producer' = s /\ consumer' = s /\ blobs' = <<>>
  BY DEF Upstream
<1>2. \A w \in Worker : work'[w] = <<>>
  BY DEF Upstream
<1>3. \A t \in Feeder : feeder'[t] = s
  BY DEF Upstream
<1>4. \A f \in Writer : writer'[f] = s
  BY DEF Downstream
<1>5. QED
  BY <1>1, <1>2, <1>3, <1>4 DEF Errors, Building, Closed

LEMMA ErrorsStep ==
    ASSUME ThreadsInv, [Next]_vars
    PROVE  Errors'
<1> USE DEF ThreadsInv
<1>1. CASE Outside
  <2>1. UNCHANGED threads /\ Building' = Building
    BY <1>1, OutsideSteps DEF Outside, Building
  <2>2. QED
    BY <2>1 DEF Errors, Closed, threads, upstream, downstream
<1>2. CASE Spawn \/ JoinError \/ Crash
  BY <1>2, ErrorsReset DEF Spawn, JoinError, Crash
<1>3. CASE JoinOk
  BY <1>3 DEF JoinOk, Joined, failed, Errors, Closed, Building, threads, upstream, downstream,
              StatusOK, Status
<1>4. CASE InScope
  <2>1. Building' = Building
    BY <1>4, InScopeKeeps DEF Building
  <2>2. CASE ProducerSend \/ ProducerReturn \/ ProducerFault
    <3>1. UNCHANGED <<work, consumer, feeder, downstream>>
      BY <2>2 DEF ProducerSend, ProducerReturn, ProducerFault
    <3>2. producer = "run" /\ Building
      BY <2>2 DEF ProducerSend, ProducerReturn, ProducerFault, Errors
    <3>3. consumer = "ok" => FALSE
      BY <3>2 DEF Errors
    <3>4. QED
      BY <2>1, <3>1, <3>2, <3>3 DEF Errors, Closed, downstream
  <2>3. ASSUME NEW w \in Worker, Take(w)
        PROVE  Errors'
    <3>1. consumer = "run" /\ UNCHANGED <<producer, consumer, feeder, writer>>
      BY <2>3 DEF Take, downstream
    <3>2. QED
      BY <2>1, <3>1 DEF Errors, Closed, Building
  <2>4. ASSUME NEW w \in Worker, WorkerSend(w)
        PROVE  Errors'
    <3>1. UNCHANGED <<producer, feeder, writer, blobs>> /\ work[w] # <<>>
      BY <2>4 DEF WorkerSend
    <3>2. consumer \in {"run", "stop"}
      BY <3>1 DEF Errors, StatusOK, Status
    <3>3. Building
      BY <3>2 DEF Errors
    <3>4. \A f \in Writer : writer[f] # "ok"
      BY <3>2 DEF Errors, Closed
    <3>5. Head(work[w]).to \in Writer
      BY <3>1, ToSetTail, BlobRecords DEF ChannelsOK
    <3>6. \/ consumer' = consumer
          \/ consumer' = "stop" /\ Gone(Head(work[w]).to)
      BY <2>4 DEF WorkerSend
    <3>7. consumer' = "stop" => \E f \in Writer : writer[f] = "error"
      BY <3>4, <3>5, <3>6 DEF Errors, Gone, StatusOK, Status
    <3>8. consumer' \in {"run", "stop"}
      BY <3>2, <3>6
    <3>9. QED
      BY <2>1, <3>1, <3>3, <3>4, <3>7, <3>8 DEF Errors, Closed
  <2>5. CASE BridgeReturn
    <3>1. UNCHANGED <<producer, feeder, writer, work>> /\ \A w \in Worker : work[w] = <<>>
      BY <2>5 DEF BridgeReturn, downstream
    <3>2. \/ consumer = "stop" /\ consumer' = "error"
          \/ consumer = "run" /\ consumer' = "ok" /\ producer # "run" /\ blobs' = <<>>
      BY <2>5 DEF BridgeReturn
    <3>3. Building
      BY <3>2 DEF Errors
    <3>4. QED
      BY <2>1, <3>1, <3>2, <3>3 DEF Errors, Closed
  <2>6. ASSUME NEW t \in Feeder, FeederStep(t)
        PROVE  Errors'
    <3>1. /\ UNCHANGED <<producer, consumer, blobs, work, writer>>
          /\ feeder[t] = "run" /\ Building
      BY <2>6 DEF FeederStep, Errors
    <3>2. feeder' \in {feeder, [feeder EXCEPT ![t] = "ok"], [feeder EXCEPT ![t] = "error"]}
      BY <2>6 DEF FeederStep
    <3>3. feeder' = [feeder EXCEPT ![t] = "error"] => writer[FeedsTo[t]] = "error"
      <4>1. FeedsTo[t] \in Writer
        BY ThreadsAssumption
      <4>2. writer[FeedsTo[t]] # "ok"
        BY <3>1, <4>1 DEF Errors, Closed
      <4>3. feeder' = [feeder EXCEPT ![t] = "error"] => Gone(FeedsTo[t])
        BY <2>6, <3>1 DEF FeederStep, StatusOK
      <4>4. QED
        BY <4>1, <4>2, <4>3 DEF Gone, StatusOK, Status
    <3>4. \A u \in Feeder : feeder'[u] = "error" => writer[FeedsTo[u]] = "error"
      BY <3>2, <3>3 DEF Errors, StatusOK
    <3>5. \A u \in Feeder : feeder[u] # "run" => feeder'[u] # "run"
      BY <3>2 DEF StatusOK
    <3>6. QED
      BY <2>1, <3>1, <3>4, <3>5 DEF Errors, Closed
  <2>7. ASSUME NEW f \in Writer, Receive(f)
        PROVE  Errors'
    BY <2>1, <2>7 DEF Receive, Errors, Closed, upstream, Building
  <2>8. ASSUME NEW f \in Writer, Publish(f) \/ WriteFault(f)
        PROVE  Errors'
    <3>1. UNCHANGED upstream /\ writer[f] = "run" /\ Building
      BY <2>8 DEF Publish, WriteFault, Errors
    <3>2. \/ writer' = [writer EXCEPT ![f] = "ok"] /\ Closed(f)
          \/ writer' = [writer EXCEPT ![f] = "error"]
      BY <2>8 DEF Publish, WriteFault
    <3>3. \A g \in Writer : writer'[g] = "ok" => Closed(g)
      BY <3>2 DEF StatusOK, Errors
    <3>4. \A g \in Writer : writer[g] = "error" => writer'[g] = "error"
      BY <3>1, <3>2 DEF StatusOK
    <3>5. \A t \in Feeder : FeedsTo[t] \in Writer
      BY ThreadsAssumption
    <3>6. QED
      BY <2>1, <3>1, <3>3, <3>4, <3>5 DEF Errors, Closed, upstream
  <2>9. QED
    BY <1>4, <2>2, <2>3, <2>4, <2>5, <2>6, <2>7, <2>8 DEF InScope
<1>5. QED
  BY <1>1, <1>2, <1>3, <1>4, Steps

-----------------------------------------------------------------------------
(***************************************************************************)
(* What MemoStages sees.                                                   *)
(***************************************************************************)
\* What it cannot see.
Hidden ==
    /\ UNCHANGED rest
    /\ pending' = pending /\ stream' = stream /\ failed' = failed

LEMMA HiddenStutters ==
    ASSUME Hidden
    PROVE  UNCHANGED Memo!memoVars
BY DEF Hidden, rest, Memo!memoVars, Memo!runVars, Memo!countVars

\* Threads that nobody has failed and that are done, or have just begun.
LEMMA AllTheSame ==
    ASSUME NEW s \in {"run", "ok"}, Upstream(s), Downstream(s)
    PROVE  /\ pending' = IF s = "run" THEN Writer ELSE {}
           /\ stream' = IF s = "run" THEN "open" ELSE "ended"
           /\ failed' = FALSE
<1>1. producer' = s /\ consumer' = s
  BY DEF Upstream
<1>2. \A t \in Feeder : feeder'[t] = s
  BY DEF Upstream
<1>3. \A f \in Writer : writer'[f] = s
  BY DEF Downstream
<1>4. QED
  BY <1>1, <1>2, <1>3 DEF pending, stream, failed

LEMMA RefinesInit == Init => Memo!MemoInit
<1> SUFFICES ASSUME Init PROVE Memo!MemoInit
  OBVIOUS
<1>1. pending = {} /\ stream = "ended" /\ failed = FALSE
  BY DEF Init, pending, stream, failed
<1>2. QED
  BY <1>1 DEF Init, Memo!MemoInit

\* The producer's error is a read error of the stage; the rest of what the
\* producer does is hidden.
LEMMA RefinesProducer ==
    ASSUME ThreadsInv, ProducerSend \/ ProducerReturn \/ ProducerFault
    PROVE  Memo!ReadFault \/ Hidden
<1> USE DEF ThreadsInv
<1>1. UNCHANGED <<consumer, feeder, writer>> /\ producer = "run" /\ Building
  BY DEF ProducerSend, ProducerReturn, ProducerFault, downstream, Errors
<1>2. pending' = pending
  BY <1>1 DEF pending
<1>3. consumer # "ok"
  BY <1>1 DEF Errors
<1>4. CASE ProducerSend \/ ProducerReturn
  <2>1. UNCHANGED rest
    BY <1>4 DEF ProducerSend, ProducerReturn
  <2>2. producer' = "error" => consumer = "error"
    BY <1>1, <1>4 DEF ProducerSend, ProducerReturn
  <2>3. stream' = stream
    BY <1>1, <2>2 DEF stream
  <2>4. failed' = failed
    BY <1>1, <2>2 DEF failed
  <2>5. QED
    BY <1>2, <2>1, <2>3, <2>4 DEF Hidden
<1>5. CASE ProducerFault
  <2>1. stream = "open" /\ stream' = "cut"
    BY <1>1, <1>3, <1>5 DEF ProducerFault, stream
  <2>2. failed' = TRUE
    BY <1>5 DEF ProducerFault, failed
  <2>3. QED
    BY <1>1, <1>2, <1>5, <2>1, <2>2 DEF ProducerFault, Memo!ReadFault, Building
<1>6. QED
  BY <1>4, <1>5

\* A worker that finds a writer gone is no news: the writer has failed.
LEMMA RefinesWorker ==
    ASSUME ThreadsInv, NEW w \in Worker, Take(w) \/ WorkerSend(w), Errors', StatusOK'
    PROVE  Hidden
<1> USE DEF ThreadsInv
<1>1. UNCHANGED <<rest, producer, feeder, writer>>
  BY DEF Take, WorkerSend, downstream
<1>2. consumer \in {"run", "stop"}
  BY DEF Take, WorkerSend, Errors, StatusOK, Status
<1>3. \/ consumer' = consumer
      \/ consumer' = "stop"
  BY DEF Take, WorkerSend
<1>4. pending' = pending
  BY <1>1 DEF pending
<1>5. stream' = stream
  BY <1>1, <1>2, <1>3 DEF stream
<1>6. consumer' # consumer => \E f \in Writer : writer[f] = "error"
  BY <1>1, <1>3 DEF Errors
<1>7. failed' = failed
  <2>1. CASE consumer' = consumer
    BY <1>1, <2>1 DEF failed
  <2>2. CASE consumer' # consumer
    BY <1>1, <1>6, <2>2 DEF failed
  <2>3. QED
    BY <2>1, <2>2
<1>8. QED
  BY <1>1, <1>4, <1>5, <1>7 DEF Hidden

\* The end of the bridge is the end of the stream.
LEMMA RefinesBridge ==
    ASSUME ThreadsInv, BridgeReturn
    PROVE  Memo!EndStream \/ Memo!Cut \/ Hidden
<1> USE DEF ThreadsInv
<1>1. UNCHANGED <<rest, producer, feeder, writer>>
  BY DEF BridgeReturn, downstream
<1>2. Building
  BY DEF BridgeReturn, Errors
<1>3. pending' = pending
  BY <1>1 DEF pending
<1>4. CASE consumer = "stop"
  <2>1. consumer' = "error" /\ stream' = "cut" /\ failed = TRUE /\ failed' = TRUE
    BY <1>4 DEF BridgeReturn, stream, failed
  <2>2. stream \in {"open", "cut"}
    BY <1>4 DEF stream
  <2>3. QED
    BY <1>1, <1>2, <1>3, <2>1, <2>2 DEF Memo!Cut, Memo!countVars, Hidden, rest, Building
<1>5. CASE consumer # "stop"
  <2>1. consumer = "run" /\ consumer' = "ok" /\ producer \in {"ok", "error"}
    BY <1>5 DEF BridgeReturn, StatusOK, Status
  <2>2. failed' = failed
    BY <1>1, <2>1 DEF failed
  <2>3. \/ producer = "error" /\ stream = "cut" /\ stream' = "cut"
        \/ producer = "ok" /\ stream = "open" /\ stream' = "ended"
    BY <1>1, <2>1 DEF stream
  <2>4. QED
    BY <1>1, <1>2, <1>3, <2>2, <2>3 DEF Memo!EndStream, Memo!countVars, Hidden, rest, Building
<1>6. QED
  BY <1>4, <1>5

\* Nor is it news when a feeder does.
LEMMA RefinesFeeder ==
    ASSUME ThreadsInv, NEW t \in Feeder, FeederStep(t), Errors', StatusOK'
    PROVE  Hidden
<1> USE DEF ThreadsInv
<1>1. UNCHANGED <<rest, producer, consumer, writer>>
  BY DEF FeederStep
<1>2. pending' = pending /\ stream' = stream
  BY <1>1 DEF pending, stream
<1>3. \A u \in Feeder : feeder[u] = "error" => feeder'[u] = "error"
  BY DEF FeederStep, StatusOK
<1>4. \A u \in Feeder : feeder'[u] = "error" => writer[FeedsTo[u]] = "error" /\ FeedsTo[u] \in Writer
  BY <1>1, ThreadsAssumption DEF Errors
<1>5. (\E u \in Feeder : feeder'[u] = "error") => \E f \in Writer : writer[f] = "error"
  BY <1>4
<1>6. failed' <=> failed
  BY <1>1, <1>3, <1>5 DEF failed
<1>7. failed' = failed
  BY <1>6 DEF failed
<1>8. QED
  BY <1>1, <1>2, <1>7 DEF Hidden

LEMMA RefinesWriter ==
    ASSUME ThreadsInv, NEW f \in Writer, Receive(f) \/ Publish(f) \/ WriteFault(f)
    PROVE  Memo!Publish(f) \/ Memo!WriteFault(f) \/ Hidden
<1> USE DEF ThreadsInv
<1>1. UNCHANGED upstream
  BY DEF Receive, Publish, WriteFault
<1>2. stream' = stream
  BY <1>1 DEF stream, upstream
<1>3. CASE Receive(f)
  BY <1>1, <1>2, <1>3 DEF Receive, Hidden, pending, failed, upstream
<1>4. CASE Publish(f)
  <2>1. writer[f] = "run" /\ writer' = [writer EXCEPT ![f] = "ok"] /\ Closed(f)
    BY <1>4 DEF Publish
  <2>2. f \in pending /\ pending' = pending \ {f}
    BY <2>1 DEF pending, StatusOK
  <2>3. stream # "open" /\ Building
    BY <2>1 DEF stream, Closed, Errors
  <2>4. failed' <=> failed
    BY <1>1, <2>1 DEF failed, StatusOK, upstream
  <2>5. failed' = failed
    BY <2>4 DEF failed
  <2>6. QED
    BY <1>2, <1>4, <2>2, <2>3, <2>5 DEF Publish, Memo!Publish, Memo!countVars, Building
<1>5. CASE WriteFault(f)
  <2>1. writer[f] = "run" /\ writer' = [writer EXCEPT ![f] = "error"]
    BY <1>5 DEF WriteFault
  <2>2. f \in pending /\ pending' = pending \ {f}
    BY <2>1 DEF pending, StatusOK
  <2>3. Building /\ writer'[f] = "error"
    BY <2>1 DEF Errors, StatusOK
  <2>4. failed' = TRUE
    BY <2>3 DEF failed
  <2>5. QED
    BY <1>2, <1>5, <2>2, <2>3, <2>4 DEF WriteFault, Memo!WriteFault, Building
<1>6. QED
  BY <1>3, <1>4, <1>5

\* Entering the scope is to build, leaving it is to be done with the stage.
LEMMA RefinesScope ==
    ASSUME ThreadsInv, Spawn \/ JoinOk \/ JoinError \/ Crash
    PROVE  Memo!Build \/ Memo!StageOk \/ Memo!StageError \/ Memo!Crash
<1> USE DEF ThreadsInv
<1>1. CASE Spawn
  <2>1. pending' = Writer /\ stream' = "open" /\ failed' = FALSE
    BY <1>1, AllTheSame DEF Spawn
  <2>2. stage = 1 /\ <<Writer>>[stage] = Writer
    BY <1>1 DEF Spawn, StatusOK
  <2>3. QED
    BY <1>1, <2>1, <2>2 DEF Spawn, Memo!Build, Memo!countVars
<1>2. CASE JoinOk
  <2>1. stage = 1 /\ stream # "open" /\ pending = {}
    BY <1>2 DEF JoinOk, Joined, StatusOK, stream, pending
  <2>2. pending' = pending /\ stream' = stream /\ failed' = failed
    BY <1>2 DEF JoinOk, threads, upstream, downstream, pending, stream, failed
  <2>3. QED
    BY <1>2, <2>1, <2>2 DEF JoinOk, Joined, Memo!StageOk, Memo!Advance, Memo!countVars
<1>3. CASE JoinError
  <2>1. stream # "open" /\ pending = {}
    BY <1>3 DEF JoinError, Joined, stream, pending
  <2>2. pending' = {} /\ stream' = "ended" /\ failed' = FALSE
    BY <1>3, AllTheSame DEF JoinError
  <2>3. QED
    BY <1>3, <2>1, <2>2 DEF JoinError, Joined, Memo!StageError, Memo!countVars
<1>4. CASE Crash
  <2>1. pending' = {} /\ stream' = "ended" /\ failed' = FALSE
    BY <1>4, AllTheSame DEF Crash
  <2>2. QED
    BY <1>4, <2>1 DEF Crash, Memo!Crash
<1>5. QED
  BY <1>1, <1>2, <1>3, <1>4

LEMMA RefinesStep ==
    ASSUME ThreadsInv, [Next]_vars, StatusOK', Errors'
    PROVE  [Memo!MemoNext]_Memo!memoVars
<1>1. CASE Outside
  <2>1. CASE UNCHANGED vars
    <3>1. Hidden
      BY <2>1 DEF vars, threads, upstream, downstream, Hidden, pending, stream, failed
    <3>2. QED
      BY <3>1, HiddenStutters
  <2>2. QED
    BY <1>1, <2>1 DEF Outside, Install, Begin, Reuse, Finish, Memo!MemoNext, Memo!StageNext
<1>2. CASE Spawn \/ JoinOk \/ JoinError \/ Crash
  BY <1>2, RefinesScope DEF Memo!MemoNext, Memo!StageNext, Memo!Threads
<1>3. CASE InScope
  <2>1. CASE ProducerSend \/ ProducerReturn \/ ProducerFault
    BY <2>1, RefinesProducer, HiddenStutters DEF Memo!MemoNext, Memo!StageNext, Memo!Threads
  <2>2. CASE \E w \in Worker : Take(w) \/ WorkerSend(w)
    BY <2>2, RefinesWorker, HiddenStutters
  <2>3. CASE BridgeReturn
    BY <2>3, RefinesBridge, HiddenStutters DEF Memo!MemoNext, Memo!StageNext, Memo!Threads
  <2>4. CASE \E t \in Feeder : FeederStep(t)
    BY <2>4, RefinesFeeder, HiddenStutters
  <2>5. ASSUME NEW f \in Writer, Receive(f) \/ Publish(f) \/ WriteFault(f)
        PROVE  [Memo!MemoNext]_Memo!memoVars
    <3>1. Memo!Publish(f) \/ Memo!WriteFault(f) \/ Hidden
      BY <2>5, RefinesWriter
    <3>2. f \in {Source} \cup Writer
      OBVIOUS
    <3>3. QED
      BY <3>1, <3>2, HiddenStutters DEF Memo!MemoNext, Memo!StageNext, Memo!Threads
  <2>6. QED
    BY <1>3, <2>1, <2>2, <2>3, <2>4, <2>5 DEF InScope
<1>4. QED
  BY <1>1, <1>2, <1>3, Steps

-----------------------------------------------------------------------------
\* A channel that grows or shrinks at its ends stays a channel.
LEMMA PutType ==
    ASSUME ChannelsOK, NEW f \in Writer, NEW r \in All(f),
           Len(chan[f]) < Capacity, chan' = [chan EXCEPT ![f] = Append(@, r)]
    PROVE  /\ DOMAIN chan' = Writer /\ chan' = [g \in Writer |-> chan'[g]]
           /\ \A g \in Writer : chan'[g] \in Seq(All(g)) /\ Len(chan'[g]) <= Capacity
           /\ \A g \in Writer \ {f} : chan'[g] = chan[g]
           /\ ToSet(chan'[f]) = ToSet(chan[f]) \cup {r}
<1>1. chan[f] \in Seq(All(f)) /\ DOMAIN chan = Writer
  BY DEF ChannelsOK
<1>2. chan'[f] = Append(chan[f], r) /\ \A g \in Writer \ {f} : chan'[g] = chan[g]
  BY <1>1
<1>3. /\ Append(chan[f], r) \in Seq(All(f)) /\ Len(Append(chan[f], r)) = Len(chan[f]) + 1
      /\ ToSet(Append(chan[f], r)) = ToSet(chan[f]) \cup {r}
  BY <1>1, ToSetAppend
<1>4. Len(chan[f]) \in Nat /\ Capacity \in Nat
  BY <1>1, ThreadsAssumption
<1>5. Len(chan'[f]) <= Capacity
  BY <1>2, <1>3, <1>4
<1>6. DOMAIN chan' = Writer /\ chan' = [g \in Writer |-> chan'[g]]
  BY <1>1
<1>7. QED
  BY <1>2, <1>3, <1>5, <1>6 DEF ChannelsOK

LEMMA GetType ==
    ASSUME ChannelsOK, NEW f \in Writer, chan[f] # <<>>, chan' = [chan EXCEPT ![f] = Tail(@)]
    PROVE  /\ DOMAIN chan' = Writer /\ chan' = [g \in Writer |-> chan'[g]]
           /\ \A g \in Writer : chan'[g] \in Seq(All(g)) /\ Len(chan'[g]) <= Capacity
           /\ \A g \in Writer \ {f} : chan'[g] = chan[g]
           /\ Head(chan[f]) \in All(f)
           /\ ToSet(chan[f]) = ToSet(chan'[f]) \cup {Head(chan[f])}
<1>1. chan[f] \in Seq(All(f)) /\ DOMAIN chan = Writer
  BY DEF ChannelsOK
<1>2. chan'[f] = Tail(chan[f]) /\ \A g \in Writer \ {f} : chan'[g] = chan[g]
  BY <1>1
<1>3. /\ Tail(chan[f]) \in Seq(All(f)) /\ Len(Tail(chan[f])) <= Len(chan[f])
      /\ Head(chan[f]) \in All(f)
      /\ ToSet(chan[f]) = {Head(chan[f])} \cup ToSet(Tail(chan[f]))
  BY <1>1, ToSetTail
<1>4. Len(chan[f]) \in Nat /\ Len(Tail(chan[f])) \in Nat /\ Capacity \in Nat
  BY <1>1, <1>3, ThreadsAssumption
<1>5. Len(chan'[f]) <= Capacity
  BY <1>2, <1>3, <1>4 DEF ChannelsOK
<1>6. DOMAIN chan' = Writer /\ chan' = [g \in Writer |-> chan'[g]]
  BY <1>1
<1>7. QED
  BY <1>2, <1>3, <1>5, <1>6 DEF ChannelsOK

LEMMA ChannelsReset ==
    ASSUME NEW s, Upstream(s), Downstream(s)
    PROVE  ChannelsOK'
<1>1. Len(Blobs) \in Nat /\ Cardinality(Worker) \in Nat /\ FeedSize \in Nat /\ Capacity \in Nat
  BY ThreadsAssumption, FS_CardinalityType, LenProperties
<1>2. sent' \in 0 .. Len(Blobs) /\ fed' \in [Feeder -> 0 .. FeedSize]
  BY <1>1 DEF Upstream
<1>3. blobs' \in Seq(DOMAIN Blobs) /\ Len(blobs') <= Cardinality(Worker)
  BY <1>1, EmptySeq DEF Upstream
<1>4. work' \in [Worker -> Seq(BlobRecord)]
  BY EmptySeq DEF Upstream
<1>5. \A f \in Writer : chan'[f] = <<>> /\ got'[f] = {}
  BY DEF Downstream
<1>6. \A f \in Writer : <<>> \in Seq(All(f)) /\ Len(<<>>) <= Capacity
  BY <1>1, EmptySeq
<1>7. /\ DOMAIN chan' = Writer /\ chan' = [f \in Writer |-> chan'[f]]
      /\ DOMAIN got' = Writer /\ got' = [f \in Writer |-> got'[f]]
  BY DEF Downstream
<1>8. QED
  BY <1>2, <1>3, <1>4, <1>5, <1>6, <1>7 DEF ChannelsOK

LEMMA ChannelsStep ==
    ASSUME ThreadsInv, [Next]_vars
    PROVE  ChannelsOK'
<1> USE DEF ThreadsInv
<1>1. CASE Outside \/ JoinOk
  <2>1. UNCHANGED threads
    BY <1>1, OutsideSteps DEF Outside, JoinOk
  <2>2. QED
    BY <2>1 DEF ChannelsOK, threads, upstream, downstream
<1>2. CASE Spawn \/ JoinError \/ Crash
  BY <1>2, ChannelsReset DEF Spawn, JoinError, Crash
<1>3. CASE ProducerSend \/ ProducerReturn \/ ProducerFault
  <2>1. UNCHANGED <<work, fed, chan, got>>
    BY <1>3 DEF ProducerSend, ProducerReturn, ProducerFault, downstream
  <2>2. CASE UNCHANGED <<sent, blobs>>
    BY <2>1, <2>2 DEF ChannelsOK
  <2>3. CASE ProducerSend /\ sent' = sent + 1
    <3>1. /\ sent < Len(Blobs) /\ Len(blobs) < Cardinality(Worker)
          /\ blobs' = Append(blobs, sent + 1)
      BY <2>3 DEF ProducerSend, ChannelsOK
    <3>2. Len(Blobs) \in Nat /\ Cardinality(Worker) \in Nat /\ DOMAIN Blobs = 1 .. Len(Blobs)
      BY ThreadsAssumption, FS_CardinalityType, LenProperties
    <3>3. sent + 1 \in DOMAIN Blobs /\ sent' \in 0 .. Len(Blobs)
      BY <2>3, <3>1, <3>2 DEF ChannelsOK
    <3>4. blobs' \in Seq(DOMAIN Blobs) /\ Len(blobs') = Len(blobs) + 1 /\ Len(blobs) \in Nat
      BY <3>1, <3>3, ToSetAppend, LenProperties DEF ChannelsOK
    <3>5. Len(blobs') <= Cardinality(Worker)
      BY <3>1, <3>2, <3>4
    <3>6. QED
      BY <2>1, <3>3, <3>4, <3>5 DEF ChannelsOK
  <2>4. QED
    BY <1>3, <2>2, <2>3 DEF ProducerSend, ProducerReturn, ProducerFault
<1>4. ASSUME NEW w \in Worker, Take(w)
      PROVE  ChannelsOK'
  <2>1. UNCHANGED <<sent, fed, chan, got>> /\ blobs # <<>>
    BY <1>4 DEF Take, downstream
  <2>2. work' = [work EXCEPT ![w] = RecordsOf(Head(blobs))] /\ blobs' = Tail(blobs)
    BY <1>4 DEF Take
  <2>3. /\ Head(blobs) \in DOMAIN Blobs /\ Tail(blobs) \in Seq(DOMAIN Blobs)
        /\ Len(Tail(blobs)) <= Len(blobs)
    BY <2>1, ToSetTail DEF ChannelsOK
  <2>4. work' \in [Worker -> Seq(BlobRecord)]
    BY <2>2, <2>3, RecordsOfBlob DEF ChannelsOK
  <2>5. Len(blobs') <= Cardinality(Worker)
    <3>1. Len(blobs) \in Nat /\ Len(blobs') \in Nat /\ Cardinality(Worker) \in Nat
      BY <2>2, <2>3, ThreadsAssumption, FS_CardinalityType, LenProperties DEF ChannelsOK
    <3>2. QED
      BY <2>2, <2>3, <3>1 DEF ChannelsOK
  <2>6. QED
    BY <2>1, <2>2, <2>3, <2>4, <2>5 DEF ChannelsOK
<1>5. ASSUME NEW w \in Worker, WorkerSend(w)
      PROVE  ChannelsOK'
  <2>1. UNCHANGED <<sent, blobs, fed, got>> /\ work[w] # <<>>
    BY <1>5 DEF WorkerSend
  <2>2. work[w] \in Seq(BlobRecord)
    BY DEF ChannelsOK
  <2>3. /\ Head(work[w]) \in BlobRecord /\ Tail(work[w]) \in Seq(BlobRecord)
        /\ Head(work[w]).to \in Writer /\ Head(work[w]) \in All(Head(work[w]).to)
    BY <2>1, <2>2, ToSetTail, BlobRecords
  <2>4. CASE Gone(Head(work[w]).to)
    <3>1. work' = [work EXCEPT ![w] = <<>>] /\ chan' = chan
      BY <1>5, <2>4 DEF WorkerSend
    <3>2. work' \in [Worker -> Seq(BlobRecord)]
      BY <3>1, EmptySeq DEF ChannelsOK
    <3>3. QED
      BY <2>1, <3>1, <3>2 DEF ChannelsOK
  <2>5. CASE ~Gone(Head(work[w]).to)
    <3>1. work' = [work EXCEPT ![w] = Tail(@)] /\ Put(Head(work[w]))
      BY <1>5, <2>5 DEF WorkerSend
    <3>2. work' \in [Worker -> Seq(BlobRecord)]
      BY <2>3, <3>1 DEF ChannelsOK
    <3>3. /\ DOMAIN chan' = Writer /\ chan' = [g \in Writer |-> chan'[g]]
          /\ \A g \in Writer : chan'[g] \in Seq(All(g)) /\ Len(chan'[g]) <= Capacity
      BY <2>3, <3>1, PutType DEF Put
    <3>4. QED
      BY <2>1, <3>2, <3>3 DEF ChannelsOK
  <2>6. QED
    BY <2>4, <2>5
<1>6. CASE BridgeReturn
  <2>1. UNCHANGED <<sent, work, fed, chan, got>> /\ blobs' = <<>>
    BY <1>6 DEF BridgeReturn, downstream
  <2>2. <<>> \in Seq(DOMAIN Blobs) /\ Len(<<>>) = 0 /\ Cardinality(Worker) \in Nat
    BY EmptySeq, ThreadsAssumption, FS_CardinalityType
  <2>3. QED
    BY <2>1, <2>2 DEF ChannelsOK
<1>7. ASSUME NEW t \in Feeder, FeederStep(t)
      PROVE  ChannelsOK'
  <2>1. UNCHANGED <<sent, blobs, work, got>>
    BY <1>7 DEF FeederStep
  <2>2. CASE UNCHANGED <<fed, chan>>
    BY <2>1, <2>2 DEF ChannelsOK
  <2>3. CASE fed[t] # FeedSize /\ Put(FeedRecord(t, fed[t] + 1)) /\ fed' = [fed EXCEPT ![t] = @ + 1]
    <3>0. fed[t] \in 0 .. FeedSize /\ FeedSize \in Nat /\ fed[t] # FeedSize
      BY <2>3, ThreadsAssumption DEF ChannelsOK
    <3>1. fed[t] + 1 \in 1 .. FeedSize
      BY <3>0
    <3>2. fed' \in [Feeder -> 0 .. FeedSize]
      BY <2>3, <3>1 DEF ChannelsOK
    <3>3. FeedRecord(t, fed[t] + 1) \in All(FeedsTo[t]) /\ FeedsTo[t] \in Writer
          /\ FeedRecord(t, fed[t] + 1).to = FeedsTo[t]
      BY <3>1, FeedRecords DEF FeedRecord
    <3>4. /\ DOMAIN chan' = Writer /\ chan' = [g \in Writer |-> chan'[g]]
          /\ \A g \in Writer : chan'[g] \in Seq(All(g)) /\ Len(chan'[g]) <= Capacity
      BY <2>3, <3>3, PutType DEF Put
    <3>5. QED
      BY <2>1, <3>2, <3>4 DEF ChannelsOK
  <2>4. QED
    BY <1>7, <2>2, <2>3 DEF FeederStep
<1>8. ASSUME NEW f \in Writer, Receive(f)
      PROVE  ChannelsOK'
  <2>1. UNCHANGED <<sent, blobs, work, fed>> /\ chan[f] # <<>>
        /\ got' = [got EXCEPT ![f] = @ \cup {Head(chan[f])}] /\ chan' = [chan EXCEPT ![f] = Tail(@)]
    BY <1>8 DEF Receive, upstream
  <2>2. /\ DOMAIN chan' = Writer /\ chan' = [g \in Writer |-> chan'[g]]
        /\ \A g \in Writer : chan'[g] \in Seq(All(g)) /\ Len(chan'[g]) <= Capacity
        /\ Head(chan[f]) \in All(f)
    BY <2>1, GetType
  <2>3. /\ DOMAIN got' = Writer /\ got' = [g \in Writer |-> got'[g]]
        /\ \A g \in Writer : got'[g] \subseteq All(g)
    BY <2>1, <2>2 DEF ChannelsOK
  <2>4. QED
    BY <2>1, <2>2, <2>3 DEF ChannelsOK
<1>9. ASSUME NEW f \in Writer, Publish(f)
      PROVE  ChannelsOK'
  BY <1>9 DEF Publish, upstream, ChannelsOK
<1>10. ASSUME NEW f \in Writer, WriteFault(f)
       PROVE  ChannelsOK'
  <2>1. UNCHANGED <<sent, blobs, work, fed, got>> /\ chan' = [chan EXCEPT ![f] = <<>>]
    BY <1>10 DEF WriteFault, upstream
  <2>2. <<>> \in Seq(All(f)) /\ Len(<<>>) <= Capacity
    BY EmptySeq, ThreadsAssumption
  <2>3. \A g \in Writer : chan'[g] \in Seq(All(g)) /\ Len(chan'[g]) <= Capacity
    BY <2>1, <2>2 DEF ChannelsOK
  <2>4. DOMAIN chan' = Writer /\ chan' = [g \in Writer |-> chan'[g]]
    BY <2>1 DEF ChannelsOK
  <2>5. QED
    BY <2>1, <2>3, <2>4 DEF ChannelsOK
<1>11. QED
  BY <1>1, <1>2, <1>3, <1>4, <1>5, <1>6, <1>7, <1>8, <1>9, <1>10, Steps DEF InScope

LEMMA ThreadsInvStep == ThreadsInv /\ [Next]_vars => ThreadsInv'
BY StatusStep, ErrorsStep, ChannelsStep DEF ThreadsInv

LEMMA ThreadsInvInit == Init => ThreadsInv
<1> SUFFICES ASSUME Init PROVE ThreadsInv
  OBVIOUS
<1>1. Len(Blobs) \in Nat /\ Cardinality(Worker) \in Nat /\ FeedSize \in Nat /\ Capacity \in Nat
  BY ThreadsAssumption, FS_CardinalityType, LenProperties
<1>2. StatusOK
  BY DEF Init, StatusOK, Status
<1>3. blobs \in Seq(DOMAIN Blobs) /\ Len(blobs) <= Cardinality(Worker)
  BY <1>1, EmptySeq DEF Init
<1>4. work \in [Worker -> Seq(BlobRecord)]
  BY EmptySeq DEF Init
<1>5. \A f \in Writer : chan[f] \in Seq(All(f)) /\ Len(chan[f]) <= Capacity
  BY <1>1, EmptySeq DEF Init
<1>6. ChannelsOK
  BY <1>1, <1>3, <1>4, <1>5 DEF Init, ChannelsOK
<1>7. Errors
  BY DEF Init, Errors, Closed
<1>8. QED
  BY <1>2, <1>6, <1>7 DEF ThreadsInv

(***************************************************************************)
(* The threads of a stage, however many there are, in whatever order they  *)
(* act, and whichever of them fail, do nothing but what MemoStages says of *)
(* a stage; what is proved of it holds of them.                            *)
(***************************************************************************)
THEOREM ThreadsImplementMemo == Spec => ImplementsMemo
<1>1. ThreadsInv /\ ThreadsInv' /\ [Next]_vars => [Memo!MemoNext]_Memo!memoVars
  BY RefinesStep DEF ThreadsInv
<1>2. QED
  BY <1>1, ThreadsInvInit, ThreadsInvStep, RefinesInit, PTL
     DEF Spec, ImplementsMemo, Memo!MemoSpec

-----------------------------------------------------------------------------
\* What is on its way to a writer that has not failed, or has arrived, stays so.
LEMMA NothingLost ==
    ASSUME ThreadsInv, InScope, NEW f \in Writer, writer'[f] # "error"
    PROVE  ToSet(chan[f]) \cup got[f] \subseteq ToSet(chan'[f]) \cup got'[f]
<1> USE DEF ThreadsInv
<1>1. CASE UNCHANGED <<chan, got>>
  BY <1>1
<1>2. ASSUME NEW w \in Worker, WorkerSend(w), ~Gone(Head(work[w]).to)
      PROVE  ToSet(chan[f]) \subseteq ToSet(chan'[f]) /\ got' = got
  <2>1. Put(Head(work[w])) /\ work[w] # <<>> /\ got' = got
    BY <1>2 DEF WorkerSend
  <2>2. Head(work[w]).to \in Writer /\ Head(work[w]) \in All(Head(work[w]).to)
    BY <2>1, ToSetTail, BlobRecords DEF ChannelsOK
  <2>3. QED
    BY <2>1, <2>2, PutType DEF Put
<1>3. ASSUME NEW t \in Feeder, FeederStep(t), ~UNCHANGED chan
      PROVE  ToSet(chan[f]) \subseteq ToSet(chan'[f]) /\ got' = got
  <2>1. Put(FeedRecord(t, fed[t] + 1)) /\ fed[t] # FeedSize /\ got' = got
    BY <1>3 DEF FeederStep
  <2>2. fed[t] + 1 \in 1 .. FeedSize
    BY <2>1, ThreadsAssumption DEF ChannelsOK
  <2>3. FeedRecord(t, fed[t] + 1) \in All(FeedsTo[t]) /\ FeedsTo[t] \in Writer
        /\ FeedRecord(t, fed[t] + 1).to = FeedsTo[t]
    BY <2>2, FeedRecords DEF FeedRecord
  <2>4. QED
    BY <2>1, <2>3, PutType DEF Put
<1>4. ASSUME NEW g \in Writer, Receive(g)
      PROVE  ToSet(chan[f]) \cup got[f] \subseteq ToSet(chan'[f]) \cup got'[f]
  <2>1. chan[g] # <<>> /\ chan' = [chan EXCEPT ![g] = Tail(@)]
        /\ got' = [got EXCEPT ![g] = @ \cup {Head(chan[g])}]
    BY <1>4 DEF Receive
  <2>2. got'[g] = got[g] \cup {Head(chan[g])} /\ \A h \in Writer \ {g} : got'[h] = got[h]
    BY <2>1 DEF ChannelsOK
  <2>3. QED
    BY <2>1, <2>2, GetType
<1>5. ASSUME NEW g \in Writer, WriteFault(g)
      PROVE  chan'[f] = chan[f] /\ got' = got
  BY <1>5 DEF WriteFault, StatusOK, ChannelsOK
<1>6. ASSUME NEW w \in Worker, WorkerSend(w), Gone(Head(work[w]).to)
      PROVE  UNCHANGED <<chan, got>>
  BY <1>6 DEF WorkerSend
<1>7. QED
  BY <1>1, <1>2, <1>3, <1>4, <1>5, <1>6
     DEF InScope, ProducerSend, ProducerReturn, ProducerFault, Take, BridgeReturn, FeederStep,
         Publish, downstream

\* While no worker has failed, neither is a record that has not got that far.
LEMMA OnItsWayStep ==
    ASSUME ThreadsInv, InScope, NEW r \in BlobRecord,
           consumer' \in {"run", "ok"}, writer'[r.to] # "error", OnItsWay(r)
    PROVE  OnItsWay(r)'
<1> USE DEF ThreadsInv
<1>1. r.from \in DOMAIN Blobs /\ r \in ToSet(RecordsOf(r.from)) /\ r.to \in Writer
  BY BlobRecords
<1>2. CASE r \in ToSet(chan[r.to]) \/ r \in got[r.to]
  BY <1>1, <1>2, NothingLost DEF OnItsWay
<1>3. CASE r.from > sent \/ r.from \in ToSet(blobs) \/ \E w \in Worker : r \in ToSet(work[w])
  <2>1. CASE UNCHANGED <<sent, blobs, work>>
    BY <1>3, <2>1 DEF OnItsWay
  <2>2. CASE ProducerSend /\ ~UNCHANGED <<sent, blobs>>
    <3>1. sent' = sent + 1 /\ blobs' = Append(blobs, sent + 1) /\ work' = work /\ sent < Len(Blobs)
      BY <2>2 DEF ProducerSend
    <3>2. DOMAIN Blobs = 1 .. Len(Blobs) /\ Len(Blobs) \in Nat
      BY ThreadsAssumption, LenProperties
    <3>3. sent + 1 \in DOMAIN Blobs
      BY <3>1, <3>2 DEF ChannelsOK
    <3>4. ToSet(blobs') = ToSet(blobs) \cup {sent + 1}
      BY <3>1, <3>3, ToSetAppend DEF ChannelsOK
    <3>5. r.from > sent => r.from > sent' \/ r.from = sent + 1
      BY <1>1, <3>1, <3>2 DEF ChannelsOK
    <3>6. QED
      BY <1>3, <3>1, <3>4, <3>5 DEF OnItsWay
  <2>3. ASSUME NEW w \in Worker, Take(w)
        PROVE  OnItsWay(r)'
    <3>1. /\ work[w] = <<>> /\ blobs # <<>> /\ sent' = sent /\ blobs' = Tail(blobs)
          /\ work' = [work EXCEPT ![w] = RecordsOf(Head(blobs))]
      BY <2>3 DEF Take
    <3>2. ToSet(blobs) = {Head(blobs)} \cup ToSet(blobs')
      BY <3>1, ToSetTail DEF ChannelsOK
    <3>3. \A u \in Worker : r \in ToSet(work[u]) => work'[u] = work[u]
      BY <3>1, ToSetEmpty DEF ChannelsOK
    <3>4. work'[w] = RecordsOf(Head(blobs))
      BY <3>1 DEF ChannelsOK
    <3>5. r.from = Head(blobs) => r \in ToSet(work'[w])
      BY <1>1, <3>4
    <3>6. CASE r.from > sent \/ r.from \in ToSet(blobs)
      BY <3>1, <3>2, <3>5, <3>6 DEF OnItsWay
    <3>7. CASE \E u \in Worker : r \in ToSet(work[u])
      BY <3>3, <3>7 DEF OnItsWay
    <3>8. QED
      BY <1>3, <3>6, <3>7
  <2>4. ASSUME NEW w \in Worker, WorkerSend(w)
        PROVE  OnItsWay(r)'
    <3>1. work[w] # <<>> /\ UNCHANGED <<sent, blobs, got>> /\ ~Gone(Head(work[w]).to)
      BY <2>4 DEF WorkerSend
    <3>2. Put(Head(work[w])) /\ work' = [work EXCEPT ![w] = Tail(@)]
      BY <2>4, <3>1 DEF WorkerSend
    <3>3. ToSet(work[w]) = {Head(work[w])} \cup ToSet(Tail(work[w]))
          /\ Head(work[w]) \in BlobRecord
      BY <3>1, ToSetTail DEF ChannelsOK
    <3>4. work'[w] = Tail(work[w]) /\ \A u \in Worker \ {w} : work'[u] = work[u]
      BY <3>2 DEF ChannelsOK
    <3>5. CASE r = Head(work[w])
      <4>1. r \in ToSet(chan'[r.to])
        BY <1>1, <3>2, <3>5, BlobRecords, PutType, ZenonT(60) DEF Put
      <4>2. QED
        BY <4>1 DEF OnItsWay
    <3>6. CASE r # Head(work[w])
      <4>1. \A u \in Worker : r \in ToSet(work[u]) => r \in ToSet(work'[u])
        BY <3>3, <3>4, <3>6
      <4>2. QED
        BY <1>3, <3>1, <4>1 DEF OnItsWay
    <3>7. QED
      BY <3>5, <3>6
  <2>5. CASE BridgeReturn
    <3>1. blobs = <<>> /\ UNCHANGED <<sent, blobs, work>>
      BY <2>5 DEF BridgeReturn
    <3>2. QED
      BY <2>1, <3>1
  <2>6. QED
    BY <2>1, <2>2, <2>3, <2>4, <2>5
       DEF InScope, ProducerSend, ProducerReturn, ProducerFault, FeederStep, Receive, Publish,
           WriteFault, upstream
<1>4. QED
  BY <1>2, <1>3 DEF OnItsWay

\* A failure is final.
LEMMA FailuresStay ==
    ASSUME ThreadsInv, InScope
    PROVE  /\ consumer' \in {"run", "ok"} => consumer \in {"run", "ok"}
           /\ consumer \in {"ok", "error"} => consumer' = consumer
           /\ producer # "run" => producer' = producer
           /\ producer' = "ok" /\ producer # "ok" => sent' = sent /\ sent = Len(Blobs)
           /\ producer # "run" => sent' = sent
           /\ \A f \in Writer : /\ writer'[f] # "error" => writer[f] # "error"
                                /\ writer[f] # "run" => writer'[f] = writer[f] /\ got'[f] = got[f]
           /\ \A t \in Feeder : /\ feeder[t] # "run" => feeder'[t] = feeder[t] /\ fed'[t] = fed[t]
                                /\ feeder'[t] = "ok" /\ feeder[t] = "run" =>
                                      fed'[t] = fed[t] /\ fed[t] = FeedSize
<1> USE DEF ThreadsInv, Status
<1>1. CASE ProducerSend \/ ProducerReturn \/ ProducerFault
  BY <1>1 DEF ProducerSend, ProducerReturn, ProducerFault, downstream
<1>2. ASSUME NEW w \in Worker, Take(w)
      PROVE  UNCHANGED <<producer, sent, consumer, feeder, fed, downstream>>
  BY <1>2 DEF Take
<1>3. ASSUME NEW w \in Worker, WorkerSend(w)
      PROVE  /\ UNCHANGED <<producer, sent, feeder, fed, writer, got>>
             /\ consumer \in {"run", "stop"}
             /\ consumer' \in {consumer, "stop"}
  BY <1>3 DEF WorkerSend, Errors, StatusOK
<1>4. CASE BridgeReturn
  BY <1>4 DEF BridgeReturn, downstream
<1>5. ASSUME NEW t \in Feeder, FeederStep(t)
      PROVE  /\ UNCHANGED <<producer, sent, consumer, writer, got>> /\ feeder[t] = "run"
             /\ \A u \in Feeder \ {t} : feeder'[u] = feeder[u] /\ fed'[u] = fed[u]
             /\ feeder'[t] = "ok" => fed' = fed /\ fed[t] = FeedSize
  BY <1>5 DEF FeederStep, StatusOK, ChannelsOK
<1>6. ASSUME NEW f \in Writer, Receive(f) \/ Publish(f) \/ WriteFault(f)
      PROVE  /\ UNCHANGED upstream /\ writer[f] = "run"
             /\ \A g \in Writer \ {f} : writer'[g] = writer[g] /\ got'[g] = got[g]
  BY <1>6 DEF Receive, Publish, WriteFault, StatusOK, ChannelsOK
<1>7. QED
  BY <1>1, <1>2, <1>3, <1>4, <1>5, <1>6 DEF InScope, upstream, downstream

LEMMA WritersStay ==
    ASSUME ThreadsInv, InScope, NEW f \in Writer
    PROVE  /\ writer'[f] # "error" => writer[f] # "error"
           /\ writer[f] # "run" => writer'[f] = writer[f] /\ got'[f] = got[f]
BY FailuresStay

LEMMA FeedersStay ==
    ASSUME ThreadsInv, InScope, NEW t \in Feeder
    PROVE  /\ feeder[t] # "run" => feeder'[t] = feeder[t] /\ fed'[t] = fed[t]
           /\ feeder'[t] = "ok" /\ feeder[t] = "run" => fed'[t] = fed[t] /\ fed[t] = FeedSize
BY FailuresStay

\* A feeder's records: what it counts as sent is on its way or has arrived.
LEMMA FedStep ==
    ASSUME ThreadsInv, InScope, Accounted, Building, NEW t \in Feeder,
           writer'[FeedsTo[t]] # "error", NEW k \in 1 .. fed'[t]
    PROVE  FeedRecord(t, k) \in ToSet(chan'[FeedsTo[t]]) \cup got'[FeedsTo[t]]
<1> USE DEF ThreadsInv
<1>1. FeedsTo[t] \in Writer
  BY ThreadsAssumption
<1>2. writer[FeedsTo[t]] # "error"
  BY <1>1, WritersStay
<1>3. CASE k \in 1 .. fed[t]
  BY <1>1, <1>2, <1>3, NothingLost DEF Accounted
<1>4. CASE k \notin 1 .. fed[t]
  <2>1. FeederStep(t) /\ Put(FeedRecord(t, fed[t] + 1)) /\ fed' = [fed EXCEPT ![t] = @ + 1]
    <3>1. fed'[t] # fed[t]
      BY <1>4
    <3>2. PICK u \in Feeder : FeederStep(u)
      BY <3>1 DEF InScope, ProducerSend, ProducerReturn, ProducerFault, Take, WorkerSend,
                  BridgeReturn, Receive, Publish, WriteFault, upstream
    <3>3. fed # fed'
      BY <3>1
    <3>4. fed' = [fed EXCEPT ![u] = @ + 1] /\ Put(FeedRecord(u, fed[u] + 1))
      BY <3>2, <3>3 DEF FeederStep
    <3>5. u = t
      BY <3>1, <3>4 DEF ChannelsOK
    <3>6. QED
      BY <3>2, <3>4, <3>5
  <2>2. fed[t] \in 0 .. FeedSize /\ fed[t] # FeedSize /\ FeedSize \in Nat
    BY <2>1, ThreadsAssumption DEF FeederStep, Put, ChannelsOK
  <2>3. fed'[t] = fed[t] + 1
    BY <2>1 DEF ChannelsOK
  <2>4. k = fed[t] + 1 /\ k \in 1 .. FeedSize
    BY <1>4, <2>2, <2>3
  <2>5. FeedRecord(t, k) \in All(FeedsTo[t]) /\ FeedRecord(t, k).to = FeedsTo[t]
    BY <2>4, FeedRecords DEF FeedRecord
  <2>6. QED
    BY <1>1, <2>1, <2>4, <2>5, PutType DEF Put
<1>5. QED
  BY <1>3, <1>4

\* Entering a scope, nothing has been sent.
LEMMA AccountedSpawn ==
    ASSUME Spawn
    PROVE  Accounted'
<1>1. /\ producer' = "run" /\ consumer' = "run" /\ sent' = 0
      /\ \A t \in Feeder : feeder'[t] = "run" /\ fed'[t] = 0
  BY DEF Spawn, Upstream
<1>2. \A r \in BlobRecord : r.from > sent'
  <2>1. DOMAIN Blobs = 1 .. Len(Blobs) /\ Len(Blobs) \in Nat
    BY ThreadsAssumption, LenProperties
  <2>2. QED
    BY <1>1, <2>1, BlobRecords
<1>3. \A r \in BlobRecord : OnItsWay(r)'
  BY <1>2 DEF OnItsWay
<1>4. \A t \in Feeder : 1 .. fed'[t] = {}
  BY <1>1
<1>5. QED
  BY <1>1, <1>3, <1>4 DEF Accounted

LEMMA AccountedStep ==
    ASSUME ThreadsInv, Accounted, [Next]_vars
    PROVE  Accounted'
<1>1. CASE Outside
  <2>1. UNCHANGED threads /\ (Building' <=> Building)
    BY <1>1, OutsideSteps DEF ThreadsInv, Outside, Building
  <2>2. \A r : OnItsWay(r)' = OnItsWay(r)
    BY <2>1 DEF OnItsWay, threads, upstream, downstream
  <2>3. QED
    BY <2>1, <2>2 DEF Accounted, threads, upstream, downstream
<1>2. CASE Spawn
  BY <1>2, AccountedSpawn
<1>3. CASE JoinOk \/ JoinError \/ Crash
  BY <1>3 DEF JoinOk, JoinError, Crash, Building, Accounted
<1>4. CASE InScope
  <2>1. CASE ~Building
    BY <1>4, <2>1, InScopeKeeps DEF Building, Accounted
  <2>2. CASE Building
    <3>1. producer' = "ok" => sent' = Len(Blobs)
      BY <1>4, <2>2, FailuresStay DEF Accounted
    <3>2. \A t \in Feeder : feeder'[t] = "ok" => fed'[t] = FeedSize
      BY <1>4, <2>2, FeedersStay DEF Accounted
    <3>3. ASSUME NEW r \in BlobRecord, consumer' \in {"run", "ok"}, writer'[r.to] # "error"
          PROVE  OnItsWay(r)'
      <4>1. r.to \in Writer
        BY BlobRecords
      <4>2. consumer \in {"run", "ok"} /\ writer[r.to] # "error"
        BY <1>4, <3>3, <4>1, FailuresStay, WritersStay
      <4>3. OnItsWay(r)
        BY <2>2, <4>2 DEF Accounted
      <4>4. QED
        BY <1>4, <3>3, <4>3, OnItsWayStep
    <3>4. \A t \in Feeder : writer'[FeedsTo[t]] # "error" =>
             \A k \in 1 .. fed'[t] :
                FeedRecord(t, k) \in ToSet(chan'[FeedsTo[t]]) \cup got'[FeedsTo[t]]
      BY <1>4, <2>2, FedStep
    <3>5. QED
      BY <3>1, <3>2, <3>3, <3>4 DEF Accounted
  <2>3. QED
    BY <2>1, <2>2
<1>5. QED
  BY <1>1, <1>2, <1>3, <1>4, Steps

LEMMA AccountedInit == Init => Accounted
BY DEF Init, Accounted, Building

-----------------------------------------------------------------------------
\* When the channel to f is closed and drained and nobody upstream has failed,
\* there is nowhere left for a record but with its writer.
LEMMA DrainedHasAll ==
    ASSUME ThreadsInv, Accounted, NEW f \in Writer,
           writer[f] = "run", chan[f] = <<>>, Closed(f), stream = "ended"
    PROVE  got[f] = All(f)
<1> USE DEF ThreadsInv
<1>1. Building
  BY DEF Errors
<1>2. consumer = "ok" /\ producer = "ok"
  BY DEF stream, Errors, StatusOK, Status
<1>3. sent = Len(Blobs) /\ blobs = <<>> /\ \A w \in Worker : work[w] = <<>>
  BY <1>1, <1>2 DEF Accounted, Errors
<1>4. ASSUME NEW r \in BlobRecord, r.to = f
      PROVE  r \in got[f]
  <2>1. OnItsWay(r)
    BY <1>1, <1>2, <1>4 DEF Accounted
  <2>2. ~(r.from > sent)
    <3>1. DOMAIN Blobs = 1 .. Len(Blobs) /\ Len(Blobs) \in Nat
      BY ThreadsAssumption, LenProperties
    <3>2. QED
      BY <1>3, <3>1, BlobRecords
  <2>3. QED
    BY <1>3, <1>4, <2>1, <2>2, ToSetEmpty DEF OnItsWay
<1>5. ASSUME NEW t \in Feeder, NEW k \in 1 .. FeedSize, FeedsTo[t] = f
      PROVE  FeedRecord(t, k) \in got[f]
  <2>1. feeder[t] = "ok"
    BY <1>5 DEF Closed, Errors, StatusOK, Status
  <2>2. fed[t] = FeedSize
    BY <1>1, <2>1 DEF Accounted
  <2>3. FeedRecord(t, k) \in ToSet(chan[f]) \cup got[f]
    BY <1>1, <1>5, <2>2 DEF Accounted
  <2>4. QED
    BY <2>3, ToSetEmpty
<1>6. All(f) \subseteq got[f]
  BY <1>4, <1>5, AllRecords
<1>7. QED
  BY <1>6 DEF ChannelsOK

LEMMA PublishedStep ==
    ASSUME ThreadsInv, Accounted, Published, [Next]_vars
    PROVE  Published'
<1> DEFINE SourceOK == /\ disk[Source] = Memo!NoFile \/ disk[Source].whole
                       /\ pc # "idle" => disk[Source] # Memo!NoFile
                       /\ DOMAIN disk = {Source} \cup Writer
           FilesOK ==
              \A f \in Writer : Building /\ writer[f] = "ok" =>
                 /\ stream = "ended" => disk[f].whole
                 /\ disk[f].whole => got[f] = All(f)
<1> HIDE DEF SourceOK, FilesOK
<1>0. (Published <=> SourceOK /\ FilesOK) /\ (Published' <=> SourceOK' /\ FilesOK')
  BY DEF Published, SourceOK, FilesOK
<1>1. CASE Outside
  <2>1. UNCHANGED threads /\ (Building' <=> Building)
    BY <1>1, OutsideSteps DEF ThreadsInv, Outside, Building
  <2>2. CASE disk' = disk
    <3>1. pc = "idle" /\ pc' # "idle" => disk[Source] # Memo!NoFile
      BY <1>1, OutsideSteps DEF ThreadsInv, Outside
    <3>2. SourceOK'
      BY <1>0, <2>2, <3>1 DEF SourceOK
    <3>3. FilesOK'
      BY <1>0, <2>1, <2>2 DEF FilesOK, stream, threads, upstream, downstream
    <3>4. QED
      BY <1>0, <3>2, <3>3
  <2>3. CASE disk' # disk
    <3>1. /\ pc' = "idle"
          /\ disk' = [disk EXCEPT ![Source] =
                [from |-> {clock + 1}, whole |-> TRUE, at |-> clock + 1]]
      BY <1>1, <2>3, OutsideSteps DEF ThreadsInv, Outside
    <3>2. disk'[Source].whole /\ DOMAIN disk' = DOMAIN disk
      BY <1>0, <3>1 DEF SourceOK
    <3>3. SourceOK'
      BY <1>0, <3>1, <3>2 DEF SourceOK
    <3>4. FilesOK'
      BY <3>1 DEF FilesOK, Building
    <3>5. QED
      BY <1>0, <3>3, <3>4
  <2>4. QED
    BY <2>2, <2>3
<1>2. CASE Spawn \/ JoinOk \/ JoinError \/ Crash
  <2>1. disk' = disk /\ (pc' # "idle" => pc # "idle")
    BY <1>2 DEF Spawn, JoinOk, Joined, JoinError, Crash
  <2>2. Building' => \A f \in Writer : writer'[f] = "run"
    BY <1>2 DEF Spawn, JoinOk, JoinError, Crash, Downstream, Building
  <2>3. SourceOK' /\ FilesOK'
    BY <1>0, <2>1, <2>2 DEF SourceOK, FilesOK
  <2>4. QED
    BY <1>0, <2>3
<1>3. CASE InScope
  <2>1. pc' = pc
    BY <1>3, InScopeKeeps
  <2>2. ASSUME NEW g \in Writer, Building', writer'[g] = "ok", writer[g] = "ok", disk'[g] = disk[g]
        PROVE  /\ stream' = "ended" => disk'[g].whole
               /\ disk'[g].whole => got'[g] = All(g)
    <3>1. Building /\ got'[g] = got[g]
      BY <1>3, <2>1, <2>2, WritersStay DEF Building
    <3>2. consumer \in {"ok", "error"}
      BY <2>2 DEF ThreadsInv, Errors, Closed
    <3>3. consumer' = consumer
      BY <1>3, <3>2, FailuresStay
    <3>4. consumer = "ok" => producer' = producer
      BY <1>3, FailuresStay DEF ThreadsInv, Errors
    <3>5. stream' = "ended" => stream = "ended"
      BY <3>2, <3>3, <3>4 DEF stream
    <3>6. QED
      BY <1>0, <2>2, <3>1, <3>5 DEF FilesOK
  <2>3. CASE disk' = disk /\ \A f \in Writer : writer'[f] = "ok" => writer[f] = "ok"
    BY <1>0, <2>1, <2>2, <2>3 DEF SourceOK, FilesOK
  <2>4. ASSUME NEW f \in Writer, Publish(f)
        PROVE  Published'
    <3>1. /\ writer[f] = "run" /\ chan[f] = <<>> /\ Closed(f) /\ UNCHANGED <<upstream, got>>
          /\ disk' = [disk EXCEPT ![f] = Memo!Derived(stage)]
          /\ writer' = [writer EXCEPT ![f] = "ok"]
      BY <2>4 DEF Publish
    <3>2. Building /\ stage = 1 /\ stream' = stream
      BY <3>1 DEF ThreadsInv, Errors, StatusOK, Building, stream, upstream
    <3>3. disk'[f].whole = (stream = "ended" /\ disk[Source].whole)
      BY <1>0, <3>1, <3>2 DEF SourceOK, Memo!Derived
    <3>4. disk[Source].whole
      BY <1>0, <3>2 DEF SourceOK, Building
    <3>5. /\ stream' = "ended" => disk'[f].whole
          /\ disk'[f].whole => got'[f] = All(f)
      BY <3>1, <3>2, <3>3, <3>4, DrainedHasAll
    <3>6. \A g \in Writer \ {f} : disk'[g] = disk[g] /\ writer'[g] = writer[g]
      BY <1>0, <3>1 DEF SourceOK, ThreadsInv, StatusOK
    <3>7. FilesOK'
      BY <2>2, <3>5, <3>6 DEF FilesOK
    <3>8. Source # f
      BY ThreadsAssumption
    <3>9. SourceOK'
      BY <1>0, <2>1, <3>1, <3>8 DEF SourceOK
    <3>10. QED
      BY <1>0, <3>7, <3>9
  <2>5. CASE ~\E f \in Writer : Publish(f)
    <3>1. disk' = disk
      BY <1>3, <2>5, InScopeKeeps
    <3>2. \A f \in Writer : writer'[f] = "ok" => writer[f] = "ok"
      BY <1>3, <2>5 DEF InScope, ProducerSend, ProducerReturn, ProducerFault, Take, WorkerSend,
                        BridgeReturn, FeederStep, Receive, WriteFault, downstream,
                        ThreadsInv, StatusOK
    <3>3. QED
      BY <2>3, <3>1, <3>2
  <2>6. QED
    BY <2>4, <2>5
<1>4. QED
  BY <1>1, <1>2, <1>3, Steps

LEMMA PublishedInit == Init => Published
BY DEF Init, Published, Building

LEMMA StageInvariant == Spec => []StageInv
<1>1. Init => StageInv
  BY ThreadsInvInit, AccountedInit, PublishedInit DEF StageInv
<1>2. StageInv /\ [Next]_vars => StageInv'
  BY ThreadsInvStep, AccountedStep, PublishedStep DEF StageInv
<1>3. QED
  BY <1>1, <1>2, PTL DEF Spec

(***************************************************************************)
(* Every variable has its type, channels keep to their capacity, and at    *)
(* any time, not only at the end, a file that was published before the     *)
(* first error has every record that the blobs and the feeders have for it.*)
(***************************************************************************)
THEOREM ThreadsTypeCorrect == Spec => []TypeOK
<1>1. StageInv => TypeOK
  <2> SUFFICES ASSUME StageInv PROVE TypeOK
    OBVIOUS
  <2> USE DEF StageInv, ThreadsInv
  <2>1. ~Building => ~failed /\ pending = {} /\ stream = "ended"
    BY DEF Errors, failed, pending, stream
  <2>2. QED
    BY <2>1 DEF TypeOK, StatusOK, ChannelsOK, Published, Status
<1>2. QED
  BY <1>1, StageInvariant, PTL

(***************************************************************************)
(* When the scope is left with Ok, every file of the stage is in place and *)
(* none of its records is missing.                                         *)
(***************************************************************************)
THEOREM ThreadsReturnAll == Spec => OkMeansAll
<1>1. StageInv /\ [Next]_vars =>
         [Building /\ pc' = "built" => \A f \in Writer : disk'[f].whole /\ got[f] = All(f)]_vars
  <2> SUFFICES ASSUME StageInv, Next, Building, pc' = "built", NEW f \in Writer
               PROVE  disk'[f].whole /\ got[f] = All(f)
    OBVIOUS
  <2>1. JoinOk
    <3>1. CASE Outside
      BY <3>1, OutsideSteps DEF Outside, Building, StageInv, ThreadsInv
    <3>2. CASE Spawn \/ JoinError \/ Crash
      BY <3>2 DEF Spawn, JoinError, Crash
    <3>3. CASE InScope
      BY <3>3, InScopeKeeps DEF Building
    <3>4. QED
      BY <3>1, <3>2, <3>3, Steps
  <2>2. writer[f] = "ok" /\ stream = "ended" /\ disk' = disk
    BY <2>1 DEF JoinOk, Joined, failed, stream, StageInv, ThreadsInv, StatusOK, Status
  <2>3. QED
    BY <2>2 DEF StageInv, Published
<1>2. QED
  BY <1>1, StageInvariant, PTL DEF Spec, OkMeansAll
=============================================================================
