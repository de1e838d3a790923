---------------------------- MODULE StageThreads ----------------------------
(***************************************************************************)
(* The threads inside one memoised stage, as the functions of              *)
(* pipeline::osm::prune and assemble spawn them in a thread::scope:        *)
(*                                                                         *)
(*   producer --blobs--> workers --one channel per output--> writers       *)
(*                                        feeders ---^                     *)
(*                                                                         *)
(* The producer reads blobs and sends them down a bounded channel.  The    *)
(* workers of a rayon bridge take blobs, and send the records of a blob to *)
(* the writers, again through bounded channels.  Feeders send records that *)
(* earlier stages left in memory-mapped tables.  A writer drains its       *)
(* channel until all senders are gone, then publishes its file.  Whoever   *)
(* fails drops its ends of the channels; that is how others get to know.   *)
(*                                                                         *)
(* The module shows that this implements one stage of MemoStages, where    *)
(* the same events are single steps on `pending', `stream' and `failed'.   *)
(***************************************************************************)
EXTENDS Naturals, Sequences, FiniteSets, SequencesExt

CONSTANTS
    Source,        \* the file the producer reads
    Writer,        \* the writers, named by the files they publish
    Worker,        \* the workers of the bridge
    Feeder,        \* the threads that send records of earlier stages
    FeedsTo,       \* FeedsTo[t]: the writer that feeder t sends to
    FeedSize,      \* bound: how many records each feeder sends
    Blobs,         \* Blobs[b]: the writers to which the records of blob b go
    Capacity,      \* the capacity of the channels to the writers
    Faults, MaxFaults, MaxInstalls, MaxClock   \* see MemoStages

ASSUME ThreadsAssumption ==
    /\ Source \notin Writer
    /\ Worker # {} /\ IsFiniteSet(Worker)
    /\ FeedsTo \in [Feeder -> Writer]
    /\ Blobs \in Seq(Seq(Writer))
    /\ FeedSize \in Nat
    /\ Capacity \in Nat \ {0}

VARIABLES
    disk, clock, pc, stage, faults, installs,   \* see MemoStages
    producer,   \* "run", or what the thread returned: "ok" or "error"
    sent,       \* how many blobs it has sent
    blobs,      \* the channel of blobs
    work,       \* work[w]: records worker w has yet to send
    consumer,   \* also "stop": a worker has failed, the others finish a blob
    feeder,     \* feeder[t]: like producer
    fed,        \* fed[t]: how many records feeder t has sent
    chan,       \* chan[f]: the channel to the writer of f
    writer,     \* writer[f]: like producer
    got         \* got[f]: the records the writer of f has received

upstream == <<producer, sent, blobs, work, consumer, feeder, fed>>
downstream == <<chan, writer, got>>
threads == <<upstream, downstream>>
rest == <<disk, clock, pc, stage, faults, installs>>
vars == <<rest, threads>>

-----------------------------------------------------------------------------
(***************************************************************************)
(* What MemoStages sees of the threads.                                    *)
(***************************************************************************)
pending == {f \in Writer : writer[f] = "run"}

stream ==
    IF producer = "error" \/ consumer = "error" THEN "cut"
    ELSE IF consumer = "ok" THEN "ended" ELSE "open"

failed ==
    \/ producer = "error"
    \/ consumer \in {"stop", "error"}
    \/ \E t \in Feeder : feeder[t] = "error"
    \/ \E f \in Writer : writer[f] = "error"

Memo == INSTANCE MemoStages WITH
    File <- {Source} \cup Writer,
    NumStages <- 1,
    In <- <<{Source}>>,
    Timed <- <<{Source}>>,
    Out <- <<Writer>>

-----------------------------------------------------------------------------
\* The records of blob b, and the k-th record of feeder t: each with the
\* writer it goes to and where it comes from.
RecordsOf(b) == [k \in DOMAIN Blobs[b] |-> [to |-> Blobs[b][k], from |-> b, no |-> k]]
FeedRecord(t, k) == [to |-> FeedsTo[t], from |-> t, no |-> k]

\* All that belongs into file f.
All(f) ==
    {r \in UNION {ToSet(RecordsOf(b)) : b \in DOMAIN Blobs} : r.to = f}
        \cup {FeedRecord(t, k) : t \in {u \in Feeder : FeedsTo[u] = f}, k \in 1 .. FeedSize}

Upstream(status) ==
    /\ producer' = status
    /\ sent' = 0
    /\ blobs' = <<>>
    /\ work' = [w \in Worker |-> <<>>]
    /\ consumer' = status
    /\ feeder' = [t \in Feeder |-> status]
    /\ fed' = [t \in Feeder |-> 0]

Downstream(status) ==
    /\ chan' = [f \in Writer |-> <<>>]
    /\ writer' = [f \in Writer |-> status]
    /\ got' = [f \in Writer |-> {}]

-----------------------------------------------------------------------------
Init ==
    /\ disk = [f \in {Source} \cup Writer |-> Memo!NoFile]
    /\ clock = 0 /\ pc = "idle" /\ stage = 1 /\ faults = Memo!NoFaults /\ installs = 0
    /\ producer = "ok" /\ sent = 0 /\ blobs = <<>>
    /\ work = [w \in Worker |-> <<>>]
    /\ consumer = "ok"
    /\ feeder = [t \in Feeder |-> "ok"] /\ fed = [t \in Feeder |-> 0]
    /\ chan = [f \in Writer |-> <<>>]
    /\ writer = [f \in Writer |-> "ok"]
    /\ got = [f \in Writer |-> {}]

\* Between the stages of a run and between runs there are no threads.
Install == UNCHANGED threads /\ Memo!InstallSource
Begin == UNCHANGED threads /\ Memo!Begin
Reuse == UNCHANGED threads /\ Memo!Reuse
Finish == UNCHANGED threads /\ Memo!Finish

\* The scope is entered: all threads are spawned, all channels empty.
Spawn ==
    /\ pc = "check"
    /\ ~Memo!UpToDate(stage)
    /\ clock < MaxClock
    /\ clock' = clock + 1
    /\ pc' = "build"
    /\ Upstream("run")
    /\ Downstream("run")
    /\ UNCHANGED <<disk, stage, faults, installs>>

-----------------------------------------------------------------------------
(***************************************************************************)
(* The producer, BlobReader::send_..._blobs.  Once the bridge is gone with *)
(* its end of the channel, the next send is an error.                      *)
(***************************************************************************)
ProducerSend ==
    /\ producer = "run"
    /\ sent < Len(Blobs)
    /\ IF consumer = "error"
       THEN producer' = "error" /\ UNCHANGED <<sent, blobs>>
       ELSE /\ Len(blobs) < Cardinality(Worker)
            /\ sent' = sent + 1
            /\ blobs' = Append(blobs, sent + 1)
            /\ UNCHANGED producer
    /\ UNCHANGED <<rest, work, consumer, feeder, fed, downstream>>

ProducerFault ==
    /\ producer = "run"
    /\ consumer # "error"
    /\ sent < Len(Blobs)
    /\ Memo!Fault("read")
    /\ producer' = "error"
    /\ UNCHANGED <<disk, clock, pc, stage, installs,
                   sent, blobs, work, consumer, feeder, fed, downstream>>

ProducerReturn ==
    /\ producer = "run"
    /\ sent = Len(Blobs)
    /\ producer' = "ok"
    /\ UNCHANGED <<rest, sent, blobs, work, consumer, feeder, fed, downstream>>

-----------------------------------------------------------------------------
\* A worker of the bridge takes a blob, unless some worker has failed.
Take(w) ==
    /\ consumer = "run"
    /\ work[w] = <<>>
    /\ blobs # <<>>
    /\ work' = [work EXCEPT ![w] = RecordsOf(Head(blobs))]
    /\ blobs' = Tail(blobs)
    /\ UNCHANGED <<rest, producer, sent, consumer, feeder, fed, downstream>>

\* A mutant of Put: a record that finds the channel full is dropped.
Put_try(r) ==
    chan' = IF Len(chan[r.to]) < Capacity
            THEN [chan EXCEPT ![r.to] = Append(@, r)]
            ELSE chan

\* Sending a record waits for room in the channel.
Put(r) ==
    /\ Len(chan[r.to]) < Capacity
    /\ chan' = [chan EXCEPT ![r.to] = Append(@, r)]

Gone(f) == writer[f] # "run"

\* A worker sends its next record; an error makes it give up its blob.
WorkerSend(w) ==
    /\ work[w] # <<>>
    /\ LET r == Head(work[w]) IN
       IF Gone(r.to)
       THEN /\ work' = [work EXCEPT ![w] = <<>>]
            /\ consumer' = "stop"
            /\ UNCHANGED chan
       ELSE /\ Put(r)
            /\ work' = [work EXCEPT ![w] = Tail(@)]
            /\ UNCHANGED consumer
    /\ UNCHANGED <<rest, producer, sent, blobs, feeder, fed, writer, got>>

\* The bridge is done when every worker is, and there is nothing to take or
\* one of them has failed.
BridgeReturn ==
    /\ consumer \in {"run", "stop"}
    /\ \A w \in Worker : work[w] = <<>>
    /\ IF consumer = "stop"
       THEN consumer' = "error"
       ELSE producer # "run" /\ blobs = <<>> /\ consumer' = "ok"
    /\ blobs' = <<>>
    /\ UNCHANGED <<rest, producer, sent, work, feeder, fed, downstream>>

-----------------------------------------------------------------------------
\* rel_member_collector, rel_strings_reader, way_strings_reader and the like.
FeederStep(t) ==
    /\ feeder[t] = "run"
    /\ IF fed[t] = FeedSize
       THEN /\ feeder' = [feeder EXCEPT ![t] = "ok"]
            /\ UNCHANGED <<fed, chan>>
       ELSE IF Gone(FeedsTo[t])
       THEN /\ feeder' = [feeder EXCEPT ![t] = "error"]
            /\ UNCHANGED <<fed, chan>>
       ELSE /\ Put(FeedRecord(t, fed[t] + 1))
            /\ fed' = [fed EXCEPT ![t] = @ + 1]
            /\ UNCHANGED feeder
    /\ UNCHANGED <<rest, producer, sent, blobs, work, consumer, writer, got>>

-----------------------------------------------------------------------------
Receive(f) ==
    /\ writer[f] = "run"
    /\ chan[f] # <<>>
    /\ got' = [got EXCEPT ![f] = @ \cup {Head(chan[f])}]
    /\ chan' = [chan EXCEPT ![f] = Tail(@)]
    /\ UNCHANGED <<rest, upstream, writer>>

\* A mutant: a clone of the sender is left in the scope.
Closed_leak(f) == FALSE

\* All senders of the channel to f are dropped.
Closed(f) ==
    /\ consumer \in {"ok", "error"}
    /\ \A t \in Feeder : FeedsTo[t] = f => feeder[t] # "run"

\* The channel is closed and drained: the writer publishes its file.  (The
\* file is whole if nothing upstream has failed; see WholeHasAll.)
Publish(f) ==
    /\ writer[f] = "run"
    /\ chan[f] = <<>>
    /\ Closed(f)
    /\ disk' = [disk EXCEPT ![f] = Memo!Derived(stage)]
    /\ writer' = [writer EXCEPT ![f] = "ok"]
    /\ UNCHANGED <<clock, pc, stage, faults, installs, upstream, chan, got>>

\* An error of a writer drops the channel with what is in it.
WriteFault(f) ==
    /\ writer[f] = "run"
    /\ Memo!Fault("write")
    /\ writer' = [writer EXCEPT ![f] = "error"]
    /\ chan' = [chan EXCEPT ![f] = <<>>]
    /\ UNCHANGED <<disk, clock, pc, stage, installs, upstream, got>>

-----------------------------------------------------------------------------
Joined ==
    /\ pc = "build"
    /\ producer # "run"
    /\ consumer \in {"ok", "error"}
    /\ \A t \in Feeder : feeder[t] # "run"
    /\ \A f \in Writer : writer[f] # "run"

\* A mutant of JoinOk: the writers succeeded, nobody asks the others.
JoinOk_writersOnly ==
    /\ Joined
    /\ \A f \in Writer : writer[f] = "ok"
    /\ stage' = stage + 1
    /\ pc' = "built"
    /\ UNCHANGED <<disk, clock, faults, installs, threads>>

\* The scope is left when all threads are joined: with the first of their
\* errors, if there is one.
JoinOk ==
    /\ Joined
    /\ ~failed
    /\ stage' = stage + 1
    /\ pc' = "built"
    /\ UNCHANGED <<disk, clock, faults, installs, threads>>

JoinError ==
    /\ Joined
    /\ failed
    /\ pc' = "idle"
    /\ Upstream("ok")
    /\ Downstream("ok")
    /\ UNCHANGED <<disk, clock, stage, faults, installs>>

Crash ==
    /\ pc # "idle"
    /\ Memo!Fault("crash")
    /\ pc' = "idle"
    /\ Upstream("ok")
    /\ Downstream("ok")
    /\ UNCHANGED <<disk, clock, stage, installs>>

-----------------------------------------------------------------------------
ThreadStep ==
    \/ ProducerSend \/ ProducerReturn
    \/ \E w \in Worker : Take(w) \/ WorkerSend(w)
    \/ BridgeReturn
    \/ \E t \in Feeder : FeederStep(t)
    \/ \E f \in Writer : Receive(f) \/ Publish(f)
    \/ JoinOk \/ JoinError

ThreadFault == ProducerFault \/ \E f \in Writer : WriteFault(f)

Next == Install \/ Begin \/ Reuse \/ Spawn \/ ThreadStep \/ ThreadFault \/ Crash \/ Finish

Spec == Init /\ [][Next]_vars

\* Some thread that can run does run.
FairSpec == Spec /\ WF_vars(ThreadStep)

-----------------------------------------------------------------------------
(***************************************************************************)
(* Properties.                                                             *)
(***************************************************************************)
Building == pc = "build"

\* A file that was published while nothing upstream had failed, for which the
\* ghost `whole' stands, has every record that belongs into it.
TypeOK ==
    /\ producer \in {"run", "ok", "error"}
    /\ sent \in 0 .. Len(Blobs)
    /\ Len(blobs) <= Cardinality(Worker)
    /\ consumer \in {"run", "stop", "ok", "error"}
    /\ feeder \in [Feeder -> {"run", "ok", "error"}]
    /\ fed \in [Feeder -> 0 .. FeedSize]
    /\ writer \in [Writer -> {"run", "ok", "error"}]
    /\ \A f \in Writer : Len(chan[f]) <= Capacity /\ got[f] \subseteq All(f)
    /\ (~Building => ~failed /\ pending = {} /\ stream = "ended")
    /\ \A f \in Writer : Building /\ writer[f] = "ok" /\ disk[f].whole => got[f] = All(f)

(***************************************************************************)
(* An error cannot go unnoticed: when the scope returns Ok, every one of   *)
(* its files is in place with every record.                                *)
(***************************************************************************)
OkMeansAll ==
    [][Building /\ pc' = "built" =>
          \A f \in Writer : disk'[f].whole /\ got[f] = All(f)]_vars

(***************************************************************************)
(* The threads implement a stage of MemoStages.                            *)
(***************************************************************************)
ImplementsMemo == Memo!MemoSpec

(***************************************************************************)
(* The threads come to an end, whoever fails and whatever waits for room   *)
(* in which channel.  (With TLC's check for deadlocks: they never all wait *)
(* for one another.)                                                       *)
(***************************************************************************)
Terminates == Building ~> ~Building
=============================================================================
