------------------------------ MODULE Conflate ------------------------------
(***************************************************************************)
(* Conflation: a producer matches the places of AllThePlaces with features *)
(* of OpenStreetMap, batch by batch, its workers in parallel; then it      *)
(* assigns the matches that are one to one, and finally looks for features *)
(* that are gone.  All of them send rows through a bounded channel to a    *)
(* writer, which sorts them and publishes a file.                          *)
(***************************************************************************)
EXTENDS Matching

CONSTANTS
    Worlds,        \* the inputs: a set of [places, ends, osm]
    SpiderOrder,   \* the names of the spiders, in their order
    Workers,
    Capacity,      \* of the channel
    FaultKinds,    \* what may go wrong
    MaxFaults      \* bound: how often

ASSUME ConflateAssumption ==
    /\ Capacity \in Nat \ {0}
    /\ FaultKinds \subseteq {"read", "match", "write"}
    /\ IsFiniteSet(Workers)

\* The batches are pieces of the file, one after the other.
ASSUME WorldsAssumption ==
    \A input \in Worlds :
        /\ IsInput(input)
        /\ \A place \in ToSet(input.places) : place.spider \in ToSet(SpiderOrder)
        /\ input.ends \in Seq(Nat) /\ input.ends # <<>>
        /\ \A b, c \in DOMAIN input.ends : b <= c => input.ends[b] <= input.ends[c]
        /\ Last(input.ends) = Len(input.places)

ASSUME SpidersAssumption == SpiderOrder \in Seq(STRING) /\ "" \notin ToSet(SpiderOrder)

VARIABLES
    world,       \* the instance, with what the matchers find in it (WorldOf)
    phase,       \* of the producer
    batch,       \* the batch at hand
    todo,        \* its places no worker has begun with; later, the features
    worker,      \* worker[t]: the row that t is about to send, or Idle
    exclusive,   \* the candidates of places whose matches are one to one
    matched,     \* the features that a place has been matched with
    coverage,    \* what AllThePlaces covers
    second,      \* the places of the second pass that have no row yet; a set
    channel,     \* rows on their way
    received,    \* the rows that the writer has
    writer,      \* "receiving", "published" or "failed"
    file,        \* what has been published
    result,      \* of the conflation
    faults       \* how often something has gone wrong

producerVars == <<phase, batch, todo, exclusive, matched, coverage, second>>
writerVars == <<received, writer, file>>
vars == <<world, producerVars, worker, channel, writerVars, result, faults>>

Idle == [kind |-> "idle"]
NoFile == [rows |-> <<>>, whole |-> FALSE]

-----------------------------------------------------------------------------
(***************************************************************************)
(* The inputs, and what the matchers find in them.                         *)
(***************************************************************************)
Places == world.places
Osm == world.osm
Ordinals(b) == (IF b = 1 THEN 1 ELSE world.ends[b - 1] + 1) .. world.ends[b]
InFileOrder(S) == Ordered(S, LAMBDA i, j : i < j)

Matcher(i) == world.matcher[i]
Exclusive == {i \in DOMAIN Places : is_exclusive(Matcher(i))}
Found(i) == world.found[i]
Points(i, r) == world.points[i][r]

candidates(i) == world.candidates[i]

-----------------------------------------------------------------------------
(***************************************************************************)
(* Rows, and their order in the file.                                      *)
(***************************************************************************)
SpiderRank(s) == IF s = "" THEN 0 ELSE CHOOSE i \in DOMAIN SpiderOrder : SpiderOrder[i] = s

\* The row of a place and its match, 0 if it has none.
Row(i, r) ==
    LET place == Places[i]
    IN  [kind |-> "row", cell |-> place.at,
         osm |-> IF r \in DOMAIN Osm THEN Osm[r].id ELSE 0,
         spider |-> place.spider, tags |-> place.rank, shape |-> place.shape,
         score |-> world.scores[i][r]]

OsmRow(r) ==
    [kind |-> "row", cell |-> Osm[r].at, osm |-> Osm[r].id, spider |-> "",
     tags |-> 0, shape |-> 0, score |-> world.osm_scores[r]]

\* A mutant: the shape is left out.
SortKey_short(row) == <<row.cell, row.osm, SpiderRank(row.spider), row.tags>>

SortKey(row) == <<row.cell, row.osm, SpiderRank(row.spider), row.tags, row.shape>>

RowBefore(a, b) ==
    \E k \in DOMAIN SortKey(a) :
        /\ SortKey(a)[k] < SortKey(b)[k]
        /\ \A j \in 1 .. k - 1 : SortKey(a)[j] = SortKey(b)[j]

\* The rows in order, each with its quantile among the scores of all.
write_conflated(rows) ==
    LET sorted == SortBy(rows, RowBefore)
        scores == [i \in DOMAIN rows |-> rows[i].score]
    IN  [i \in DOMAIN sorted |-> [row |-> sorted[i], importance |-> MidRank(scores, sorted[i].score)]]

-----------------------------------------------------------------------------
(***************************************************************************)
(* One-to-one matches: greedily, the best pairs first.                     *)
(***************************************************************************)
\* A mutant: first come, first served.
PairBefore_order(a, b) ==
    \/ a.ordinal < b.ordinal
    \/ (a.ordinal = b.ordinal /\ a.points > b.points)
    \/ (a.ordinal = b.ordinal /\ a.points = b.points /\ a.r < b.r)

PairBefore(a, b) ==
    \/ a.points > b.points
    \/ (a.points = b.points /\ a.ordinal < b.ordinal)
    \/ (a.points = b.points /\ a.ordinal = b.ordinal /\ a.r < b.r)

AssignPair(s, pair) ==
    LET key == <<pair.spider, pair.r>> IN
    IF s.to[pair.ordinal] # 0 THEN s
    ELSE [to |-> IF key \notin s.taken \/ pair.share
                 THEN [s.to EXCEPT ![pair.ordinal] = pair.r] ELSE s.to,
          taken |-> s.taken \cup {key}]

\* Of a place and a candidate of it; no two of them are the same.
PairsIn(list) ==
    {[points |-> c[1], ordinal |-> list.ordinal, spider |-> list.spider, r |-> c[2],
      share |-> c[3]] : c \in ToSet(list.candidates)}

Pairs(lists) == UNION {PairsIn(list) : list \in ToSet(lists)}

assign_exclusive(lists) ==
    FoldLeft(AssignPair, [to |-> [i \in {lists[k].ordinal : k \in DOMAIN lists} |-> 0],
                          taken |-> {}],
             Ordered(Pairs(lists), PairBefore)).to

ExclusiveCandidates(i) ==
    LET best == candidates(i)
        place == Places[i]
    IN  [ordinal |-> i, spider |-> place.spider,
         candidates |-> [c \in DOMAIN best |->
            <<best[c][1], best[c][2], best[c][2] \in world.share[i]>>]]

-----------------------------------------------------------------------------
Init ==
    /\ \E input \in Worlds : world = WorldOf(input)
    /\ phase = "match"
    /\ batch = 1
    /\ todo = Ordinals(1)
    /\ worker = [t \in Workers |-> Idle]
    /\ exclusive = <<>>
    /\ matched = {}
    /\ coverage = EmptyCoverage
    /\ second = {}
    /\ channel = <<>>
    /\ received = <<>>
    /\ writer = "receiving"
    /\ file = NoFile
    /\ result = "running"
    /\ faults = 0

Fault(kind) ==
    /\ kind \in FaultKinds
    /\ faults < MaxFaults
    /\ faults' = faults + 1

AllIdle == \A t \in Workers : worker[t] = Idle

\* The other places of a batch are not begun once one has failed.
Abort ==
    /\ phase' = "failed"
    /\ UNCHANGED <<batch, todo, exclusive, matched, coverage, second>>

-----------------------------------------------------------------------------
(***************************************************************************)
(* The first pass: a worker matches a place, then sends its row, unless    *)
(* its match is one to one.                                                *)
(***************************************************************************)
MatchNothing(t, i) ==
    /\ Matcher(i) = "none"
    /\ UNCHANGED <<worker, exclusive, matched>>

MatchExclusive(t, i) ==
    /\ is_exclusive(Matcher(i))
    /\ exclusive' = Append(exclusive, ExclusiveCandidates(i))
    /\ UNCHANGED <<worker, matched>>

MatchOpen(t, i) ==
    LET best == candidates(i)
        r == IF best = <<>> THEN 0 ELSE best[1][2]
    IN  /\ Matcher(i) = "poi"
        /\ matched' = matched \cup ({r} \ {0})
        /\ worker' = [worker EXCEPT ![t] = Row(i, r)]
        /\ UNCHANGED exclusive

Match(t) ==
    /\ phase = "match"
    /\ worker[t] = Idle
    /\ \E i \in todo :
         /\ todo' = todo \ {i}
         /\ MatchNothing(t, i) \/ MatchExclusive(t, i) \/ MatchOpen(t, i)
    /\ UNCHANGED <<world, phase, batch, coverage, second, channel, writerVars, result, faults>>

\* A feature cannot be decoded.
MatchFault(t) ==
    /\ phase \in {"match", "delete"}
    /\ worker[t] = Idle
    /\ todo # {}
    /\ Fault("match")
    /\ Abort
    /\ UNCHANGED <<world, worker, channel, writerVars, result>>

Send(t) ==
    /\ worker[t] # Idle
    /\ writer = "receiving"
    /\ Len(channel) < Capacity
    /\ channel' = Append(channel, worker[t])
    /\ worker' = [worker EXCEPT ![t] = Idle]
    /\ UNCHANGED <<world, producerVars, writerVars, result, faults>>

\* A mutant: sending waits for a writer that has failed.
SendFails_never(t) == FALSE /\ UNCHANGED vars

\* The writer has failed, and with it the channel.
SendFails(t) ==
    /\ worker[t] # Idle
    /\ writer = "failed"
    /\ worker' = [worker EXCEPT ![t] = Idle]
    /\ Abort
    /\ UNCHANGED <<world, channel, writerVars, result, faults>>

\* A batch counts for the coverage when it is matched.
CoverageOf(c, b) ==
    FoldSet(LAMBDA i, acc : AddPlace(acc, Places[i], place_country(Places[i])),
            c, Ordinals(b) \cap world.counts)

NextBatch ==
    /\ phase = "match"
    /\ todo = {}
    /\ AllIdle
    /\ coverage' = CoverageOf(coverage, batch)
    /\ IF batch < Len(world.ends)
       THEN /\ batch' = batch + 1
            /\ todo' = Ordinals(batch + 1)
            /\ UNCHANGED <<phase, second>>
       ELSE /\ phase' = "second"
            /\ second' = {exclusive[k].ordinal : k \in DOMAIN exclusive}
            /\ UNCHANGED <<batch, todo>>
    /\ UNCHANGED <<world, exclusive, matched, worker, channel, writerVars, result, faults>>

\* The next batch, in either pass, cannot be read.
ReadFault ==
    /\ phase = "second" \/ (phase = "match" /\ todo = Ordinals(batch))
    /\ AllIdle
    /\ Fault("read")
    /\ Abort
    /\ UNCHANGED <<world, worker, channel, writerVars, result>>

-----------------------------------------------------------------------------
(***************************************************************************)
(* The second pass, on one thread; and the features that are gone.         *)
(***************************************************************************)
SecondPass ==
    \E i \in second :
        LET r == assign_exclusive(exclusive)[i] IN
        /\ phase = "second"
        /\ \A j \in second : i <= j
        /\ writer = "receiving"
        /\ Len(channel) < Capacity
        /\ matched' = matched \cup ({r} \ {0})
        /\ channel' = Append(channel, Row(i, r))
        /\ second' = second \ {i}
        /\ UNCHANGED <<world, phase, batch, todo, worker, exclusive, coverage, writerVars,
                       result, faults>>

SecondPassFails ==
    /\ phase = "second"
    /\ second # {}
    /\ writer = "failed"
    /\ Abort
    /\ UNCHANGED <<world, worker, channel, writerVars, result, faults>>

BeginDeletion ==
    /\ phase = "second"
    /\ second = {}
    /\ phase' = "delete"
    /\ todo' = {r \in DOMAIN Osm : r \notin matched}
    /\ UNCHANGED <<world, batch, exclusive, matched, coverage, second, worker, channel,
                   writerVars, result, faults>>

send_deletion_candidates(t) ==
    /\ phase = "delete"
    /\ worker[t] = Idle
    /\ \E r \in todo :
         /\ todo' = todo \ {r}
         /\ worker' = IF deletion_reason(Osm[r], coverage) = "none" THEN worker
                      ELSE [worker EXCEPT ![t] = OsmRow(r)]
    /\ UNCHANGED <<world, phase, batch, exclusive, matched, coverage, second, channel,
                   writerVars, result, faults>>

EndProduce ==
    /\ phase = "delete"
    /\ todo = {}
    /\ AllIdle
    /\ phase' = "done"
    /\ UNCHANGED <<world, batch, todo, exclusive, matched, coverage, second, worker, channel,
                   writerVars, result, faults>>

-----------------------------------------------------------------------------
(***************************************************************************)
(* The writer: it cannot tell a producer that has failed from one that is  *)
(* done.                                                                   *)
(***************************************************************************)
Receive ==
    /\ writer = "receiving"
    /\ channel # <<>>
    /\ received' = Append(received, Head(channel))
    /\ channel' = Tail(channel)
    /\ UNCHANGED <<world, producerVars, worker, writer, file, result, faults>>

Disconnected == phase \in {"done", "failed"} /\ AllIdle /\ channel = <<>>

Publish ==
    /\ writer = "receiving"
    /\ Disconnected
    /\ file' = [rows |-> write_conflated(received), whole |-> phase = "done"]
    /\ writer' = "published"
    /\ UNCHANGED <<world, producerVars, worker, channel, received, result, faults>>

WriterFault ==
    /\ writer = "receiving"
    /\ Fault("write")
    /\ writer' = "failed"
    /\ channel' = <<>>
    /\ UNCHANGED <<world, producerVars, worker, received, file, result>>

\* A mutant: only the writer is asked.
conflate_result_writer == IF writer = "failed" THEN "error" ELSE "ok"

\* Both threads are joined.
conflate_result == IF writer = "failed" \/ phase = "failed" THEN "error" ELSE "ok"
Return ==
    /\ result = "running"
    /\ phase \in {"done", "failed"}
    /\ AllIdle
    /\ writer \in {"published", "failed"}
    /\ result' = conflate_result
    /\ UNCHANGED <<world, producerVars, worker, channel, writerVars, faults>>

-----------------------------------------------------------------------------
Step ==
    \/ Receive \/ Return \/ BeginDeletion \/ EndProduce
    \/ \E t \in Workers :
         Send(t) \/ SendFails(t) \/ Match(t) \/ send_deletion_candidates(t)
    \/ NextBatch \/ SecondPass \/ SecondPassFails
    \/ Publish

Next == Step \/ (\E t \in Workers : MatchFault(t)) \/ ReadFault \/ WriterFault

Spec == Init /\ [][Next]_vars

\* Threads that can go on do.
FairSpec == Spec /\ WF_vars(Step)
-----------------------------------------------------------------------------
(***************************************************************************)
(* Properties.                                                             *)
(***************************************************************************)
\* The rows that a conflation is to send: of each place that has a matcher, with
\* its match, and of the features that no place has and that look gone.
WithMatcher == {i \in DOMAIN Places : Matcher(i) # "none"}
MatchOf(i) ==
    IF i \in Exclusive THEN assign_exclusive(exclusive)[i]
    ELSE IF candidates(i) = <<>> THEN 0 ELSE candidates(i)[1][2]
Gone == {r \in DOMAIN Osm : /\ \A i \in WithMatcher : MatchOf(i) # r
                            /\ deletion_reason(Osm[r], coverage) # "none"}

\* An ok result means a whole file: it has each of these rows, once, whichever
\* workers found and sent them, although a writer whose producer has failed
\* publishes what it has got (conflate/mod.rs, conflate; writer.rs).
OkIsComplete ==
    result = "ok" =>
        /\ file.whole
        /\ {file.rows[k].row : k \in DOMAIN file.rows} =
               {Row(i, MatchOf(i)) : i \in WithMatcher} \cup {OsmRow(r) : r \in Gone}
        /\ Len(file.rows) = Cardinality(WithMatcher) + Cardinality(Gone)

\* What one worker writes that takes all places and features in their order.
CoverageOfAll ==
    FoldLeft(LAMBDA c, b : CoverageOf(c, b), EmptyCoverage, [b \in DOMAIN world.ends |-> b])

InOrder ==
    LET lists == [k \in 1 .. Cardinality(Exclusive) |->
                    ExclusiveCandidates(InFileOrder(Exclusive)[k])]
        to == assign_exclusive(lists)
        Match_of(i) == IF i \in Exclusive THEN to[i] ELSE MatchOf(i)
        gone == {r \in DOMAIN Osm : /\ \A i \in WithMatcher : Match_of(i) # r
                                    /\ deletion_reason(Osm[r], CoverageOfAll) # "none"}
        places == InFileOrder(WithMatcher)
        features == InFileOrder(gone)
    IN  [k \in DOMAIN places |-> Row(places[k], Match_of(places[k]))]
        \o [k \in DOMAIN features |-> OsmRow(features[k])]

\* And such a file has the same rows in the same order, with the same
\* importance, whatever the workers do: "so that runs are reproducible"
\* (conflate/mod.rs, assign_exclusive; the Ord of ParquetRow in writer.rs).
Reproducible == file.whole => file.rows = write_conflated(InOrder)

\* The pairs of a place, best first, and what it has been assigned.
ListOf(i) == CHOOSE k \in DOMAIN exclusive : exclusive[k].ordinal = i
PairsOf(i) == PairsIn(exclusive[ListOf(i)])

\* A match is stable: where a place would rather have another feature than
\* its own, or has none, it may not share that feature, and one of the same
\* spider with a better claim, or an earlier one in the file, has it.  So no
\* feature goes to two places of a spider unless the later may share it.  And
\* of two places of a spider that have the same feature, the one with the
\* lesser claim may share it: a feature that others share is still taken for
\* those that may not (assign_exclusive, may_share).
StableAssignment ==
    phase = "second" /\ second = Exclusive =>
        LET to == assign_exclusive(exclusive)
            Claim(i, r) == CHOOSE p \in PairsOf(i) : p.r = r
            Precedes(p, q) == \/ p.points > q.points
                              \/ p.points = q.points /\ p.ordinal < q.ordinal
            Prefers(i, p) == to[i] = 0 \/ p.points > Claim(i, to[i]).points
            SameSpider(i, j) == Places[i].spider = Places[j].spider
        IN  /\ \A i \in DOMAIN to : \A p \in PairsOf(i) :
                Prefers(i, p) =>
                    /\ ~p.share
                    /\ \E j \in DOMAIN to \ {i} :
                         to[j] = p.r /\ SameSpider(i, j) /\ Precedes(Claim(j, p.r), p)
            /\ \A i \in DOMAIN to : \A j \in DOMAIN to \ {i} :
                /\ to[i] # 0 /\ to[i] = to[j] /\ SameSpider(i, j)
                /\ Claim(i, to[i]).points < Claim(j, to[j]).points
                => Claim(i, to[i]).share

\* Conflation returns, whichever thread fails: nobody waits for a row that
\* nobody sends, nor for room in a channel that nobody reads.
Terminates == <>(result # "running")

-----------------------------------------------------------------------------
(***************************************************************************)
(* What the matches of a world mean.                                       *)
(***************************************************************************)
AtStart == phase = "match" /\ batch = 1

\* The candidates that are kept are the best; of equals, those that the
\* index returns first; and none twice (keep_best).
KeepsTheBest ==
    AtStart => \A i \in {j \in DOMAIN Places : Matcher(j) # "none"} :
        LET found == Found(i)
            First(r) == Min({k \in DOMAIN found : found[k] = r})
            good == {r \in ToSet(found) : Points(i, r) > 0}
            Better(a, b) == \/ Points(i, a) > Points(i, b)
                            \/ Points(i, a) = Points(i, b) /\ First(a) < First(b)
            rank == [r \in good |-> Cardinality({a \in good : Better(a, r)}) + 1]
            best == candidates(i)
        IN  /\ Len(best) = Min({IF i \in Exclusive THEN EXCLUSIVE_CANDIDATES ELSE 1, Cardinality(good)})
            /\ \A k \in DOMAIN best : rank[best[k][2]] = k

\* "A candidate with the same IFOPT ID ... wins over any candidate that
\* merely belongs to the same stop, however close that one is"
\* (transit_matcher.rs, SAME_ID_MIN_SCORE); and "a candidate with the same ref
\* ... wins over any candidate that is merely close", whatever other tags
\* confirm that one (infrastructure_matcher.rs, SAME_REF_MIN_SCORE,
\* CONFIRM_BONUS).
SameIdentity(place, r) ==
    CASE Matcher(place) = "transit" ->
           compare_ids(Ids(Places[place].tags), Ids(Osm[r].tags)) = "same"
      [] Matcher(place) = "infrastructure" ->
           SameReference(Places[place], Osm[r])

StrongEvidenceWins ==
    AtStart => \A i \in Exclusive :
        LET same == {r \in ToSet(Found(i)) :
                        Points(i, r) > 0 /\ SameIdentity(i, r)}
        IN  same # {} => candidates(i)[1][2] \in same

\* A place and a feature without an id in common are not matched if their
\* ids name different stops, or different parts of one stop, whatever other
\* ids of theirs agree (transit_matcher.rs, compare_ids); nor a shop of one
\* brand with one of another, whatever contacts they share (poi_matcher.rs,
\* factor).
IdsContradict(ours, theirs) ==
    /\ ours.ifopt \cap theirs.ifopt = {}
    /\ \/ \E a \in ours.ifopt, o \in theirs.ifopt :
            a[1] = o[1] /\ ~IsPrefix(a, o) /\ ~IsPrefix(o, a)
       \/ ours.uic # {} /\ theirs.uic # {} /\ ours.uic \cap theirs.uic = {}

BrandsContradict(ours, theirs) == ours # {} /\ theirs # {} /\ ours \cap theirs = {}

ContradictionsNeverMatch ==
    AtStart => \A i \in DOMAIN Places : \A k \in DOMAIN candidates(i) :
        LET ours == Places[i].tags
            theirs == Osm[candidates(i)[k][2]].tags
        IN  /\ Matcher(i) = "transit" => ~IdsContradict(Ids(ours), Ids(theirs))
            /\ Matcher(i) = "poi" =>
                   ~BrandsContradict(brand_wikidata(ours), brand_wikidata(theirs))

\* A contact that places far apart share is no evidence (nondescript.rs,
\* find_nondescript); and a domain stands for a brand only if no place with
\* that domain has another brand, or none, where places with several ids
\* count for nothing (brand_domains.rs, Builder::add and build).
Spread(s, v) ==
    LET at == {Places[i].at : i \in {j \in DOMAIN Places :
                                              v \in ContactValues(Places[j].tags, s)}}
    IN  Max(at) - Min(at)

SharedEvidenceTellsNothing ==
    AtStart =>
        /\ \A i \in {j \in DOMAIN Places : Matcher(j) = "poi"} :
             \A s \in DOMAIN SIGNALS :
               \A v \in Evidence(Places[i], world.know).contacts[s] :
                 Spread(s, v) < min_spread[s]
        /\ \A d \in DOMAIN world.know.domains : \A i \in DOMAIN Places :
             LET tags == Places[i].tags
             IN  d \in website_domains(tags) /\ ~has_several_ids(tags)
                 => brand_id(tags) = world.know.domains[d]

-----------------------------------------------------------------------------
(***************************************************************************)
(* What the file says.                                                     *)
(***************************************************************************)
GoneFeatures ==
    {r \in DOMAIN Osm : \E i \in DOMAIN file.rows :
        file.rows[i].row.spider = "" /\ file.rows[i].row.osm = Osm[r].id}

Numbers_of(tags) ==
    {code[2] : code \in swiss_uics(Parts(tags, {"uic_ref"}))}
    \cup {code[2] : code \in UNION {swiss_uic(id) : id \in Parts(tags, IFOPT_KEYS)}}

MatchedOf(rows) == {row.osm : row \in {r \in rows : r.spider # ""}}

\* A feature is proposed for deletion for a reason.  It is not the match of
\* any place, not even in the file of a producer that has failed (MatchedSet,
\* send_deletion_candidates).  "A stop whose ID ATP knows still exists,
\* wherever it is" (deletion_reason): both sides have the same IFOPT id, or
\* the same UIC code, be it in uic_ref or in an IFOPT id.  And the stops abroad
\* that the Swiss register lists give no reason for deleting what else their
\* operators have in that country: some other place there has the id or the
\* name of the feature (AtpCoverage::add).
KnownStop(r) ==
    \E i \in DOMAIN Places :
        /\ is_stop(Osm[r].tags)
        /\ Matcher(i) = "transit"
        /\ \/ Numbers_of(Osm[r].tags) \cap Numbers_of(Places[i].tags) # {}
           \/ OsmIfopt(Osm[r]) \cap SwissIds(Places[i]) # {}

NamedThere(r) ==
    \E i \in DOMAIN Places :
        LET place == Places[i] IN
        /\ country(place.at) = country(Osm[r].at)
        /\ SwissIds(place) = {}
        /\ Parts(place.tags, WIKIDATA_KEYS \cup NAME_KEYS)
           \cap Parts(Osm[r].tags, WIKIDATA_KEYS \cup NAME_KEYS) # {}

GoneIsJustified ==
    \A r \in GoneFeatures :
        /\ Osm[r].id \notin MatchedOf({file.rows[i].row : i \in DOMAIN file.rows})
        /\ ~(has_swiss_transit(CoverageOfAll) /\ KnownStop(r))
        /\ in_swiss_home(Osm[r].at) \/ NamedThere(r)

\* The importance of the rows of a file is one half on average, whatever the
\* ties (write_conflated, osm_views quantile).
ImportanceAveragesHalf ==
    FoldLeft(LAMBDA n, row : n + row.importance, 0, file.rows) = Len(file.rows) * Len(file.rows)
=============================================================================
