------------------------------- MODULE Lines -------------------------------
(***************************************************************************)
(* Lines: how one is built from the nodes of a way, and how LineStitcher   *)
(* makes longer ones of those of a relation.                               *)
(*                                                                         *)
(* A coordinate is <<x, y>>, a line the sequence of its coordinates.  The  *)
(* world is MERIDIANS wide, x is a longitude.  A segment is one unit long  *)
(* and parallel to an axis, so that lines meet at coordinates of theirs    *)
(* only; there are too few coordinates for lines to be simplified.         *)
(***************************************************************************)
EXTENDS Integers, Sequences, FiniteSets, FiniteSetsExt, SequencesExt

MERIDIANS == 12

-----------------------------------------------------------------------------
\* Longitudes continue where they would jump by more than half the world.
unwrap_antimeridian(coords) ==
    LET Unwrap(done, c) ==
            LET Delta(offset) == c[1] + offset - Last(done.coords)[1]
                offset ==
                    IF Delta(done.offset) > MERIDIANS \div 2 THEN done.offset - MERIDIANS
                    ELSE IF Delta(done.offset) < -(MERIDIANS \div 2)
                         THEN done.offset + MERIDIANS
                    ELSE done.offset
            IN  [coords |-> Append(done.coords, <<c[1] + offset, c[2]>>), offset |-> offset]
    IN  FoldLeft(Unwrap, [coords |-> <<coords[1]>>, offset |-> 0], Tail(coords)).coords

\* A mean, of which only the distance to others matters.
Mean(xs) == [sum |-> FoldLeft(LAMBDA a, b : a + b, 0, xs), n |-> Len(xs)]
centroid_x(line) == Mean([i \in DOMAIN line |-> line[i][1]])

\* n * m times the distance of mean n, moved by a shift, from mean m.
Abs(i) == IF i < 0 THEN -i ELSE i
Off(mean, shift, other) ==
    Abs((mean.sum + shift * mean.n) * other.n - other.sum * mean.n)

\* The shift, by the width of the world, that is closest to the reference.
Shift(mean, reference_x) ==
    LET Closer(best, shift) ==
            IF Off(mean, shift, reference_x) < Off(mean, best, reference_x) THEN shift ELSE best
    IN  FoldLeft(Closer, 0, <<MERIDIANS, -MERIDIANS>>)

Shifted(line, shift) == [i \in DOMAIN line |-> <<line[i][1] + shift, line[i][2]>>]

\* A mutant: lines stay where they are.
align_to_reference_x_none(line, reference_x) == line

align_to_reference_x(line, reference_x) == Shifted(line, Shift(centroid_x(line), reference_x))

-----------------------------------------------------------------------------
Closed(line) == Len(line) >= 2 /\ line[1] = Last(line)

\* At least two different coordinates.
is_valid(line) == Cardinality(ToSet(line)) >= 2

\* The positions in a line at which it touches itself: two segments with a
\* common coordinate, neither neighbors nor on top of each other.
find_crossings(line) ==
    LET n == Len(line) - 1
        Adjacent(s, t) == Abs(s - t) = 1 \/ (Closed(line) /\ {s, t} = {1, n})
        Touch(s, t) ==
            /\ s # t /\ ~Adjacent(s, t)
            /\ {line[s], line[s + 1]} # {line[t], line[t + 1]}
    IN  {i \in 1 .. n + 1 :
            \E s \in {i - 1, i} \cap 1 .. n, t \in 1 .. n :
                Touch(s, t) /\ line[i] \in {line[t], line[t + 1]}}

\* The pieces between these positions.
cut_at_crossings(line, crossings) ==
    LET ends == SelectSeq([i \in DOMAIN line |-> i],
                          LAMBDA i : i \in {1, Len(line)} \cup crossings)
        pieces == [k \in 1 .. Len(ends) - 1 |-> SubSeq(line, ends[k], ends[k + 1])]
    IN  SelectSeq(pieces, LAMBDA p : ~(Len(p) = 2 /\ p[1] = p[2]))

\* The lines of a way; of a way with a single coordinate, a point.
NOTHING == [points |-> {}, lines |-> <<>>, cells |-> {}]

build_line(coords) ==
    IF Len(coords) = 0 THEN NOTHING
    ELSE IF Len(coords) = 1 THEN [NOTHING EXCEPT !.points = {coords[1]}]
    ELSE LET line == unwrap_antimeridian(coords)
         IN  IF ~is_valid(line) THEN NOTHING
             ELSE [NOTHING EXCEPT !.lines = cut_at_crossings(line, find_crossings(line))]

-----------------------------------------------------------------------------
(***************************************************************************)
(* LineStitcher.                                                           *)
(***************************************************************************)
\* The lines that are added, next to the first one.
Aligned(lines) ==
    [i \in DOMAIN lines |-> IF i = 1 THEN lines[1]
                            ELSE align_to_reference_x(lines[i], centroid_x(lines[1]))]

Ends(line) == <<line[1], Last(line)>>

\* How many ends of lines are at a coordinate.
Degree(lines, c) ==
    LET ends == FlattenSeq([i \in DOMAIN lines |-> Ends(lines[i])])
    IN  Cardinality({k \in DOMAIN ends : ends[k] = c})

merge_chains(existing, chain, c) ==
    LET before == IF existing[1] = c THEN Reverse(existing) ELSE existing
        after == IF chain[1] = c THEN chain ELSE Reverse(chain)
    IN  before \o Tail(after)

\* Chains are merged where exactly two ends meet.
Joints(lines) ==
    {c \in {lines[i][1] : i \in DOMAIN lines} \cup {Last(lines[i]) : i \in DOMAIN lines} :
        Degree(lines, c) = 2}

\* A chain grows by those that end where it does, first at its front, until
\* it is a loop or nothing is there.
Grow(joints, state) ==
    LET At(c) == {k \in DOMAIN state.chains :
                     ~Closed(state.chains[k]) /\ c \in ToSet(Ends(state.chains[k]))}
        Here(c) == c \in joints /\ At(c) # {}
        MergedAt(c) ==
            [chains |-> RemoveAt(state.chains, Min(At(c))),
             chain |-> merge_chains(state.chains[Min(At(c))], state.chain, c)]
    IN  IF Closed(state.chain) THEN state
        ELSE IF Here(state.chain[1]) THEN MergedAt(state.chain[1])
        ELSE IF Here(Last(state.chain)) THEN MergedAt(Last(state.chain))
        ELSE state

add_chain(joints, chains, line) ==
    LET grown == FoldLeft(LAMBDA state, k : Grow(joints, state),
                          [chains |-> chains, chain |-> line], chains)
    IN  Append(grown.chains, grown.chain)

stitch_round(lines) ==
    LET joints == Joints(lines)
    IN  FoldLeft(LAMBDA chains, line : add_chain(joints, chains, line), <<>>, lines)

\* Lines that touch themselves are cut there.  Of pieces that are the same,
\* in either direction, the first one stays.
cut_round(chains) ==
    LET valid == SelectSeq(chains, is_valid)
        pieces == FlattenSeq([i \in DOMAIN valid |->
                      cut_at_crossings(valid[i], find_crossings(valid[i]))])
        Before(i) == {j \in 1 .. i - 1 : pieces[j] \in {pieces[i], Reverse(pieces[i])}}
        first == SelectSeq([i \in DOMAIN pieces |-> i], LAMBDA i : Before(i) = {})
    IN  [i \in DOMAIN first |-> pieces[first[i]]]

MAX_STITCH_CUT_ROUNDS == 8

\* Cut and stitched again, until a round of cutting changes their number.
finish_lines(lines) ==
    LET Stitched(before, pieces) ==
            IF Len(pieces) = Len(before) THEN [lines |-> pieces, done |-> TRUE]
            ELSE [lines |-> stitch_round(pieces), done |-> FALSE]
        Round(state, k) ==
            IF state.done THEN state ELSE Stitched(state.lines, cut_round(state.lines))
        rounds == [k \in 1 .. MAX_STITCH_CUT_ROUNDS |-> k]
    IN  FoldLeft(Round, [lines |-> stitch_round(Aligned(lines)), done |-> FALSE], rounds).lines
=============================================================================
