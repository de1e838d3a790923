----------------------------- MODULE MCOsmBuild -----------------------------
(***************************************************************************)
(* Small planets, each for some of what OsmBuild can meet.                 *)
(***************************************************************************)
EXTENDS OsmBuild

Turn(c, turn) ==
    LET half == MERIDIANS \div 2 IN <<((c[1] + turn + half) % MERIDIANS) - half, c[2]>>

node(id, tags, at) == [type |-> NODE, id |-> id, tags |-> tags, at |-> at]
way(id, tags, refs) == [type |-> WAY, id |-> id, tags |-> tags, refs |-> refs]
relation(id, tags, members) ==
    [type |-> RELATION, id |-> id, tags |-> tags, members |-> members]
member(type, id) == [role |-> <<"outer">>, type |-> type, id |-> id]

shop == <<"shop", <<"books">>>>
park == <<"leisure", <<"park">>>>
stop == <<"public_transport", <<"station">>>>
multipolygon == <<"type", <<"multipolygon">>>>
building == <<"building", <<"yes">>>>

\* Two buckets of two values for some nine strings, so that many have the
\* same hash.
Texts == << <<"shop">>, <<"multipolygon">>, <<"park">>, <<"outer">>, <<"books">>,
            <<"public_transport">>, <<"type">>, <<"leisure">>, <<"station">>,
            <<"building">>, <<"yes">> >>
MCHash(text) == (3 * (CHOOSE i \in DOMAIN Texts : Texts[i] = text)) % 4

NodesAt(places, turn) ==
    [i \in DOMAIN places |-> node(i, <<>>, Turn(places[i], turn))]

-----------------------------------------------------------------------------
(* A square of 3 by 3, with a square hole; nodes 1 to 12 are around the    *)
(* outside, 13 to 16 around the hole.                                      *)
Square == << <<0,0>>, <<1,0>>, <<2,0>>, <<3,0>>, <<3,1>>, <<3,2>>,
             <<3,3>>, <<2,3>>, <<1,3>>, <<0,3>>, <<0,2>>, <<0,1>>,
             <<1,1>>, <<2,1>>, <<2,2>>, <<1,2>> >>
Hole == <<13, 14, 15, 16, 13>>
Outer == <<1, 2, 3, 4, 5, 6, 7, 8, 9, 10, 11, 12, 1>>
Direct(refs, back) == IF back THEN Reverse(refs) ELSE refs

\* The outside in three ways and the hole in one, in any order.
Ways(turned) ==
    <<way(101, <<>>, Direct(SubSeq(Outer, 1, 4), turned[1])),
      way(102, <<>>, Direct(SubSeq(Outer, 4, 9), turned[2])),
      way(103, <<>>, Direct(SubSeq(Outer, 9, 13), turned[3])),
      way(104, <<park>>, Hole)>>
Orders == {<<101, 102, 103, 104>>, <<103, 104, 101, 102>>, <<104, 102, 101, 103>>}

SquarePlanet(turned, order, turn) ==
    [turn |-> turn,
     blobs |-> <<NodesAt(Square, turn), Ways(turned),
                 <<relation(201, <<multipolygon, shop>>,
                            [i \in DOMAIN order |-> member(WAY, order[i])])>> >>]
SquarePlanets ==
    {SquarePlanet(turned, order, turn) :
        turned \in [1 .. 3 -> BOOLEAN], order \in Orders, turn \in {0, 5}}

\* Lists of ways that make an area, of nodes of the square.
RingLists ==
    {<<Outer>>,
     <<Outer, Hole>>,
     <<Outer, Outer, Hole>>,                                     \* a duplicate
     <<Outer, Direct(Hole, TRUE), Hole>>,
     <<SubSeq(Outer, 1, 7), SubSeq(Outer, 7, 13)>>,
     <<SubSeq(Outer, 1, 7), SubSeq(Outer, 7, 13), <<2, 13>> >>,  \* a dead end
     <<SubSeq(Outer, 1, 7) \o <<6>>, <<6, 7>> \o SubSeq(Outer, 8, 13)>>,  \* a spike
     <<SubSeq(Outer, 1, 7), SubSeq(Outer, 6, 13)>>,              \* a segment twice
     <<SubSeq(Outer, 1, 7)>>}                                    \* not closed

\* In one relation, or each way in a relation of its own, within another.
ListPlanet(list, kind, nested, turn) ==
    LET ws == [i \in DOMAIN list |-> way(100 + i, <<>>, list[i])]
        flat == <<relation(201, <<kind, shop>>, [i \in DOMAIN list |-> member(WAY, 100 + i)])>>
        inner == [i \in DOMAIN list |-> relation(210 + i, <<kind>>, <<member(WAY, 100 + i)>>)]
        outer == <<relation(200, <<kind, shop>>,
                            [i \in DOMAIN list |-> member(RELATION, 210 + i)])>>
    IN  [turn |-> turn,
         blobs |-> <<NodesAt(Square, turn), ws, IF nested THEN outer \o inner ELSE flat>>]
ListPlanets ==
    {ListPlanet(list, kind, nested, turn) :
        list \in RingLists, kind \in {multipolygon, building}, nested \in BOOLEAN, turn \in {0, 5}}

-----------------------------------------------------------------------------
(* Relations in relations, over a way and a node.                          *)
Row == << <<0,0>>, <<1,0>>, <<2,0>>, <<3,0>> >>

\* What is in each of three relations, and which of them are interesting.
GraphPlanet(in, tagged) ==
    LET rel(id) == relation(id, IF id \in tagged THEN <<stop>> ELSE <<>>,
                            SetToSeq({member(RELATION, m) : m \in in[id]})
                            \o (IF id = 301 THEN <<member(WAY, 101)>> ELSE <<>>)
                            \o (IF id = 302 THEN <<member(NODE, 4)>> ELSE <<>>))
    IN  [turn |-> 0,
         blobs |-> <<NodesAt(Row, 0), <<way(101, <<>>, <<1, 2, 3>>)>>,
                     <<rel(301), rel(302), rel(303)>> >>]
GraphPlanets ==
    {GraphPlanet(in, tagged) :
        in \in [301 .. 303 -> SUBSET (301 .. 303)], tagged \in {{301}, {303}, {302, 303}}}

\* A member that is there twice, below relations with smaller ids.
TwicePlanet ==
    [turn |-> 0,
     blobs |-> <<NodesAt(Row, 0), <<way(101, <<>>, <<1, 2, 3>>)>>,
                 <<relation(301, <<stop>>, <<member(RELATION, 302)>>),
                   relation(302, <<>>, <<member(RELATION, 303), member(RELATION, 303)>>),
                   relation(303, <<>>, <<member(WAY, 101)>>)>> >>]

-----------------------------------------------------------------------------
(* The same few primitives, cut into blobs in every way, without some of   *)
(* the nodes that they refer to.                                           *)
Few ==
    <<node(1, <<>>, <<0,0>>), node(2, <<shop>>, <<1,0>>), node(3, <<>>, <<2,0>>),
      way(101, <<park, shop>>, <<1, 2, 3, 9>>), way(102, <<>>, <<2, 3>>), way(103, <<shop>>, <<9>>),
      relation(201, <<stop>>, <<member(WAY, 102), member(NODE, 1), member(NODE, 9)>>),
      relation(202, <<shop>>, <<member(RELATION, 201), member(WAY, 103)>>)>>

CutAfter(cuts) ==
    LET marks == <<0>> \o SelectSeq([i \in DOMAIN Few |-> i],
                                    LAMBDA i : i \in cuts \cup {Len(Few)})
    IN  [k \in 1 .. Len(marks) - 1 |-> SubSeq(Few, marks[k] + 1, marks[k + 1])]
FewPlanets == {[turn |-> 0, blobs |-> CutAfter(cuts)] : cuts \in SUBSET {1, 2, 3, 4, 6, 7}}

MCPlanets == SquarePlanets \cup ListPlanets \cup GraphPlanets \cup {TwicePlanet} \cup FewPlanets
=============================================================================
