------------------------------- MODULE Areas -------------------------------
(***************************************************************************)
(* Areas, and how GeometryBuilder makes one geometry of those of the       *)
(* members of a relation.                                                  *)
(*                                                                         *)
(* An area is a set of unit squares, each named by its corner with the     *)
(* smallest coordinates.  A geometry is a record of points, lines and      *)
(* area; a collection has several of these, and no geometry has none.      *)
(***************************************************************************)
EXTENDS Lines

\* By the even-odd rule: how many segments are to the right of a square.
SegmentsRightOf(line, cell) ==
    {s \in 1 .. Len(line) - 1 :
        LET a == line[s]
            b == line[s + 1]
        IN  /\ a[1] = b[1] /\ a[1] > cell[1]
            /\ Min({a[2], b[2]}) <= cell[2] /\ cell[2] < Max({a[2], b[2]})}

Box(coords) ==
    LET xs == {c[1] : c \in coords}
        ys == {c[2] : c \in coords}
    IN  (Min(xs) .. Max(xs)) \X (Min(ys) .. Max(ys))

Enclosed(ring) == {cell \in Box(ToSet(ring)) : Cardinality(SegmentsRightOf(ring, cell)) % 2 = 1}

\* The area of a ring, which is closed if it is not; of one that touches
\* itself, what make_valid makes of it.
build_ring(coords) ==
    IF coords = <<>> THEN NOTHING
    ELSE LET closed == IF coords[1] = Last(coords) THEN coords ELSE Append(coords, coords[1])
         IN  [NOTHING EXCEPT !.cells = Enclosed(unwrap_antimeridian(closed))]

-----------------------------------------------------------------------------
(***************************************************************************)
(* The rings around an area.  A ring is known by the squares inside it,    *)
(* whatever coordinate and direction it begins with.                       *)
(***************************************************************************)
Neighbors(c) == {<<c[1] + 1, c[2]>>, <<c[1] - 1, c[2]>>, <<c[1], c[2] + 1>>, <<c[1], c[2] - 1>>}

Component(cells, cell) ==
    FoldSet(LAMBDA c, found : found \cup (cells \cap UNION {Neighbors(d) : d \in found}),
            {cell}, cells)
Components(cells) == {Component(cells, c) : c \in cells}

\* A component, with its holes filled.
Filled(component) ==
    LET wide == Box(component \cup {<<c[1] + i, c[2] + i>> : c \in component, i \in {-1, 1}})
        corner == CHOOSE c \in wide : \A d \in wide : c[1] <= d[1] /\ c[2] <= d[2]
    IN  wide \ Component(wide \ component, corner)

\* The exteriors and interiors of its polygons.
extract_rings(cells) ==
    UNION {LET full == Filled(c) IN {full} \cup Components(full \ c) : c \in Components(cells)}

\* The mean longitude of a ring is that of its squares here; it only tells
\* which copy of the world is the closest.
MeanOf(cells) ==
    [sum |-> FoldSet(LAMBDA c, n : c[1] + n, 0, cells), n |-> Cardinality(cells)]
MoveRing(cells, reference_x) ==
    LET shift == Shift(MeanOf(cells), reference_x)
    IN  {<<c[1] + shift, c[2]>> : c \in cells}

-----------------------------------------------------------------------------
\* PolygonAssembler: the rings that were added, without duplicates, and the
\* longitude of the first.
NoRings == [rings |-> {}, reference_x |-> [sum |-> 0, n |-> 0]]

AddRing(assembler, ring) ==
    IF assembler.rings = {} THEN [rings |-> {ring}, reference_x |-> MeanOf(ring)]
    ELSE [assembler EXCEPT !.rings = @ \cup {MoveRing(ring, assembler.reference_x)}]

add_ring(assembler, cells) == FoldLeft(AddRing, assembler, SetToSeq(extract_rings(cells)))

\* What is in an odd number of rings.
finish_rings(assembler) ==
    {cell \in UNION assembler.rings :
        Cardinality({r \in assembler.rings : cell \in r}) % 2 = 1}

\* PolygonUnion: what is in any of the polygons.
NoPolygons == [cells |-> {}, reference_x |-> [sum |-> 0, n |-> 0]]

AddPolygon(union, cells) ==
    IF union.cells = {} THEN [cells |-> cells, reference_x |-> MeanOf(cells)]
    ELSE [union EXCEPT !.cells = @ \cup MoveRing(cells, union.reference_x)]

add_polygons(union, cells) == FoldLeft(AddPolygon, union, SetToSeq(Components(cells)))

-----------------------------------------------------------------------------
(***************************************************************************)
(* GeometryBuilder.                                                        *)
(***************************************************************************)
LinesOf(geometries) == FlattenSeq([i \in DOMAIN geometries |-> geometries[i].lines])
AreasOf(geometries) ==
    SelectSeq([i \in DOMAIN geometries |-> geometries[i].cells], LAMBDA cells : cells # {})
PointsOf(geometries) == UNION {geometries[i].points : i \in DOMAIN geometries}

\* The squares that a segment or a coordinate is next to.
AroundSegment(a, b) ==
    LET low == <<Min({a[1], b[1]}), Min({a[2], b[2]})>>
    IN  IF a[1] = b[1] THEN {low, <<low[1] - 1, low[2]>>} ELSE {low, <<low[1], low[2] - 1>>}
Around(c) == {<<c[1] - i, c[2] - j>> : i, j \in {0, 1}}

\* The pieces of a line outside of an area; one along its border is inside.
clip(line, cells) ==
    LET Outside(s) == AroundSegment(line[s], line[s + 1]) \cap cells = {}
        ends == SelectSeq([i \in DOMAIN line |-> i],
                          LAMBDA i : i \in {1, Len(line)} \/ Outside(i - 1) # Outside(i))
        pieces == [k \in 1 .. Len(ends) - 1 |-> SubSeq(line, ends[k], ends[k + 1])]
    IN  IF Len(line) < 2 THEN <<>>
        ELSE SelectSeq(pieces, LAMBDA p : AroundSegment(p[1], p[2]) \cap cells = {})

\* What is left, when everything inside the area is gone.
Combined(points, lines, cells) ==
    LET outside == IF cells = {} THEN lines
                   ELSE FlattenSeq([i \in DOMAIN lines |-> clip(lines[i], cells)])
    IN  [points |-> {p \in points : /\ \A i \in DOMAIN outside : p \notin ToSet(outside[i])
                                    /\ Around(p) \cap cells = {}},
         lines |-> outside,
         cells |-> cells]

\* The rings that are added to those of the areas, in their order.
RingsOf(closed) ==
    SelectSeq([i \in DOMAIN closed |-> build_ring(closed[i]).cells], LAMBDA cells : cells # {})

Enclosing(geometries, rings, lines) ==
    LET added == FoldLeft(add_ring, NoRings, AreasOf(geometries) \o rings)
    IN  Combined(PointsOf(geometries), lines, finish_rings(added))

\* Every stitched line that is closed is one more ring.
Stitched(geometries, stitched) ==
    Enclosing(geometries, RingsOf(SelectSeq(stitched, Closed)),
              SelectSeq(stitched, LAMBDA line : ~Closed(line)))

\* Of a multipolygon or boundary.
Containment(geometries) == Stitched(geometries, finish_lines(LinesOf(geometries)))

\* Of any other relation: lines stay lines.
Union(geometries) ==
    LET united == FoldLeft(add_polygons, NoPolygons, AreasOf(geometries))
    IN  Combined(PointsOf(geometries), finish_lines(LinesOf(geometries)), united.cells)
=============================================================================
